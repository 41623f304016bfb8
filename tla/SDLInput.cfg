CONSTANTS
  Fingers = {f1, f2, f3}
  Pens = {p1, p2}
  Desks = {{"left", "right", "middle"}, {"finger"}}
  Second = 3
  Suppression = 2
  MaxTime = 6
  None = None
SPECIFICATION SDLSpec
INVARIANTS ContactsFollow MouseYieldsToPen PenKeysFollow
