CONSTANTS
  Files = {k1, k2}
  Faces = {f1, f2, f3}
  Sizes = {s1, s2}
  MaxLibrary = 6
  Nothing = Nothing
SPECIFICATION Spec
INVARIANTS CountsExact NothingFreedInUse
PROPERTIES FontsReleased
CHECK_DEADLOCK FALSE
