------------------------------ MODULE SDLInput ------------------------------
(***************************************************************************)
(* Pointers of the SDL front end: S.waitForEvent (ffi/SDL3.lua) turns the  *)
(* events of mice, fingers and pens into the contacts of a multitouch      *)
(* device, numbered slots, and the keys of a pen.                          *)
(*                                                                         *)
(* An action is what a device does together with the call of waitForEvent  *)
(* that gets its event: SDL's queue keeps their order, and the call reads  *)
(* its own tables and the clock, nothing else.  Coordinates are left out.  *)
(* X_... before X is a variant of X with a plausible bug.                  *)
(***************************************************************************)
EXTENDS Integers, FiniteSets

CONSTANTS
  Fingers, Pens,  \* fingerIDs, up to 4 (bound), and pen_ids
  Desks,          \* who may be in use: buttons of a mouse, or "finger"
  Second,         \* clock ticks in a second
  Suppression,    \* ticks a pen keeps the mouse away, 350 ms
  MaxTime,        \* bound on the clock
  None

SDL_PEN_SLOT == 4
ContactSlots == 0 .. SDL_PEN_SLOT
Mouse == {0, 1}  \* the slots of mouse buttons

Tools == {"pen", "eraser"}
PenButtons == {1, 2}

PenPointer == [down : BOOLEAN, explicit : BOOLEAN, tool : Tools, placed : BOOLEAN]

ASSUME ClockAssumption ==
  /\ \A d \in Desks : d \subseteq {"left", "right", "middle"} \/ d = {"finger"}
  /\ Second \in Nat \ {0} /\ Suppression \in 1 .. Second /\ MaxTime \in Nat
  /\ IsFiniteSet(Fingers) /\ Cardinality(Fingers) <= 4
  /\ None \notin Fingers \cup Pens \cup ContactSlots \cup PenPointer

VARIABLES
  desk, proximity, \* what is in use; whether pens tell when they come near
  held, touching,  \* mouse buttons held, fingers on the screen
  pen,             \* where each pen is, its buttons, the tool its last event named
  now, last_pen,   \* the clock, and when the last pen event was handled
  pointers,        \* slots of the mouse buttons that are down
  finger_pointers, \* each finger's slot
  pen_pointers,
  suppress_until,  \* suppress_mouse_until_sec and _usec
  pen_button_state, pen_tool_state, \* buttons and tools whose key is down
  contact,         \* the front end: the tracking id in each slot
  tool_type        \* and the tool of the pen's slot

devices == <<desk, proximity, held, touching, pen>>
penVars == <<pen_pointers, pen_button_state, pen_tool_state, tool_type>>
sdlVars == <<devices, now, last_pen, pointers, finger_pointers, suppress_until,
          penVars, contact>>

SDLTypeOK ==
  /\ desk \in Desks /\ proximity \in BOOLEAN
  /\ held \subseteq desk \ {"finger"} /\ touching \subseteq Fingers
  /\ pen \in [Pens -> [at : {"away", "near", "touch"}, tool : Tools,
                       buttons : SUBSET PenButtons]]
  /\ now \in 0 .. MaxTime /\ last_pen \in {-Suppression} \cup (0 .. MaxTime)
  /\ pointers \subseteq Mouse
  /\ finger_pointers \in [Fingers -> ContactSlots \cup {None}]
  /\ pen_pointers \in [Pens -> PenPointer \cup {None}]
  /\ suppress_until \in Nat \X (0 .. Second - 1)
  /\ pen_button_state \subseteq PenButtons /\ pen_tool_state \subseteq Tools
  /\ contact \in [ContactSlots -> ContactSlots \cup Fingers \cup Pens \cup {None}]
  /\ tool_type \in Tools \cup {"finger"}

SDLInit ==
  /\ desk \in Desks /\ proximity \in BOOLEAN
  /\ held = {} /\ touching = {}
  /\ pen = [p \in Pens |-> [at |-> "away", tool |-> "pen", buttons |-> {}]]
  /\ now = 0 /\ last_pen = -Suppression
  /\ pointers = {} /\ finger_pointers = [f \in Fingers |-> None]
  /\ pen_pointers = [p \in Pens |-> None]
  /\ suppress_until = <<0, 0>>
  /\ pen_button_state = {} /\ pen_tool_state = {}
  /\ contact = [s \in ContactSlots |-> None] /\ tool_type = "finger"

-----------------------------------------------------------------------------
(* Mice.                                                                   *)

gettime == <<now \div Second, now % Second>>

\* Seconds and microseconds are compared in turn.
shouldHandleMousePointer ==
  \/ gettime[1] > suppress_until[1]
  \/ gettime[1] = suppress_until[1] /\ gettime[2] >= suppress_until[2]

SlotOf(button) == IF button = "right" THEN 1 ELSE 0

\* Only the left and the right button make contacts.
MouseDown(button) ==
  /\ button \in desk \ held /\ button # "finger"
  /\ held' = held \cup {button}
  /\ IF shouldHandleMousePointer /\ button \in {"left", "right"}
     THEN /\ pointers' = pointers \cup {SlotOf(button)}
          /\ contact' = [contact EXCEPT ![SlotOf(button)] = SlotOf(button)]
     ELSE UNCHANGED <<pointers, contact>>
  /\ UNCHANGED <<desk, proximity, touching, pen, now, last_pen, finger_pointers,
                 suppress_until, penVars>>

\* The release of any button but the right one counts as the left one's.
MouseUp(button) ==
  /\ button \in held /\ held' = held \ {button}
  /\ IF shouldHandleMousePointer /\ SlotOf(button) \in pointers
     THEN /\ pointers' = pointers \ {SlotOf(button)}
          /\ contact' = [contact EXCEPT ![SlotOf(button)] = None]
     ELSE UNCHANGED <<pointers, contact>>
  /\ UNCHANGED <<desk, proximity, touching, pen, now, last_pen, finger_pointers,
                 suppress_until, penVars>>

-----------------------------------------------------------------------------
(* Fingers.                                                                *)

UsedSlots == {finger_pointers[f] : f \in Fingers} \ {None}

X_getFingerSlot_Counts(f) ==
  IF finger_pointers[f] # None THEN finger_pointers[f] ELSE Cardinality(UsedSlots)

\* The finger's slot, the first one free if it is new.
getFingerSlot(f) ==
  IF finger_pointers[f] # None THEN finger_pointers[f]
  ELSE CHOOSE s \in ContactSlots : s \notin UsedSlots /\ \A t \in 0 .. s - 1 : t \in UsedSlots

FingerDown(f) ==
  /\ "finger" \in desk /\ f \notin touching /\ touching' = touching \cup {f}
  /\ finger_pointers' = [finger_pointers EXCEPT ![f] = getFingerSlot(f)]
  /\ contact' = [contact EXCEPT ![getFingerSlot(f)] = f]
  /\ UNCHANGED <<desk, proximity, held, pen, now, last_pen, pointers,
                 suppress_until, penVars>>

FingerUp(f) ==
  /\ f \in touching /\ touching' = touching \ {f}
  /\ contact' = [contact EXCEPT ![getFingerSlot(f)] = None]
  /\ finger_pointers' = [finger_pointers EXCEPT ![f] = None]
  /\ UNCHANGED <<desk, proximity, held, pen, now, last_pen, pointers,
                 suppress_until, penVars>>

-----------------------------------------------------------------------------
(* Pens.                                                                   *)

X_SuppressUntil_NoCarry == <<gettime[1], (gettime[2] + Suppression) % Second>>

SuppressUntil ==
  LET usec == gettime[2] + Suppression
  IN  IF usec >= Second THEN <<gettime[1] + 1, usec - Second>> ELSE <<gettime[1], usec>>

\* The slots once the mouse's contacts are released.
Released == [s \in ContactSlots |-> IF s \in pointers THEN None ELSE contact[s]]

\* What every event of a pen does first.
suppressMousePointersAfterPenEvent ==
  /\ suppress_until' = SuppressUntil /\ last_pen' = now
  /\ pointers' = {}

\* The pointer of pen p, a new one if there is none.
getPenPointer(p) ==
  IF pen_pointers[p] # None THEN pen_pointers[p]
  ELSE [down |-> FALSE, explicit |-> FALSE, tool |-> "pen", placed |-> FALSE]

IsDown(p) == pen_pointers[p] # None /\ pen_pointers[p].down

beginPenProximity(p, pointer) ==
  /\ pen_pointers' = [pen_pointers EXCEPT ![p] = pointer]
  /\ pen_tool_state' = {pointer.tool}

\* The pen is used with a tool, which touches or just hovers.
updatePenContact(p, down, tool) ==
  LET isDown == down \/ IsDown(p)
  IN  /\ beginPenProximity(p, [getPenPointer(p) EXCEPT !.tool = tool, !.down = isDown,
                                                       !.placed = TRUE])
      /\ tool_type' = tool
      /\ contact' = [Released EXCEPT ![SDL_PEN_SLOT] =
                       IF ~isDown THEN None ELSE IF IsDown(p) THEN @ ELSE p]

\* One pen is used at a time.
OthersAway(p) == \A q \in Pens \ {p} : pen[q].at = "away"

\* The pen comes near.
PenIn(p) ==
  /\ proximity /\ pen[p].at = "away" /\ OthersAway(p)
  /\ pen' = [pen EXCEPT ![p].at = "near", ![p].tool = "pen"]
  /\ suppressMousePointersAfterPenEvent
  /\ beginPenProximity(p, [getPenPointer(p) EXCEPT !.tool = "pen", !.explicit = TRUE])
  /\ contact' = Released
  /\ UNCHANGED <<desk, proximity, held, touching, now, finger_pointers,
                 pen_button_state, tool_type>>

\* The pen touches with its tip or its eraser, after coming near if it tells.
PenDown(p, tool) ==
  /\ pen[p].at = IF proximity THEN "near" ELSE "away"
  /\ OthersAway(p)
  /\ pen' = [pen EXCEPT ![p].at = "touch", ![p].tool = tool]
  /\ suppressMousePointersAfterPenEvent
  /\ pen_button_state' = pen[p].buttons
  /\ updatePenContact(p, TRUE, tool)
  /\ UNCHANGED <<desk, proximity, held, touching, now, finger_pointers>>

\* The tool an event names: the eraser is known of only while it touches.
ToolOf(p) == IF pen[p].at = "touch" THEN pen[p].tool ELSE "pen"

\* The pen moves, or presses more or less.
PenMotion(p) ==
  /\ pen[p].at # "away"
  /\ pen' = [pen EXCEPT ![p].tool = ToolOf(p)]
  /\ suppressMousePointersAfterPenEvent
  /\ pen_button_state' = pen[p].buttons
  /\ updatePenContact(p, pen[p].at = "touch", ToolOf(p))
  /\ UNCHANGED <<desk, proximity, held, touching, now, finger_pointers>>

\* One of its buttons is pressed or released.
PenButton(p, b) ==
  LET down == b \notin pen[p].buttons
      Toggle(set) == IF down THEN set \cup {b} ELSE set \ {b}
  IN  /\ pen[p].at # "away"
      /\ pen' = [pen EXCEPT ![p].buttons = Toggle(@), ![p].tool = ToolOf(p)]
      /\ suppressMousePointersAfterPenEvent
      /\ pen_button_state' = Toggle(pen_button_state)
      /\ updatePenContact(p, pen[p].at = "touch", ToolOf(p))
      /\ UNCHANGED <<desk, proximity, held, touching, now, finger_pointers>>

X_EndsProximity_Always(p) == TRUE

\* Nothing else will tell that a pen that never came near is away.
EndsProximity(p) == ~pen_pointers[p].explicit

\* endPenContact and endImplicitPenProximity.
PenUp(p) ==
  /\ pen[p].at = "touch"
  /\ pen' = [pen EXCEPT ![p].at = IF proximity THEN "near" ELSE "away"]
  /\ suppressMousePointersAfterPenEvent
  /\ pen_button_state' = pen[p].buttons
  /\ contact' = [Released EXCEPT ![SDL_PEN_SLOT] = IF IsDown(p) THEN None ELSE @]
  /\ tool_type' = IF IsDown(p) THEN ToolOf(p) ELSE tool_type
  /\ IF pen_pointers[p] # None /\ EndsProximity(p)
     THEN /\ pen_pointers' = [pen_pointers EXCEPT ![p] = None]
          /\ pen_tool_state' = {}
     ELSE /\ pen_pointers' = IF IsDown(p)
                             THEN [pen_pointers EXCEPT ![p].down = FALSE, ![p].tool = ToolOf(p)]
                             ELSE pen_pointers
          /\ UNCHANGED pen_tool_state
  /\ UNCHANGED <<desk, proximity, held, touching, now, finger_pointers>>

\* The pen is gone, maybe while it touched: SDL forgets it, and so does
\* endPenProximity.
PenOut(p) ==
  /\ proximity /\ pen[p].at # "away"
  /\ pen' = [pen EXCEPT ![p].at = "away", ![p].buttons = {}]
  /\ suppressMousePointersAfterPenEvent
  /\ pen_pointers' = [pen_pointers EXCEPT ![p] = None]
  /\ pen_tool_state' = {} /\ pen_button_state' = {}
  /\ LET placed == pen_pointers[p] # None /\ pen_pointers[p].placed
     IN  /\ contact' = [Released EXCEPT ![SDL_PEN_SLOT] = IF IsDown(p) \/ placed THEN None ELSE @]
         /\ tool_type' = IF placed THEN "finger" ELSE tool_type
  /\ UNCHANGED <<desk, proximity, held, touching, now, finger_pointers>>

Tick ==
  /\ now < MaxTime /\ now' = now + 1
  /\ UNCHANGED <<devices, last_pen, pointers, finger_pointers, suppress_until,
                 penVars, contact>>

SDLNext ==
  \/ \E b \in desk : MouseDown(b) \/ MouseUp(b)
  \/ \E f \in Fingers : FingerDown(f) \/ FingerUp(f)
  \/ \E p \in Pens :
       \/ PenIn(p) \/ PenMotion(p) \/ PenUp(p) \/ PenOut(p)
       \/ \E tool \in Tools : PenDown(p, tool)
       \/ \E b \in PenButtons : PenButton(p, b)
  \/ Tick

SDLSpec == SDLInit /\ [][SDLNext]_sdlVars

-----------------------------------------------------------------------------
(* Properties.                                                             *)

\* The front end sees a contact for each finger on the screen, in a slot of
\* its own, and for the pen that touches; a mouse contact only while its button
\* is held; and no other: none stays down when its device has let go.
ContactsFollow ==
  /\ SDLTypeOK
  /\ \A f \in touching : finger_pointers[f] # None /\ contact[finger_pointers[f]] = f
  /\ \A f \in Fingers \ touching : finger_pointers[f] = None
  /\ \A p \in Pens : pen[p].at = "touch" <=> contact[SDL_PEN_SLOT] = p
  /\ \A s \in pointers : \E b \in held : SlotOf(b) = s /\ contact[s] = s
  /\ \A s \in ContactSlots : contact[s] # None =>
       \/ s \in pointers \/ \E f \in touching : finger_pointers[f] = s
       \/ s = SDL_PEN_SLOT /\ \E p \in Pens : pen[p].at = "touch"

\* For 350 ms after a pen's event the mouse makes no contact, and then it does
\* again, however the seconds turn over.
MouseYieldsToPen ==
  /\ shouldHandleMousePointer <=> now >= last_pen + Suppression
  /\ ~shouldHandleMousePointer => pointers = {}

\* While a pen is near, and only then, it has a pointer, the one tool key that
\* is down is that of the tool its last event named, and the button keys that
\* are down are the buttons it holds.  When no pen is near no tool key is down,
\* and no button key either if pens tell that they go.  A pen that only touches
\* may be lifted with buttons held: then those keys stay down, and no others.
PenKeysFollow ==
  /\ \A p \in Pens :
       /\ pen_pointers[p] = None <=> pen[p].at = "away"
       /\ pen[p].at # "away" => /\ pen_tool_state = {pen[p].tool}
                                /\ pen_button_state = pen[p].buttons
       /\ pen[p].at = "touch" => tool_type = pen[p].tool
  /\ (\A p \in Pens : pen[p].at = "away") =>
       /\ pen_tool_state = {}
       /\ proximity => pen_button_state = {}
       /\ pen_button_state \in {{}} \cup {pen[p].buttons : p \in Pens}
=============================================================================
