----------------------------- MODULE MxcRefresh -----------------------------
(***************************************************************************)
(* The refresh markers of ffi/framebuffer_mxcfb.lua: each update of the    *)
(* e-ink screen is sent to the driver under a marker, and mxc_update       *)
(* decides by device, waveform and the last markers which update to wait   *)
(* for, before and after it sends its own, while the driver processes      *)
(* updates in an order of its own.                                         *)
(*                                                                         *)
(* Waveform modes are names; a device says which ones it uses for what,    *)
(* as init assigns them.  Any ioctl may fail and any wait may time out.    *)
(* X_... before X is a variant of X with a plausible bug.                  *)
(***************************************************************************)
EXTENDS Integers

CONSTANTS
  Devices,     \* what init assigns for the devices considered
  MaxMarker,   \* the largest marker (0xFFFFFFFF)
  MaxUpdates   \* bound: refreshes of a behaviour, fewer than MaxMarker

ASSUME MarkerAssumption ==
  /\ MaxMarker \in Nat /\ MaxUpdates \in Nat
  /\ 1 < MaxMarker /\ MaxUpdates < MaxMarker

VARIABLES
  device,
  marker, dont_wait_for_marker,   \* -1 stands for nil in the latter
  at,       \* mxc_update's next system call
  plan,     \* which of them it makes for the current update
  updates,  \* how many refreshes began
  epdc,     \* what the driver did with the update of each marker
  fulls,    \* the markers of FULL updates
  failed,   \* markers whose update or a wait for it failed
  waited    \* (history) how often completion of each marker was waited for

vars == <<device, marker, dont_wait_for_marker, at, plan, updates, epdc, fulls,
          failed, waited>>

Markers == 1 .. MaxMarker
Plan    == [settled : BOOLEAN, alone : BOOLEAN, full : BOOLEAN, submit : BOOLEAN]
Idle    == [settled |-> FALSE, alone |-> FALSE, full |-> FALSE, submit |-> FALSE]

TypeOK ==
  /\ device \in Devices
  /\ marker \in Markers \cup {0} /\ dont_wait_for_marker \in Markers \cup {0, -1}
  /\ at \in {"idle", "submitBefore", "completeBefore", "send", "completeAfter",
             "submitAfter"}
  /\ plan \in Plan /\ updates \in 0 .. MaxUpdates
  /\ epdc \in [Markers -> {"none", "sent", "submitted", "complete"}]
  /\ fulls \subseteq Markers /\ failed \subseteq Markers \cup {0}
  /\ waited \in [Markers \cup {0} -> Nat]

\* At the start, or when nearly all markers have been used and are long done.
Init ==
  /\ device \in Devices
  /\ marker \in {0, MaxMarker - 1}
  /\ dont_wait_for_marker = -1
  /\ at = "idle" /\ plan = Idle /\ updates = 0
  /\ epdc = [m \in Markers |-> IF m <= marker THEN "complete" ELSE "none"]
  /\ fulls = {} /\ failed = {} /\ waited = [m \in Markers \cup {0} |-> 0]

-----------------------------------------------------------------------------
(* What a refresh needs: its waveform, then the rules of mxc_update. *)

Kinds == {"full", "partial", "flashpartial", "ui", "flashui", "fast", "a2"}

IsFlashing(kind) == kind \in {"full", "flashpartial", "flashui"}

Waveform(kind) == IF kind = "flashpartial" THEN device["partial"] ELSE device[kind]

IsKaleido(wfm) == wfm \in {device.color, device.color_reagl}

\* The waveform after promotion to colour, for dithered content.
InColor(wfm, dither) ==
  CASE dither /\ device.kaleido /\ wfm = device.reagl -> device.color_reagl
    [] dither /\ device.kaleido /\ wfm # device.reagl /\ wfm = device.full -> device.color
    [] OTHER -> wfm

\* The waveform in night mode, which leaves colour alone.
AtNight(wfm, flashing) ==
  CASE IsKaleido(wfm) -> wfm
    [] ~IsKaleido(wfm) /\ wfm = device.partial -> device.night
    [] /\ ~IsKaleido(wfm) /\ wfm # device.partial
       /\ wfm = "GC16" \/ flashing -> device.flashnight
    [] OTHER -> wfm

(* settled: wait for submission of the previous marker; alone: wait for    *)
(* its completion; full: the update mode is FULL, and its own completion   *)
(* is waited for; submit: wait for its submission.                         *)
PlanOf(kind, full_screen, dither, night) ==
  LET wfm      == Waveform(kind)
      flashing == IsFlashing(kind)
      colored  == InColor(wfm, dither)
      final    == IF night THEN AtNight(colored, flashing) ELSE colored
      full     == \/ flashing
                  \/ final = device.reagl \/ IsKaleido(final)
                  \/ /\ night /\ device.night_is_reagl
                     /\ ~IsKaleido(colored) /\ colored = device.partial
  IN  [settled |-> device.before /\ (flashing \/ wfm = device.ui),
       alone   |-> \/ wfm \in {device.reagl, "GC16"}
                   \/ flashing /\ wfm = device.flashui /\ full_screen,
       full    |-> full,
       submit  |-> /\ device.after /\ ~full
                   /\ final \notin {device.a2, device.fast}]

\* An empty or bogus region is discarded and changes nothing.
mxc_update(kind, full_screen, dither, night) ==
  /\ at = "idle" /\ updates < MaxUpdates
  /\ updates' = updates + 1
  /\ plan' = PlanOf(kind, full_screen, dither, night)
  /\ at' = "submitBefore"
  /\ UNCHANGED <<device, marker, dont_wait_for_marker, epdc, fulls, failed, waited>>

-----------------------------------------------------------------------------
(* Its system calls. *)

\* A wait for m ends when the driver got that far, or with an error.
Waits(m, states) == \/ m # 0 /\ epdc[m] \in states /\ UNCHANGED failed
                    \/ failed' = failed \cup {m}

Skips == UNCHANGED <<failed, waited, dont_wait_for_marker>>

\* The previous marker is one, and was not waited for already.
Pending == marker # 0 /\ marker # dont_wait_for_marker

\* Takes the wait for submission for a wait that need not be repeated.
SubmitBefore_MarksWaited ==
  /\ at = "submitBefore" /\ at' = "completeBefore"
  /\ IF plan.settled /\ Pending
     THEN /\ Waits(marker, {"submitted", "complete"}) /\ UNCHANGED waited
          /\ dont_wait_for_marker' = marker
     ELSE Skips
  /\ UNCHANGED <<device, marker, plan, updates, epdc, fulls>>

SubmitBefore ==
  /\ at = "submitBefore" /\ at' = "completeBefore"
  /\ IF plan.settled /\ Pending
     THEN /\ Waits(marker, {"submitted", "complete"})
          /\ UNCHANGED <<waited, dont_wait_for_marker>>
     ELSE Skips
  /\ UNCHANGED <<device, marker, plan, updates, epdc, fulls>>

CompleteBefore ==
  /\ at = "completeBefore" /\ at' = "send"
  /\ IF plan.alone /\ Pending
     THEN /\ Waits(marker, {"complete"})
          /\ waited' = [waited EXCEPT ![marker] = @ + 1]
          /\ UNCHANGED dont_wait_for_marker
     ELSE Skips
  /\ UNCHANGED <<device, marker, plan, updates, epdc, fulls>>

_get_next_marker == IF marker + 1 > MaxMarker THEN 1 ELSE marker + 1

\* The driver takes the update, or refuses it.
Send ==
  /\ at = "send" /\ at' = "completeAfter"
  /\ marker' = _get_next_marker
  /\ fulls' = IF plan.full THEN fulls \cup {marker'} ELSE fulls \ {marker'}
  /\ waited' = [waited EXCEPT ![marker'] = 0]
  /\ \/ /\ epdc' = [epdc EXCEPT ![marker'] = "sent"]
        /\ failed' = failed \ {marker'}
     \/ /\ epdc' = [epdc EXCEPT ![marker'] = "none"]
        /\ failed' = failed \cup {marker'}
  /\ UNCHANGED <<device, dont_wait_for_marker, plan, updates>>

\* One wait for completion per refresh is taken to be enough.
CompleteAfter_WaitsOnce ==
  /\ at = "completeAfter" /\ at' = "submitAfter"
  /\ IF plan.full /\ ~plan.alone
     THEN /\ Waits(marker, {"complete"})
          /\ waited' = [waited EXCEPT ![marker] = @ + 1]
          /\ dont_wait_for_marker' = marker
     ELSE Skips
  /\ UNCHANGED <<device, marker, plan, updates, epdc, fulls>>

CompleteAfter ==
  /\ at = "completeAfter" /\ at' = "submitAfter"
  /\ IF plan.full
     THEN /\ Waits(marker, {"complete"})
          /\ waited' = [waited EXCEPT ![marker] = @ + 1]
          /\ dont_wait_for_marker' = marker
     ELSE Skips
  /\ UNCHANGED <<device, marker, plan, updates, epdc, fulls>>

SubmitAfter ==
  /\ at = "submitAfter" /\ at' = "idle"
  /\ plan' = Idle
  /\ IF plan.submit /\ Pending
     THEN /\ Waits(marker, {"submitted", "complete"})
          /\ UNCHANGED <<waited, dont_wait_for_marker>>
     ELSE Skips
  /\ UNCHANGED <<device, marker, updates, epdc, fulls>>

\* The wait is not noted.
refreshWaitForLastImp_Forgets ==
  /\ at = "idle" /\ dont_wait_for_marker # marker
  /\ Waits(marker, {"complete"})
  /\ waited' = [waited EXCEPT ![marker] = IF @ < 3 THEN @ + 1 ELSE @]
  /\ UNCHANGED <<device, marker, dont_wait_for_marker, at, plan, updates, epdc, fulls>>

(* Waits for the last update, if any.  Before the first one the code asks  *)
(* the driver for marker 0, which it refuses.                              *)
refreshWaitForLastImp ==
  /\ at = "idle" /\ dont_wait_for_marker # marker
  /\ Waits(marker, {"complete"})
  /\ waited' = [waited EXCEPT ![marker] = @ + 1]
  /\ dont_wait_for_marker' = marker
  /\ UNCHANGED <<device, marker, at, plan, updates, epdc, fulls>>

\* The driver goes on with some update.
DriverStep(m) ==
  /\ \/ epdc[m] = "sent" /\ epdc' = [epdc EXCEPT ![m] = "submitted"]
     \/ epdc[m] = "submitted" /\ epdc' = [epdc EXCEPT ![m] = "complete"]
  /\ UNCHANGED <<device, marker, dont_wait_for_marker, at, plan, updates, fulls,
                 failed, waited>>

Next ==
  \/ \E kind \in Kinds, full_screen, dither, night \in BOOLEAN :
       mxc_update(kind, full_screen, dither, night)
  \/ SubmitBefore \/ CompleteBefore \/ Send \/ CompleteAfter \/ SubmitAfter
  \/ refreshWaitForLastImp
  \/ \E m \in Markers : DriverStep(m)

Spec == Init /\ [][Next]_vars

-----------------------------------------------------------------------------
(* Properties *)

Done(m) == epdc[m] = "complete" \/ m \in failed

(* FULL updates are fenced off: while one is in progress mxc_update waits  *)
(* for it, so that no two flashes overlap and none outlives its call,      *)
(* errors aside ("We want to fence off FULL updates", mxc_update).         *)
FullsFenced ==
  \A m \in fulls : Done(m) \/ (m = marker /\ at = "completeAfter")

(* An update that needs the screen for itself (REAGL, GC16, a flash of the *)
(* whole screen) is sent after the previous one completed, one that needs  *)
(* it settled after the previous one was submitted, errors aside.          *)
SentAfterPrevious ==
  [][at = "send" /\ at' = "completeAfter" /\ marker # 0
       => /\ plan.alone => Done(marker)
          /\ plan.settled => Done(marker) \/ epdc[marker] = "submitted"]_vars

(* The completion of an update is waited for at most once, over all the    *)
(* rules that may ask for it ("used to avoid waiting twice on the same     *)
(* marker", dont_wait_for_marker).                                         *)
WaitedOnce == \A m \in DOMAIN waited : waited[m] <= 1
=============================================================================
