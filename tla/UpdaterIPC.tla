----------------------------- MODULE UpdaterIPC -----------------------------
(***************************************************************************)
(* The remote calls of ffi/updater.lua: the interface forks a child that   *)
(* runs the updater's methods, asks over one pipe, reads progress and      *)
(* results from the other, and cancels through a byte of shared memory.    *)
(*                                                                         *)
(* A message crosses a pipe as two writes, its length and its body, and    *)
(* the reader may find the pipe between the two.  Messages carry, beside   *)
(* what the code sends, the number of the call they belong to: nothing in  *)
(* the protocol does, which is what the properties are about.              *)
(*                                                                         *)
(* X_... before X is a variant of X with a plausible bug.                  *)
(***************************************************************************)
EXTENDS Naturals, Sequences

CONSTANTS
  MaxCalls,   \* bound: how many calls the interface makes
  Total       \* how many times a method with progress reports its count

ASSUME BoundsAssumption == MaxCalls \in Nat /\ Total \in Nat \ {0}

VARIABLES
  abort_flag,   \* the shared byte
  down,         \* requests to the child; call 0 ends it
  up,           \* the writes on their way to the parent
  parent,       \* where the parent is, in which call, and whether it asked
                \* for progress
  child,        \* where the child is, with which request, and how far
  wrong,        \* (history) the parent took a message of another call, or a
                \* body for a length, as part of its answer
  overlap       \* (history) a call began while the child was busy

vars == <<abort_flag, down, up, parent, child, wrong, overlap>>

Calls == 1 .. MaxCalls

Requests == [call : 0 .. MaxCalls, with_progress : BOOLEAN]

\* What the child sends: a report (the last when count = total) or the
\* outcome; ok tells a value from an error.
Messages == [call : Calls, kind : {"progress", "outcome"}, ok : BOOLEAN,
             last : BOOLEAN]

Waiting == parent.at \in {"progress", "outcome"}

TypeOK ==
  /\ abort_flag \in {0, 1}
  /\ down \in Seq(Requests)
  /\ up \in Seq([part : {"length", "body"}, msg : Messages])
  /\ parent \in [at : {"idle", "drain", "send", "progress", "outcome",
                       "garbled", "freeing", "freed"},
                 call : 0 .. MaxCalls, with_progress : BOOLEAN]
  /\ child \in [at : {"recv", "method", "report", "reportBody", "check",
                      "reply", "replyBody", "exited"},
                request : Requests, count : 0 .. Total, ok : BOOLEAN]
  /\ wrong \in BOOLEAN /\ overlap \in BOOLEAN

Init ==
  /\ abort_flag = 0
  /\ down = <<>> /\ up = <<>>
  /\ parent = [at |-> "idle", call |-> 0, with_progress |-> FALSE]
  /\ child = [at |-> "recv", count |-> 0, ok |-> TRUE,
              request |-> [call |-> 0, with_progress |-> FALSE]]
  /\ wrong = FALSE /\ overlap = FALSE

-----------------------------------------------------------------------------
(* The parent: _call clears the flag, drops what is in the pipe, sends the *)
(* request and takes the messages that come.                               *)

CallStart(with_progress) ==
  /\ parent.at = "idle" /\ parent.call < MaxCalls
  /\ parent' = [at |-> "drain", call |-> parent.call + 1,
                with_progress |-> with_progress]
  /\ abort_flag' = 0
  /\ UNCHANGED <<down, up, child, wrong, overlap>>

Busy == child.at \notin {"recv", "exited"} \/ down # <<>>

\* The pipe is left as it is.
CallDrain_Not ==
  /\ parent.at = "drain"
  /\ overlap' = (overlap \/ Busy)
  /\ parent' = [parent EXCEPT !.at = "send"]
  /\ UNCHANGED <<abort_flag, down, up, child, wrong>>

\* Reads the bytes that are there, wherever that cuts the messages.
CallDrain ==
  /\ parent.at = "drain"
  /\ up' = <<>>
  /\ overlap' = (overlap \/ Busy)
  /\ parent' = [parent EXCEPT !.at = "send"]
  /\ UNCHANGED <<abort_flag, down, child, wrong>>

CallSend ==
  /\ parent.at = "send" /\ child.at # "exited"
  /\ down' = Append(down, [call |-> parent.call,
                           with_progress |-> parent.with_progress])
  /\ parent' = [parent EXCEPT !.at =
                  IF parent.with_progress THEN "progress" ELSE "outcome"]
  /\ UNCHANGED <<abort_flag, up, child, wrong, overlap>>

\* With no reader left, posix.write raises.
CallSendRaises ==
  /\ parent.at = "send" /\ child.at = "exited"
  /\ parent' = [parent EXCEPT !.at = "idle"]
  /\ UNCHANGED <<abort_flag, down, up, child, wrong, overlap>>

\* _recv gets message m: its length, then its body.
Receives(m) ==
  /\ Waiting /\ Len(up) >= 2
  /\ up[1] = [part |-> "length", msg |-> m]
  /\ up' = SubSeq(up, 3, Len(up))
  /\ wrong' = (wrong \/ m.call # parent.call)

\* A body whose length was dropped is taken for a length: what _recv reads,
\* or waits for, then is arbitrary.
RecvGarbled ==
  /\ Waiting /\ up # <<>> /\ up[1].part = "body"
  /\ parent' = [parent EXCEPT !.at = "garbled"]
  /\ wrong' = TRUE
  /\ UNCHANGED <<abort_flag, down, up, child, overlap>>

\* The child is gone: posix.read finds the end of the pipe and raises.
RecvShort ==
  /\ Waiting /\ child.at = "exited" /\ Len(up) < 2
  /\ parent' = [parent EXCEPT !.at = "idle"]
  /\ up' = <<>>
  /\ UNCHANGED <<abort_flag, down, child, wrong, overlap>>

\* The call raises the error it received.
RecvError(m) ==
  /\ Receives(m) /\ ~m.ok
  /\ parent' = [parent EXCEPT !.at = "idle"]
  /\ UNCHANGED <<abort_flag, down, child, overlap>>

\* The call returns what it takes for the outcome.
RecvOutcome(m) ==
  /\ parent.at = "outcome" /\ Receives(m) /\ m.ok
  /\ parent' = [parent EXCEPT !.at = "idle"]
  /\ UNCHANGED <<abort_flag, down, child, overlap>>

\* The report that count = total does not end the loop.
RecvProgress_NeverLast(m) ==
  /\ parent.at = "progress" /\ Receives(m) /\ m.ok
  /\ UNCHANGED <<abort_flag, down, parent, child, overlap>>

(* The callback wants more; after the report that count = total only the   *)
(* outcome is to come.  An outcome taken for a report ends the loop as     *)
(* well (nil = nil), or makes unpack raise when it is no table.            *)
RecvProgress(m) ==
  /\ parent.at = "progress" /\ Receives(m) /\ m.ok
  /\ \/ parent' = [parent EXCEPT !.at = IF m.last THEN "outcome" ELSE @]
     \/ m.kind = "outcome" /\ parent' = [parent EXCEPT !.at = "idle"]
  /\ UNCHANGED <<abort_flag, down, child, overlap>>

\* The callback wants no more: the call returns at once, without an outcome.
RecvCancel(m) ==
  /\ parent.at = "progress" /\ Receives(m) /\ m.ok
  /\ abort_flag' = 1
  /\ parent' = [parent EXCEPT !.at = "idle"]
  /\ UNCHANGED <<down, child, overlap>>

\* Waits for the child without asking it to end.
FreeStart_Silent ==
  /\ parent.at = "idle" /\ child.at # "exited"
  /\ parent' = [parent EXCEPT !.at = "freeing"]
  /\ UNCHANGED <<abort_flag, down, up, child, wrong, overlap>>

\* free: a message without a method, then a wait for the child's exit.  When
\* the child is gone already, _send raises and free does nothing more.
FreeStart ==
  /\ parent.at = "idle" /\ child.at # "exited"
  /\ down' = Append(down, [call |-> 0, with_progress |-> FALSE])
  /\ parent' = [parent EXCEPT !.at = "freeing"]
  /\ UNCHANGED <<abort_flag, up, child, wrong, overlap>>

FreeEnd ==
  /\ parent.at = "freeing" /\ child.at = "exited"
  /\ parent' = [parent EXCEPT !.at = "freed"]
  /\ UNCHANGED <<abort_flag, down, up, child, wrong, overlap>>

ParentStep ==
  \/ CallDrain \/ CallSend \/ CallSendRaises \/ FreeEnd
  \/ RecvGarbled \/ RecvShort
  \/ \E m \in Messages : \/ RecvError(m) \/ RecvOutcome(m)
                         \/ RecvProgress(m) \/ RecvCancel(m)

-----------------------------------------------------------------------------
(* The child: a loop of request, method, outcome. *)

ChildRecv ==
  /\ child.at = "recv" /\ down # <<>>
  /\ child' = [at |-> IF Head(down).call = 0 THEN "exited" ELSE "method",
               request |-> Head(down), count |-> 0, ok |-> TRUE]
  /\ down' = Tail(down)
  /\ UNCHANGED <<abort_flag, up, parent, wrong, overlap>>

(* The method counts on, and calls its progress function if it has one:    *)
(* that reports when the count is complete, or else when enough time has   *)
(* passed since the last report, then reads the flag.                      *)
ChildCounts ==
  /\ child.at = "method" /\ child.request.with_progress /\ child.count < Total
  /\ \/ child' = [child EXCEPT !.at = "report", !.count = @ + 1]
     \/ /\ child.count + 1 < Total
        /\ child' = [child EXCEPT !.at = "check", !.count = @ + 1]
  /\ UNCHANGED <<abort_flag, down, up, parent, wrong, overlap>>

\* A method told to stop returns, raises, or (download_update between two
\* ranges) goes on.
ChildCheck ==
  /\ child.at = "check"
  /\ \/ child' = [child EXCEPT !.at = "method"]
     \/ abort_flag = 1 /\ \E ok \in BOOLEAN :
                            child' = [child EXCEPT !.at = "reply", !.ok = ok]
  /\ UNCHANGED <<abort_flag, down, up, parent, wrong, overlap>>

\* pcall ends: with a value once everything is counted, or with an error.
ChildMethodEnds ==
  /\ child.at = "method"
  /\ \E ok \in BOOLEAN :
       /\ ok /\ child.request.with_progress => child.count = Total
       /\ child' = [child EXCEPT !.at = "reply", !.ok = ok]
  /\ UNCHANGED <<abort_flag, down, up, parent, wrong, overlap>>

\* The message the child is about to send, or is sending.
Outgoing ==
  LET isReport == child.at \in {"report", "reportBody"}
  IN  [call |-> child.request.call,
       kind |-> IF isReport THEN "progress" ELSE "outcome",
       ok   |-> isReport \/ child.ok,
       last |-> isReport => child.count = Total]

\* _send: one write for the length, one for the body.
ChildSends ==
  \E part \in {"length", "body"} :
    /\ child.at \in IF part = "length" THEN {"report", "reply"}
                                       ELSE {"reportBody", "replyBody"}
    /\ up' = Append(up, [part |-> part, msg |-> Outgoing])
    /\ child' = [child EXCEPT !.at = CASE @ = "report"     -> "reportBody"
                                       [] @ = "reportBody" -> "check"
                                       [] @ = "reply"      -> "replyBody"
                                       [] @ = "replyBody"  -> "recv"]
    /\ UNCHANGED <<abort_flag, down, parent, wrong, overlap>>

ChildStep == ChildRecv \/ ChildCounts \/ ChildCheck \/ ChildMethodEnds
             \/ ChildSends

\* The child is killed, or its loop raises.
ChildDies ==
  /\ child.at # "exited"
  /\ child' = [child EXCEPT !.at = "exited"]
  /\ UNCHANGED <<abort_flag, down, up, parent, wrong, overlap>>

Next == \/ \E with_progress \in BOOLEAN : CallStart(with_progress)
        \/ FreeStart \/ ParentStep \/ ChildStep \/ ChildDies

\* The parent in a call and the child run on; a method ends in time.  No
\* call need be made, and the child need not die.
Spec == Init /\ [][Next]_vars /\ WF_vars(ParentStep) /\ WF_vars(ChildStep)

-----------------------------------------------------------------------------
(* Properties *)

(* A call takes for its answer only messages sent for it, unless some call *)
(* began while the child was still busy with a cancelled one: whatever a   *)
(* cancelled or failed call left in the pipe is gone (_call).              *)
OwnAnswers == wrong => overlap

(* Every call returns, with a value, an error or a cancellation, even when *)
(* the child dies (_call), unless calls overlapped.                        *)
CallsReturn == [](Waiting => <>(parent.at = "idle" \/ overlap))

(* free returns: the child ends after whatever it was doing (free).        *)
FreeReturns == parent.at = "freeing" ~> parent.at = "freed"
=============================================================================
