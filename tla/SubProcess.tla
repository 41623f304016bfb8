----------------------------- MODULE SubProcess -----------------------------
(***************************************************************************)
(* Subprocesses of ffi/util.lua: runInSubProcess forks a child, if asked   *)
(* twice so that init adopts it, joined to the parent by one pipe, two or  *)
(* none; isSubProcessDone collects it; terminateSubProcess kills its       *)
(* process group.  Parent and children run side by side, any of pipe, fork *)
(* and waitpid may fail, and a child inherits what its parent had open.    *)
(*                                                                         *)
(* Process ids are not reused: a process is named by its call and role.    *)
(* X_... before X is a variant of X with a plausible bug.                  *)
(***************************************************************************)
EXTENDS Naturals

CONSTANT Calls   \* bound: the calls of runInSubProcess

Roles == {"child", "inner", "kid"}  \* kid: what func itself starts
Procs == Calls \X Roles
Ends  == {"parent_read", "child_write", "parent_write", "child_read"}
Child(c) == <<c, "child">>
Inner(c) == <<c, "inner">>
Kid(c)   == <<c, "kid">>

VARIABLES
  at,          \* the parent's step in runInSubProcess
  call,        \* the arguments of each call
  result,      \* where each call is: not made, in progress, or what it returned
  quiesced,    \* the before-fork hooks stopped the subsystems
  held,        \* the pipe ends open in the parent
  proc,        \* the state of each process
  group,       \* the leader of its process group; none: the parent's
  inherited,   \* the pipe ends open in each process
  done,        \* calls isSubProcessDone returned true for
  terminated   \* calls whose child terminateSubProcess sent SIGKILL

vars == <<at, call, result, quiesced, held, proc, group, inherited, done, terminated>>

forking == <<at, call, result, quiesced, held>>
kernel  == <<proc, group, inherited>>

TypeOK ==
  /\ at \in {"idle", "pipe", "pipe2", "hooks", "fork", "restart", "reap", "close"}
  /\ call \in [Calls -> [with_pipe : {"no", "yes", "bidi"}, double_fork : BOOLEAN]]
  /\ result \in [Calls -> {"none", "running", "pid", "failed"}]
  /\ quiesced \in BOOLEAN
  /\ held \subseteq Calls \X Ends
  /\ proc \in [Procs -> {"none", "forked", "func", "zombie", "gone"}]
  /\ group \in [Procs -> {{}} \cup {{p} : p \in Procs}]
  /\ inherited \in [Procs -> SUBSET (Calls \X Ends)]
  /\ done \subseteq Calls /\ terminated \subseteq Calls
  /\ at = "idle" <=> \A c \in Calls : result[c] # "running"

Init ==
  /\ at = "idle"
  /\ call = [c \in Calls |-> [with_pipe |-> "no", double_fork |-> FALSE]]
  /\ result = [c \in Calls |-> "none"]
  /\ quiesced = FALSE /\ held = {}
  /\ proc = [p \in Procs |-> "none"]
  /\ group = [p \in Procs |-> {}]
  /\ inherited = [p \in Procs |-> {}]
  /\ done = {} /\ terminated = {}

Dead(p)  == proc[p] \in {"none", "zombie", "gone"}
Ended(c) == \A r \in Roles : Dead(<<c, r>>)

-----------------------------------------------------------------------------
(* The parent in runInSubProcess; me is the current call. *)

me == CHOOSE c \in Calls : result[c] = "running"

runInSubProcess(c, with_pipe, double_fork) ==
  /\ at = "idle" /\ result[c] = "none"
  /\ call' = [call EXCEPT ![c] = [with_pipe |-> with_pipe, double_fork |-> double_fork]]
  /\ result' = [result EXCEPT ![c] = "running"]
  /\ at' = IF with_pipe = "no" THEN "hooks" ELSE "pipe"
  /\ UNCHANGED <<quiesced, held, kernel, done, terminated>>

\* What the code does at each of its early returns: nothing is closed.
Fails == at' = "idle" /\ result' = [result EXCEPT ![me] = "failed"]

Pipe ==
  /\ at = "pipe"
  /\ \/ /\ held' = held \cup {<<me, "parent_read">>, <<me, "child_write">>}
        /\ at' = IF call[me].with_pipe = "bidi" THEN "pipe2" ELSE "hooks"
        /\ UNCHANGED result
     \/ Fails /\ UNCHANGED held
  /\ UNCHANGED <<call, quiesced, kernel, done, terminated>>

Pipe2 ==
  /\ at = "pipe2"
  /\ \/ /\ held' = held \cup {<<me, "parent_write">>, <<me, "child_read">>}
        /\ at' = "hooks" /\ UNCHANGED result
     \/ Fails /\ UNCHANGED held
  /\ UNCHANGED <<call, quiesced, kernel, done, terminated>>

BeforeFork ==
  /\ at = "hooks" /\ at' = "fork" /\ quiesced' = TRUE
  /\ UNCHANGED <<call, result, held, kernel, done, terminated>>

Fork ==
  /\ at = "fork" /\ at' = "restart"
  /\ \/ /\ proc' = [proc EXCEPT ![Child(me)] = "forked"]
        /\ inherited' = [inherited EXCEPT ![Child(me)] = held]
     \/ UNCHANGED <<proc, inherited>>
  /\ UNCHANGED <<call, result, quiesced, held, group, done, terminated>>

Succeeded == proc[Child(me)] # "none"

\* The hooks after the check for errors.
AfterFork_Checks ==
  /\ at = "restart"
  /\ IF Succeeded
     THEN /\ at' = (IF call[me].double_fork THEN "reap" ELSE "close")
          /\ quiesced' = FALSE /\ UNCHANGED result
     ELSE Fails /\ UNCHANGED quiesced
  /\ UNCHANGED <<call, held, kernel, done, terminated>>

AfterFork ==
  /\ at = "restart" /\ quiesced' = FALSE
  /\ IF Succeeded
     THEN at' = (IF call[me].double_fork THEN "reap" ELSE "close") /\ UNCHANGED result
     ELSE Fails
  /\ UNCHANGED <<call, held, kernel, done, terminated>>

\* Waits for the end of the outer child; waitpid may be interrupted.
ReapOuter ==
  /\ at = "reap"
  /\ \/ /\ proc[Child(me)] = "zombie"
        /\ proc' = [proc EXCEPT ![Child(me)] = "gone"]
        /\ at' = "close" /\ UNCHANGED result
     \/ Fails /\ UNCHANGED proc
  /\ UNCHANGED <<call, quiesced, held, group, inherited, done, terminated>>

\* The ends of the child are left to the caller to close.
Close_KeepsChildEnds ==
  /\ at = "close" /\ at' = "idle"
  /\ result' = [result EXCEPT ![me] = "pid"]
  /\ UNCHANGED <<call, quiesced, held, kernel, done, terminated>>

Close ==
  /\ at = "close" /\ at' = "idle"
  /\ held' = held \ {<<me, "child_read">>, <<me, "child_write">>}
  /\ result' = [result EXCEPT ![me] = "pid"]
  /\ UNCHANGED <<call, quiesced, kernel, done, terminated>>

\* The caller closes one of the ends it was given.
CallerCloses(c) ==
  /\ at = "idle" /\ result[c] = "pid"
  /\ \E end \in {"parent_read", "parent_write"} :
       <<c, end>> \in held /\ held' = held \ {<<c, end>>}
  /\ UNCHANGED <<at, call, result, quiesced, kernel, done, terminated>>

-----------------------------------------------------------------------------
(* The children. *)

\* The outer child forks the one that runs func, or fails to, and exits.
ForkInner(c) ==
  /\ proc[Child(c)] = "forked" /\ call[c].double_fork
  /\ \/ /\ proc' = [proc EXCEPT ![Child(c)] = "zombie", ![Inner(c)] = "forked"]
        /\ inherited' = [inherited EXCEPT ![Child(c)] = {},
                                          ![Inner(c)] = inherited[Child(c)]]
     \/ /\ proc' = [proc EXCEPT ![Child(c)] = "zombie"]
        /\ inherited' = [inherited EXCEPT ![Child(c)] = {}]
  /\ UNCHANGED <<forking, group, done, terminated>>

ChildStarts_NoGroup(p) ==
  /\ proc[p] = "forked" /\ (p[2] = "child" => ~call[p[1]].double_fork)
  /\ proc' = [proc EXCEPT ![p] = "func"]
  /\ inherited' = [inherited EXCEPT
       ![p] = @ \ {<<p[1], "parent_read">>, <<p[1], "parent_write">>}]
  /\ UNCHANGED <<forking, group, done, terminated>>

\* A group of its own, without the parent's ends of its pipes.
ChildStarts(p) ==
  /\ proc[p] = "forked" /\ (p[2] = "child" => ~call[p[1]].double_fork)
  /\ proc' = [proc EXCEPT ![p] = "func"]
  /\ group' = [group EXCEPT ![p] = {p}]
  /\ inherited' = [inherited EXCEPT
       ![p] = @ \ {<<p[1], "parent_read">>, <<p[1], "parent_write">>}]
  /\ UNCHANGED <<forking, done, terminated>>

\* func starts a program, which shares its group and its open files.
FuncSpawns(c) ==
  /\ proc[Kid(c)] = "none"
  /\ \E p \in {Child(c), Inner(c)} :
       /\ proc[p] = "func"
       /\ group' = [group EXCEPT ![Kid(c)] = group[p]]
       /\ inherited' = [inherited EXCEPT ![Kid(c)] = inherited[p]]
  /\ proc' = [proc EXCEPT ![Kid(c)] = "func"]
  /\ UNCHANGED <<forking, done, terminated>>

\* What is left of a dead process: only the parent's own child waits for it.
Remains(p) == IF p[2] = "child" THEN "zombie" ELSE "gone"

\* func returns or raises, or the program it started ends.
FuncEnds(p) ==
  /\ proc[p] = "func"
  /\ proc' = [proc EXCEPT ![p] = Remains(p)]
  /\ inherited' = [inherited EXCEPT ![p] = {}]
  /\ UNCHANGED <<forking, group, done, terminated>>

-----------------------------------------------------------------------------
(* The caller and its children, between calls. *)

Collected(c) == proc[Child(c)] \in {"zombie", "gone"}

\* With wait, the call is not over before the child is.
isSubProcessDone(c) ==
  /\ at = "idle" /\ result[c] = "pid" /\ Collected(c)
  /\ done' = done \cup {c}
  /\ proc' = [proc EXCEPT ![Child(c)] = "gone"]
  /\ UNCHANGED <<forking, group, inherited, terminated>>

\* SIGKILL reaches the child alone.
Kills_ChildOnly(c) == IF Dead(Child(c)) THEN {} ELSE {Child(c)}

\* Those alive in the group of the child; the group need not exist.
Kills(c) == {p \in Procs : group[p] = {Child(c)} /\ ~Dead(p)}

terminateSubProcess(c) ==
  /\ at = "idle" /\ result[c] = "pid"
  /\ IF Collected(c)
     THEN /\ proc' = [proc EXCEPT ![Child(c)] = "gone"]
          /\ done' = done \cup {c}
          /\ UNCHANGED <<inherited, terminated>>
     ELSE /\ proc' = [p \in Procs |-> IF p \in Kills(c) THEN Remains(p) ELSE proc[p]]
          /\ inherited' = [p \in Procs |-> IF p \in Kills(c) THEN {} ELSE inherited[p]]
          /\ terminated' = terminated \cup {c}
          /\ UNCHANGED done
  /\ UNCHANGED <<forking, group>>

ChildStep ==
  \/ \E c \in Calls : ForkInner(c)
  \/ \E p \in Procs : ChildStarts(p)

Next ==
  \/ \E c \in Calls, with_pipe \in {"no", "yes", "bidi"}, double_fork \in BOOLEAN :
       runInSubProcess(c, with_pipe, double_fork)
  \/ Pipe \/ Pipe2 \/ BeforeFork \/ Fork \/ AfterFork \/ ReapOuter \/ Close
  \/ \E c \in Calls : CallerCloses(c) \/ isSubProcessDone(c) \/ terminateSubProcess(c)
  \/ ChildStep
  \/ \E c \in Calls : FuncSpawns(c)
  \/ \E p \in Procs : FuncEnds(p)

Spec == Init /\ [][Next]_vars

(* The parent's code runs on and the kernel schedules forked processes;    *)
(* func may never end, and the caller goes on terminating what is not      *)
(* done.                                                                   *)
Persevering ==
  /\ Spec
  /\ WF_vars(Pipe \/ Pipe2 \/ BeforeFork \/ Fork \/ AfterFork \/ ReapOuter \/ Close)
  /\ WF_vars(ChildStep)
  /\ \A c \in Calls : WF_vars(c \notin done /\ terminateSubProcess(c))

-----------------------------------------------------------------------------
(* Properties *)

(* Subsystems stopped for a fork run again when runInSubProcess returns,   *)
(* whatever failed ("subsystems stopped above are always restarted").      *)
HooksRestarted == at \in {"idle", "pipe", "pipe2"} => ~quiesced

(* Once a call that succeeded has no process left nobody holds the child's *)
(* ends of its pipes, not even the children of other calls, so that the    *)
(* parent reads end of file instead of waiting for ever (readAllFromFD).   *)
EndOfPipe ==
  \A c \in Calls : result[c] = "pid" /\ Ended(c) =>
    \A end \in {"child_write", "child_read"} :
      /\ <<c, end>> \notin held
      /\ \A p \in Procs : <<c, end>> \notin inherited[p]

(* terminateSubProcess on a child that runs func leaves none of its        *)
(* processes alive ("to have all its own children killed too").            *)
KillsAll ==
  [][\A c \in Calls :
       c \in terminated' \ terminated /\ proc[Child(c)] = "func"
         => \A r \in Roles : Dead(<<c, r>>)']_vars

(* A caller that goes on calling terminateSubProcess collects the child,   *)
(* even if func never ends.                                                *)
EventuallyCollected == \A c \in Calls : result[c] = "pid" ~> c \in done
=============================================================================
