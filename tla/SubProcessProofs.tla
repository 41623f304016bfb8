-------------------------- MODULE SubProcessProofs --------------------------
(***************************************************************************)
(* The theorems about subprocesses, for any number of calls.               *)
(***************************************************************************)
EXTENDS SubProcess, TLAPS

Alone == \A c, d \in Calls : result[c] = "running" /\ result[d] = "running" => c = d

Quiesced == quiesced => at \in {"fork", "restart"}

ChildEnds == {"child_write", "child_read"}

\* The child's ends are held by the parent during the call only, unless it
\* failed, and inherited by its own processes only, unless it failed.
EndsPlaced ==
  /\ \A c \in Calls, end \in ChildEnds :
       <<c, end>> \in held => result[c] \in {"running", "failed"}
  /\ \A c \in Calls, p \in Procs, end \in ChildEnds :
       <<c, end>> \in inherited[p] => p[1] = c \/ result[c] = "failed"

DeadHoldNothing == \A p \in Procs : Dead(p) => inherited[p] = {}

\* Before its fork a call has no processes.
Unborn ==
  \A c \in Calls :
    \/ result[c] = "none"
    \/ result[c] = "running" /\ at \in {"pipe", "pipe2", "hooks", "fork"}
    => \A r \in Roles : proc[<<c, r>>] = "none"

\* While the child itself runs func, it leads the group of what func starts,
\* which is never seen between fork and exec.
Grouped ==
  \A c \in Calls :
    /\ proc[Kid(c)] # "forked"
    /\ proc[Child(c)] = "forked" => proc[Inner(c)] = "none" /\ proc[Kid(c)] = "none"
    /\ proc[Child(c)] = "func" =>
         /\ group[Child(c)] = {Child(c)} /\ proc[Inner(c)] = "none"
         /\ proc[Kid(c)] # "none" => group[Kid(c)] = {Child(c)}

IInv == /\ TypeOK /\ Alone /\ Quiesced /\ EndsPlaced /\ DeadHoldNothing
        /\ Unborn /\ Grouped

-----------------------------------------------------------------------------

\* The call in progress is one, and it is me.
LEMMA MeRuns ==
  ASSUME IInv, at # "idle"
  PROVE  me \in Calls /\ result[me] = "running" /\ \A c \in Calls : result[c] = "running" => c = me
<1>1. \E c \in Calls : result[c] = "running" BY DEF IInv, TypeOK
<1>2. me \in Calls /\ result[me] = "running" BY <1>1 DEF me
<1> QED BY <1>2 DEF IInv, Alone

\* The processes of the calls, by role.
LEMMA ProcsOfCalls ==
  /\ \A c \in Calls : Child(c) \in Procs /\ Inner(c) \in Procs /\ Kid(c) \in Procs
  /\ \A c \in Calls, r \in Roles : <<c, r>> \in Procs
  /\ \A c \in Calls : Child(c) # Inner(c) /\ Child(c) # Kid(c) /\ Inner(c) # Kid(c)
  /\ \A p \in Procs : p[1] \in Calls /\ p[2] \in Roles /\ p = <<p[1], p[2]>>
BY DEF Procs, Roles, Child, Inner, Kid

\* Steps of a call that touch no process: result changes for me alone.
LEMMA ParentStepKeeps ==
  ASSUME IInv, TypeOK', UNCHANGED kernel,
         at # "idle",
         NEW r \in {"running", "pid", "failed"}, result' = [result EXCEPT ![me] = r],
         r = "pid" => \A end \in ChildEnds : <<me, end>> \notin held',
         held' \subseteq held \cup ({me} \X Ends),
         at' \in {"pipe", "pipe2", "hooks", "fork"} =>
           at \in {"pipe", "pipe2", "hooks", "fork"},
         Quiesced'
  PROVE  IInv'
<1>1. /\ me \in Calls /\ result[me] = "running"
      /\ \A c \in Calls : result[c] = "running" => c = me
  BY MeRuns
<1>2. /\ TypeOK /\ Alone /\ EndsPlaced /\ DeadHoldNothing /\ Unborn /\ Grouped
      /\ UNCHANGED <<proc, group, inherited>>
  BY DEF IInv, kernel
<1>3. result \in [Calls -> {"none", "running", "pid", "failed"}] BY <1>2 DEF TypeOK
<1>4. \A c \in Calls : result'[c] = IF c = me THEN r ELSE result[c] BY <1>1, <1>3
<1> HIDE DEF me
<1>5. Alone' BY <1>1, <1>4 DEF Alone
<1>6. EndsPlaced'
  <2>1. ASSUME NEW c \in Calls, NEW end \in ChildEnds, <<c, end>> \in held'
        PROVE  result'[c] \in {"running", "failed"}
    BY <1>1, <1>2, <1>4, <2>1 DEF EndsPlaced
  <2>2. ASSUME NEW c \in Calls, NEW p \in Procs, NEW end \in ChildEnds,
               <<c, end>> \in inherited'[p]
        PROVE  p[1] = c \/ result'[c] = "failed"
    BY <1>1, <1>2, <1>4, <2>2 DEF EndsPlaced
  <2> QED BY <2>1, <2>2 DEF EndsPlaced
<1>7. DeadHoldNothing' BY <1>2 DEF DeadHoldNothing, Dead
<1>8. Unborn' BY <1>1, <1>2, <1>4 DEF Unborn
<1>9. Grouped' BY <1>2 DEF Grouped
<1> QED BY <1>5, <1>6, <1>7, <1>8, <1>9 DEF IInv

\* Steps of a process, or of the caller upon one, in which no process is forked
\* anew and none but the dead loses what it holds.
LEMMA ChildStepKeeps ==
  ASSUME IInv, TypeOK', UNCHANGED forking,
         DeadHoldNothing', Grouped',
         \A p \in Procs : \A e \in inherited'[p] :
           \E q \in Procs : q[1] = p[1] /\ e \in inherited[q],
         \A c \in Calls : (\A r \in Roles : proc[<<c, r>>] = "none")
                           => \A r \in Roles : proc'[<<c, r>>] = "none"
  PROVE  IInv'
<1>1. UNCHANGED <<at, call, result, quiesced, held>> BY DEF forking
<1>2. Alone' /\ Quiesced' BY <1>1 DEF IInv, Alone, Quiesced
<1>3. EndsPlaced'
  <2>1. ASSUME NEW c \in Calls, NEW p \in Procs, NEW end \in ChildEnds,
               <<c, end>> \in inherited'[p]
        PROVE  p[1] = c \/ result'[c] = "failed"
    <3>1. PICK q \in Procs : q[1] = p[1] /\ <<c, end>> \in inherited[q] BY <2>1
    <3> QED BY <1>1, <3>1 DEF IInv, EndsPlaced
  <2> QED BY <1>1, <2>1 DEF IInv, EndsPlaced
<1>4. Unborn' BY <1>1 DEF IInv, Unborn
<1> QED BY <1>2, <1>3, <1>4 DEF IInv

-----------------------------------------------------------------------------

\* What each step of the parent, of the children and of the caller keeps.
THEOREM Invariance == Spec => []IInv
<1>1. Init => IInv
  <2> SUFFICES ASSUME Init PROVE IInv OBVIOUS
  <2>1. TypeOK BY DEF Init, TypeOK
  <2>2. Alone /\ Quiesced /\ EndsPlaced /\ DeadHoldNothing
    BY DEF Init, Alone, Quiesced, EndsPlaced, DeadHoldNothing
  <2>3. Unborn /\ Grouped BY ProcsOfCalls DEF Init, Unborn, Grouped
  <2> QED BY <2>1, <2>2, <2>3 DEF IInv
<1>2. IInv /\ [Next]_vars => IInv'
  <2> SUFFICES ASSUME IInv, [Next]_vars PROVE IInv' OBVIOUS
  <2>a. /\ TypeOK /\ Alone /\ Quiesced /\ EndsPlaced /\ DeadHoldNothing
        /\ Unborn /\ Grouped
    BY DEF IInv
  <2>b. at # "idle" => /\ me \in Calls /\ result[me] = "running"
                       /\ \A c \in Calls : result[c] = "running" => c = me
    BY MeRuns
  <2>1. ASSUME NEW c \in Calls, NEW with_pipe \in {"no", "yes", "bidi"},
               NEW double_fork \in BOOLEAN,
               runInSubProcess(c, with_pipe, double_fork)
        PROVE  IInv'
    <3>1. /\ at = "idle" /\ result[c] = "none" /\ at' \in {"hooks", "pipe"}
          /\ result' = [result EXCEPT ![c] = "running"]
          /\ UNCHANGED <<quiesced, held, proc, group, inherited, done, terminated>>
      BY <2>1 DEF runInSubProcess, kernel
    <3>2. \A d \in Calls : result[d] # "running" BY <2>a, <3>1 DEF TypeOK
    <3>3. \A d \in Calls : result'[d] = IF d = c THEN "running" ELSE result[d]
      BY <2>a, <3>1 DEF TypeOK
    <3>4. TypeOK'
      <4>1. call' \in [Calls -> [with_pipe : {"no", "yes", "bidi"}, double_fork : BOOLEAN]]
        BY <2>a, <2>1 DEF runInSubProcess, TypeOK
      <4> QED BY <2>a, <3>1, <3>3, <4>1 DEF TypeOK
    <3>5. Alone' BY <3>2, <3>3 DEF Alone
    <3>6. EndsPlaced' BY <2>a, <3>1, <3>2, <3>3 DEF EndsPlaced
    <3>7. DeadHoldNothing' /\ Grouped' BY <2>a, <3>1 DEF DeadHoldNothing, Dead, Grouped
    <3>8. Unborn' BY <2>a, <3>1, <3>2, <3>3 DEF Unborn
    <3>9. Quiesced' BY <2>a, <3>1 DEF Quiesced
    <3> QED BY <3>4, <3>5, <3>6, <3>7, <3>8, <3>9 DEF IInv
  <2>2. CASE Pipe
    <3>1. /\ at = "pipe" /\ UNCHANGED <<call, quiesced, kernel, done, terminated>>
          /\ held' \subseteq held \cup ({me} \X Ends)
      BY <2>2 DEF Pipe, Ends
    <3>2. \/ at' \in {"pipe2", "hooks"} /\ result' = [result EXCEPT ![me] = "running"]
          \/ at' = "idle" /\ result' = [result EXCEPT ![me] = "failed"]
      BY <2>a, <2>b, <2>2 DEF Pipe, Fails, TypeOK
    <3> HIDE DEF me
    <3>3. TypeOK'
      <4>1. result' \in [Calls -> {"none", "running", "pid", "failed"}]
            /\ (at' = "idle" <=> \A c \in Calls : result'[c] # "running")
        BY <2>a, <2>b, <3>1, <3>2 DEF TypeOK
      <4>2. held' \subseteq Calls \X Ends BY <2>a, <2>b, <3>1 DEF TypeOK
      <4> QED BY <2>a, <3>1, <3>2, <4>1, <4>2 DEF TypeOK, kernel
    <3>4. Quiesced' BY <2>a, <3>1, <3>2 DEF Quiesced
    <3> QED BY <3>1, <3>2, <3>3, <3>4, ParentStepKeeps
  <2>3. CASE Pipe2
    <3>1. /\ at = "pipe2" /\ UNCHANGED <<call, quiesced, kernel, done, terminated>>
          /\ held' \subseteq held \cup ({me} \X Ends)
      BY <2>3 DEF Pipe2, Ends
    <3>2. \/ at' = "hooks" /\ result' = [result EXCEPT ![me] = "running"]
          \/ at' = "idle" /\ result' = [result EXCEPT ![me] = "failed"]
      BY <2>a, <2>b, <2>3 DEF Pipe2, Fails, TypeOK
    <3> HIDE DEF me
    <3>3. TypeOK'
      <4>1. result' \in [Calls -> {"none", "running", "pid", "failed"}]
            /\ (at' = "idle" <=> \A c \in Calls : result'[c] # "running")
        BY <2>a, <2>b, <3>1, <3>2 DEF TypeOK
      <4>2. held' \subseteq Calls \X Ends BY <2>a, <2>b, <3>1 DEF TypeOK
      <4> QED BY <2>a, <3>1, <3>2, <4>1, <4>2 DEF TypeOK, kernel
    <3>4. Quiesced' BY <2>a, <3>1, <3>2 DEF Quiesced
    <3> QED BY <3>1, <3>2, <3>3, <3>4, ParentStepKeeps
  <2>4. CASE BeforeFork
    <3>1. /\ at = "hooks" /\ at' = "fork" /\ quiesced' = TRUE
          /\ UNCHANGED <<call, result, held, kernel, done, terminated>>
      BY <2>4 DEF BeforeFork
    <3>2. result' = [result EXCEPT ![me] = "running"] BY <2>a, <2>b, <3>1 DEF TypeOK
    <3> HIDE DEF me
    <3>3. TypeOK' BY <2>a, <3>1 DEF TypeOK, kernel
    <3>4. Quiesced' BY <3>1 DEF Quiesced
    <3> QED BY <3>1, <3>2, <3>3, <3>4, ParentStepKeeps
  <2>5. CASE Fork
    <3>1. /\ at = "fork" /\ at' = "restart"
          /\ UNCHANGED <<call, result, quiesced, held, group, done, terminated>>
      BY <2>5 DEF Fork
    <3>2. CASE UNCHANGED <<proc, inherited>>
      <4>1. result' = [result EXCEPT ![me] = "running"] BY <2>a, <2>b, <3>1 DEF TypeOK
      <4> HIDE DEF me
      <4>2. TypeOK' BY <2>a, <3>1, <3>2 DEF TypeOK
      <4>3. Quiesced' BY <3>1 DEF Quiesced
      <4> QED BY <3>1, <3>2, <4>1, <4>2, <4>3, ParentStepKeeps DEF kernel
    <3>3. CASE /\ proc' = [proc EXCEPT ![Child(me)] = "forked"]
               /\ inherited' = [inherited EXCEPT ![Child(me)] = held]
      <4>1. me \in Calls /\ Child(me) \in Procs /\ Child(me) = <<me, "child">>
        BY <2>b, <3>1, ProcsOfCalls DEF Child
      <4>2. \A r \in Roles : proc[<<me, r>>] = "none" BY <2>a, <2>b, <3>1 DEF Unborn
      <4>3. proc \in [Procs -> {"none", "forked", "func", "zombie", "gone"}]
            /\ inherited \in [Procs -> SUBSET (Calls \X Ends)]
        BY <2>a DEF TypeOK
      <4>4. /\ \A p \in Procs : proc'[p] = IF p = Child(me) THEN "forked" ELSE proc[p]
            /\ \A p \in Procs : inherited'[p] = IF p = Child(me) THEN held ELSE inherited[p]
        BY <3>3, <4>1, <4>3
      <4>5. TypeOK' BY <2>a, <3>1, <3>3, <4>1, <4>3 DEF TypeOK
      <4>6. Alone' /\ Quiesced' BY <2>a, <3>1 DEF Alone, Quiesced
      <4>7. EndsPlaced'
        <5>1. ASSUME NEW c \in Calls, NEW p \in Procs, NEW end \in ChildEnds,
                     <<c, end>> \in inherited'[p]
              PROVE  p[1] = c \/ result'[c] = "failed"
          <6>1. CASE p = Child(me)
            <7>1. <<c, end>> \in held BY <4>4, <5>1, <6>1
            <7>2. result[c] \in {"running", "failed"} BY <7>1, <2>a DEF EndsPlaced
            <7> QED BY <7>2, <2>b, <3>1, <4>1, <6>1
          <6>2. CASE p # Child(me) BY <4>4, <5>1, <6>2, <2>a, <3>1 DEF EndsPlaced
          <6> QED BY <6>1, <6>2
        <5> QED BY <5>1, <2>a, <3>1 DEF EndsPlaced
      <4>8. DeadHoldNothing' BY <2>a, <4>4 DEF DeadHoldNothing, Dead
      <4>9. Unborn'
        <5>1. ASSUME NEW c \in Calls, result'[c] = "none", NEW r \in Roles
              PROVE  proc'[<<c, r>>] = "none"
          <6>1. c # me /\ <<c, r>> \in Procs /\ proc[<<c, r>>] = "none"
            BY <2>a, <2>b, <3>1, <5>1, ProcsOfCalls DEF Unborn
          <6>2. <<c, r>> # Child(me) BY <4>1, <6>1
          <6> QED BY <4>4, <6>1, <6>2
        <5> QED BY <3>1, <5>1 DEF Unborn
      <4>10. Grouped'
        <5>1. ASSUME NEW c \in Calls, c = me
              PROVE  proc'[Child(c)] = "forked" /\ proc'[Inner(c)] = "none"
                     /\ proc'[Kid(c)] = "none"
          BY <5>1, <4>2, <4>4, ProcsOfCalls DEF Inner, Kid, Roles
        <5>2. ASSUME NEW c \in Calls, c # me
              PROVE  Child(c) # Child(me) /\ Inner(c) # Child(me) /\ Kid(c) # Child(me)
          BY <5>2 DEF Child, Inner, Kid
        <5>3. ASSUME NEW c \in Calls, c # me
              PROVE  /\ proc'[Child(c)] = proc[Child(c)] /\ proc'[Inner(c)] = proc[Inner(c)]
                     /\ proc'[Kid(c)] = proc[Kid(c)]
          BY <5>2, <5>3, <4>4, ProcsOfCalls
        <5> QED BY <5>1, <5>3, <2>a, <3>1 DEF Grouped
      <4> QED BY <4>5, <4>6, <4>7, <4>8, <4>9, <4>10 DEF IInv
    <3> QED BY <2>5, <3>2, <3>3 DEF Fork
  <2>6. CASE AfterFork
    <3>1. /\ at = "restart" /\ quiesced' = FALSE
          /\ UNCHANGED <<call, held, kernel, done, terminated>>
      BY <2>6 DEF AfterFork
    <3>2. \/ at' \in {"reap", "close"} /\ result' = [result EXCEPT ![me] = "running"]
          \/ at' = "idle" /\ result' = [result EXCEPT ![me] = "failed"]
      BY <2>a, <2>b, <2>6 DEF AfterFork, Fails, TypeOK
    <3> HIDE DEF me
    <3>3. TypeOK'
      <4>1. result' \in [Calls -> {"none", "running", "pid", "failed"}]
            /\ (at' = "idle" <=> \A c \in Calls : result'[c] # "running")
        BY <2>a, <2>b, <3>1, <3>2 DEF TypeOK
      <4> QED BY <2>a, <3>1, <3>2, <4>1 DEF TypeOK, kernel
    <3>4. Quiesced' BY <3>1 DEF Quiesced
    <3> QED BY <3>1, <3>2, <3>3, <3>4, ParentStepKeeps
  <2>7. CASE ReapOuter
    <3>1. /\ at = "reap"
          /\ UNCHANGED <<call, quiesced, held, group, inherited, done, terminated>>
      BY <2>7 DEF ReapOuter
    <3>2. CASE Fails /\ UNCHANGED proc
      <4>1. at' = "idle" /\ result' = [result EXCEPT ![me] = "failed"] BY <3>2 DEF Fails
      <4> HIDE DEF me
      <4>2. TypeOK'
        <5>1. result' \in [Calls -> {"none", "running", "pid", "failed"}]
              /\ \A c \in Calls : result'[c] # "running"
          BY <2>a, <2>b, <3>1, <4>1 DEF TypeOK
        <5> QED BY <2>a, <3>1, <3>2, <4>1, <5>1 DEF TypeOK
      <4>3. Quiesced' BY <2>a, <3>1, <4>1 DEF Quiesced
      <4> QED BY <3>1, <3>2, <4>1, <4>2, <4>3, ParentStepKeeps DEF kernel
    <3>3. CASE /\ proc[Child(me)] = "zombie"
               /\ proc' = [proc EXCEPT ![Child(me)] = "gone"]
               /\ at' = "close" /\ UNCHANGED result
      <4>1. Child(me) \in Procs BY <2>b, <3>1, ProcsOfCalls
      <4>2. \A p \in Procs : \/ proc'[p] = proc[p]
                             \/ p = Child(me) /\ proc[p] = "zombie" /\ proc'[p] = "gone"
        <5>1. proc \in [Procs -> {"none", "forked", "func", "zombie", "gone"}]
          BY <2>a DEF TypeOK
        <5>2. \A p \in Procs : proc'[p] = IF p = Child(me) THEN "gone" ELSE proc[p]
          BY <3>3, <5>1
        <5>3. ASSUME NEW p \in Procs, p = Child(me)
              PROVE  proc[p] = "zombie" /\ proc'[p] = "gone"
          BY <3>3, <5>2, <5>3
        <5> QED BY <5>2, <5>3
      <4>3. TypeOK' BY <2>a, <3>1, <3>3, <4>1 DEF TypeOK
      <4>4. Alone' /\ EndsPlaced' /\ Quiesced' BY <2>a, <3>1, <3>3 DEF Alone, EndsPlaced, Quiesced
      <4>5. DeadHoldNothing' BY <2>a, <3>1, <4>2 DEF DeadHoldNothing, Dead
      <4>6. Unborn' BY <2>a, <2>b, <3>1, <3>3, <4>2, ProcsOfCalls DEF Unborn
      <4>7. Grouped'
        <5>1. \A c \in Calls : /\ proc'[Inner(c)] = proc[Inner(c)]
                               /\ proc'[Kid(c)] = proc[Kid(c)]
          BY <2>a, <3>3, <4>1, ProcsOfCalls DEF TypeOK, Child, Inner, Kid
        <5> QED BY <5>1, <2>a, <3>1, <4>2, ProcsOfCalls DEF Grouped
      <4> QED BY <4>3, <4>4, <4>5, <4>6, <4>7 DEF IInv
    <3> QED BY <2>7, <3>2, <3>3 DEF ReapOuter
  <2>8. CASE Close
    <3>1. /\ at = "close" /\ at' = "idle"
          /\ held' = held \ {<<me, "child_read">>, <<me, "child_write">>}
          /\ result' = [result EXCEPT ![me] = "pid"]
          /\ UNCHANGED <<call, quiesced, kernel, done, terminated>>
      BY <2>8 DEF Close
    <3> HIDE DEF me
    <3>2. TypeOK'
      <4>1. result' \in [Calls -> {"none", "running", "pid", "failed"}]
            /\ \A c \in Calls : result'[c] # "running"
        BY <2>a, <2>b, <3>1 DEF TypeOK
      <4> QED BY <2>a, <3>1, <4>1 DEF TypeOK, kernel
    <3>3. Quiesced' BY <2>a, <3>1 DEF Quiesced
    <3>4. \A end \in ChildEnds : <<me, end>> \notin held' BY <3>1 DEF ChildEnds
    <3> QED BY <3>1, <3>2, <3>3, <3>4, ParentStepKeeps
  <2>9. ASSUME NEW c \in Calls, CallerCloses(c) PROVE IInv'
    <3>1. UNCHANGED <<at, call, result, quiesced, proc, group, inherited, done, terminated>>
          /\ held' \subseteq held
      BY <2>9 DEF CallerCloses, kernel
    <3>2. TypeOK' BY <2>a, <3>1 DEF TypeOK
    <3> QED BY <2>a, <3>1, <3>2 DEF IInv, Alone, Quiesced, EndsPlaced, DeadHoldNothing,
                                    Dead, Unborn, Grouped
  <2>c. /\ proc \in [Procs -> {"none", "forked", "func", "zombie", "gone"}]
        /\ inherited \in [Procs -> SUBSET (Calls \X Ends)]
        /\ group \in [Procs -> {{}} \cup {{p} : p \in Procs}]
    BY <2>a DEF TypeOK
  <2>10. ASSUME NEW c \in Calls, ForkInner(c) PROVE IInv'
    <3>1. /\ proc[Child(c)] = "forked"
          /\ UNCHANGED <<forking, group, done, terminated>>
          /\ Child(c) \in Procs /\ Inner(c) \in Procs /\ Kid(c) \in Procs
          /\ Child(c) # Inner(c) /\ Kid(c) # Inner(c) /\ Kid(c) # Child(c)
      BY <2>10, ProcsOfCalls DEF ForkInner
    <3>2. \A p \in Procs :
            /\ p \notin {Child(c), Inner(c)} => UNCHANGED <<proc[p], inherited[p]>>
            /\ p = Child(c) => proc'[p] = "zombie" /\ inherited'[p] = {}
            /\ p = Inner(c) => \/ UNCHANGED <<proc[p], inherited[p]>>
                               \/ proc'[p] = "forked" /\ inherited'[p] = inherited[Child(c)]
      BY <2>10, <2>c, <3>1 DEF ForkInner
    <3>3. TypeOK'
      <4>1. /\ proc' \in [Procs -> {"none", "forked", "func", "zombie", "gone"}]
            /\ inherited' \in [Procs -> SUBSET (Calls \X Ends)]
        BY <2>10, <2>c, <3>1 DEF ForkInner
      <4> QED BY <2>a, <3>1, <4>1 DEF TypeOK, forking
    <3>4. DeadHoldNothing' BY <2>a, <3>1, <3>2 DEF DeadHoldNothing, Dead
    <3>5. Grouped'
      <4>1. ASSUME NEW d \in Calls, d # c
            PROVE  /\ proc'[Child(d)] = proc[Child(d)] /\ proc'[Inner(d)] = proc[Inner(d)]
                   /\ proc'[Kid(d)] = proc[Kid(d)]
        BY <3>2, <4>1, ProcsOfCalls DEF Child, Inner, Kid
      <4>2. proc'[Child(c)] = "zombie" /\ proc'[Kid(c)] = proc[Kid(c)] BY <3>1, <3>2
      <4>3. group' = group BY <3>1
      <4> QED BY <2>a, <4>1, <4>2, <4>3 DEF Grouped
    <3>6. \A p \in Procs : \A e \in inherited'[p] :
            \E q \in Procs : q[1] = p[1] /\ e \in inherited[q]
      BY <3>1, <3>2 DEF Child, Inner
    <3>7. \A d \in Calls : (\A r \in Roles : proc[<<d, r>>] = "none")
                           => \A r \in Roles : proc'[<<d, r>>] = "none"
      <4>1. ASSUME NEW d \in Calls, \A r \in Roles : proc[<<d, r>>] = "none"
            PROVE  \A r \in Roles : proc'[<<d, r>>] = "none"
        <5>1. d # c BY <3>1, <4>1 DEF Child, Roles
        <5> QED BY <3>2, <4>1, <5>1, ProcsOfCalls DEF Child, Inner
      <4> QED BY <4>1
    <3> QED BY <3>1, <3>3, <3>4, <3>5, <3>6, <3>7, ChildStepKeeps
  <2>11. ASSUME NEW p \in Procs, ChildStarts(p) PROVE IInv'
    <3>1. /\ proc[p] = "forked" /\ (p[2] = "child" => ~call[p[1]].double_fork)
          /\ proc' = [proc EXCEPT ![p] = "func"]
          /\ group' = [group EXCEPT ![p] = {p}]
          /\ UNCHANGED <<forking, done, terminated>>
      BY <2>11 DEF ChildStarts
    <3>a. inherited' = [inherited EXCEPT
            ![p] = inherited[p] \ {<<p[1], "parent_read">>, <<p[1], "parent_write">>}]
      BY <2>11 DEF ChildStarts
    <3>b. \A q \in Procs : proc'[q] = IF q = p THEN "func" ELSE proc[q] BY <2>c, <3>1
    <3>c. \A q \in Procs : group'[q] = IF q = p THEN {p} ELSE group[q] BY <2>c, <3>1
    <3>d. \A q \in Procs : inherited'[q] \subseteq inherited[q]
      <4>1. ASSUME NEW q \in Procs, q = p PROVE inherited'[q] \subseteq inherited[q]
        <5>1. inherited'[p]
                = inherited[p] \ {<<p[1], "parent_read">>, <<p[1], "parent_write">>}
          BY <2>c, <3>a
        <5> QED BY <4>1, <5>1
      <4>2. ASSUME NEW q \in Procs, q # p PROVE inherited'[q] = inherited[q]
        BY <2>c, <3>a, <4>2
      <4> QED BY <4>1, <4>2
    <3>3. TypeOK'
      <4>1. /\ proc' \in [Procs -> {"none", "forked", "func", "zombie", "gone"}]
            /\ group' \in [Procs -> {{}} \cup {{q} : q \in Procs}]
        BY <2>c, <3>1
      <4>2. inherited' \in [Procs -> SUBSET (Calls \X Ends)]
        BY <2>11, <2>c DEF ChildStarts
      <4> QED BY <2>a, <3>1, <4>1, <4>2 DEF TypeOK, forking
    <3>4. DeadHoldNothing'
      <4>1. ASSUME NEW q \in Procs, Dead(q)' PROVE inherited'[q] = {}
        <5>1. Dead(q) BY <3>b, <4>1 DEF Dead
        <5>2. inherited[q] = {} BY <2>a, <5>1 DEF DeadHoldNothing
        <5> QED BY <3>d, <5>2
      <4> QED BY <4>1 DEF DeadHoldNothing
    <3>5. Grouped'
      <4>1. ASSUME NEW c \in Calls
            PROVE  /\ proc'[Kid(c)] # "forked"
                   /\ proc'[Child(c)] = "forked" => proc'[Inner(c)] = "none" /\ proc'[Kid(c)] = "none"
                   /\ proc'[Child(c)] = "func" =>
                        /\ group'[Child(c)] = {Child(c)} /\ proc'[Inner(c)] = "none"
                        /\ proc'[Kid(c)] # "none" => group'[Kid(c)] = {Child(c)}
        <5>1. /\ Child(c) \in Procs /\ Inner(c) \in Procs /\ Kid(c) \in Procs
              /\ Child(c) # Inner(c) /\ Child(c) # Kid(c) /\ Inner(c) # Kid(c)
          BY ProcsOfCalls
        <5>2. /\ proc[Kid(c)] # "forked"
              /\ proc[Child(c)] = "forked" => proc[Inner(c)] = "none" /\ proc[Kid(c)] = "none"
              /\ proc[Child(c)] = "func" =>
                   /\ group[Child(c)] = {Child(c)} /\ proc[Inner(c)] = "none"
                   /\ proc[Kid(c)] # "none" => group[Kid(c)] = {Child(c)}
          BY <2>a DEF Grouped
        <5>3. CASE p = Child(c)
          <6>1. proc[Inner(c)] = "none" /\ proc[Kid(c)] = "none" BY <5>2, <5>3, <3>1
          <6>2. /\ proc'[Child(c)] = "func" /\ group'[Child(c)] = {Child(c)}
                /\ proc'[Inner(c)] = "none" /\ proc'[Kid(c)] = "none"
            BY <5>1, <5>3, <6>1, <3>b, <3>c
          <6> QED BY <6>2
        <5>4. CASE p = Inner(c)
          <6>1. proc[Child(c)] \notin {"forked", "func"} BY <5>2, <5>4, <3>1
          <6>2. proc'[Child(c)] = proc[Child(c)] /\ proc'[Kid(c)] = proc[Kid(c)]
            BY <5>1, <5>4, <3>b
          <6> QED BY <5>2, <6>1, <6>2
        <5>5. CASE p = Kid(c) BY <5>2, <5>5, <3>1
        <5>6. CASE p \notin {Child(c), Inner(c), Kid(c)}
          <6>1. /\ proc'[Child(c)] = proc[Child(c)] /\ group'[Child(c)] = group[Child(c)]
                /\ proc'[Inner(c)] = proc[Inner(c)]
                /\ proc'[Kid(c)] = proc[Kid(c)] /\ group'[Kid(c)] = group[Kid(c)]
            BY <5>1, <5>6, <3>b, <3>c
          <6> QED BY <5>2, <6>1
        <5> QED BY <5>3, <5>4, <5>5, <5>6
      <4> QED BY <4>1 DEF Grouped
    <3>6. \A q \in Procs : \A e \in inherited'[q] :
            \E s \in Procs : s[1] = q[1] /\ e \in inherited[s]
      BY <3>d
    <3>7. \A d \in Calls : (\A r \in Roles : proc[<<d, r>>] = "none")
                           => \A r \in Roles : proc'[<<d, r>>] = "none"
      BY <3>1, <3>b, ProcsOfCalls
    <3> QED BY <3>1, <3>3, <3>4, <3>5, <3>6, <3>7, ChildStepKeeps
  <2>12. ASSUME NEW c \in Calls, FuncSpawns(c) PROVE IInv'
    <3>1. /\ proc[Kid(c)] = "none" /\ proc' = [proc EXCEPT ![Kid(c)] = "func"]
          /\ UNCHANGED <<forking, done, terminated>>
          /\ Child(c) \in Procs /\ Inner(c) \in Procs /\ Kid(c) \in Procs
          /\ Child(c) # Inner(c) /\ Kid(c) # Inner(c) /\ Kid(c) # Child(c)
      BY <2>12, ProcsOfCalls DEF FuncSpawns
    <3>2. PICK p \in {Child(c), Inner(c)} :
            /\ proc[p] = "func"
            /\ group' = [group EXCEPT ![Kid(c)] = group[p]]
            /\ inherited' = [inherited EXCEPT ![Kid(c)] = inherited[p]]
      BY <2>12 DEF FuncSpawns
    <3>3. \A q \in Procs :
            /\ proc'[q] = IF q = Kid(c) THEN "func" ELSE proc[q]
            /\ group'[q] = IF q = Kid(c) THEN group[p] ELSE group[q]
            /\ inherited'[q] = IF q = Kid(c) THEN inherited[p] ELSE inherited[q]
      BY <2>c, <3>1, <3>2
    <3>4. TypeOK'
      <4>1. /\ proc' \in [Procs -> {"none", "forked", "func", "zombie", "gone"}]
            /\ group' \in [Procs -> {{}} \cup {{q} : q \in Procs}]
            /\ inherited' \in [Procs -> SUBSET (Calls \X Ends)]
        BY <2>c, <3>1, <3>2
      <4> QED BY <2>a, <3>1, <4>1 DEF TypeOK, forking
    <3>5. DeadHoldNothing' BY <2>a, <3>3 DEF DeadHoldNothing, Dead
    <3>6. Grouped'
      <4>1. ASSUME NEW d \in Calls, d # c
            PROVE  /\ proc'[Child(d)] = proc[Child(d)] /\ proc'[Inner(d)] = proc[Inner(d)]
                   /\ proc'[Kid(d)] = proc[Kid(d)]
                   /\ group'[Child(d)] = group[Child(d)] /\ group'[Kid(d)] = group[Kid(d)]
        BY <3>3, <4>1, ProcsOfCalls DEF Child, Inner, Kid
      <4>2. /\ proc'[Child(c)] = proc[Child(c)] /\ proc'[Inner(c)] = proc[Inner(c)]
            /\ group'[Child(c)] = group[Child(c)]
            /\ proc'[Kid(c)] = "func" /\ group'[Kid(c)] = group[p]
        BY <3>1, <3>3
      <4>3. proc[Child(c)] # "forked" BY <2>a, <3>2 DEF Grouped
      <4>4. proc[Child(c)] = "func" => p = Child(c) BY <2>a, <3>2 DEF Grouped
      <4> QED BY <2>a, <4>1, <4>2, <4>3, <4>4 DEF Grouped
    <3>7. \A q \in Procs : \A e \in inherited'[q] :
            \E s \in Procs : s[1] = q[1] /\ e \in inherited[s]
      <4>1. p \in Procs /\ p[1] = c /\ Kid(c)[1] = c
        BY <3>1, <3>2 DEF Child, Inner, Kid
      <4> QED BY <3>3, <4>1
    <3>8. \A d \in Calls : (\A r \in Roles : proc[<<d, r>>] = "none")
                           => \A r \in Roles : proc'[<<d, r>>] = "none"
      <4>1. ASSUME NEW d \in Calls, \A r \in Roles : proc[<<d, r>>] = "none"
            PROVE  \A r \in Roles : proc'[<<d, r>>] = "none"
        <5>1. d # c BY <3>2, <4>1 DEF Child, Inner, Roles
        <5> QED BY <3>3, <4>1, <5>1, ProcsOfCalls DEF Kid
      <4> QED BY <4>1
    <3> QED BY <3>1, <3>4, <3>5, <3>6, <3>7, <3>8, ChildStepKeeps
  <2>d. ASSUME UNCHANGED <<forking, group>>, TypeOK',
               \A q \in Procs : \/ UNCHANGED <<proc[q], inherited[q]>>
                                \/ /\ proc[q] # "none" /\ proc'[q] \in {"zombie", "gone"}
                                   /\ inherited'[q] = {}
        PROVE  IInv'
    <3>1. DeadHoldNothing' BY <2>a, <2>d DEF DeadHoldNothing, Dead
    <3>2. Grouped' BY <2>a, <2>d, ProcsOfCalls DEF Grouped
    <3>3. \A q \in Procs : \A e \in inherited'[q] :
            \E s \in Procs : s[1] = q[1] /\ e \in inherited[s]
      BY <2>d
    <3>4. \A d \in Calls : (\A r \in Roles : proc[<<d, r>>] = "none")
                           => \A r \in Roles : proc'[<<d, r>>] = "none"
      BY <2>d, ProcsOfCalls
    <3> QED BY <2>d, <3>1, <3>2, <3>3, <3>4, ChildStepKeeps
  <2>13. ASSUME NEW p \in Procs, FuncEnds(p) PROVE IInv'
    <3>1. /\ proc[p] = "func" /\ UNCHANGED <<forking, group, done, terminated>>
          /\ proc' = [proc EXCEPT ![p] = Remains(p)]
          /\ inherited' = [inherited EXCEPT ![p] = {}]
          /\ Remains(p) \in {"zombie", "gone"}
      BY <2>13 DEF FuncEnds, Remains
    <3>2. TypeOK' BY <2>a, <3>1 DEF TypeOK, forking
    <3> QED BY <2>c, <2>d, <3>1, <3>2
  <2>14. ASSUME NEW c \in Calls, isSubProcessDone(c) PROVE IInv'
    <3>1. /\ Child(c) \in Procs /\ proc[Child(c)] \in {"zombie", "gone"}
          /\ proc' = [proc EXCEPT ![Child(c)] = "gone"]
          /\ done' = done \cup {c}
          /\ UNCHANGED <<forking, group, inherited, terminated>>
      BY <2>14, ProcsOfCalls DEF isSubProcessDone, Collected
    <3>2. TypeOK' BY <2>a, <3>1 DEF TypeOK, forking
    <3>3. inherited[Child(c)] = {} BY <2>a, <3>1 DEF DeadHoldNothing, Dead
    <3> QED BY <2>c, <2>d, <3>1, <3>2, <3>3
  <2>15. ASSUME NEW c \in Calls, terminateSubProcess(c) PROVE IInv'
    <3>1. UNCHANGED <<forking, group>> /\ Child(c) \in Procs
      BY <2>15, ProcsOfCalls DEF terminateSubProcess
    <3>2. CASE Collected(c)
      <4>1. /\ proc[Child(c)] \in {"zombie", "gone"}
            /\ proc' = [proc EXCEPT ![Child(c)] = "gone"]
            /\ done' = done \cup {c} /\ UNCHANGED <<inherited, terminated>>
        BY <2>15, <3>2 DEF terminateSubProcess, Collected
      <4>2. TypeOK' BY <2>a, <3>1, <4>1 DEF TypeOK, forking
      <4>3. inherited[Child(c)] = {} BY <2>a, <3>1, <4>1 DEF DeadHoldNothing, Dead
      <4> QED BY <2>c, <2>d, <3>1, <4>1, <4>2, <4>3
    <3>3. CASE ~Collected(c)
      <4>1. /\ proc' = [p \in Procs |-> IF p \in Kills(c) THEN Remains(p) ELSE proc[p]]
            /\ inherited' = [p \in Procs |-> IF p \in Kills(c) THEN {} ELSE inherited[p]]
            /\ terminated' = terminated \cup {c} /\ UNCHANGED done
        BY <2>15, <3>3 DEF terminateSubProcess
      <4>2. \A p \in Procs : Remains(p) \in {"zombie", "gone"} BY DEF Remains
      <4>3. TypeOK'
        <5>1. /\ proc' \in [Procs -> {"none", "forked", "func", "zombie", "gone"}]
              /\ inherited' \in [Procs -> SUBSET (Calls \X Ends)]
          BY <2>c, <4>1, <4>2
        <5> QED BY <2>a, <3>1, <4>1, <5>1 DEF TypeOK, forking
      <4>4. \A p \in Kills(c) : proc[p] # "none" BY DEF Kills, Dead
      <4> QED BY <2>d, <3>1, <4>1, <4>2, <4>3, <4>4
    <3> QED BY <3>2, <3>3
  <2>16. CASE UNCHANGED vars
    <3>1. UNCHANGED <<at, call, result, quiesced, held, proc, group, inherited, done,
                      terminated>>
      BY <2>16 DEF vars
    <3> QED BY <2>a, <3>1 DEF IInv, TypeOK, Alone, Quiesced, EndsPlaced, DeadHoldNothing,
                              Dead, Unborn, Grouped
  <2> QED BY <2>1, <2>2, <2>3, <2>4, <2>5, <2>6, <2>7, <2>8, <2>9, <2>10, <2>11, <2>12,
             <2>13, <2>14, <2>15, <2>16 DEF Next, ChildStep
<1> QED BY <1>1, <1>2, PTL DEF Spec

\* Whatever fails, the subsystems stopped for a fork run again afterwards.
THEOREM AlwaysRestarted == Spec => []HooksRestarted
<1>1. IInv => HooksRestarted BY DEF IInv, Quiesced, HooksRestarted
<1> QED BY <1>1, Invariance, PTL

\* No process of another call keeps a pipe's end open, so readers see its end.
THEOREM PipesEnd == Spec => []EndOfPipe
<1>1. IInv => EndOfPipe
  <2> SUFFICES ASSUME IInv, NEW c \in Calls, result[c] = "pid", Ended(c),
                      NEW end \in ChildEnds
               PROVE  /\ <<c, end>> \notin held
                      /\ \A p \in Procs : <<c, end>> \notin inherited[p]
    BY DEF EndOfPipe, ChildEnds
  <2>1. <<c, end>> \notin held BY DEF IInv, EndsPlaced
  <2>2. ASSUME NEW p \in Procs, <<c, end>> \in inherited[p] PROVE FALSE
    <3>1. p[1] = c BY <2>2 DEF IInv, EndsPlaced
    <3>2. Dead(p) BY <3>1, ProcsOfCalls DEF Ended
    <3> QED BY <2>2, <3>2 DEF IInv, DeadHoldNothing
  <2> QED BY <2>1, <2>2
<1> QED BY <1>1, Invariance, PTL

\* A kill of a child that runs func reaches all that it started.
THEOREM KillsReachAll == Spec => KillsAll
<1> DEFINE Killed(c) == c \in terminated' \ terminated /\ proc[Child(c)] = "func"
                          => \A r \in Roles : Dead(<<c, r>>)'
<1>1. IInv /\ [Next]_vars => [\A c \in Calls : Killed(c)]_vars
  <2> SUFFICES ASSUME IInv, Next, NEW c \in Calls, c \in terminated' \ terminated,
                      proc[Child(c)] = "func"
               PROVE  \A r \in Roles : Dead(<<c, r>>)'
    OBVIOUS
  <2>1. terminateSubProcess(c)
    <3>1. terminated' # terminated OBVIOUS
    <3>2. PICK d \in Calls : terminateSubProcess(d)
      <4>1. ~(Pipe \/ Pipe2 \/ BeforeFork \/ Fork \/ AfterFork \/ ReapOuter \/ Close)
        BY <3>1 DEF Pipe, Pipe2, BeforeFork, Fork, AfterFork, ReapOuter, Close
      <4>2. ~\E e \in Calls, with_pipe \in {"no", "yes", "bidi"}, double_fork \in BOOLEAN :
              runInSubProcess(e, with_pipe, double_fork)
        BY <3>1 DEF runInSubProcess
      <4>3. ~\E e \in Calls : CallerCloses(e) \/ isSubProcessDone(e) \/ FuncSpawns(e)
        BY <3>1 DEF CallerCloses, isSubProcessDone, FuncSpawns
      <4>4. ~ChildStep /\ ~\E p \in Procs : FuncEnds(p)
        BY <3>1 DEF ChildStep, ForkInner, ChildStarts, FuncEnds
      <4> QED BY <4>1, <4>2, <4>3, <4>4 DEF Next
    <3>3. d = c BY <3>1, <3>2 DEF terminateSubProcess
    <3> QED BY <3>2, <3>3
  <2>2. /\ group[Child(c)] = {Child(c)} /\ proc[Inner(c)] = "none"
        /\ proc[Kid(c)] # "none" => group[Kid(c)] = {Child(c)}
    BY DEF IInv, Grouped
  <2>3. proc' = [p \in Procs |-> IF p \in Kills(c) THEN Remains(p) ELSE proc[p]]
    BY <2>1 DEF terminateSubProcess, Collected
  <2>4. \A p \in Procs : Remains(p) \in {"zombie", "gone"} BY DEF Remains
  <2>5. \A p \in {Child(c), Inner(c), Kid(c)} : p \in Kills(c) \/ Dead(p)
    BY <2>2, ProcsOfCalls DEF Kills, Dead
  <2>6. \A p \in {Child(c), Inner(c), Kid(c)} : Dead(p)'
    BY <2>3, <2>4, <2>5, ProcsOfCalls DEF Dead
  <2> QED BY <2>6 DEF Roles, Child, Inner, Kid
<1> QED BY <1>1, Invariance, PTL DEF Spec, KillsAll
=============================================================================
