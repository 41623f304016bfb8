-------------------------- MODULE UpdaterIPCProofs --------------------------
(***************************************************************************)
(* The theorem about remote calls, for any number of them and for methods  *)
(* that report any number of times.                                        *)
(***************************************************************************)
EXTENDS UpdaterIPC, SequenceTheorems, TLAPS

Writes == [part : {"length", "body"}, msg : Messages]

\* From the drain to its end a call owns what is in the pipes: lengths and
\* bodies take turns in up, all of them its own, and a body is to come when
\* the child is between its two writes.
Active == parent.at \in {"send", "progress", "outcome"}

InTurn(pipe) ==
  \A i \in 1 .. Len(pipe) :
    pipe[i].msg.call = parent.call /\ (pipe[i].part = "length" <=> i % 2 = 1)

Owned ==
  /\ InTurn(up)
  /\ child.at # "exited" =>
       (Len(up) % 2 = 1 <=> child.at \in {"reportBody", "replyBody"})
  /\ child.at \notin {"recv", "exited"} => child.request.call = parent.call
  /\ \A i \in 1 .. Len(down) : down[i].call = parent.call
  /\ parent.at = "send" => /\ child.at \in {"recv", "exited"}
                           /\ down = <<>> /\ up = <<>>

IInv == /\ TypeOK /\ OwnAnswers /\ (Active /\ ~overlap => Owned)
        /\ child.at \notin {"recv", "exited"} => child.request.call # 0

-----------------------------------------------------------------------------

\* What the child sends is a message, of the call it works for.
LEMMA OutgoingIsMessage ==
  ASSUME TypeOK, child.request.call # 0
  PROVE  Outgoing \in Messages /\ Outgoing.call = child.request.call
<1>1. child.request.call \in Calls
  BY BoundsAssumption DEF TypeOK, Requests, Calls
<1>2. child.ok \in BOOLEAN BY DEF TypeOK
<1> QED BY <1>1, <1>2 DEF Outgoing, Messages

\* The rest of a pipe, after a length and a body, still takes turns.
LEMMA RestInTurn ==
  ASSUME NEW pipe \in Seq(Writes), Len(pipe) >= 2, InTurn(pipe)
  PROVE  /\ SubSeq(pipe, 3, Len(pipe)) \in Seq(Writes)
         /\ Len(SubSeq(pipe, 3, Len(pipe))) % 2 = Len(pipe) % 2
         /\ InTurn(SubSeq(pipe, 3, Len(pipe)))
<1> DEFINE rest == SubSeq(pipe, 3, Len(pipe))
<1>1. /\ Len(pipe) \in Nat /\ rest \in Seq(Writes) /\ Len(rest) = Len(pipe) - 2
      /\ \A i \in 1 .. Len(rest) : rest[i] = pipe[i + 2] /\ i + 2 \in 1 .. Len(pipe)
  <2>1. Len(pipe) \in Int /\ \A i \in 3 .. Len(pipe) : pipe[i] \in Writes
    <3>1. \A i \in 1 .. Len(pipe) : pipe[i] \in Writes BY LenProperties
    <3> QED BY <3>1, LenProperties
  <2>2. /\ rest \in Seq(Writes)
        /\ Len(rest) = IF 3 <= Len(pipe) THEN Len(pipe) - 3 + 1 ELSE 0
        /\ \A i \in 1 .. Len(pipe) - 3 + 1 : rest[i] = pipe[3 + i - 1]
    BY <2>1, SubSeqProperties
  <2> HIDE DEF rest
  <2>3. Len(rest) = Len(pipe) - 2
    <3>1. CASE 3 <= Len(pipe) BY <2>1, <2>2, <3>1
    <3>2. CASE Len(pipe) = 2
      <4>1. ~(3 <= Len(pipe)) /\ 0 = Len(pipe) - 2 BY <3>2
      <4>2. Len(rest) = 0 BY <2>2, <4>1
      <4> QED BY <4>1, <4>2
    <3>3. 3 <= Len(pipe) \/ Len(pipe) = 2
      <4>1. \A n \in Int : n >= 2 => 3 <= n \/ n = 2 OBVIOUS
      <4>2. Len(pipe) \in Int /\ Len(pipe) >= 2 BY LenProperties
      <4> QED BY <4>1, <4>2, Zenon
    <3> QED BY <3>1, <3>2, <3>3
  <2>4. ASSUME NEW i \in 1 .. Len(rest)
        PROVE  rest[i] = pipe[i + 2] /\ i + 2 \in 1 .. Len(pipe)
    <3>1. i \in 1 .. Len(pipe) - 3 + 1 /\ 3 + i - 1 = i + 2 BY <2>1, <2>3
    <3> QED BY <2>1, <2>2, <2>3, <3>1
  <2>5. Len(pipe) \in Nat BY LenProperties
  <2> QED BY <2>2, <2>3, <2>4, <2>5
<1>2. \A i \in Nat : (i + 2) % 2 = i % 2 OBVIOUS
<1>3. \A i \in 1 .. Len(rest) : i \in Nat BY <1>1
<1>4. (Len(pipe) - 2) % 2 = Len(pipe) % 2 BY <1>1
<1> HIDE DEF rest
<1>5. InTurn(rest) BY <1>1, <1>2, <1>3 DEF InTurn
<1> QED BY <1>1, <1>4, <1>5 DEF rest

\* A write in turn.
LEMMA NextInTurn ==
  ASSUME NEW pipe \in Seq(Writes), InTurn(pipe), NEW w \in Writes,
         w.msg.call = parent.call, w.part = "length" <=> Len(pipe) % 2 = 0
  PROVE  /\ Append(pipe, w) \in Seq(Writes)
         /\ Len(Append(pipe, w)) = Len(pipe) + 1 /\ Len(pipe) \in Nat
         /\ InTurn(Append(pipe, w))
<1> DEFINE more == Append(pipe, w)
<1>1. /\ Len(pipe) \in Nat /\ more \in Seq(Writes) /\ Len(more) = Len(pipe) + 1
      /\ \A i \in 1 .. Len(pipe) : more[i] = pipe[i]
      /\ more[Len(pipe) + 1] = w
  OBVIOUS
<1>2. (Len(pipe) + 1) % 2 = 1 <=> Len(pipe) % 2 = 0 BY <1>1
<1>3. \A i \in 1 .. Len(more) : i \in 1 .. Len(pipe) \/ i = Len(pipe) + 1 BY <1>1
<1> HIDE DEF more
<1>4. InTurn(more) BY <1>1, <1>2, <1>3 DEF InTurn
<1> QED BY <1>1, <1>4 DEF more

\* The parent takes a message: it is of its call.
LEMMA ReceivesOwn ==
  ASSUME IInv, NEW m \in Messages, Receives(m)
  PROVE  /\ up' \in Seq(Writes) /\ wrong' \in BOOLEAN
         /\ wrong' => overlap
         /\ ~overlap => Owned /\ InTurn(up') /\ Len(up') % 2 = Len(up) % 2
<1>1. /\ up \in Seq(Writes) /\ Len(up) >= 2 /\ up' = SubSeq(up, 3, Len(up))
      /\ up[1] = [part |-> "length", msg |-> m]
      /\ wrong' = (wrong \/ m.call # parent.call)
  BY DEF IInv, TypeOK, Receives, Writes
<1>2. up' \in Seq(Writes) BY <1>1
<1>3. ~overlap => Owned BY DEF IInv, Active, Receives, Waiting
<1>4. ~overlap => m.call = parent.call
  <2> SUFFICES ASSUME ~overlap PROVE m.call = parent.call OBVIOUS
  <2>1. up[1].msg.call = parent.call BY <1>1, <1>3 DEF Owned, InTurn
  <2> QED BY <1>1, <2>1
<1>5. ~overlap => InTurn(up') /\ Len(up') % 2 = Len(up) % 2
  BY <1>1, <1>3, RestInTurn DEF Owned
<1>6. wrong' => overlap BY <1>1, <1>4 DEF IInv, OwnAnswers
<1>7. wrong' \in BOOLEAN BY <1>1, Zenon DEF IInv, TypeOK
<1> QED BY <1>2, <1>3, <1>5, <1>6, <1>7

-----------------------------------------------------------------------------

\* Every step of the parent and of the child keeps what a call owns.
LEMMA StepKeepsIInv == IInv /\ [Next]_vars => IInv'
<1> SUFFICES ASSUME IInv, [Next]_vars PROVE IInv' OBVIOUS
<1> USE DEF Writes
<1>a. /\ TypeOK /\ OwnAnswers /\ (Active /\ ~overlap => Owned)
      /\ child.at \notin {"recv", "exited"} => child.request.call # 0
  BY DEF IInv
<1>b. /\ down \in Seq(Requests) /\ up \in Seq(Writes) /\ wrong \in BOOLEAN
      /\ overlap \in BOOLEAN /\ parent.call \in 0 .. MaxCalls /\ MaxCalls \in Nat
  BY <1>a, BoundsAssumption DEF TypeOK
<1>1. ASSUME NEW with_progress \in BOOLEAN, CallStart(with_progress) PROVE IInv'
  <2>1. parent' = [at |-> "drain", call |-> parent.call + 1,
                   with_progress |-> with_progress] /\ parent.call + 1 \in 0 .. MaxCalls
    BY <1>1, <1>b DEF CallStart
  <2>2. ~Active' BY <2>1 DEF Active
  <2>3. TypeOK' BY <1>1, <1>a, <2>1 DEF CallStart, TypeOK
  <2> QED BY <1>1, <1>a, <2>2, <2>3 DEF CallStart, IInv, OwnAnswers
<1>2. CASE FreeStart
  <2>1. /\ parent' = [parent EXCEPT !.at = "freeing"] /\ parent'.at = "freeing"
        /\ UNCHANGED <<abort_flag, up, child, wrong, overlap>>
    BY <1>2, <1>a DEF FreeStart, TypeOK
  <2>2. [call |-> 0, with_progress |-> FALSE] \in Requests BY <1>b DEF Requests
  <2>3. down' \in Seq(Requests) BY <1>2, <1>b, <2>2 DEF FreeStart
  <2>4. TypeOK' BY <1>a, <2>1, <2>3 DEF TypeOK
  <2> QED BY <1>a, <2>1, <2>4 DEF IInv, OwnAnswers, Active
<1>3. CASE CallDrain
  <2>1. /\ parent' = [parent EXCEPT !.at = "send"] /\ parent'.at = "send" /\ up' = <<>>
        /\ overlap' = (overlap \/ Busy)
        /\ UNCHANGED <<abort_flag, down, child, wrong>>
    BY <1>3, <1>a DEF CallDrain, TypeOK
  <2>2. overlap' \in BOOLEAN BY <1>b, <2>1, Zenon DEF Busy
  <2>3. TypeOK' BY <1>a, <2>1, <2>2 DEF TypeOK
  <2>4. OwnAnswers' BY <1>a, <2>1 DEF OwnAnswers
  <2>5. ~overlap' => Owned'
    <3> SUFFICES ASSUME ~overlap' PROVE Owned' OBVIOUS
    <3>1. child.at \in {"recv", "exited"} /\ down = <<>> BY <2>1 DEF Busy
    <3>2. Len(up') = 0 /\ Len(down') = 0 BY <2>1, <3>1
    <3> QED BY <2>1, <3>1, <3>2 DEF Owned, InTurn
  <2> QED BY <1>a, <2>1, <2>3, <2>4, <2>5 DEF IInv
<1>4. CASE CallSend
  <2> DEFINE request == [call |-> parent.call, with_progress |-> parent.with_progress]
  <2>1. /\ parent.at = "send" /\ down' = Append(down, request)
        /\ parent' = [parent EXCEPT !.at =
                        IF parent.with_progress THEN "progress" ELSE "outcome"]
        /\ UNCHANGED <<abort_flag, up, child, wrong, overlap>>
    BY <1>4 DEF CallSend
  <2>2. parent'.call = parent.call /\ parent'.at \in {"progress", "outcome"}
        /\ parent' \in [at : {"idle", "drain", "send", "progress", "outcome",
                               "garbled", "freeing", "freed"},
                         call : 0 .. MaxCalls, with_progress : BOOLEAN]
    BY <1>a, <2>1 DEF TypeOK
  <2>3. request \in Requests BY <1>a DEF TypeOK, Requests
  <2>4. down' \in Seq(Requests) BY <1>b, <2>1, <2>3
  <2>5. TypeOK' BY <1>a, <2>1, <2>2, <2>4 DEF TypeOK
  <2>6. ASSUME ~overlap' PROVE Owned'
    <3>1. Owned /\ down = <<>> BY <1>a, <2>1, <2>6 DEF Active, Owned
    <3>2. Len(down') = 1 /\ down'[1].call = parent.call BY <2>1, <3>1
    <3> QED BY <2>1, <2>2, <3>1, <3>2 DEF Owned, InTurn
  <2> QED BY <1>a, <2>1, <2>5, <2>6 DEF IInv, OwnAnswers
<1>5. CASE CallSendRaises \/ FreeEnd
  <2>1. /\ parent'.at \in {"idle", "freed"}
        /\ parent' \in [at : {"idle", "drain", "send", "progress", "outcome",
                               "garbled", "freeing", "freed"},
                         call : 0 .. MaxCalls, with_progress : BOOLEAN]
        /\ UNCHANGED <<abort_flag, down, up, child, wrong, overlap>>
    BY <1>5, <1>a DEF CallSendRaises, FreeEnd, TypeOK
  <2>2. TypeOK' BY <1>a, <2>1 DEF TypeOK
  <2> QED BY <1>a, <2>1, <2>2 DEF IInv, OwnAnswers, Active
<1>6. CASE RecvGarbled
  <2>1. Active /\ up # <<>> /\ up[1].part = "body" BY <1>6 DEF RecvGarbled, Waiting, Active
  <2>2. 1 \in 1 .. Len(up) BY <1>b, <2>1
  <2>3. overlap BY <1>a, <2>1, <2>2 DEF Owned, InTurn
  <2>4. /\ parent' \in [at : {"idle", "drain", "send", "progress", "outcome",
                               "garbled", "freeing", "freed"},
                         call : 0 .. MaxCalls, with_progress : BOOLEAN]
        /\ wrong' = TRUE /\ UNCHANGED <<abort_flag, down, up, child, overlap>>
    BY <1>6, <1>a DEF RecvGarbled, TypeOK
  <2>5. TypeOK' BY <1>a, <2>4 DEF TypeOK
  <2> QED BY <1>a, <2>3, <2>4, <2>5 DEF IInv, OwnAnswers
<1>7. CASE RecvShort
  <2>1. /\ parent'.at = "idle" /\ up' = <<>>
        /\ parent' \in [at : {"idle", "drain", "send", "progress", "outcome",
                               "garbled", "freeing", "freed"},
                         call : 0 .. MaxCalls, with_progress : BOOLEAN]
        /\ UNCHANGED <<abort_flag, down, child, wrong, overlap>>
    BY <1>7, <1>a DEF RecvShort, TypeOK
  <2>2. TypeOK' BY <1>a, <2>1 DEF TypeOK
  <2> QED BY <1>a, <2>1, <2>2 DEF IInv, OwnAnswers, Active
<1>8. ASSUME NEW m \in Messages,
             RecvError(m) \/ RecvOutcome(m) \/ RecvProgress(m) \/ RecvCancel(m)
      PROVE  IInv'
  <2>1. Receives(m) BY <1>8 DEF RecvError, RecvOutcome, RecvProgress, RecvCancel
  <2>2. /\ parent'.at \in {"idle", "progress", "outcome"} /\ parent'.call = parent.call
        /\ parent' \in [at : {"idle", "drain", "send", "progress", "outcome",
                               "garbled", "freeing", "freed"},
                         call : 0 .. MaxCalls, with_progress : BOOLEAN]
        /\ abort_flag' \in {0, 1} /\ UNCHANGED <<down, child, overlap>>
    BY <1>8, <1>a DEF RecvError, RecvOutcome, RecvProgress, RecvCancel, TypeOK
  <2>3. /\ up' \in Seq(Writes) /\ wrong' \in BOOLEAN /\ (wrong' => overlap)
        /\ ~overlap => Owned /\ InTurn(up') /\ Len(up') % 2 = Len(up) % 2
    BY <2>1, ReceivesOwn
  <2>4. TypeOK' BY <1>a, <2>2, <2>3 DEF TypeOK
  <2>5. ~overlap' => Owned' BY <2>2, <2>3 DEF Owned, InTurn
  <2> QED BY <1>a, <2>2, <2>3, <2>4, <2>5 DEF IInv, OwnAnswers
<1>9. CASE ChildRecv
  <2>1. /\ child.at = "recv" /\ down # <<>> /\ down' = Tail(down)
        /\ child' = [at |-> IF Head(down).call = 0 THEN "exited" ELSE "method",
                     request |-> Head(down), count |-> 0, ok |-> TRUE]
        /\ UNCHANGED <<abort_flag, up, parent, wrong, overlap>>
    BY <1>9 DEF ChildRecv
  <2>2. /\ Head(down) \in Requests /\ down' \in Seq(Requests)
        /\ Len(down) \in Nat /\ 1 \in 1 .. Len(down) /\ Head(down) = down[1]
        /\ \A i \in 1 .. Len(down') : down'[i] = down[i + 1] /\ i + 1 \in 1 .. Len(down)
    BY <1>b, <2>1
  <2>3. 0 \in 0 .. Total BY BoundsAssumption
  <2>4. TypeOK' BY <1>a, <2>1, <2>2, <2>3 DEF TypeOK
  <2>5. /\ child'.at \in {"exited", "method"} /\ child'.request = Head(down)
        /\ child'.at = "method" => Head(down).call # 0
    BY <2>1
  <2>6. ASSUME Active', ~overlap' PROVE Owned'
    <3>1. Owned /\ parent.at # "send" BY <1>a, <2>1, <2>6 DEF Active, Owned
    <3> QED BY <2>1, <2>2, <2>5, <3>1 DEF Owned, InTurn
  <2> QED BY <1>a, <2>1, <2>4, <2>5, <2>6 DEF IInv, OwnAnswers
<1>10. CASE ChildCounts \/ ChildCheck \/ ChildMethodEnds \/ ChildDies
  <2>1. UNCHANGED <<abort_flag, down, up, parent, wrong, overlap>>
    BY <1>10 DEF ChildCounts, ChildCheck, ChildMethodEnds, ChildDies
  <2>2. child' \in [at : {"recv", "method", "report", "reportBody", "check",
                          "reply", "replyBody", "exited"},
                    request : Requests, count : 0 .. Total, ok : BOOLEAN]
    <3> SUFFICES ASSUME child \in [at : {"recv", "method", "report", "reportBody", "check",
                                       "reply", "replyBody", "exited"},
                                 request : Requests, count : 0 .. Total, ok : BOOLEAN]
                 PROVE  child' \in [at : {"recv", "method", "report", "reportBody", "check",
                                        "reply", "replyBody", "exited"},
                                  request : Requests, count : 0 .. Total, ok : BOOLEAN]
      BY <1>a DEF TypeOK
    <3>1. CASE ChildCounts
      <4>1. child.count + 1 \in 0 .. Total BY <3>1, BoundsAssumption DEF ChildCounts
      <4> QED BY <3>1, <4>1 DEF ChildCounts
    <3>2. CASE ChildCheck BY <3>2 DEF ChildCheck
    <3>3. CASE ChildMethodEnds BY <3>3 DEF ChildMethodEnds
    <3>4. CASE ChildDies BY <3>4 DEF ChildDies
    <3> QED BY <1>10, <3>1, <3>2, <3>3, <3>4
  <2>3. /\ child'.request = child.request
        /\ \/ child'.at = "exited"
           \/ /\ child.at \in {"method", "check"}
              /\ child'.at \in {"method", "report", "check", "reply"}
    BY <1>10, <1>a DEF ChildCounts, ChildCheck, ChildMethodEnds, ChildDies, TypeOK
  <2>4. TypeOK' BY <1>a, <2>1, <2>2 DEF TypeOK
  <2>5. ASSUME Active', ~overlap' PROVE Owned'
    <3>1. Owned BY <1>a, <2>1, <2>5 DEF Active
    <3> QED BY <2>1, <2>3, <3>1 DEF Owned, InTurn
  <2> QED BY <1>a, <2>1, <2>3, <2>4, <2>5 DEF IInv, OwnAnswers
<1>11. CASE ChildSends
  <2>1. PICK part \in {"length", "body"} :
          /\ child.at \in IF part = "length" THEN {"report", "reply"}
                                             ELSE {"reportBody", "replyBody"}
          /\ up' = Append(up, [part |-> part, msg |-> Outgoing])
          /\ child' = [child EXCEPT !.at = CASE @ = "report"     -> "reportBody"
                                             [] @ = "reportBody" -> "check"
                                             [] @ = "reply"      -> "replyBody"
                                             [] @ = "replyBody"  -> "recv"]
          /\ UNCHANGED <<abort_flag, down, parent, wrong, overlap>>
    BY <1>11 DEF ChildSends
  <2>2. Outgoing \in Messages /\ Outgoing.call = child.request.call
    BY <1>a, <2>1, OutgoingIsMessage
  <2> DEFINE w == [part |-> part, msg |-> Outgoing]
  <2>3. w \in Writes /\ up' = Append(up, w) /\ up' \in Seq(Writes) BY <1>b, <2>1, <2>2
  <2>4. /\ child'.request = child.request
        /\ part = "length" => child'.at \in {"reportBody", "replyBody"}
        /\ part = "body" => child'.at \in {"check", "recv"}
        /\ child' \in [at : {"recv", "method", "report", "reportBody", "check",
                             "reply", "replyBody", "exited"},
                       request : Requests, count : 0 .. Total, ok : BOOLEAN]
    BY <1>a, <2>1 DEF TypeOK
  <2>5. TypeOK' BY <1>a, <2>1, <2>3, <2>4 DEF TypeOK
  <2>6. ASSUME Active', ~overlap' PROVE Owned'
    <3>1. Owned BY <1>a, <2>1, <2>6 DEF Active
    <3>2. w.msg.call = parent.call /\ parent.at # "send" BY <2>1, <2>2, <3>1 DEF Owned
    <3>3. w.part = "length" <=> Len(up) % 2 = 0 BY <1>b, <2>1, <3>1 DEF Owned
    <3> HIDE DEF w
    <3>4. InTurn(up') /\ Len(up') = Len(up) + 1 /\ Len(up) \in Nat
      BY <1>b, <2>3, <3>1, <3>2, <3>3, NextInTurn DEF Owned
    <3>5. Len(up') % 2 = 1 <=> part = "length"
      <4>1. w.part = part BY DEF w
      <4> QED BY <3>3, <3>4, <4>1
    <3> QED BY <2>1, <2>4, <3>1, <3>2, <3>4, <3>5 DEF Owned, InTurn
  <2> QED BY <1>a, <2>1, <2>4, <2>5, <2>6 DEF IInv, OwnAnswers
<1>12. CASE UNCHANGED vars
  BY <1>12, <1>a DEF vars, IInv, TypeOK, OwnAnswers, Active, Owned, InTurn
<1> QED BY <1>1, <1>2, <1>3, <1>4, <1>5, <1>6, <1>7, <1>8, <1>9, <1>10, <1>11, <1>12
        DEF Next, ParentStep, ChildStep

\* Calls take only messages of their own for answers, unless they overlap.
THEOREM AnswersAreOwn == Spec => []OwnAnswers
<1>1. Init => IInv
  <2> SUFFICES ASSUME Init PROVE IInv OBVIOUS
  <2>1. parent.call \in 0 .. MaxCalls /\ child.count \in 0 .. Total
        /\ child.request \in Requests
    BY BoundsAssumption DEF Init, Requests
  <2>2. down \in Seq(Requests) /\ up \in Seq(Writes) BY DEF Init
  <2>3. TypeOK BY <2>1, <2>2 DEF Init, TypeOK, Writes
  <2> QED BY <2>3 DEF Init, IInv, OwnAnswers, Active
<1>2. IInv => OwnAnswers BY DEF IInv
<1> QED BY <1>1, <1>2, StepKeepsIInv, PTL DEF Spec
=============================================================================
