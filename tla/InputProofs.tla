----------------------------- MODULE InputProofs -----------------------------
(***************************************************************************)
(* The theorems about input: the event loop and its timers, for any        *)
(* descriptors, slots, timer nodes and buffer, and the pointers of the SDL *)
(* front end, for any fingers, pens and clock.                             *)
(***************************************************************************)
EXTENDS Input, SDLInput, FiniteSetTheorems, WellFoundedInduction, TLAPS

-----------------------------------------------------------------------------
(* Extrema.                                                                *)

LEMMA MinOfNats ==
  ASSUME NEW S \in SUBSET Nat, S # {}
  PROVE  Min(S) \in S /\ \A y \in S : Min(S) <= y
<1>1. \E x \in S : \A y \in S : ~(<<y, x>> \in OpToRel(<, Nat))
  BY NatLessThanWellFounded, WFMin
<1>2. \A x, y \in Nat : <<y, x>> \in OpToRel(<, Nat) <=> y < x BY DEF OpToRel
<1>3. PICK x \in S : \A y \in S : ~(<<y, x>> \in OpToRel(<, Nat)) BY <1>1
<1>4. \A y \in S : y \in Nat /\ ~(y < x) BY <1>2, <1>3
<1>5. \A y \in S : x <= y BY <1>4
<1> QED BY <1>5 DEF Min

\* A set of numbers below a bound has a largest one.
LEMMA MaxBelow ==
  ASSUME NEW bound \in Nat, NEW S \in SUBSET (0 .. bound), S # {}
  PROVE  Max(S) \in S /\ \A y \in S : Max(S) >= y
<1> DEFINE T == {bound - x : x \in S}
<1>0. \A x \in S : x \in Int /\ bound - x \in Nat OBVIOUS
<1>1. T \in SUBSET Nat /\ T # {} BY <1>0
<1>2. PICK t \in T : \A u \in T : t <= u BY <1>1, MinOfNats
<1>3. PICK x \in S : t = bound - x BY <1>2
<1>4. ASSUME NEW y \in S PROVE x >= y
  <2>1. bound - x <= bound - y BY <1>2, <1>3
  <2>2. x \in Int /\ y \in Int BY <1>0
  <2> QED BY <2>1, <2>2
<1> QED BY <1>4 DEF Max

\* nfds is above every descriptor it is computed from.
LEMMA NfdsAbove ==
  ASSUME NEW inputs \in SUBSET Fds, NEW timerfds \in SUBSET Fds
  PROVE  /\ computeNfds(inputs, timerfds) \in {0} \cup {fd + 1 : fd \in Fds}
         /\ \A fd \in inputs \cup timerfds : fd < computeNfds(inputs, timerfds)
<1> DEFINE S == {0} \cup {fd + 1 : fd \in inputs \cup timerfds}
<1>1. FdSetSize \in Nat /\ \A fd \in Fds : fd \in 0 .. FdSetSize - 1
  BY InputAssumption
<1>2. S \in SUBSET (0 .. FdSetSize) /\ S # {} BY <1>1
<1>3. Max(S) \in S /\ \A y \in S : Max(S) >= y BY <1>1, <1>2, MaxBelow
<1>4. computeNfds(inputs, timerfds) = Max(S) BY DEF computeNfds
<1>5. ASSUME NEW fd \in inputs \cup timerfds PROVE fd < Max(S)
  <2>1. fd + 1 \in S /\ fd \in Int BY <1>1
  <2>2. Max(S) \in Int BY <1>2, <1>3
  <2> QED BY <1>3, <2>1, <2>2
<1>6. Max(S) \in {0} \cup {fd + 1 : fd \in Fds} BY <1>3
<1> QED BY <1>4, <1>5, <1>6

-----------------------------------------------------------------------------
(* The timer list.                                                         *)

Used == {n \in Nodes : node[n] # NoNode}

\* What a walk meets is in every set that the links do not lead out of.
Closed(S) == /\ head # 0 => head \in S
             /\ \A m \in S : node[m].next # 0 => node[m].next \in S

LeastClosed ==
  /\ Listed \subseteq Nodes
  /\ \A S \in SUBSET Nodes : Closed(S) => Listed \subseteq S
  /\ \A n \in Nodes : (\A S \in SUBSET Nodes : Closed(S) => n \in S) => n \in Listed

LEMMA ListedIsLeast == LeastClosed
<1>1. \A S : S \ {} = S OBVIOUS
<1> QED BY <1>1 DEF LeastClosed, Listed, Walked, Closed

LEMMA NextListedIsLeast == LeastClosed'
<1>1. \A S : S \ {} = S OBVIOUS
<1> QED BY <1>1 DEF LeastClosed, Listed, Walked, Closed

NodesTyped == /\ {head, tail} \subseteq Nodes \cup {0}
              /\ node \in [Nodes -> [fd : Fds \cup {-1}, next : Nodes \cup {0},
                                     prev : Nodes \cup {0}]]
              /\ \A n \in Used : node[n].fd \in Fds

\* No nodes of the list have only each other before them.
LEMMA NoLoop ==
  ASSUME NodesTyped, TimerListIntact, NEW C \in SUBSET Used,
         \A c \in C : node[c].prev \in C
  PROVE  C = {}
<1> DEFINE S == Used \ C
<1>1. Used = Listed /\ S \in SUBSET Nodes BY DEF Used, TimerListIntact
<1>2. 0 \notin Nodes BY InputAssumption
<1>3. head # 0 => head \in S
  <2> SUFFICES ASSUME head # 0 PROVE head \in S OBVIOUS
  <2>1. head \in Nodes BY DEF NodesTyped
  <2>2. head \in Listed
    <3>1. \A T \in SUBSET Nodes : Closed(T) => head \in T BY DEF Closed
    <3> QED BY <2>1, <3>1, ListedIsLeast DEF LeastClosed, Closed
  <2>3. node[head].prev = 0 BY <2>2 DEF TimerListIntact
  <2>4. \A c \in C : c \in Nodes BY DEF Used
  <2>5. head \notin C BY <1>2, <2>3, <2>4
  <2> QED BY <1>1, <2>2, <2>5
<1>4. ASSUME NEW m \in S, node[m].next # 0 PROVE node[m].next \in S
  <2> DEFINE o == node[m].next
  <2>1. m \in Listed /\ o \in Listed BY <1>1, <1>4 DEF TimerListIntact
  <2>2. node[o].prev = m BY <2>1 DEF TimerListIntact
  <2>3. o \notin C BY <2>2
  <2> QED BY <1>1, <2>1, <2>3
<1>5. Closed(S) BY <1>3, <1>4 DEF Closed
<1>6. Listed \subseteq S BY <1>1, <1>5, ListedIsLeast DEF LeastClosed
<1> QED BY <1>1, <1>6

\* A node added at the tail, or taken out, leaves one list.
LEMMA GrowKeepsList ==
  ASSUME NodesTyped, TimerListIntact, NEW n \in Nodes, node[n] = NoNode,
         NEW fd \in Fds, timerfd_list_grow(n, fd)
  PROVE  NodesTyped' /\ TimerListIntact' /\ Used' = Used \cup {n}
<1>1. 0 \notin Nodes /\ -1 \notin Fds BY InputAssumption
<1>2. Used = Listed BY DEF Used, TimerListIntact
<1>3. n \notin Used /\ n # 0 BY <1>1 DEF Used
<1>5. /\ node'[n] = [fd |-> fd, next |-> 0, prev |-> tail]
      /\ \A m \in Nodes \ {n} :
           /\ node'[m].fd = node[m].fd /\ node'[m].prev = node[m].prev
           /\ node'[m].next = IF m = tail THEN n ELSE node[m].next
           /\ m # tail => node'[m] = node[m]
  BY DEF NodesTyped, timerfd_list_grow
<1>6. Used' = Used \cup {n}
  <2>1. node'[n] # NoNode BY <1>1, <1>5 DEF NoNode
  <2>2. \A m \in Nodes \ {n} : node'[m] # NoNode <=> node[m] # NoNode
    <3> SUFFICES ASSUME NEW m \in Nodes \ {n}, m = tail
                 PROVE  node'[m] # NoNode /\ node[m] # NoNode
      BY <1>5
    <3>1. tail \in Used BY <1>1, <1>2 DEF TimerListIntact
    <3>2. node'[m].next = n /\ node[m] # NoNode BY <1>5, <3>1 DEF Used
    <3> QED BY <1>3, <3>2 DEF NoNode
  <2> QED BY <2>1, <2>2 DEF Used
<1>7. tail \in Used \cup {0} /\ head \in Used \cup {0} /\ (head = 0 <=> tail = 0)
  BY <1>2 DEF TimerListIntact
<1>8. head' = (IF head = 0 THEN n ELSE head) /\ tail' = n BY DEF timerfd_list_grow
<1>9. \A m \in Used :
        /\ node[m].next \in Used \cup {0} /\ node[m].prev \in Used \cup {0}
        /\ node[m].prev = 0 <=> m = head
        /\ node[m].next = 0 <=> m = tail
        /\ \A o \in Used : node[m].next = o <=> node[o].prev = m
  BY <1>2 DEF TimerListIntact
<1>10. Listed' = Used'
  <2>1. Closed(Used)'
    <3>1. head' \in Used' BY <1>6, <1>7, <1>8
    <3>2. node'[n].next = 0 BY <1>5
    <3>3. ASSUME NEW m \in Used PROVE node'[m].next \in Used' \cup {0}
      <4>1. m \in Nodes \ {n} BY <1>3 DEF Used
      <4> QED BY <4>1, <1>5, <1>6, <1>9
    <3> QED BY <3>1, <3>2, <3>3, <1>6 DEF Closed
  <2>2. Listed' \subseteq Used'
    <3>1. Used' \in SUBSET Nodes BY <1>6 DEF Used
    <3> QED BY <2>1, <3>1, NextListedIsLeast DEF LeastClosed, Closed
  <2>3. ASSUME NEW S \in SUBSET Nodes, Closed(S)' PROVE Used' \subseteq S
    <3>1. CASE head = 0
      <4>1. Used = {}
        <5>1. Closed({}) BY <3>1 DEF Closed
        <5>2. {} \in SUBSET Nodes OBVIOUS
        <5>3. Listed \subseteq {} BY <5>1, <5>2, ListedIsLeast DEF LeastClosed
        <5> QED BY <5>3, <1>2
      <4> QED BY <4>1, <1>3, <1>6, <1>8, <2>3, <3>1 DEF Closed
    <3>2. CASE head # 0
      <4>1. \A m \in S : node[m].next # 0 => node[m].next \in S
        <5> SUFFICES ASSUME NEW m \in S, node[m].next # 0 PROVE node[m].next \in S
          OBVIOUS
        <5>1. m # n BY DEF NoNode
        <5>2. m # tail BY <1>7, <1>9, <3>2
        <5>3. node'[m] = node[m] BY <1>5, <5>1, <5>2
        <5> QED BY <2>3, <5>3 DEF Closed
      <4>2. head \in S BY <1>3, <1>7, <1>8, <2>3, <3>2 DEF Closed
      <4>3. Used \subseteq S
        BY <4>1, <4>2, <1>2, ListedIsLeast DEF LeastClosed, Closed
      <4>4. tail \in S /\ tail \in Nodes \ {n} BY <4>3, <3>2, <1>3, <1>7 DEF Used
      <4>5. node'[tail].next = n BY <1>5, <4>4
      <4>6. n \in S BY <4>4, <4>5, <1>3, <2>3 DEF Closed
      <4> QED BY <4>3, <4>6, <1>6
    <3> QED BY <3>1, <3>2
  <2>4. Used' \subseteq Listed'
    <3>1. Used' \subseteq Nodes BY <1>6 DEF Used
    <3> QED BY <2>3, <3>1, NextListedIsLeast DEF LeastClosed, Closed
  <2> QED BY <2>2, <2>4
<1>11. ASSUME NEW m \in Used'
       PROVE  /\ {node'[m].next, node'[m].prev} \subseteq Used' \cup {0}
              /\ node'[m].prev = 0 <=> m = head'
              /\ node'[m].next = 0 <=> m = tail'
              /\ \A o \in Used' : node'[m].next = o <=> node'[o].prev = m
  <2>1. \A o \in Used : o \in Nodes \ {n} /\ o # 0 BY <1>1, <1>3 DEF Used
  <2>2. CASE m = n
    <3>1. \A o \in Used' : node'[o].prev # n
      <4> SUFFICES ASSUME NEW o \in Used', node'[o].prev = n PROVE FALSE OBVIOUS
      <4>1. CASE o = n BY <4>1, <1>3, <1>5, <1>7
      <4>2. CASE o \in Used
        <5>1. node'[o].prev = node[o].prev BY <4>2, <2>1, <1>5
        <5> QED BY <5>1, <4>2, <1>9, <1>3
      <4> QED BY <4>1, <4>2, <1>6
    <3>2. \A o \in Used' : o # 0 BY <2>1, <1>3, <1>6
    <3> QED BY <2>2, <3>1, <3>2, <1>3, <1>5, <1>6, <1>7, <1>8
  <2>3. CASE m \in Used
    <3>1. /\ node'[m].prev = node[m].prev
          /\ node'[m].next = IF m = tail THEN n ELSE node[m].next
      BY <2>1, <2>3, <1>5
    <3>2. {node'[m].next, node'[m].prev} \subseteq Used' \cup {0}
      BY <3>1, <2>3, <1>6, <1>9
    <3>3. (node'[m].prev = 0 <=> m = head') /\ (node'[m].next = 0 <=> m = tail')
      BY <3>1, <2>1, <2>3, <1>3, <1>7, <1>8, <1>9
    <3>4. ASSUME NEW o \in Used' PROVE node'[m].next = o <=> node'[o].prev = m
      <4>1. CASE o = n BY <4>1, <3>1, <2>1, <2>3, <1>3, <1>5, <1>9
      <4>2. CASE o \in Used
        <5>1. node'[o].prev = node[o].prev BY <4>2, <2>1, <1>5
        <5>2. node[m].next = o <=> node[o].prev = m BY <4>2, <2>3, <1>9
        <5>3. m = tail => node[m].next = 0 BY <2>3, <1>9
        <5> QED BY <5>1, <5>2, <5>3, <3>1, <4>2, <2>1
      <4> QED BY <3>4, <4>1, <4>2, <1>6
    <3> QED BY <3>2, <3>3, <3>4
  <2> QED BY <2>2, <2>3, <1>6
<1>12. {head', tail'} \subseteq Used' \cup {0} /\ (head' = 0 <=> tail' = 0)
  BY <1>1, <1>6, <1>7, <1>8
<1>13. TimerListIntact' BY <1>10, <1>11, <1>12 DEF TimerListIntact, Used
<1>14. NodesTyped'
  <2>1. /\ {head', tail'} \subseteq Nodes \cup {0}
        /\ node' \in [Nodes -> [fd : Fds \cup {-1}, next : Nodes \cup {0},
                                prev : Nodes \cup {0}]]
    BY DEF NodesTyped, timerfd_list_grow
  <2>2. ASSUME NEW m \in Used' PROVE node'[m].fd \in Fds
    <3>1. CASE m = n BY <3>1, <1>5
    <3>2. CASE m \in Used BY <3>2, <1>3, <1>5 DEF NodesTyped, Used
    <3> QED BY <2>2, <3>1, <3>2, <1>6
  <2> QED BY <2>1, <2>2 DEF NodesTyped
<1> QED BY <1>6, <1>13, <1>14

LEMMA DeleteKeepsList ==
  ASSUME NodesTyped, TimerListIntact, NEW n \in Used, timerfd_list_delete_node(n)
  PROVE  /\ NodesTyped' /\ TimerListIntact' /\ Used' = Used \ {n}
         /\ \A m \in Used' : node'[m].fd = node[m].fd
<1> DEFINE p == node[n].prev
           q == node[n].next
<1>1. 0 \notin Nodes /\ -1 \notin Fds BY InputAssumption
<1>2. Used = Listed /\ Used \subseteq Nodes BY DEF Used, TimerListIntact
<1>3. /\ tail \in Used \cup {0} /\ head \in Used \cup {0} /\ (head = 0 <=> tail = 0)
      /\ \A m \in Used :
           /\ node[m].next \in Used \cup {0} /\ node[m].prev \in Used \cup {0}
           /\ node[m].prev = 0 <=> m = head
           /\ node[m].next = 0 <=> m = tail
           /\ \A o \in Used : node[m].next = o <=> node[o].prev = m
  BY <1>2 DEF TimerListIntact
<1>4. p # n
  <2>1. p = n => \A c \in {n} : node[c].prev \in {n} OBVIOUS
  <2>2. p = n => {n} = {} BY <2>1, NoLoop
  <2> QED BY <2>2
<1>5. q # n BY <1>3, <1>4
<1>6. p = q => p = 0
  <2> SUFFICES ASSUME p = q, p # 0 PROVE FALSE OBVIOUS
  <2>1. p \in Used /\ node[p].prev = n BY <1>3
  <2>2. \A c \in {n, p} : node[c].prev \in {n, p} BY <2>1
  <2>3. {n, p} = {} BY <2>1, <2>2, NoLoop
  <2> QED BY <2>3
<1>7. /\ node'[n] = NoNode
      /\ \A m \in Nodes \ {n} :
           /\ node'[m].fd = node[m].fd
           /\ node'[m].next = IF m = p THEN q ELSE node[m].next
           /\ node'[m].prev = IF m = q THEN p ELSE node[m].prev
           /\ m # p /\ m # q => node'[m] = node[m]
  BY <1>1, <1>2, <1>6 DEF NodesTyped, timerfd_list_delete_node
<1>8. /\ head' = IF p = 0 THEN q ELSE head
      /\ tail' = IF q = 0 THEN p ELSE tail
  BY DEF timerfd_list_delete_node
<1>9. p \in Used \cup {0} /\ q \in Used \cup {0} BY <1>3
<1>10. Used' = Used \ {n}
  <2>1. ASSUME NEW m \in Nodes \ {n} PROVE node'[m] # NoNode <=> node[m] # NoNode
    <3>1. CASE m # p /\ m # q BY <3>1, <1>7
    <3>2. CASE m \in {p, q}
      <4>1. m \in Used BY <3>2, <1>1, <1>9
      <4>2. node'[m].fd \in Fds BY <4>1, <1>7 DEF NodesTyped
      <4> QED BY <4>1, <4>2, <1>1 DEF Used, NoNode
    <3> QED BY <3>1, <3>2
  <2> QED BY <2>1, <1>7 DEF Used
<1>11. NodesTyped'
  <2>1. {head', tail'} \subseteq Nodes \cup {0} BY <1>2, <1>3, <1>8
  <2>2. node' \in [Nodes -> [fd : Fds \cup {-1}, next : Nodes \cup {0},
                             prev : Nodes \cup {0}]]
    <3> DEFINE R == [fd : Fds \cup {-1}, next : Nodes \cup {0}, prev : Nodes \cup {0}]
    <3>1. NoNode \in R BY DEF NoNode
    <3>2. \A m \in Nodes : node[m] \in R BY DEF NodesTyped
    <3>3. p \in Nodes \cup {0} /\ q \in Nodes \cup {0} BY <1>2, <1>9
    <3>4. \A m \in Nodes : /\ [node[m] EXCEPT !.next = q] \in R
                          /\ [node[m] EXCEPT !.prev = p] \in R
      BY <3>2, <3>3
    <3> HIDE DEF R, p, q
    <3>5. \A m \in Nodes :
            (CASE m = n            -> NoNode
               [] m # n /\ m = p -> [node[m] EXCEPT !.next = q]
               [] m # n /\ m = q -> [node[m] EXCEPT !.prev = p]
               [] OTHER           -> node[m]) \in R
      BY <3>1, <3>2, <3>4
    <3> QED BY <3>5 DEF timerfd_list_delete_node, R, p, q
  <2>3. \A m \in Used' : node'[m].fd \in Fds BY <1>2, <1>7, <1>10 DEF NodesTyped
  <2> QED BY <2>1, <2>2, <2>3 DEF NodesTyped
\* What may be before or behind a node once n is gone.
<1>12. ASSUME NEW m \in Used \ {n}
       PROVE  /\ node'[m].next \in (Used \ {n}) \cup {0}
              /\ node'[m].prev \in (Used \ {n}) \cup {0}
  <2>1. /\ node'[m].next = IF m = p THEN q ELSE node[m].next
        /\ node'[m].prev = IF m = q THEN p ELSE node[m].prev
    BY <1>2, <1>7
  <2>2. node[m].next = n => m = p BY <1>3
  <2>3. node[m].prev = n => m = q BY <1>3
  <2> QED BY <2>1, <2>2, <2>3, <1>3, <1>4, <1>5, <1>9
<1>13. Listed' = Used'
  <2>1. Closed(Used)'
    <3>1. head' # 0 => head' \in Used \ {n} BY <1>3, <1>5, <1>8, <1>9
    <3> QED BY <3>1, <1>10, <1>12 DEF Closed
  <2>2. Listed' \subseteq Used'
    <3>1. Used' \in SUBSET Nodes BY <1>2, <1>10
    <3> QED BY <2>1, <3>1, NextListedIsLeast DEF LeastClosed, Closed
  <2>3. ASSUME NEW S \in SUBSET Nodes, Closed(S)' PROVE Used' \subseteq S
    <3> DEFINE T == (S \ {n}) \cup (IF p = 0 \/ p \in S THEN {n} ELSE {})
    <3>1. T \in SUBSET Nodes BY <1>2
    <3>2. head # 0 => head \in T
      <4>1. p = 0 <=> n = head BY <1>3
      <4> QED BY <4>1, <1>8, <2>3 DEF Closed
    <3>3. ASSUME NEW m \in T, node[m].next # 0 PROVE node[m].next \in T
      <4>1. CASE m = n
        <5>1. CASE p = 0 BY <5>1, <4>1, <3>3, <1>5, <1>8, <2>3 DEF Closed
        <5>2. CASE p # 0
          <6>1. p \in S /\ p \in Nodes \ {n} BY <5>2, <4>1, <1>2, <1>4, <1>9
          <6>2. node'[p].next = q BY <6>1, <1>7
          <6> QED BY <6>1, <6>2, <4>1, <3>3, <1>5, <2>3 DEF Closed
        <5> QED BY <5>1, <5>2
      <4>2. CASE m # n
        <5>1. m \in S /\ m \in Nodes \ {n} BY <4>2, <3>1
        <5>2. m \in Used
          <6>1. m \notin Used => node[m].next = 0 BY <5>1 DEF Used, NoNode
          <6> QED BY <6>1, <3>3
        <5>3. CASE m = p BY <5>1, <5>2, <5>3, <1>3
        <5>4. CASE m # p
          <6>1. node'[m].next = node[m].next BY <5>1, <5>4, <1>7
          <6>2. node[m].next # n BY <5>2, <5>4, <1>3
          <6>3. node[m].next \in S BY <6>1, <5>1, <3>3, <2>3 DEF Closed
          <6> QED BY <6>2, <6>3
        <5> QED BY <5>3, <5>4
      <4> QED BY <4>1, <4>2
    <3>4. Closed(T) BY <3>2, <3>3 DEF Closed
    <3>5. Used \subseteq T BY <3>1, <3>4, <1>2, ListedIsLeast DEF LeastClosed
    <3> QED BY <3>5, <1>10
  <2>4. Used' \subseteq Listed'
    <3>1. Used' \subseteq Nodes BY <1>2, <1>10
    <3> QED BY <2>3, <3>1, NextListedIsLeast DEF LeastClosed
  <2> QED BY <2>2, <2>4
<1>14. ASSUME NEW m \in Used'
       PROVE  /\ {node'[m].next, node'[m].prev} \subseteq Used' \cup {0}
              /\ node'[m].prev = 0 <=> m = head'
              /\ node'[m].next = 0 <=> m = tail'
              /\ \A o \in Used' : node'[m].next = o <=> node'[o].prev = m
  <2>1. m \in Used \ {n} BY <1>10
  <2>2. /\ node'[m].next = IF m = p THEN q ELSE node[m].next
        /\ node'[m].prev = IF m = q THEN p ELSE node[m].prev
    BY <2>1, <1>2, <1>7
  <2>3. \A o \in Used \ {n} : node'[o].prev = IF o = q THEN p ELSE node[o].prev
    BY <1>2, <1>7
  <2>4. m # 0 /\ n # 0 BY <2>1, <1>1, <1>2
  <2>5. {node'[m].next, node'[m].prev} \subseteq Used' \cup {0} BY <2>1, <1>10, <1>12
  <2>6. node'[m].prev = 0 <=> m = head'
    <3>1. CASE m = q BY <3>1, <2>1, <2>2, <2>4, <1>3, <1>8
    <3>2. CASE m # q BY <3>2, <2>1, <2>2, <2>4, <1>3, <1>8
    <3> QED BY <3>1, <3>2
  <2>7. node'[m].next = 0 <=> m = tail'
    <3>1. CASE m = p BY <3>1, <2>1, <2>2, <2>4, <1>3, <1>8
    <3>2. CASE m # p BY <3>2, <2>1, <2>2, <2>4, <1>3, <1>8
    <3> QED BY <3>1, <3>2
  <2>8. ASSUME NEW o \in Used' PROVE node'[m].next = o <=> node'[o].prev = m
    <3>1. o \in Used \ {n} /\ o # 0 BY <2>8, <1>1, <1>2, <1>10
    <3>2. node[m].next = o <=> node[o].prev = m BY <2>1, <3>1, <1>3
    <3>3. node[o].prev = p /\ p # 0 => o = n BY <3>1, <1>3, <1>9
    <3>4. node[m].next = q /\ q # 0 => m = n BY <2>1, <1>3, <1>9
    <3> QED BY <2>1, <2>2, <2>3, <2>4, <3>1, <3>2, <3>3, <3>4
  <2> QED BY <2>5, <2>6, <2>7, <2>8
<1>15. {head', tail'} \subseteq Used' \cup {0} /\ (head' = 0 <=> tail' = 0)
  <2>1. head' \in Used' \cup {0} BY <1>1, <1>2, <1>3, <1>5, <1>8, <1>9, <1>10
  <2>2. tail' \in Used' \cup {0} BY <1>1, <1>2, <1>3, <1>4, <1>8, <1>9, <1>10
  <2>3. head' = 0 <=> tail' = 0 BY <1>1, <1>2, <1>3, <1>8
  <2> QED BY <2>1, <2>2, <2>3
<1>16. TimerListIntact' BY <1>13, <1>14, <1>15 DEF TimerListIntact, Used
<1> QED BY <1>2, <1>7, <1>10, <1>11, <1>16

-----------------------------------------------------------------------------
(* The descriptors.                                                        *)

\* The array is filled from the bottom, each descriptor once.
SlotsFilled ==
  /\ \A s \in Index : inputfds[s] # -1 <=> s < fd_idx
  /\ \A s, t \in 0 .. fd_idx - 1 : s # t => inputfds[s] # inputfds[t]

\* A timer's descriptor is its own.
TimersApart == /\ \A n \in Used : node[n].fd \in Fds
               /\ \A m, n \in Used : node[m].fd = node[n].fd => m = n

KindsKnown ==
  \A fd \in Fds : /\ kind[fd] \in {"device", "pipe"} <=> fd \in InputFds(inputfds, fd_idx)
                  /\ kind[fd] = "timer" <=> fd \in TimerFds

SelectCovers == \A fd \in InputFds(inputfds, fd_idx) \cup TimerFds : fd < nfds

GeneratorsKnown == generators \subseteq {fake_ev_generator_pid} \cup forgotten

ArrayTyped ==
  /\ inputfds \in [Index -> Fds \cup {-1}] /\ fd_idx \in 0 .. Slots
  /\ nfds \in {0} \cup {fd + 1 : fd \in Fds}
  /\ kind \in [Fds -> Kinds]

DescInv == /\ ArrayTyped /\ NodesTyped /\ SlotsFilled /\ TimerListIntact
           /\ TimersApart /\ KindsKnown /\ SelectCovers

LEMMA DescTypes ==
  ASSUME DescInv
  PROVE  /\ Used = Listed /\ TimerFds \subseteq Fds
         /\ TimerFds = {node[n].fd : n \in Used}
         /\ fd_idx \in 0 .. Slots /\ Slots \in Nat
         /\ \A s \in 0 .. fd_idx - 1 : s \in Index /\ inputfds[s] \in Fds
         /\ InputFds(inputfds, fd_idx) \subseteq Fds
<1>2. Used = Listed BY DEF DescInv, TimerListIntact, Used
<1>3. TimerFds = {node[n].fd : n \in Used} BY <1>2 DEF TimerFds
<1>4. TimerFds \subseteq Fds BY <1>3 DEF DescInv, TimersApart
<1>5. fd_idx \in 0 .. Slots /\ Slots \in Nat BY InputAssumption DEF DescInv, ArrayTyped
<1>6. ASSUME NEW s \in 0 .. fd_idx - 1 PROVE s \in Index /\ inputfds[s] \in Fds
  <2>1. s \in Index BY <1>5 DEF Index
  <2>2. inputfds[s] # -1 BY <1>5, <2>1 DEF DescInv, SlotsFilled
  <2>3. inputfds \in [Index -> Fds \cup {-1}] BY DEF DescInv, ArrayTyped
  <2> QED BY <2>1, <2>2, <2>3
<1>7. InputFds(inputfds, fd_idx) \subseteq Fds BY <1>6 DEF InputFds
<1> QED BY <1>2, <1>3, <1>4, <1>5, <1>6, <1>7

LEMMA DescInitially == Init => DescInv
<1> SUFFICES ASSUME Init PROVE DescInv OBVIOUS
<1>1. 0 \in Index /\ \A s \in Index : ~(s < 0) BY InputAssumption DEF Index
<1>2. ArrayTyped
  <2>1. 0 \in 0 .. Slots BY InputAssumption
  <2> QED BY <2>1 DEF Init, ArrayTyped, Kinds
<1>3. SlotsFilled BY <1>1 DEF Init, SlotsFilled
<1>4. Used = {} BY DEF Init, Used
<1>5. Listed = {}
  <2>1. Closed({}) BY DEF Init, Closed
  <2> QED BY <2>1, ListedIsLeast DEF LeastClosed
<1>6. TimerListIntact BY <1>4, <1>5 DEF Init, TimerListIntact, Used
<1>7. TimersApart BY <1>4 DEF TimersApart
<1>8. InputFds(inputfds, fd_idx) = {} /\ TimerFds = {}
  BY <1>5 DEF Init, InputFds, TimerFds
<1>9. KindsKnown /\ SelectCovers BY <1>8 DEF Init, KindsKnown, SelectCovers
<1>10. NodesTyped
  <2>1. NoNode \in [fd : Fds \cup {-1}, next : Nodes \cup {0}, prev : Nodes \cup {0}]
    BY DEF NoNode
  <2> QED BY <2>1, <1>4 DEF Init, NodesTyped
<1> QED BY <1>2, <1>3, <1>6, <1>7, <1>9, <1>10 DEF DescInv

LEMMA DescUnchanged ==
  ASSUME DescInv, UNCHANGED <<nfds, inputfds, fd_idx, head, tail, node, kind>>
  PROVE  DescInv'
<1>1. Used' = Used /\ Listed' = Listed BY DEF Used, Listed, Walked
<1>2. TimerFds' = TimerFds BY <1>1 DEF TimerFds
<1>3. ArrayTyped' /\ NodesTyped' BY <1>1 DEF DescInv, ArrayTyped, NodesTyped
<1>4. SlotsFilled' BY DEF DescInv, SlotsFilled
<1>5. TimerListIntact' BY <1>1 DEF DescInv, TimerListIntact
<1>6. TimersApart' BY <1>1 DEF DescInv, TimersApart
<1>7. KindsKnown' /\ SelectCovers' BY <1>2 DEF DescInv, KindsKnown, SelectCovers
<1> QED BY <1>3, <1>4, <1>5, <1>6, <1>7 DEF DescInv

\* An input's descriptor takes the next slot.
LEMMA SlotTaken ==
  ASSUME DescInv, NEW fd \in Fds, NEW what \in {"device", "pipe"}, NEW pid,
         TakesSlot(fd), Opens(fd, what, pid), UNCHANGED <<head, tail, node>>
  PROVE  DescInv'
<1>1. /\ fd_idx < Slots /\ fd_idx' = fd_idx + 1
      /\ inputfds' = [inputfds EXCEPT ![fd_idx] = fd]
      /\ nfds' = computeNfds(InputFds(inputfds, fd_idx) \cup {fd}, TimerFds)
  BY DEF TakesSlot
<1>2. kind[fd] = "closed" /\ kind' = [kind EXCEPT ![fd] = what] BY DEF Opens
<1>3. Used' = Used /\ Listed' = Listed BY DEF Used, Listed, Walked
<1>4. TimerFds' = TimerFds BY <1>3 DEF TimerFds
<1>5. fd_idx \in Index BY <1>1, DescTypes DEF Index
<1>6. InputFds(inputfds', fd_idx') = InputFds(inputfds, fd_idx) \cup {fd}
  <2>1. \A s \in 0 .. fd_idx - 1 : inputfds'[s] = inputfds[s] /\ s \in 0 .. fd_idx' - 1
    BY <1>1, DescTypes DEF DescInv, ArrayTyped
  <2>2. inputfds'[fd_idx] = fd /\ fd_idx \in 0 .. fd_idx' - 1
    BY <1>1, <1>5, DescTypes DEF DescInv, ArrayTyped
  <2>3. \A s \in 0 .. fd_idx' - 1 : s \in 0 .. fd_idx - 1 \/ s = fd_idx
    BY <1>1, DescTypes
  <2> QED BY <2>1, <2>2, <2>3 DEF InputFds
<1>7. fd \notin InputFds(inputfds, fd_idx) /\ fd \notin TimerFds
  BY <1>2 DEF DescInv, KindsKnown
<1>8. ArrayTyped'
  <2>1. nfds' \in {0} \cup {d + 1 : d \in Fds} BY <1>1, DescTypes, NfdsAbove
  <2>2. fd_idx' \in 0 .. Slots BY <1>1, DescTypes
  <2> QED BY <2>1, <2>2, <1>1, <1>2 DEF DescInv, ArrayTyped, Kinds
<1>9. SlotsFilled'
  <2>1. \A s \in Index : s \in Int /\ inputfds'[s] = IF s = fd_idx THEN fd ELSE inputfds[s]
    BY <1>1 DEF DescInv, ArrayTyped, Index
  <2>2. fd # -1 BY InputAssumption
  <2>3. \A s \in Index : inputfds'[s] # -1 <=> s < fd_idx'
    BY <2>1, <2>2, <1>1, DescTypes DEF DescInv, SlotsFilled
  <2>4. ASSUME NEW s \in 0 .. fd_idx' - 1, NEW t \in 0 .. fd_idx' - 1, s # t
        PROVE  inputfds'[s] # inputfds'[t]
    <3>1. \A u \in 0 .. fd_idx' - 1 : u \in Index /\ (u \in 0 .. fd_idx - 1 \/ u = fd_idx)
      BY <1>1, <1>5, DescTypes
    <3>2. \A u \in 0 .. fd_idx - 1 : inputfds[u] # fd BY <1>7 DEF InputFds
    <3> QED BY <2>1, <2>4, <3>1, <3>2 DEF DescInv, SlotsFilled
  <2> QED BY <2>3, <2>4 DEF SlotsFilled
<1>10. KindsKnown'
  <2>1. \A d \in Fds : kind'[d] = IF d = fd THEN what ELSE kind[d]
    BY <1>2 DEF DescInv, ArrayTyped
  <2> QED BY <2>1, <1>4, <1>6, <1>7 DEF DescInv, KindsKnown
<1>11. SelectCovers'
  BY <1>1, <1>4, <1>6, DescTypes, NfdsAbove DEF SelectCovers
<1>12. TimerListIntact' /\ TimersApart' /\ NodesTyped'
  BY <1>3 DEF DescInv, TimerListIntact, TimersApart, NodesTyped
<1> QED BY <1>8, <1>9, <1>10, <1>11, <1>12 DEF DescInv

\* A slot is freed and the array repacked.
LEMMA SlotFreed ==
  ASSUME DescInv, NEW s \in 0 .. fd_idx - 1, closeByIndex(s),
         UNCHANGED <<head, tail, node>>
  PROVE  DescInv'
<1>1. /\ fd_idx' = fd_idx - 1
      /\ inputfds' = [t \in Index |-> CASE t >= s /\ t < fd_idx - 1 -> inputfds[t + 1]
                                        [] t = fd_idx - 1           -> -1
                                        [] OTHER                    -> inputfds[t]]
      /\ nfds' = computeNfds(InputFds(inputfds', fd_idx'), TimerFds)
  BY DEF closeByIndex, repackFdArray
<1>2. kind' = [fd \in Fds |-> IF fd = inputfds[s] THEN "closed" ELSE kind[fd]]
  BY DEF closeByIndex, Closes
<1>3. Used' = Used /\ Listed' = Listed BY DEF Used, Listed, Walked
<1>4. TimerFds' = TimerFds BY <1>3 DEF TimerFds
<1>5. /\ fd_idx \in Nat /\ fd_idx <= Slots /\ Slots \in Nat /\ s \in Nat /\ s < fd_idx
      /\ \A t \in Index : t \in Nat /\ t < Slots
      /\ \A t \in Nat : t < Slots => t \in Index
  BY DescTypes DEF Index
<1>6. /\ \A t \in 0 .. fd_idx - 2 : inputfds'[t] = IF t < s THEN inputfds[t] ELSE inputfds[t + 1]
      /\ inputfds'[fd_idx - 1] = -1
      /\ \A t \in Index : t >= fd_idx => inputfds'[t] = inputfds[t]
  BY <1>1, <1>5
<1>7. InputFds(inputfds', fd_idx') = InputFds(inputfds, fd_idx) \ {inputfds[s]}
  <2>1. ASSUME NEW t \in 0 .. fd_idx' - 1
        PROVE  \E u \in 0 .. fd_idx - 1 : u # s /\ inputfds'[t] = inputfds[u]
    <3>1. CASE t < s BY <3>1, <1>1, <1>5, <1>6
    <3>2. CASE t >= s
      <4>1. t + 1 \in 0 .. fd_idx - 1 /\ t + 1 # s BY <3>2, <1>1, <1>5
      <4> QED BY <4>1, <3>2, <1>1, <1>5, <1>6
    <3> QED BY <3>1, <3>2, <1>5
  <2>2. ASSUME NEW u \in 0 .. fd_idx - 1, u # s
        PROVE  \E t \in 0 .. fd_idx' - 1 : inputfds'[t] = inputfds[u]
    <3>1. CASE u < s
      <4>1. u \in 0 .. fd_idx' - 1 BY <3>1, <1>1, <1>5
      <4>2. inputfds'[u] = inputfds[u] BY <4>1, <3>1, <1>1, <1>5, <1>6
      <4> QED BY <4>1, <4>2
    <3>2. CASE u > s
      <4>1. u - 1 \in 0 .. fd_idx' - 1 BY <3>2, <1>1, <1>5
      <4>2. inputfds'[u - 1] = inputfds[u] BY <4>1, <3>2, <1>1, <1>5, <1>6
      <4> QED BY <4>1, <4>2
    <3> QED BY <2>2, <3>1, <3>2, <1>5
  <2>3. \A u \in 0 .. fd_idx - 1 : u # s => inputfds[u] # inputfds[s]
    BY DEF DescInv, SlotsFilled
  <2> QED BY <2>1, <2>2, <2>3 DEF InputFds
<1>8. ArrayTyped'
  <2>1. InputFds(inputfds', fd_idx') \subseteq Fds BY <1>7, DescTypes
  <2>2. nfds' \in {0} \cup {d + 1 : d \in Fds} BY <1>1, <2>1, DescTypes, NfdsAbove
  <2>3. fd_idx' \in 0 .. Slots BY <1>1, <1>5
  <2>4. inputfds' \in [Index -> Fds \cup {-1}]
    <3>1. \A t \in Index : inputfds[t] \in Fds \cup {-1} BY DEF DescInv, ArrayTyped
    <3>2. ASSUME NEW t \in Index, t >= s, t < fd_idx - 1 PROVE inputfds[t + 1] \in Fds \cup {-1}
      BY <3>1, <3>2, <1>5
    <3> QED BY <1>1, <3>1, <3>2
  <2>5. kind' \in [Fds -> Kinds] BY <1>2 DEF DescInv, ArrayTyped, Kinds
  <2> QED BY <2>2, <2>3, <2>4, <2>5 DEF ArrayTyped
<1>9. SlotsFilled'
  <2>1. \A u \in 0 .. fd_idx - 1 : inputfds[u] # -1
    BY <1>5 DEF DescInv, SlotsFilled
  <2>2. ASSUME NEW t \in Index PROVE inputfds'[t] # -1 <=> t < fd_idx'
    <3>1. CASE t >= fd_idx
      <4>1. inputfds[t] = -1 BY <3>1, <1>5 DEF DescInv, SlotsFilled
      <4> QED BY <4>1, <3>1, <1>1, <1>5, <1>6
    <3>2. CASE t = fd_idx - 1 BY <3>2, <1>1, <1>5, <1>6
    <3>3. CASE t < fd_idx - 1
      <4>1. t \in 0 .. fd_idx - 2 /\ t \in 0 .. fd_idx - 1 /\ t + 1 \in 0 .. fd_idx - 1
        BY <3>3, <1>5
      <4> QED BY <4>1, <2>1, <3>3, <1>1, <1>6
    <3> QED BY <3>1, <3>2, <3>3, <1>5
  <2>3. ASSUME NEW t \in 0 .. fd_idx' - 1, NEW u \in 0 .. fd_idx' - 1, t # u
        PROVE  inputfds'[t] # inputfds'[u]
    <3> DEFINE Was(v) == IF v < s THEN v ELSE v + 1
    <3>1. \A v \in 0 .. fd_idx' - 1 : Was(v) \in 0 .. fd_idx - 1 /\ inputfds'[v] = inputfds[Was(v)]
      BY <1>1, <1>5, <1>6
    <3>2. Was(t) # Was(u) BY <2>3, <1>1, <1>5
    <3> HIDE DEF Was
    <3> QED BY <3>1, <3>2 DEF DescInv, SlotsFilled
  <2> QED BY <2>2, <2>3 DEF SlotsFilled
<1>10. KindsKnown'
  <2>1. inputfds[s] \in InputFds(inputfds, fd_idx) BY DEF InputFds
  <2>2. inputfds[s] \in Fds /\ inputfds[s] \notin TimerFds
    BY <2>1, DescTypes DEF DescInv, KindsKnown
  <2> QED BY <2>2, <1>2, <1>4, <1>7 DEF DescInv, KindsKnown
<1>11. SelectCovers'
  <2>1. InputFds(inputfds', fd_idx') \subseteq Fds BY <1>7, DescTypes
  <2> QED BY <2>1, <1>1, <1>4, DescTypes, NfdsAbove DEF SelectCovers
<1>12. TimerListIntact' /\ TimersApart' /\ NodesTyped'
  BY <1>3 DEF DescInv, TimerListIntact, TimersApart, NodesTyped
<1> QED BY <1>8, <1>9, <1>10, <1>11, <1>12 DEF DescInv

\* A timer is added to the list, or taken out of it.
LEMMA setTimerKeeps ==
  ASSUME DescInv, NEW n \in Nodes, NEW fd \in Fds, setTimer(n, fd)
  PROVE  DescInv'
<1>1. /\ node[n] = NoNode /\ timerfd_list_grow(n, fd)
      /\ kind[fd] = "closed" /\ kind' = [kind EXCEPT ![fd] = "timer"]
      /\ nfds' = computeNfds(InputFds(inputfds, fd_idx), TimerFds \cup {fd})
      /\ inputfds' = inputfds /\ fd_idx' = fd_idx
  BY DEF setTimer, Opens
<1>2. NodesTyped' /\ TimerListIntact' /\ Used' = Used \cup {n}
  BY <1>1, GrowKeepsList DEF DescInv
<1>3. Used' = Listed' BY <1>2 DEF TimerListIntact, Used
<1>4. n \notin Used BY <1>1 DEF Used
<1>5. node'[n].fd = fd /\ \A m \in Used : node'[m].fd = node[m].fd
  BY <1>1, <1>4 DEF timerfd_list_grow, DescInv, NodesTyped, Used
<1>6. TimerFds' = TimerFds \cup {fd}
  <2>1. TimerFds' = {node'[m].fd : m \in Used'} BY <1>3 DEF TimerFds
  <2> QED BY <2>1, <1>2, <1>5, DescTypes
<1>7. fd \notin InputFds(inputfds, fd_idx) /\ fd \notin TimerFds
  BY <1>1 DEF DescInv, KindsKnown
<1>8. TimersApart'
  <2>1. \A m \in Used : node[m].fd # fd BY <1>7, DescTypes
  <2> QED BY <2>1, <1>2, <1>5 DEF DescInv, TimersApart
<1>9. ArrayTyped'
  <2>1. nfds' \in {0} \cup {d + 1 : d \in Fds} BY <1>1, DescTypes, NfdsAbove
  <2> QED BY <2>1, <1>1 DEF DescInv, ArrayTyped, Kinds
<1>10. SlotsFilled' BY <1>1 DEF DescInv, SlotsFilled
<1>11. KindsKnown'
  <2>1. \A d \in Fds : kind'[d] = IF d = fd THEN "timer" ELSE kind[d]
    BY <1>1 DEF DescInv, ArrayTyped
  <2> QED BY <2>1, <1>1, <1>6, <1>7 DEF DescInv, KindsKnown
<1>12. SelectCovers' BY <1>1, <1>6, DescTypes, NfdsAbove DEF SelectCovers
<1> QED BY <1>2, <1>8, <1>9, <1>10, <1>11, <1>12 DEF DescInv

LEMMA clearTimerKeeps ==
  ASSUME DescInv, NEW n \in Nodes, clearTimer(n)
  PROVE  DescInv'
<1> DEFINE fd == node[n].fd
<1>1. /\ n \in Used /\ timerfd_list_delete_node(n)
      /\ kind' = [d \in Fds |-> IF d = fd THEN "closed" ELSE kind[d]]
      /\ nfds' = computeNfds(InputFds(inputfds, fd_idx), TimerFds \ {fd})
      /\ inputfds' = inputfds /\ fd_idx' = fd_idx
  BY DEF clearTimer, Closes, Used
<1>2. /\ NodesTyped' /\ TimerListIntact' /\ Used' = Used \ {n}
      /\ \A m \in Used' : node'[m].fd = node[m].fd
  BY <1>1, DeleteKeepsList DEF DescInv
<1>3. Used' = Listed' BY <1>2 DEF TimerListIntact, Used
<1>4. \A m \in Used : m # n => node[m].fd # fd BY <1>1 DEF DescInv, TimersApart
<1>5. TimerFds' = TimerFds \ {fd}
  <2>1. TimerFds' = {node'[m].fd : m \in Used'} BY <1>3 DEF TimerFds
  <2>2. TimerFds' = {node[m].fd : m \in Used \ {n}} BY <2>1, <1>2
  <2> QED BY <2>2, <1>4, DescTypes
<1>6. fd \in TimerFds /\ fd \in Fds BY <1>1, DescTypes
<1>7. fd \notin InputFds(inputfds, fd_idx) BY <1>6 DEF DescInv, KindsKnown
<1>8. TimersApart' BY <1>2 DEF DescInv, TimersApart
<1>9. ArrayTyped'
  <2>1. nfds' \in {0} \cup {d + 1 : d \in Fds} BY <1>1, DescTypes, NfdsAbove
  <2> QED BY <2>1, <1>1 DEF DescInv, ArrayTyped, Kinds
<1>10. SlotsFilled' BY <1>1 DEF DescInv, SlotsFilled
<1>11. KindsKnown' BY <1>1, <1>5, <1>7 DEF DescInv, KindsKnown
<1>12. SelectCovers' BY <1>1, <1>5, DescTypes, NfdsAbove DEF SelectCovers
<1> QED BY <1>2, <1>8, <1>9, <1>10, <1>11, <1>12 DEF DescInv

LEMMA closeAllKeeps ==
  ASSUME DescInv, closeAllInputDevices
  PROVE  DescInv'
<1>1. /\ inputfds' = [s \in Index |-> -1] /\ fd_idx' = 0
      /\ nfds' = IF fd_idx = 0 THEN nfds ELSE computeNfds({}, TimerFds)
      /\ head' = 0 /\ tail' = 0
      /\ node' = [n \in Nodes |-> IF n \in Listed THEN NoNode ELSE node[n]]
      /\ kind' = [fd \in Fds |-> IF fd \in InputFds(inputfds, fd_idx) \cup TimerFds
                                 THEN "closed" ELSE kind[fd]]
  BY DEF closeAllInputDevices, Closes
<1>2. Used' = {} BY <1>1, DescTypes DEF Used
<1>3. Listed' = {}
  <2>1. Closed({})' BY <1>1 DEF Closed
  <2>2. {} \in SUBSET Nodes OBVIOUS
  <2> QED BY <2>1, <2>2, NextListedIsLeast DEF LeastClosed
<1>4. InputFds(inputfds', fd_idx') = {} /\ TimerFds' = {}
  BY <1>1, <1>3 DEF InputFds, TimerFds
<1>5. TimerListIntact' BY <1>1, <1>2, <1>3 DEF TimerListIntact, Used
<1>6. TimersApart' /\ SelectCovers' BY <1>2, <1>4 DEF TimersApart, SelectCovers
<1>7. NodesTyped'
  <2>1. NoNode \in [fd : Fds \cup {-1}, next : Nodes \cup {0}, prev : Nodes \cup {0}]
    BY DEF NoNode
  <2> QED BY <2>1, <1>1, <1>2 DEF DescInv, NodesTyped
<1>8. ArrayTyped'
  <2>1. nfds' \in {0} \cup {d + 1 : d \in Fds}
    BY <1>1, DescTypes, NfdsAbove DEF DescInv, ArrayTyped
  <2>2. 0 \in 0 .. Slots BY InputAssumption
  <2> QED BY <2>1, <2>2, <1>1 DEF DescInv, ArrayTyped, Kinds
<1>9. SlotsFilled'
  <2>1. \A s \in Index : ~(s < 0) BY InputAssumption DEF Index
  <2> QED BY <2>1, <1>1 DEF SlotsFilled
<1>10. KindsKnown'
  <2>1. \A fd \in Fds : kind'[fd] = "closed"
    BY <1>1 DEF DescInv, KindsKnown, ArrayTyped, Kinds
  <2> QED BY <2>1, <1>4 DEF KindsKnown
<1> QED BY <1>5, <1>6, <1>7, <1>8, <1>9, <1>10 DEF DescInv

-----------------------------------------------------------------------------
(* Sequences of events.                                                    *)

Elems(q)     == {q[k] : k \in DOMAIN q}
InOrder(q)   == \A j, k \in DOMAIN q : j < k => q[j] < q[k]
Before(A, B) == \A a \in A, b \in B : a < b

LEMMA SequencesTyped ==
  ASSUME NEW S, NEW q \in Seq(S), NEW r \in Seq(S), NEW n \in 0 .. Len(q)
  PROVE  /\ \A k \in 1 .. Len(q) : q[k] \in S
         /\ q \o r \in Seq(S) /\ SubSeq(q, n + 1, Len(q)) \in Seq(S)
OBVIOUS

LEMMA Concatenated ==
  ASSUME NEW q \in Seq(Nat), NEW r \in Seq(Nat)
  PROVE  /\ q \o r \in Seq(Nat) /\ Elems(q \o r) = Elems(q) \cup Elems(r)
         /\ InOrder(q) /\ InOrder(r) /\ Before(Elems(q), Elems(r)) => InOrder(q \o r)
<1> DEFINE c == q \o r
<1>1. /\ c \in Seq(Nat) /\ Len(q) \in Nat /\ Len(r) \in Nat
      /\ DOMAIN c = 1 .. Len(q) + Len(r)
      /\ DOMAIN q = 1 .. Len(q) /\ DOMAIN r = 1 .. Len(r)
  OBVIOUS
<1>2. \A k \in DOMAIN c : c[k] = IF k <= Len(q) THEN q[k] ELSE r[k - Len(q)]
  OBVIOUS
<1> HIDE DEF c
<1>3. ASSUME NEW k \in DOMAIN c PROVE c[k] \in Elems(q) \cup Elems(r)
  <2>1. CASE k <= Len(q) BY <2>1, <1>1, <1>2 DEF Elems
  <2>2. CASE k > Len(q)
    <3>1. k - Len(q) \in DOMAIN r BY <2>2, <1>1
    <3> QED BY <2>2, <3>1, <1>1, <1>2 DEF Elems
  <2> QED BY <2>1, <2>2, <1>1
<1>4. ASSUME NEW k \in DOMAIN q PROVE q[k] \in Elems(c)
  <2>1. k \in DOMAIN c /\ c[k] = q[k] BY <1>1, <1>2
  <2> QED BY <2>1 DEF Elems
<1>5. ASSUME NEW k \in DOMAIN r PROVE r[k] \in Elems(c)
  <2>1. k \in 1 .. Len(r) BY <1>1
  <2>2. k + Len(q) \in DOMAIN c /\ ~(k + Len(q) <= Len(q)) /\ k + Len(q) - Len(q) = k
    BY <2>1, <1>1
  <2>3. c[k + Len(q)] = r[k] BY <2>2, <1>2
  <2> QED BY <2>2, <2>3 DEF Elems
<1>6. Elems(c) = Elems(q) \cup Elems(r) BY <1>3, <1>4, <1>5 DEF Elems
<1>7. ASSUME InOrder(q), InOrder(r), Before(Elems(q), Elems(r)),
             NEW j \in DOMAIN c, NEW k \in DOMAIN c, j < k
      PROVE  c[j] < c[k]
  <2>1. CASE k <= Len(q)
    <3>1. j \in DOMAIN q /\ k \in DOMAIN q BY <2>1, <1>7, <1>1
    <3> QED BY <3>1, <2>1, <1>1, <1>2, <1>7 DEF InOrder
  <2>2. CASE j > Len(q)
    <3>0. j \in 1 .. Len(q) + Len(r) /\ k \in 1 .. Len(q) + Len(r) /\ j < k
      BY <1>1, <1>7
    <3>a. j - Len(q) \in 1 .. Len(r) /\ k - Len(q) \in 1 .. Len(r)
      <4>1. Len(q) \in Nat /\ Len(r) \in Nat BY <1>1
      <4> QED BY <4>1, <3>0, <2>2
    <3>1. j - Len(q) \in DOMAIN r /\ k - Len(q) \in DOMAIN r BY <3>a, <1>1
    <3>2. j - Len(q) < k - Len(q) BY <3>0, <1>1
    <3>3. r[j - Len(q)] < r[k - Len(q)] BY <3>1, <3>2, <1>7 DEF InOrder
    <3>4. ~(j <= Len(q)) /\ ~(k <= Len(q)) BY <3>0, <2>2, <1>1
    <3> QED BY <3>3, <3>4, <1>2, <1>7
  <2>3. CASE j <= Len(q) /\ k > Len(q)
    <3>1. j \in DOMAIN q /\ k - Len(q) \in DOMAIN r BY <2>3, <1>7, <1>1
    <3>2. q[j] \in Elems(q) /\ r[k - Len(q)] \in Elems(r) BY <3>1 DEF Elems
    <3> QED BY <3>2, <2>3, <1>1, <1>2, <1>7 DEF Before
  <2> QED BY <2>1, <2>2, <2>3, <1>1
<1>8. InOrder(q) /\ InOrder(r) /\ Before(Elems(q), Elems(r)) => InOrder(c)
  BY <1>7 DEF InOrder
<1> QED BY <1>1, <1>6, <1>8 DEF c

\* A sequence in order is cut in two.
LEMMA Cut ==
  ASSUME NEW q \in Seq(Nat), NEW n \in 0 .. Len(q)
  PROVE  LET first == SubSeq(q, 1, n)  rest == SubSeq(q, n + 1, Len(q))
         IN  /\ first \in Seq(Nat) /\ rest \in Seq(Nat)
             /\ Elems(q) = Elems(first) \cup Elems(rest)
             /\ InOrder(q) => /\ InOrder(first) /\ InOrder(rest)
                              /\ Before(Elems(first), Elems(rest))
<1> DEFINE first == SubSeq(q, 1, n)
           rest == SubSeq(q, n + 1, Len(q))
<1>1. /\ Len(q) \in Nat /\ n \in Nat /\ n <= Len(q) /\ DOMAIN q = 1 .. Len(q)
      /\ first \in Seq(Nat) /\ Len(first) = n /\ DOMAIN first = 1 .. n
      /\ rest \in Seq(Nat) /\ Len(rest) = Len(q) - n /\ DOMAIN rest = 1 .. Len(q) - n
  OBVIOUS
<1>2. \A k \in 1 .. n : first[k] = q[k] OBVIOUS
<1>3. \A k \in 1 .. Len(q) - n : rest[k] = q[k + n] OBVIOUS
<1> HIDE DEF first, rest
<1>4. Elems(q) = Elems(first) \cup Elems(rest)
  <2>1. ASSUME NEW k \in DOMAIN q PROVE q[k] \in Elems(first) \cup Elems(rest)
    <3>1. CASE k <= n
      <4>1. k \in DOMAIN first /\ first[k] = q[k] BY <3>1, <1>1, <1>2
      <4> QED BY <4>1 DEF Elems
    <3>2. CASE k > n
      <4>1. k - n \in DOMAIN rest /\ rest[k - n] = q[k] BY <3>2, <1>1, <1>3
      <4> QED BY <4>1 DEF Elems
    <3> QED BY <3>1, <3>2, <1>1
  <2>2. ASSUME NEW k \in DOMAIN first PROVE first[k] \in Elems(q)
    <3>1. k \in DOMAIN q /\ first[k] = q[k] BY <1>1, <1>2
    <3> QED BY <3>1 DEF Elems
  <2>3. ASSUME NEW k \in DOMAIN rest PROVE rest[k] \in Elems(q)
    <3>1. k + n \in DOMAIN q /\ rest[k] = q[k + n] BY <1>1, <1>3
    <3> QED BY <3>1 DEF Elems
  <2> QED BY <2>1, <2>2, <2>3 DEF Elems
<1>5. ASSUME InOrder(q)
      PROVE  InOrder(first) /\ InOrder(rest) /\ Before(Elems(first), Elems(rest))
  <2>1. InOrder(first) BY <1>1, <1>2, <1>5 DEF InOrder
  <2>2. ASSUME NEW j \in DOMAIN rest, NEW k \in DOMAIN rest, j < k
        PROVE  rest[j] < rest[k]
    <3>0. j \in 1 .. Len(q) - n /\ k \in 1 .. Len(q) - n /\ j < k BY <1>1, <2>2
    <3>1. j + n \in 1 .. Len(q) /\ k + n \in 1 .. Len(q) /\ j + n < k + n
      <4>1. Len(q) \in Nat /\ n \in Nat /\ n <= Len(q) BY <1>1
      <4> QED BY <4>1, <3>0
    <3> QED BY <3>1, <1>1, <1>3, <1>5 DEF InOrder
  <2>3. ASSUME NEW j \in DOMAIN first, NEW k \in DOMAIN rest PROVE first[j] < rest[k]
    <3>0. j \in 1 .. n /\ k \in 1 .. Len(q) - n BY <1>1
    <3>1. j \in 1 .. Len(q) /\ k + n \in 1 .. Len(q) /\ j < k + n
      <4>1. Len(q) \in Nat /\ n \in Nat /\ n <= Len(q) BY <1>1
      <4> QED BY <4>1, <3>0
    <3> QED BY <3>1, <1>1, <1>2, <1>3, <1>5 DEF InOrder
  <2> QED BY <2>1, <2>2, <2>3 DEF InOrder, Before, Elems
<1> QED BY <1>1, <1>4, <1>5 DEF first, rest

LEMMA Appended ==
  ASSUME NEW q \in Seq(Nat), NEW e \in Nat, InOrder(q), \A d \in Elems(q) : d < e
  PROVE  InOrder(Append(q, e)) /\ Elems(Append(q, e)) = Elems(q) \cup {e}
<1> DEFINE a == Append(q, e)
<1>1. /\ Len(q) \in Nat /\ DOMAIN q = 1 .. Len(q) /\ DOMAIN a = 1 .. Len(q) + 1
      /\ a[Len(q) + 1] = e /\ \A k \in 1 .. Len(q) : a[k] = q[k]
  OBVIOUS
<1> HIDE DEF a
<1>2. Elems(a) = Elems(q) \cup {e}
  <2>1. \A k \in DOMAIN a : k \in DOMAIN q \/ k = Len(q) + 1 BY <1>1
  <2>2. \A k \in DOMAIN q : k \in DOMAIN a /\ a[k] = q[k] BY <1>1
  <2>3. Len(q) + 1 \in DOMAIN a BY <1>1
  <2> QED BY <2>1, <2>2, <2>3, <1>1 DEF Elems
<1>3. InOrder(a)
  <2> SUFFICES ASSUME NEW j \in DOMAIN a, NEW k \in DOMAIN a, j < k PROVE a[j] < a[k]
    BY DEF InOrder
  <2>1. j \in DOMAIN q /\ a[j] = q[j] BY <1>1
  <2>2. CASE k = Len(q) + 1 BY <2>1, <2>2, <1>1 DEF Elems
  <2>3. CASE k # Len(q) + 1 BY <2>1, <2>3, <1>1 DEF InOrder
  <2> QED BY <2>2, <2>3
<1> QED BY <1>2, <1>3 DEF a

-----------------------------------------------------------------------------
(* The events: waiting in the kernel, taken by waitForInput, returned or   *)
(* dropped.                                                                *)

Waiting == EventsOf(Fds)
Taken   == Pushed \cup Buffered
Buffer  == SubSeq(input_queue, 1, ev_count)

LoopTyped ==
  /\ due \in [Fds -> BOOLEAN] /\ queue \in [Fds -> Seq(1 .. MaxEvents)]
  /\ writer \in [Fds -> 0 .. MaxChurn]
  /\ fake_ev_generator_pid \in {-1} \cup 1 .. MaxChurn
  /\ generators \subseteq 1 .. MaxChurn /\ forgotten \subseteq 1 .. MaxChurn
  /\ at \in {"lua", "select", "scan", "read"} /\ ready \subseteq Fds
  /\ i \in Index /\ queue_pos \in 0 .. QueueSize /\ ev_count \in 0 .. QueueSize
  /\ input_queue \in [1 .. QueueSize -> 0 .. MaxEvents]
  /\ ev_array \in Seq(0 .. MaxEvents)
  /\ events \in 0 .. MaxEvents /\ churn \in 0 .. MaxChurn
  /\ delivered \subseteq 1 .. MaxEvents /\ lost \subseteq 1 .. MaxEvents
  /\ eof \in BOOLEAN

\* Only inputs hold events, each its own, in order.
QueuesApart ==
  /\ \A fd \in Fds : kind[fd] \notin {"device", "pipe"} => queue[fd] = <<>>
  /\ \A fd \in Fds : InOrder(queue[fd])
  /\ \A fd, gd \in Fds : fd # gd => Elems(queue[fd]) \cap Elems(queue[gd]) = {}

\* What was taken of the input being read comes before what it still holds.
TakenInOrder ==
  /\ InOrder(ev_array) /\ InOrder(Buffer) /\ Before(Pushed, Buffered)
  /\ at = "read" => i < fd_idx /\ Before(Taken, Elems(queue[inputfds[i]]))
  /\ at # "read" => ev_count = 0 /\ ev_array = <<>>
  /\ ev_count = queue_pos

\* Each event is in one place.
EachInOnePlace ==
  /\ Waiting \cup Taken \cup delivered \cup lost = 1 .. events
  /\ Waiting \cap Taken = {} /\ delivered \cap lost = {}
  /\ (Waiting \cup Taken) \cap (delivered \cup lost) = {}

EventsInv == LoopTyped /\ GeneratorsKnown /\ QueuesApart /\ TakenInOrder /\ EachInOnePlace

InputInv == DescInv /\ EventsInv

LEMMA EventTypes ==
  ASSUME LoopTyped
  PROVE  /\ Waiting = UNION {Elems(queue[fd]) : fd \in Fds}
         /\ \A fds : EventsOf(fds) = UNION {Elems(queue[fd]) : fd \in fds}
         /\ Pushed = Elems(ev_array) /\ Buffered = Elems(Buffer)
         /\ ev_array \in Seq(Nat) /\ Buffer \in Seq(Nat)
         /\ \A fd \in Fds : queue[fd] \in Seq(Nat)
         /\ QueueSize \in Nat /\ ev_count \in 0 .. QueueSize
<1>1. QueueSize \in Nat /\ MaxEvents \in Nat BY InputAssumption
<1>2. Waiting = UNION {Elems(queue[fd]) : fd \in Fds} BY DEF Waiting, EventsOf, Elems
<1>3. \A fds : EventsOf(fds) = UNION {Elems(queue[fd]) : fd \in fds}
  BY DEF EventsOf, Elems
<1>4. Pushed = Elems(ev_array) BY DEF Pushed, Elems
<1>5. /\ input_queue \in Seq(Nat) /\ Len(input_queue) = QueueSize
      /\ ev_count \in 0 .. QueueSize
  BY <1>1 DEF LoopTyped
<1>6. Buffer \in Seq(Nat) /\ DOMAIN Buffer = 1 .. ev_count
      /\ \A k \in 1 .. ev_count : Buffer[k] = input_queue[k]
  BY <1>1, <1>5 DEF Buffer
<1>7. Buffered = Elems(Buffer) BY <1>6 DEF Buffered, Elems
<1>8. ev_array \in Seq(Nat)
  <2>1. \A k \in DOMAIN ev_array : ev_array[k] \in Nat BY <1>1 DEF LoopTyped
  <2>2. ev_array \in [1 .. Len(ev_array) -> Nat] /\ Len(ev_array) \in Nat
    BY <2>1 DEF LoopTyped
  <2> QED BY <2>2
<1>9. ASSUME NEW fd \in Fds PROVE queue[fd] \in Seq(Nat)
  <2>1. queue[fd] \in Seq(1 .. MaxEvents) BY DEF LoopTyped
  <2>2. queue[fd] \in [1 .. Len(queue[fd]) -> Nat] /\ Len(queue[fd]) \in Nat
    BY <2>1, <1>1
  <2> QED BY <2>2
<1> QED BY <1>1, <1>2, <1>3, <1>4, <1>5, <1>6, <1>7, <1>8, <1>9

\* An event that comes is the last one.
LEMMA EventKeeps ==
  ASSUME EventsInv, DescInv, NEW fd \in Fds, Event(fd)
  PROVE  EventsInv'
<1>1. /\ kind[fd] \in {"device", "pipe"} /\ events < MaxEvents /\ events' = events + 1
      /\ queue' = [queue EXCEPT ![fd] = Append(queue[fd], events + 1)]
      /\ UNCHANGED <<nfds, inputfds, fd_idx, fake_ev_generator_pid, generators, forgotten>>
      /\ UNCHANGED <<kind, due, writer, at, ready, i, input_queue, queue_pos, ev_count,
                     ev_array, churn, delivered, lost, eof>>
  BY DEF Event, array, gens, reading, log
<1>2. LoopTyped BY DEF EventsInv
<1>3. events \in Nat /\ events + 1 \in 1 .. MaxEvents
  BY <1>1, <1>2, InputAssumption DEF LoopTyped
<1>4. \A d \in Fds : Elems(queue[d]) \subseteq 1 .. events
  BY <1>2, EventTypes DEF EventsInv, EachInOnePlace
<1>5. /\ InOrder(Append(queue[fd], events + 1))
      /\ Elems(Append(queue[fd], events + 1)) = Elems(queue[fd]) \cup {events + 1}
  <2>1. \A d \in Elems(queue[fd]) : d < events + 1 BY <1>3, <1>4
  <2>2. events + 1 \in Nat /\ queue[fd] \in Seq(Nat) BY <1>2, <1>3, EventTypes
  <2>3. InOrder(queue[fd]) BY DEF EventsInv, QueuesApart
  <2> QED BY <2>1, <2>2, <2>3, Appended
<1>6. \A d \in Fds : queue'[d] = IF d = fd THEN Append(queue[fd], events + 1) ELSE queue[d]
  BY <1>1, <1>2 DEF LoopTyped
<1>7. \A d \in Fds : Elems(queue'[d]) = IF d = fd THEN Elems(queue[d]) \cup {events + 1}
                                        ELSE Elems(queue[d])
  BY <1>5, <1>6
<1>8. LoopTyped'
  <2>0. queue[fd] \in Seq(1 .. MaxEvents) BY <1>2 DEF LoopTyped
  <2>1. Append(queue[fd], events + 1) \in Seq(1 .. MaxEvents) BY <2>0, <1>3
  <2>2. queue' \in [Fds -> Seq(1 .. MaxEvents)] BY <2>1, <1>1, <1>2 DEF LoopTyped
  <2> QED BY <2>2, <1>1, <1>2, <1>3 DEF LoopTyped
<1>9. QueuesApart'
  <2>1. ASSUME NEW d \in Fds, kind'[d] \notin {"device", "pipe"} PROVE queue'[d] = <<>>
    BY <2>1, <1>1, <1>6 DEF EventsInv, QueuesApart
  <2>2. ASSUME NEW d \in Fds PROVE InOrder(queue'[d])
    BY <1>5, <1>6 DEF EventsInv, QueuesApart
  <2>3. ASSUME NEW d \in Fds, NEW g \in Fds, d # g
        PROVE  Elems(queue'[d]) \cap Elems(queue'[g]) = {}
    <3>1. Elems(queue[d]) \cap Elems(queue[g]) = {} BY <2>3 DEF EventsInv, QueuesApart
    <3>2. events + 1 \notin Elems(queue[d]) /\ events + 1 \notin Elems(queue[g])
      BY <1>3, <1>4
    <3> QED BY <2>3, <3>1, <3>2, <1>7
  <2> QED BY <2>1, <2>2, <2>3 DEF QueuesApart
<1>10. /\ Buffer' = Buffer /\ Pushed' = Pushed /\ Buffered' = Buffered /\ Taken' = Taken
  BY <1>1 DEF Buffer, Pushed, Buffered, Taken
<1>11. Taken \subseteq 1 .. events BY DEF EventsInv, EachInOnePlace
<1>12. TakenInOrder'
  <2>1. ASSUME at = "read" PROVE Before(Taken, Elems(queue'[inputfds[i]]))
    <3>1. i \in 0 .. fd_idx - 1 BY <2>1, <1>2, DescTypes DEF EventsInv, TakenInOrder, LoopTyped, Index
    <3>2. inputfds[i] \in Fds BY <3>1, DescTypes
    <3>3. Before(Taken, Elems(queue[inputfds[i]])) BY <2>1 DEF EventsInv, TakenInOrder
    <3>4. \A d \in Taken : d < events + 1 BY <1>3, <1>11
    <3> QED BY <3>2, <3>3, <3>4, <1>7 DEF Before
  <2> QED BY <2>1, <1>1, <1>10 DEF EventsInv, TakenInOrder
<1>13. Waiting' = Waiting \cup {events + 1}
  <2>1. Waiting = UNION {Elems(queue[d]) : d \in Fds} BY <1>2, EventTypes
  <2>2. Waiting' = UNION {Elems(queue'[d]) : d \in Fds} BY DEF Waiting, EventsOf, Elems
  <2> QED BY <2>1, <2>2, <1>7
<1>14. EachInOnePlace'
  <2>1. 1 .. events + 1 = (1 .. events) \cup {events + 1} BY <1>3
  <2>2. events + 1 \notin 1 .. events BY <1>3
  <2>3. /\ Waiting \cup Taken \cup delivered \cup lost = 1 .. events
        /\ Waiting \cap Taken = {} /\ delivered \cap lost = {}
        /\ (Waiting \cup Taken) \cap (delivered \cup lost) = {}
    BY DEF EventsInv, EachInOnePlace
  <2> HIDE DEF Waiting, Taken
  <2> QED BY <2>1, <2>2, <2>3, <1>1, <1>10, <1>13 DEF EachInOnePlace
<1>15. GeneratorsKnown' BY <1>1 DEF EventsInv, GeneratorsKnown
<1> QED BY <1>8, <1>9, <1>12, <1>14, <1>15 DEF EventsInv

\* Nothing happens to the events.
LEMMA EventsUnchanged ==
  ASSUME EventsInv,
         UNCHANGED <<queue, input_queue, ev_count, ev_array, events, delivered, lost>>
  PROVE  /\ EachInOnePlace' /\ Taken' = Taken /\ Pushed' = Pushed
         /\ Buffered' = Buffered /\ Buffer' = Buffer
<1>1. /\ Buffer' = Buffer /\ Pushed' = Pushed /\ Buffered' = Buffered /\ Taken' = Taken
  BY DEF Buffer, Pushed, Buffered, Taken
<1>2. Waiting' = Waiting BY DEF Waiting, EventsOf
<1> QED BY <1>1, <1>2 DEF EventsInv, EachInOnePlace

\* What the descriptors that are closed held is gone from the kernel.
LEMMA ClosesKeeps ==
  ASSUME EventsInv, DescInv, NEW C \in SUBSET Fds, Closes(C)
  PROVE  /\ QueuesApart' /\ writer' = writer /\ due' \in [Fds -> BOOLEAN]
         /\ queue' \in [Fds -> Seq(1 .. MaxEvents)]
         /\ EventsOf(C) \subseteq Waiting /\ Waiting' = Waiting \ EventsOf(C)
<1>1. /\ kind' = [fd \in Fds |-> IF fd \in C THEN "closed" ELSE kind[fd]]
      /\ queue' = [fd \in Fds |-> IF fd \in C THEN <<>> ELSE queue[fd]]
      /\ due' = [fd \in Fds |-> due[fd] /\ fd \notin C]
      /\ writer' = writer
  BY DEF Closes
<1>2. LoopTyped BY DEF EventsInv
<1>3. due' \in [Fds -> BOOLEAN] BY <1>1, <1>2 DEF LoopTyped
<1>4. queue' \in [Fds -> Seq(1 .. MaxEvents)]
  <2>1. <<>> \in Seq(1 .. MaxEvents) OBVIOUS
  <2> QED BY <2>1, <1>1, <1>2 DEF LoopTyped
<1>5. Elems(<<>>) = {} /\ InOrder(<<>>) BY DEF Elems, InOrder
<1>6. \A fd \in Fds : Elems(queue'[fd]) = IF fd \in C THEN {} ELSE Elems(queue[fd])
  BY <1>1, <1>5
<1>7. QueuesApart'
  <2>1. ASSUME NEW fd \in Fds, kind'[fd] \notin {"device", "pipe"} PROVE queue'[fd] = <<>>
    BY <2>1, <1>1 DEF EventsInv, QueuesApart
  <2>2. ASSUME NEW fd \in Fds PROVE InOrder(queue'[fd])
    BY <1>1, <1>5 DEF EventsInv, QueuesApart
  <2>3. \A fd, gd \in Fds : fd # gd => Elems(queue'[fd]) \cap Elems(queue'[gd]) = {}
    BY <1>6 DEF EventsInv, QueuesApart
  <2> QED BY <2>1, <2>2, <2>3 DEF QueuesApart
<1>8. /\ EventsOf(C) = UNION {Elems(queue[fd]) : fd \in C}
      /\ Waiting = UNION {Elems(queue[fd]) : fd \in Fds}
  BY <1>2, EventTypes
<1>9. Waiting' = UNION {Elems(queue'[fd]) : fd \in Fds} BY DEF Waiting, EventsOf, Elems
<1>10. EventsOf(C) \subseteq Waiting BY <1>8
<1>11. Waiting' = Waiting \ EventsOf(C)
  <2>1. \A fd, gd \in Fds : fd # gd => Elems(queue[fd]) \cap Elems(queue[gd]) = {}
    BY DEF EventsInv, QueuesApart
  <2> QED BY <2>1, <1>6, <1>8, <1>9
<1> QED BY <1>1, <1>3, <1>4, <1>7, <1>10, <1>11

\* A descriptor is opened.
LEMMA OpensKeeps ==
  ASSUME EventsInv, at = "lua", NEW fd \in Fds, NEW what \in Kinds, NEW pid \in 0 .. MaxChurn,
         Opens(fd, what, pid), GeneratorsKnown',
         generators' \subseteq 1 .. MaxChurn, forgotten' \subseteq 1 .. MaxChurn,
         fake_ev_generator_pid' \in {-1} \cup 1 .. MaxChurn,
         UNCHANGED <<at, ready, i, input_queue, queue_pos, ev_count, ev_array,
                     delivered, lost, eof>>
  PROVE  EventsInv'
<1>1. /\ kind[fd] = "closed" /\ churn < MaxChurn /\ churn' = churn + 1
      /\ kind' = [kind EXCEPT ![fd] = what] /\ writer' = [writer EXCEPT ![fd] = pid]
      /\ UNCHANGED <<queue, due, events>>
  BY DEF Opens
<1>2. LoopTyped'
  <2>1. churn' \in 0 .. MaxChurn BY <1>1, InputAssumption DEF EventsInv, LoopTyped
  <2>2. writer' \in [Fds -> 0 .. MaxChurn] BY <1>1 DEF EventsInv, LoopTyped
  <2> QED BY <2>1, <2>2, <1>1 DEF EventsInv, LoopTyped
<1>3. QueuesApart'
  <2>1. queue[fd] = <<>> BY <1>1 DEF EventsInv, QueuesApart
  <2>2. \A d \in Fds : d # fd => kind'[d] = kind[d] BY <1>1
  <2> QED BY <2>1, <2>2, <1>1 DEF EventsInv, QueuesApart
<1>4. EachInOnePlace' /\ Taken' = Taken /\ Pushed' = Pushed /\ Buffered' = Buffered
      /\ Buffer' = Buffer
  BY <1>1, EventsUnchanged
<1>5. TakenInOrder' BY <1>4 DEF EventsInv, TakenInOrder
<1> QED BY <1>2, <1>3, <1>4, <1>5 DEF EventsInv

\* Descriptors are closed outside waitForInput, and what inputs held is lost.
LEMMA ClosedKeeps ==
  ASSUME EventsInv, DescInv, at = "lua", NEW C \in SUBSET Fds, Closes(C),
         lost' = lost \cup EventsOf(C), GeneratorsKnown', generators' \subseteq generators,
         fake_ev_generator_pid' \in {-1, fake_ev_generator_pid},
         UNCHANGED <<forgotten, at, ready, i, input_queue, queue_pos, ev_count, ev_array,
                     events, churn, delivered, eof>>
  PROVE  EventsInv'
<1>1. /\ QueuesApart' /\ writer' = writer /\ due' \in [Fds -> BOOLEAN]
      /\ queue' \in [Fds -> Seq(1 .. MaxEvents)]
      /\ EventsOf(C) \subseteq Waiting /\ Waiting' = Waiting \ EventsOf(C)
  BY ClosesKeeps
<1>2. /\ Buffer' = Buffer /\ Pushed' = Pushed /\ Buffered' = Buffered /\ Taken' = Taken
  BY DEF Buffer, Pushed, Buffered, Taken
<1>3. TakenInOrder' BY <1>2 DEF EventsInv, TakenInOrder
<1>4. /\ Waiting \cup Taken \cup delivered \cup lost = 1 .. events
      /\ Waiting \cap Taken = {} /\ delivered \cap lost = {}
      /\ (Waiting \cup Taken) \cap (delivered \cup lost) = {}
  BY DEF EventsInv, EachInOnePlace
<1>5. EachInOnePlace'
  <2> HIDE DEF Waiting, Taken, EventsOf
  <2> QED BY <1>1, <1>2, <1>4 DEF EachInOnePlace
<1>6. lost' \subseteq 1 .. MaxEvents
  <2>1. lost' \subseteq 1 .. events BY <1>1, <1>4
  <2>2. events \in 0 .. MaxEvents /\ MaxEvents \in Nat
    BY InputAssumption DEF EventsInv, LoopTyped
  <2> QED BY <2>1, <2>2
<1>7. LoopTyped' BY <1>1, <1>6 DEF EventsInv, LoopTyped
<1> QED BY <1>1, <1>3, <1>5, <1>7 DEF EventsInv

\* waitForInput returns; what it took is returned or dropped, and a device
\* that is gone is closed.
LEMMA LeavesKeeps ==
  ASSUME EventsInv, DescInv, at = "read", Leaves, NEW C \in SUBSET Fds,
         Closes(C) \/ (C = {} /\ UNCHANGED <<kind, queue, due, writer>>),
         \/ delivered' = delivered /\ lost' = lost \cup Taken \cup EventsOf(C)
         \/ C = {} /\ delivered' = delivered \cup Taken /\ lost' = lost,
         UNCHANGED <<fake_ev_generator_pid, generators, forgotten, events>>,
         churn' \in 0 .. MaxChurn, eof' \in BOOLEAN
  PROVE  EventsInv'
<1>1. /\ at' = "lua" /\ ready' = {} /\ ev_array' = <<>> /\ ev_count' = 0 /\ queue_pos' = 0
      /\ i' = 0 /\ input_queue' = [k \in 1 .. QueueSize |-> 0]
  BY DEF Leaves
<1>2. LoopTyped BY DEF EventsInv
<1>3. /\ QueuesApart' /\ writer' = writer /\ due' \in [Fds -> BOOLEAN]
      /\ queue' \in [Fds -> Seq(1 .. MaxEvents)]
      /\ EventsOf(C) \subseteq Waiting /\ Waiting' = Waiting \ EventsOf(C)
  <2>1. CASE Closes(C) BY <2>1, ClosesKeeps
  <2>2. CASE C = {} /\ UNCHANGED <<kind, queue, due, writer>>
    <3>1. EventsOf(C) = {} BY <2>2 DEF EventsOf
    <3>2. Waiting' = Waiting BY <2>2 DEF Waiting, EventsOf
    <3>3. QueuesApart' BY <2>2 DEF EventsInv, QueuesApart
    <3> QED BY <3>1, <3>2, <3>3, <2>2, <1>2 DEF LoopTyped
  <2> QED BY <2>1, <2>2
<1>4. Pushed' = {} /\ Buffered' = {} /\ Buffer' = <<>>
  <2>1. Buffer' = <<>>
    <3>1. QueueSize \in Nat BY InputAssumption
    <3>a. input_queue' \in [1 .. QueueSize -> 0 .. MaxEvents] BY <1>1, InputAssumption
    <3>b. \A n \in Nat : \A S : [1 .. n -> S] \subseteq Seq(S) OBVIOUS
    <3>2. input_queue' \in Seq(0 .. MaxEvents) BY <1>1, <3>1, <3>a, <3>b
    <3>3. SubSeq(input_queue', 1, 0) = <<>> BY <3>2
    <3> QED BY <3>3, <1>1 DEF Buffer
  <2> QED BY <2>1, <1>1 DEF Pushed, Buffered
<1>5. Taken' = {} BY <1>4 DEF Taken
<1>6. TakenInOrder' BY <1>1, <1>4, <1>5 DEF TakenInOrder, InOrder, Before
<1>7. /\ Waiting \cup Taken \cup delivered \cup lost = 1 .. events
      /\ Waiting \cap Taken = {} /\ delivered \cap lost = {}
      /\ (Waiting \cup Taken) \cap (delivered \cup lost) = {}
  BY DEF EventsInv, EachInOnePlace
<1>8. EachInOnePlace'
  <2>1. EventsOf({}) = {} BY DEF EventsOf
  <2> HIDE DEF Waiting, Taken, EventsOf
  <2>2. CASE delivered' = delivered /\ lost' = lost \cup Taken \cup EventsOf(C)
    BY <2>2, <1>3, <1>5, <1>7 DEF EachInOnePlace
  <2>3. CASE C = {} /\ delivered' = delivered \cup Taken /\ lost' = lost
    BY <2>1, <2>3, <1>3, <1>5, <1>7 DEF EachInOnePlace
  <2> QED BY <2>2, <2>3
<1>9. lost' \subseteq 1 .. MaxEvents /\ delivered' \subseteq 1 .. MaxEvents
  <2>1. lost' \subseteq 1 .. events /\ delivered' \subseteq 1 .. events BY <1>3, <1>7
  <2>2. events \in 0 .. MaxEvents /\ MaxEvents \in Nat
    BY <1>2, InputAssumption DEF LoopTyped
  <2> QED BY <2>1, <2>2
<1>10. LoopTyped'
  <2>1. ev_array' \in Seq(0 .. MaxEvents) /\ 0 \in 0 .. QueueSize BY <1>1, InputAssumption
  <2>2. i' \in Index BY <1>1, InputAssumption DEF Index
  <2>3. input_queue' \in [1 .. QueueSize -> 0 .. MaxEvents] BY <1>1, InputAssumption
  <2> QED BY <2>1, <2>2, <2>3, <1>1, <1>2, <1>3, <1>9 DEF LoopTyped
<1>11. GeneratorsKnown' BY DEF EventsInv, GeneratorsKnown
<1> QED BY <1>3, <1>6, <1>8, <1>10, <1>11 DEF EventsInv

\* n events move from the kernel to the buffer, and on when it is full.
LEMMA ReadsKeeps ==
  ASSUME EventsInv, DescInv, Reads
  PROVE  EventsInv'
<1> DEFINE fd == inputfds[i]
           q == queue[fd]
           n == Min({Len(q), QueueSize - queue_pos})
           first == SubSeq(q, 1, n)
           rest == SubSeq(q, n + 1, Len(q))
           filled == SubSeq(input_queue', 1, ev_count + n)
<1>1. /\ at = "read" /\ n > 0 /\ read(fd, n)
      /\ UNCHANGED <<nfds, inputfds, fd_idx, fake_ev_generator_pid, generators, forgotten>>
      /\ UNCHANGED <<kind, due, writer, at, ready, i, events, churn, delivered, lost, eof>>
  BY DEF Reads, array, gens, world, log
<1>2. /\ queue' = [queue EXCEPT ![fd] = rest]
      /\ input_queue' = [k \in 1 .. QueueSize |->
                           IF k \in queue_pos + 1 .. queue_pos + n
                           THEN q[k - queue_pos] ELSE input_queue[k]]
      /\ \/ /\ queue_pos + n = QueueSize
            /\ ev_array' = ev_array \o filled /\ queue_pos' = 0 /\ ev_count' = 0
         \/ /\ queue_pos + n # QueueSize /\ ev_array' = ev_array
            /\ queue_pos' = queue_pos + n /\ ev_count' = ev_count + n
  BY <1>1 DEF read
<1>3. LoopTyped BY DEF EventsInv
<1>4. /\ QueueSize \in Nat /\ queue_pos \in 0 .. QueueSize /\ ev_count = queue_pos
      /\ MaxEvents \in Nat
  BY <1>3, InputAssumption DEF LoopTyped, EventsInv, TakenInOrder
<1>5. fd \in Fds
  <2>1. i \in 0 .. fd_idx - 1
    BY <1>1, <1>3, DescTypes DEF EventsInv, TakenInOrder, LoopTyped, Index
  <2> QED BY <2>1, DescTypes
<1>6. q \in Seq(1 .. MaxEvents) /\ q \in Seq(Nat) /\ Len(q) \in Nat
  BY <1>3, <1>5, EventTypes DEF LoopTyped
<1>7. n \in Nat /\ n <= Len(q) /\ n <= QueueSize - queue_pos /\ n \in 0 .. Len(q)
  <2> DEFINE S == {Len(q), QueueSize - queue_pos}
  <2>1. S \in SUBSET Nat /\ S # {} BY <1>4, <1>6
  <2>2. Min(S) \in S /\ \A y \in S : Min(S) <= y BY <2>1, MinOfNats
  <2> QED BY <2>1, <2>2, <1>6
<1> HIDE DEF n, q, fd
<1>8. /\ first \in Seq(Nat) /\ rest \in Seq(Nat)
      /\ Elems(q) = Elems(first) \cup Elems(rest)
      /\ InOrder(first) /\ InOrder(rest) /\ Before(Elems(first), Elems(rest))
  <2>1. InOrder(q) BY <1>5 DEF EventsInv, QueuesApart, q
  <2> QED BY <2>1, <1>6, <1>7, Cut
<1>9. /\ input_queue \in [1 .. QueueSize -> 0 .. MaxEvents]
      /\ input_queue' \in [1 .. QueueSize -> 0 .. MaxEvents]
  <2>1. input_queue \in [1 .. QueueSize -> 0 .. MaxEvents] BY <1>3 DEF LoopTyped
  <2>2. ASSUME NEW k \in queue_pos + 1 .. queue_pos + n PROVE q[k - queue_pos] \in 0 .. MaxEvents
    <3>1. k - queue_pos \in 1 .. Len(q) BY <1>4, <1>6, <1>7
    <3>2. q[k - queue_pos] \in 1 .. MaxEvents BY <3>1, <1>6, <1>7, SequencesTyped
    <3> QED BY <3>2, <1>4
  <2> QED BY <2>1, <2>2, <1>2
\* The buffer is followed by the events read.
<1>10. filled = Buffer \o first
  <2>1. /\ Buffer \in Seq(Nat) /\ Len(Buffer) = ev_count /\ ev_count \in Nat
        /\ \A k \in 1 .. ev_count : Buffer[k] = input_queue[k]
    BY <1>4, <1>9 DEF Buffer
  <2>2. /\ filled \in Seq(0 .. MaxEvents) /\ Len(filled) = ev_count + n
        /\ \A k \in 1 .. ev_count + n : filled[k] = input_queue'[k]
    BY <1>4, <1>7, <1>9
  <2>3. /\ Len(first) = n /\ \A k \in 1 .. n : first[k] = q[k] BY <1>6, <1>7
  <2>4. \A k \in 1 .. ev_count + n :
          input_queue'[k] = IF k <= ev_count THEN input_queue[k] ELSE q[k - ev_count]
    BY <1>2, <1>4, <1>7
  <2> DEFINE c == Buffer \o first
  <2>5. /\ c \in Seq(Nat) /\ Len(c) = ev_count + n
        /\ \A k \in 1 .. ev_count + n :
             c[k] = IF k <= ev_count THEN Buffer[k] ELSE first[k - ev_count]
    BY <2>1, <2>3, <1>7, <1>8
  <2> HIDE DEF c, filled, first
  <2>6. ASSUME NEW k \in 1 .. ev_count + n PROVE c[k] = filled[k]
    <3>1. CASE k <= ev_count
      <4>1. k \in 1 .. ev_count BY <3>1, <2>1
      <4> QED BY <4>1, <3>1, <2>1, <2>2, <2>4, <2>5
    <3>2. CASE ~(k <= ev_count)
      <4>1. k - ev_count \in 1 .. n BY <3>2, <2>1, <1>7
      <4> QED BY <4>1, <3>2, <2>2, <2>3, <2>4, <2>5
    <3> QED BY <3>1, <3>2
  <2> QED BY <2>2, <2>5, <2>6 DEF c
<1>11. /\ Pushed = Elems(ev_array) /\ Buffered = Elems(Buffer)
       /\ ev_array \in Seq(Nat) /\ Buffer \in Seq(Nat)
  BY <1>3, EventTypes
<1>12. /\ InOrder(ev_array) /\ InOrder(Buffer) /\ Before(Pushed, Buffered)
       /\ Before(Taken, Elems(q)) /\ i < fd_idx
  BY <1>1 DEF EventsInv, TakenInOrder, q, fd
<1> HIDE DEF first, rest, filled
<1>13. /\ filled \in Seq(Nat) /\ Elems(filled) = Buffered \cup Elems(first)
       /\ InOrder(filled)
  <2>1. Before(Elems(Buffer), Elems(first)) BY <1>8, <1>11, <1>12 DEF Before, Taken
  <2> QED BY <2>1, <1>8, <1>10, <1>11, <1>12, Concatenated
<1>14. LoopTyped'
  <2>1. rest \in Seq(1 .. MaxEvents) BY <1>6, <1>7, SequencesTyped DEF rest
  <2>2. queue' \in [Fds -> Seq(1 .. MaxEvents)] BY <2>1, <1>2, <1>3 DEF LoopTyped
  <2>3. filled \in Seq(0 .. MaxEvents) BY <1>4, <1>7, <1>9 DEF filled
  <2>4. ev_array' \in Seq(0 .. MaxEvents)
    <3>1. ev_array \in Seq(0 .. MaxEvents) /\ 0 \in 0 .. Len(ev_array) BY <1>3 DEF LoopTyped
    <3>2. ev_array \o filled \in Seq(0 .. MaxEvents) BY <3>1, <2>3, SequencesTyped
    <3> QED BY <3>1, <3>2, <1>2
  <2>5. queue_pos' \in 0 .. QueueSize /\ ev_count' \in 0 .. QueueSize
    BY <1>2, <1>4, <1>7
  <2> QED BY <2>2, <2>4, <2>5, <1>1, <1>3, <1>9 DEF LoopTyped
<1>15. \A d \in Fds : queue'[d] = IF d = fd THEN rest ELSE queue[d]
  BY <1>2, <1>3 DEF LoopTyped
<1>16. QueuesApart'
  <2>1. ASSUME NEW d \in Fds, kind'[d] \notin {"device", "pipe"} PROVE queue'[d] = <<>>
    <3>1. queue[d] = <<>> BY <2>1, <1>1 DEF EventsInv, QueuesApart
    <3>2. CASE d = fd BY <3>1, <3>2, <1>1, <1>7 DEF q
    <3>3. CASE d # fd BY <3>1, <3>3, <1>15
    <3> QED BY <3>2, <3>3
  <2>2. ASSUME NEW d \in Fds PROVE InOrder(queue'[d])
    BY <1>8, <1>15 DEF EventsInv, QueuesApart
  <2>3. \A d \in Fds : Elems(queue'[d]) \subseteq Elems(queue[d])
    BY <1>8, <1>15 DEF q
  <2>4. \A d, g \in Fds : d # g => Elems(queue'[d]) \cap Elems(queue'[g]) = {}
    BY <2>3 DEF EventsInv, QueuesApart
  <2> QED BY <2>1, <2>2, <2>4 DEF QueuesApart
\* Either way what was taken grows by what was read, in order.
<1>17. /\ InOrder(ev_array') /\ InOrder(Buffer') /\ Before(Pushed', Buffered')
       /\ Taken' = Taken \cup Elems(first) /\ ev_count' = queue_pos'
  <2>1. Before(Pushed, Elems(filled))
    BY <1>8, <1>12, <1>13 DEF Before, Taken
  <2>2. CASE queue_pos + n = QueueSize
    <3>1. ev_array' = ev_array \o filled /\ queue_pos' = 0 /\ ev_count' = 0
      BY <2>2, <1>2
    <3>2. /\ InOrder(ev_array') /\ Elems(ev_array') = Pushed \cup Elems(filled)
      BY <3>1, <2>1, <1>11, <1>12, <1>13, Concatenated
    <3>3. Pushed' = Elems(ev_array') BY DEF Pushed, Elems
    <3>4. Buffer' = <<>> /\ Buffered' = {}
      <4>1. input_queue' \in Seq(0 .. MaxEvents) BY <1>4, <1>9
      <4> QED BY <4>1, <3>1 DEF Buffer, Buffered
    <3> QED BY <3>1, <3>2, <3>3, <3>4, <1>13 DEF Taken, InOrder, Before
  <2>3. CASE queue_pos + n # QueueSize
    <3>1. ev_array' = ev_array /\ queue_pos' = queue_pos + n /\ ev_count' = ev_count + n
      BY <2>3, <1>2
    <3>2. Pushed' = Pushed BY <3>1 DEF Pushed
    <3>3. Buffer' = filled BY <3>1 DEF Buffer, filled
    <3>4. Buffered' = Elems(filled)
      <4>1. DOMAIN filled = 1 .. ev_count + n /\ \A k \in 1 .. ev_count + n : filled[k] = input_queue'[k]
        BY <1>4, <1>7, <1>9 DEF filled
      <4> QED BY <4>1, <3>1 DEF Buffered, Elems
    <3> QED BY <3>1, <3>2, <3>3, <3>4, <2>1, <1>4, <1>12, <1>13 DEF Taken
  <2> QED BY <2>2, <2>3
<1>18. TakenInOrder'
  <2>1. Before(Taken', Elems(rest))
    BY <1>8, <1>12, <1>17 DEF Before
  <2>2. queue'[fd] = rest BY <1>5, <1>15
  <2> QED BY <2>1, <2>2, <1>1, <1>12, <1>17 DEF TakenInOrder, fd
<1>19. EachInOnePlace'
  <2>1. Elems(first) \cap Elems(rest) = {}
    <3>1. \A a \in Elems(first) : a \in Nat BY <1>8 DEF Elems
    <3> QED BY <3>1, <1>8 DEF Before
  <2>2. Waiting' = Waiting \ Elems(first) /\ Elems(first) \subseteq Waiting
    <3>1. Waiting = UNION {Elems(queue[d]) : d \in Fds} BY <1>3, EventTypes
    <3>2. Waiting' = UNION {Elems(queue'[d]) : d \in Fds} BY DEF Waiting, EventsOf, Elems
    <3>3. \A d \in Fds : d # fd => Elems(queue[d]) \cap Elems(q) = {}
      BY <1>5 DEF EventsInv, QueuesApart, q
    <3>4. \A d \in Fds : Elems(queue'[d]) = Elems(queue[d]) \ Elems(first)
      BY <2>1, <3>3, <1>8, <1>15 DEF q
    <3>5. Elems(first) \subseteq Waiting BY <3>1, <1>5, <1>8 DEF q
    <3> QED BY <3>1, <3>2, <3>4, <3>5
  <2>3. /\ Waiting \cup Taken \cup delivered \cup lost = 1 .. events
        /\ Waiting \cap Taken = {} /\ delivered \cap lost = {}
        /\ (Waiting \cup Taken) \cap (delivered \cup lost) = {}
    BY DEF EventsInv, EachInOnePlace
  <2> HIDE DEF Waiting, Taken
  <2> QED BY <2>2, <2>3, <1>1, <1>17 DEF EachInOnePlace
<1>20. GeneratorsKnown' BY <1>1 DEF EventsInv, GeneratorsKnown
<1> QED BY <1>14, <1>16, <1>18, <1>19, <1>20 DEF EventsInv

\* Steps that leave the events, the descriptors and the read alone.
LEMMA QuietKeeps ==
  ASSUME EventsInv, i' = i, generators' \subseteq generators,
         UNCHANGED <<inputfds, fd_idx, kind, queue, writer, input_queue, queue_pos,
                     ev_count, ev_array, events, delivered, lost, eof,
                     fake_ev_generator_pid, forgotten>>,
         due' \in [Fds -> BOOLEAN], churn' \in 0 .. MaxChurn, ready' \subseteq Fds,
         at' \in {"lua", "select", "scan", "read"}, at' = "read" <=> at = "read"
  PROVE  EventsInv'
<1>1. LoopTyped' BY DEF EventsInv, LoopTyped
<1>2. QueuesApart' /\ GeneratorsKnown' BY DEF EventsInv, QueuesApart, GeneratorsKnown
<1>3. EachInOnePlace' /\ Taken' = Taken /\ Pushed' = Pushed /\ Buffered' = Buffered
      /\ Buffer' = Buffer
  BY EventsUnchanged
<1>4. TakenInOrder' BY <1>3 DEF EventsInv, TakenInOrder
<1> QED BY <1>1, <1>2, <1>3, <1>4 DEF EventsInv

LEMMA ReadStartsKeeps ==
  ASSUME EventsInv, DescInv, ReadStarts
  PROVE  EventsInv'
<1>1. /\ at = "scan" /\ ReadySlots # {} /\ at' = "read" /\ i' = Min(ReadySlots)
      /\ queue_pos' = 0 /\ ev_count' = 0 /\ ev_array' = <<>>
      /\ UNCHANGED <<inputfds, fd_idx, kind, queue, due, writer, ready, input_queue, events,
                     churn, delivered, lost, eof, fake_ev_generator_pid, generators, forgotten>>
  BY DEF ReadStarts, array, gens, kernel, world, log
<1>2. i' \in 0 .. fd_idx - 1 /\ i' \in Index
  <2>1. ReadySlots \in SUBSET Nat /\ ReadySlots \subseteq 0 .. fd_idx - 1
    BY DescTypes DEF ReadySlots
  <2>2. Min(ReadySlots) \in ReadySlots BY <2>1, <1>1, MinOfNats
  <2> QED BY <2>1, <2>2, <1>1, DescTypes
<1>3. ev_count = 0 /\ ev_array = <<>> BY <1>1 DEF EventsInv, TakenInOrder
<1>4. EachInOnePlace' /\ Taken' = Taken /\ Pushed' = Pushed /\ Buffered' = Buffered
      /\ Buffer' = Buffer
  BY <1>1, <1>3, EventsUnchanged
<1>5. Taken = {} BY <1>3 DEF Taken, Pushed, Buffered
<1>6. TakenInOrder' BY <1>1, <1>2, <1>3, <1>4, <1>5, DescTypes DEF EventsInv, TakenInOrder, Before
<1>7. LoopTyped' BY <1>1, <1>2, <1>3 DEF EventsInv, LoopTyped
<1>8. QueuesApart' /\ GeneratorsKnown' BY <1>1 DEF EventsInv, QueuesApart, GeneratorsKnown
<1> QED BY <1>4, <1>6, <1>7, <1>8 DEF EventsInv

\* The descriptors, the timers and the events are consistent after any calls,
\* events, unplugged devices and failures.
THEOREM InputInvariance == Spec => []InputInv
<1>1. Init => InputInv
  <2> SUFFICES ASSUME Init PROVE EventsInv BY DescInitially DEF InputInv
  <2>1. LoopTyped
    <3>1. 0 \in 0 .. QueueSize /\ 0 \in 0 .. MaxEvents /\ 0 \in 0 .. MaxChurn /\ 0 \in Index
      BY InputAssumption DEF Index
    <3> QED BY <3>1 DEF Init, LoopTyped
  <2>2. QueuesApart BY DEF Init, QueuesApart, Elems, InOrder
  <2>3. Taken = {} /\ Pushed = {} /\ Buffered = {} BY DEF Init, Taken, Pushed, Buffered
  <2>4. Waiting = {} BY DEF Init, Waiting, EventsOf
  <2>5. EachInOnePlace BY <2>3, <2>4 DEF Init, EachInOnePlace
  <2>6. Buffer = <<>>
    <3>1. \A n \in Nat : \A S : [1 .. n -> S] \subseteq Seq(S) OBVIOUS
    <3>2. input_queue \in Seq(0 .. MaxEvents) BY <2>1, <3>1, InputAssumption DEF LoopTyped
    <3> QED BY <3>2 DEF Init, Buffer
  <2>7. TakenInOrder BY <2>3, <2>6 DEF Init, TakenInOrder, InOrder, Before
  <2>8. GeneratorsKnown BY DEF Init, GeneratorsKnown
  <2> QED BY <2>1, <2>2, <2>5, <2>7, <2>8 DEF EventsInv
<1>2. InputInv /\ [Next]_vars => InputInv'
  <2> SUFFICES ASSUME InputInv, [Next]_vars PROVE InputInv' OBVIOUS
  <2>a. DescInv /\ EventsInv /\ LoopTyped BY DEF InputInv, EventsInv
  <2>b. /\ due \in [Fds -> BOOLEAN] /\ churn \in 0 .. MaxChurn /\ ready \subseteq Fds
        /\ at \in {"lua", "select", "scan", "read"} /\ MaxChurn \in Nat
        /\ generators \subseteq 1 .. MaxChurn /\ forgotten \subseteq 1 .. MaxChurn
        /\ fake_ev_generator_pid \in {-1} \cup 1 .. MaxChurn
        /\ GeneratorsKnown /\ QueuesApart /\ eof \in BOOLEAN
    BY <2>a, InputAssumption DEF LoopTyped, EventsInv
  <2>1. CASE WaitStarts
    <3> USE <2>1 DEF WaitStarts, array, timers, gens, kernel, reading, world, log
    <3>1. DescInv' BY <2>a, DescUnchanged
    <3>2. EventsInv' BY <2>a, <2>b, QuietKeeps
    <3> QED BY <3>1, <3>2 DEF InputInv
  <2>2. CASE SelectReturns
    <3> USE <2>2 DEF SelectReturns, array, timers, gens, kernel, reading, world, log
    <3>1. DescInv' BY <2>a, DescUnchanged
    <3>2. ready' \subseteq Fds BY <2>a, DescTypes DEF Selected
    <3>3. EventsInv' BY <2>a, <2>b, <3>2, QuietKeeps
    <3> QED BY <3>1, <3>3 DEF InputInv
  <2>3. CASE SelectEnds
    <3> USE <2>3 DEF SelectEnds, array, timers, gens, kernel, reading, world, log
    <3>1. DescInv' BY <2>a, DescUnchanged
    <3>2. EventsInv' BY <2>a, <2>b, QuietKeeps
    <3> QED BY <3>1, <3>2 DEF InputInv
  <2>4. CASE ReadStarts
    <3>1. DescInv'
      BY <2>4, <2>a, DescUnchanged DEF ReadStarts, array, timers, kernel
    <3> QED BY <3>1, <2>4, <2>a, ReadStartsKeeps DEF InputInv
  <2>5. ASSUME NEW n \in Nodes, ReportTimer(n) PROVE InputInv'
    <3> USE <2>5 DEF ReportTimer, array, timers, gens, kernel, reading, world, log
    <3>1. DescInv' BY <2>a, DescUnchanged
    <3>2. EventsInv' BY <2>a, <2>b, QuietKeeps
    <3> QED BY <3>1, <3>2 DEF InputInv
  <2>6. CASE Reads
    <3>1. DescInv' BY <2>6, <2>a, DescUnchanged DEF Reads, array, timers
    <3> QED BY <3>1, <2>6, <2>a, ReadsKeeps DEF InputInv
  <2>7. CASE ReadEnds
    <3>1. DescInv' BY <2>7, <2>a, DescUnchanged DEF ReadEnds, array, timers, kernel
    <3>2. delivered' = delivered \cup Taken
      <4>1. delivered' = delivered \cup Elems(ev_array \o Buffer)
        BY <2>7 DEF ReadEnds, drain_input_queue, Elems, Buffer
      <4> QED BY <4>1, <2>a, EventTypes, Concatenated DEF Taken
    <3>3. EventsInv'
      <4>1. {} \in SUBSET Fds OBVIOUS
      <4> QED BY <4>1, <3>2, <2>7, <2>a, <2>b, LeavesKeeps DEF ReadEnds, gens, kernel, world
    <3> QED BY <3>1, <3>3 DEF InputInv
  <2>8. CASE ReadFindsNoDevice
    <3>1. i \in 0 .. fd_idx - 1
      BY <2>8, <2>a, DescTypes DEF ReadFindsNoDevice, EventsInv, TakenInOrder, LoopTyped, Index
    <3>2. DescInv' BY <3>1, <2>8, <2>a, SlotFreed DEF ReadFindsNoDevice, timers
    <3>3. {inputfds[i]} \in SUBSET Fds BY <3>1, <2>a, DescTypes
    <3>4. lost' = lost \cup Taken \cup EventsOf({inputfds[i]})
      BY <2>8 DEF ReadFindsNoDevice, Taken
    <3>5. Closes({inputfds[i]}) BY <2>8 DEF ReadFindsNoDevice, closeByIndex
    <3> DEFINE C == {inputfds[i]}
    <3>6. at = "read" /\ Leaves /\ delivered' = delivered /\ churn' = churn /\ eof' = eof
          /\ UNCHANGED <<fake_ev_generator_pid, generators, forgotten, events>>
      BY <2>8 DEF ReadFindsNoDevice, gens, world
    <3>7. churn' \in 0 .. MaxChurn /\ eof' \in BOOLEAN BY <3>6, <2>b
    <3>8. C \in SUBSET Fds /\ Closes(C) /\ lost' = lost \cup Taken \cup EventsOf(C)
      BY <3>3, <3>4, <3>5
    <3> HIDE DEF C
    <3>9. EventsInv' BY ONLY <3>6, <3>7, <3>8, <2>a, LeavesKeeps
    <3> QED BY <3>2, <3>9 DEF InputInv
  <2>9. CASE ReadFindsEnd \/ ReadFails
    <3> USE <2>9 DEF ReadFindsEnd, ReadFails, array, timers, gens, kernel, world
    <3>1. DescInv' BY <2>a, DescUnchanged
    <3>2. EventsOf({}) = {} /\ {} \in SUBSET Fds BY DEF EventsOf
    <3>3. lost' = lost \cup Taken \cup EventsOf({}) BY <3>2 DEF Taken
    <3>4. churn' \in 0 .. MaxChurn /\ eof' \in BOOLEAN
      <4>1. CASE ReadFindsEnd
        <5>1. churn' = churn /\ eof' = TRUE BY <4>1
        <5> QED BY <5>1, <2>b
      <4>2. CASE ReadFails
        <5>1. churn' = churn + 1 /\ churn < MaxChurn /\ eof' = eof BY <4>2
        <5> QED BY <5>1, <2>b
      <4> QED BY <4>1, <4>2
    <3>5. at = "read" /\ Leaves /\ delivered' = delivered
          /\ UNCHANGED <<kind, queue, due, writer>>
          /\ UNCHANGED <<fake_ev_generator_pid, generators, forgotten, events>>
      OBVIOUS
    <3>6. EventsInv' BY ONLY <3>2, <3>3, <3>4, <3>5, <2>a, LeavesKeeps
    <3> QED BY <3>1, <3>6 DEF InputInv
  <2>10. CASE closeAllInputDevices
    <3>1. DescInv' BY <2>10, <2>a, closeAllKeeps
    <3> DEFINE C == InputFds(inputfds, fd_idx) \cup TimerFds
    <3>2. C \in SUBSET Fds /\ Closes(C) BY <2>10, <2>a, DescTypes DEF closeAllInputDevices
    <3>3. EventsOf(C) = EventsOf(InputFds(inputfds, fd_idx))
      <4>1. \A fd \in TimerFds : queue[fd] = <<>>
        BY <2>a, <2>b, DescTypes DEF DescInv, KindsKnown, QueuesApart
      <4>2. \A fd \in TimerFds : DOMAIN queue[fd] = {} BY <4>1
      <4> HIDE DEF C
      <4>3. \A fd : fd \in C <=> fd \in InputFds(inputfds, fd_idx) \/ fd \in TimerFds
        BY DEF C
      <4> QED BY <4>2, <4>3 DEF EventsOf
    <3>4. GeneratorsKnown' /\ generators' \subseteq generators
          /\ fake_ev_generator_pid' \in {-1, fake_ev_generator_pid} /\ forgotten' = forgotten
      BY <2>10, <2>b DEF closeAllInputDevices, KillGenerator, GeneratorsKnown
    <3> HIDE DEF C
    <3>5. EventsInv'
      BY <3>2, <3>3, <3>4, <2>10, <2>a, ClosedKeeps DEF closeAllInputDevices, reading, world
    <3> QED BY <3>1, <3>5 DEF InputInv
  <2>11. ASSUME NEW n \in Nodes, clearTimer(n) PROVE InputInv'
    <3>1. DescInv' BY <2>11, <2>a, clearTimerKeeps
    <3> DEFINE fd == node[n].fd
    <3>2. fd \in Fds /\ kind[fd] = "timer"
      <4>1. n \in Used BY <2>11 DEF clearTimer, Used
      <4> QED BY <4>1, <2>a, DescTypes DEF DescInv, KindsKnown
    <3>3. EventsOf({fd}) = {}
      <4>1. queue[fd] = <<>> BY <3>2, <2>b DEF QueuesApart
      <4> QED BY <4>1 DEF EventsOf
    <3>4. Closes({fd}) /\ lost' = lost \cup EventsOf({fd}) /\ GeneratorsKnown'
      BY <3>3, <2>11, <2>b DEF clearTimer, gens, log, GeneratorsKnown
    <3> HIDE DEF fd
    <3>5. EventsInv'
      <4>1. {fd} \in SUBSET Fds BY <3>2
      <4> QED BY <4>1, <3>4, <2>11, <2>a, ClosedKeeps DEF clearTimer, gens, reading, world, log
    <3> QED BY <3>1, <3>5 DEF InputInv
  <2>12. ASSUME NEW fd \in Fds, openInputDevice(fd) PROVE InputInv'
    <3>1. TakesSlot(fd) /\ Opens(fd, "device", 0) /\ UNCHANGED <<head, tail, node>>
      BY <2>12 DEF openInputDevice, timers
    <3>2. DescInv' BY <3>1, <2>a, SlotTaken
    <3>3. "device" \in Kinds /\ 0 \in 0 .. MaxChurn BY <2>b DEF Kinds
    <3>4. GeneratorsKnown' BY <2>12, <2>b DEF openInputDevice, gens, GeneratorsKnown
    <3>5. EventsInv'
      BY <3>1, <3>3, <3>4, <2>12, <2>a, <2>b, OpensKeeps DEF openInputDevice, gens, reading, log
    <3> QED BY <3>2, <3>5 DEF InputInv
  <2>13. ASSUME NEW fd \in Fds, openFakeEvents(fd) PROVE InputInv'
    <3> DEFINE childpid == churn + 1
    <3>1. /\ TakesSlot(fd) /\ Opens(fd, "pipe", childpid) /\ UNCHANGED <<head, tail, node>>
          /\ generators' = generators \cup {childpid}
          /\ forgotten' = forgotten \cup ({fake_ev_generator_pid} \ {-1})
          /\ fake_ev_generator_pid' = childpid
      BY <2>13 DEF openFakeEvents, timers
    <3>2. DescInv' BY <3>1, <2>a, SlotTaken
    <3>3. childpid \in 1 .. MaxChurn BY <3>1, <2>b DEF Opens
    <3>4. "pipe" \in Kinds /\ childpid \in 0 .. MaxChurn BY <3>3, <2>b DEF Kinds
    <3> HIDE DEF childpid
    <3>5. GeneratorsKnown'
      <4>1. -1 \notin generators BY <2>b
      <4> QED BY <4>1, <3>1, <2>b DEF GeneratorsKnown
    <3>6. /\ generators' \subseteq 1 .. MaxChurn /\ forgotten' \subseteq 1 .. MaxChurn
          /\ fake_ev_generator_pid' \in {-1} \cup 1 .. MaxChurn
      BY <3>1, <3>3, <2>b
    <3>7. EventsInv'
      BY <3>1, <3>4, <3>5, <3>6, <2>13, <2>a, OpensKeeps DEF openFakeEvents, reading, log
    <3> QED BY <3>2, <3>7 DEF InputInv
  <2>14. ASSUME NEW fd \in Fds, closeByFd(fd) PROVE InputInv'
    <3> DEFINE S == {s \in 0 .. fd_idx - 1 : inputfds[s] = fd}
    <3>1. S \in SUBSET Nat /\ S # {}
      BY <2>14, <2>a, DescTypes DEF closeByFd, InputFds
    <3>2. Min(S) \in S BY <3>1, MinOfNats
    <3>3. closeByIndex(Min(S)) /\ inputfds[Min(S)] = fd BY <3>2, <2>14 DEF closeByFd
    <3>4. DescInv' BY <3>2, <3>3, <2>14, <2>a, SlotFreed DEF closeByFd, timers
    <3>5. Closes({fd}) /\ {fd} \in SUBSET Fds BY <3>3 DEF closeByIndex
    <3>6. GeneratorsKnown' BY <2>14, <2>b DEF closeByFd, gens, GeneratorsKnown
    <3>7. EventsInv'
      BY <3>5, <3>6, <2>14, <2>a, ClosedKeeps DEF closeByFd, gens, reading, world
    <3> QED BY <3>4, <3>7 DEF InputInv
  <2>15. ASSUME NEW fd \in Fds, Event(fd) PROVE InputInv'
    <3>1. DescInv' BY <2>15, <2>a, DescUnchanged DEF Event, array, timers
    <3> QED BY <3>1, <2>15, <2>a, EventKeeps DEF InputInv
  <2>16. ASSUME NEW fd \in Fds, Ends(fd) PROVE InputInv'
    <3> USE <2>16 DEF Ends, array, timers, gens, reading, world, log
    <3>1. DescInv' BY <2>a, DescUnchanged
    <3>2. due' \in [Fds -> BOOLEAN] BY <2>b
    <3>3. EventsInv' BY <2>a, <2>b, <3>2, QuietKeeps
    <3> QED BY <3>1, <3>3 DEF InputInv
  <2>17. ASSUME NEW fd \in Fds, NEW n \in Nodes, setTimer(n, fd) PROVE InputInv'
    <3>1. DescInv' BY <2>17, <2>a, setTimerKeeps
    <3>2. Opens(fd, "timer", 0) BY <2>17 DEF setTimer
    <3>3. "timer" \in Kinds /\ 0 \in 0 .. MaxChurn BY <2>b DEF Kinds
    <3>4. GeneratorsKnown' BY <2>17, <2>b DEF setTimer, gens, GeneratorsKnown
    <3>5. EventsInv'
      BY <3>2, <3>3, <3>4, <2>17, <2>a, <2>b, OpensKeeps DEF setTimer, gens, reading, log
    <3> QED BY <3>1, <3>5 DEF InputInv
  <2>18. ASSUME NEW pid \in generators, GeneratorEnds(pid) PROVE InputInv'
    <3> USE <2>18 DEF GeneratorEnds, array, timers, reading, log
    <3>1. DescInv' BY <2>a, DescUnchanged
    <3>2. due' \in [Fds -> BOOLEAN] /\ churn' \in 0 .. MaxChurn BY <2>b
    <3>3. EventsInv' BY <2>a, <2>b, <3>2, QuietKeeps
    <3> QED BY <3>1, <3>3 DEF InputInv
  <2>19. CASE UNCHANGED vars
    <3> USE <2>19 DEF vars, array, timers, gens, kernel, reading, world, log
    <3>1. DescInv' BY <2>a, DescUnchanged
    <3>2. EventsInv' BY <2>a, <2>b, QuietKeeps
    <3> QED BY <3>1, <3>2 DEF InputInv
  <2> QED BY <2>1, <2>2, <2>3, <2>4, <2>5, <2>6, <2>7, <2>8, <2>9, <2>10, <2>11, <2>12,
             <2>13, <2>14, <2>15, <2>16, <2>17, <2>18, <2>19 DEF Next, Wait
<1> QED BY <1>1, <1>2, PTL DEF Spec

\* Only nodes are reported.
ToldTyped == told \subseteq Nodes

LEMMA ToldAreNodes == Spec => []ToldTyped
<1>1. Init => ToldTyped BY DEF Init, ToldTyped
<1>2. ToldTyped /\ [Next]_vars => ToldTyped'
  <2> SUFFICES ASSUME ToldTyped, [Next]_vars PROVE ToldTyped' OBVIOUS
  <2> USE DEF ToldTyped
  <2>1. CASE \E n \in Nodes : ReportTimer(n) BY <2>1 DEF ReportTimer
  <2>2. CASE \E n \in Nodes : clearTimer(n) BY <2>2 DEF clearTimer
  <2>3. CASE closeAllInputDevices BY <2>3 DEF closeAllInputDevices
  <2>4. CASE WaitStarts \/ SelectReturns \/ SelectEnds \/ ReadStarts \/ Reads
    BY <2>4 DEF WaitStarts, SelectReturns, SelectEnds, ReadStarts, Reads, log
  <2>5. CASE ReadEnds \/ ReadFindsNoDevice \/ ReadFindsEnd \/ ReadFails
    BY <2>5 DEF ReadEnds, ReadFindsNoDevice, ReadFindsEnd, ReadFails
  <2>6. CASE \E fd \in Fds : openInputDevice(fd) \/ openFakeEvents(fd) \/ closeByFd(fd)
    BY <2>6 DEF openInputDevice, openFakeEvents, closeByFd, log
  <2>7. CASE \E fd \in Fds : \/ Event(fd) \/ Ends(fd)
                            \/ \E n \in Nodes : setTimer(n, fd)
    BY <2>7 DEF Event, Ends, setTimer, log
  <2>8. CASE \E pid \in generators : GeneratorEnds(pid) BY <2>8 DEF GeneratorEnds, log
  <2>9. CASE UNCHANGED vars BY <2>9 DEF vars, log
  <2> QED BY <2>1, <2>2, <2>3, <2>4, <2>5, <2>6, <2>7, <2>8, <2>9 DEF Next, Wait
<1> QED BY <1>1, <1>2, PTL DEF Spec

\* The array has no hole and no closed descriptor, and select is told of every
\* input and timer, for any descriptors, slots and timers.
THEOREM DescriptorsAreConsistent == Spec => []DescriptorsConsistent
<1>1. InputInv /\ ToldTyped => DescriptorsConsistent
  <2> SUFFICES ASSUME InputInv, ToldTyped PROVE DescriptorsConsistent OBVIOUS
  <2>1. DescInv /\ LoopTyped /\ GeneratorsKnown BY DEF InputInv, EventsInv
  <2>2. TypeOK BY <2>1 DEF DescInv, ArrayTyped, NodesTyped, LoopTyped, ToldTyped, TypeOK
  <2>3. InputFds(inputfds, fd_idx) \cup TimerFds = Selected
    BY <2>1 DEF DescInv, SelectCovers, Selected
  <2> QED BY <2>1, <2>2, <2>3
          DEF DescriptorsConsistent, DescInv, SlotsFilled, KindsKnown, GeneratorsKnown
<1> QED BY <1>1, InputInvariance, ToldAreNodes, PTL

\* The timers form one list, the same in both directions, of the nodes in use.
THEOREM TimerListsAreIntact == Spec => []TimerListIntact
<1>1. InputInv => TimerListIntact BY DEF InputInv, DescInv
<1> QED BY <1>1, InputInvariance, PTL

\* No event is returned twice, out of order or lost but with its device or a
\* failed read, for any buffer and any number of events.
THEOREM EventsAreKept == Spec => []EventsKept
<1>1. InputInv => EventsKept
  <2> SUFFICES ASSUME InputInv PROVE EventsKept OBVIOUS
  <2>1. DescInv /\ EventsInv /\ LoopTyped BY DEF InputInv, EventsInv
  <2> DEFINE last == IF at = "read" THEN queue[inputfds[i]] ELSE <<>>
             coming == ev_array \o Buffer \o last
  <2>2. /\ Pushed = Elems(ev_array) /\ Buffered = Elems(Buffer)
        /\ ev_array \in Seq(Nat) /\ Buffer \in Seq(Nat)
    BY <2>1, EventTypes
  <2>3. last \in Seq(Nat) /\ InOrder(last) /\ Before(Taken, Elems(last))
    <3>1. CASE at = "read"
      <4>1. i \in 0 .. fd_idx - 1
        BY <3>1, <2>1, DescTypes DEF EventsInv, TakenInOrder, LoopTyped, Index
      <4>2. inputfds[i] \in Fds BY <4>1, <2>1, DescTypes
      <4> QED BY <4>2, <3>1, <2>1, EventTypes DEF EventsInv, QueuesApart, TakenInOrder
    <3>2. CASE at # "read" BY <3>2 DEF InOrder, Before, Elems
    <3> QED BY <3>1, <3>2
  <2> HIDE DEF last
  <2>4. /\ ev_array \o Buffer \in Seq(Nat) /\ InOrder(ev_array \o Buffer)
        /\ Elems(ev_array \o Buffer) = Taken
    BY <2>1, <2>2, Concatenated DEF EventsInv, TakenInOrder, Taken
  <2>5. InOrder(coming) BY <2>3, <2>4, Concatenated
  <2>6. \A j, k \in DOMAIN coming : j < k => coming[j] < coming[k]
    BY <2>5 DEF InOrder
  <2>7. EachInOnePlace BY <2>1 DEF EventsInv
  <2>8. EventsOf(Fds) \cup Pushed \cup Buffered = Waiting \cup Taken BY DEF Waiting, Taken
  <2> QED BY <2>6, <2>7, <2>8 DEF EventsKept, EachInOnePlace, last, Buffer
<1> QED BY <1>1, InputInvariance, PTL

-----------------------------------------------------------------------------
(* The pointers of the SDL front end.                                      *)

FingerSlots == 0 .. SDL_PEN_SLOT - 1

(* Each finger on the screen has a slot of its own, which is not the pen's *)
(* and holds its contact; fingers and mouse are not used at once.          *)
FingersApart ==
  /\ \A f \in touching : finger_pointers[f] \in FingerSlots /\ contact[finger_pointers[f]] = f
  /\ \A f \in Fingers \ touching : finger_pointers[f] = None
  /\ \A f, g \in touching : finger_pointers[f] = finger_pointers[g] => f = g
  /\ touching # {} => desk = {"finger"}

MouseFollows ==
  /\ \A s \in pointers : (\E b \in held : SlotOf(b) = s) /\ contact[s] = s
  /\ \A s \in FingerSlots : contact[s] # None =>
       s \in pointers \/ \E f \in touching : finger_pointers[f] = s

\* The deadline is the instant it stands for, and the mouse has no contact
\* before.
DeadlineKept ==
  /\ suppress_until[1] * Second + suppress_until[2] = last_pen + Suppression
  /\ pointers # {} => now >= last_pen + Suppression

Near(p) == pen[p].at # "away"

PenState == [at : {"away", "near", "touch"}, tool : Tools, buttons : SUBSET PenButtons]

\* A pen has a pointer while it is near, and the keys show its tool and buttons.
PenFollows(p) ==
  /\ pen_pointers[p] # None <=> Near(p)
  /\ Near(p) => /\ pen_pointers[p].explicit = proximity
                /\ pen_pointers[p].down = (pen[p].at = "touch")
                /\ pen_tool_state = {pen[p].tool}
                /\ pen_button_state = pen[p].buttons
  /\ pen[p].at = "touch" => contact[SDL_PEN_SLOT] = p /\ tool_type = pen[p].tool
  /\ proximity /\ ~Near(p) => pen[p].buttons = {}

\* At most one pen is near, and the contact in the slot of pens is its own.
PensFollow ==
  /\ \A p, q \in Pens : Near(p) /\ Near(q) => p = q
  /\ \A p \in Pens : PenFollows(p)
  /\ contact[SDL_PEN_SLOT] # None =>
       \E p \in Pens : pen[p].at = "touch" /\ contact[SDL_PEN_SLOT] = p
  /\ (\A p \in Pens : ~Near(p)) =>
       /\ pen_tool_state = {} /\ (proximity => pen_button_state = {})
       /\ pen_button_state \in {{}} \cup {pen[p].buttons : p \in Pens}

PointersInv == SDLTypeOK /\ FingersApart /\ MouseFollows /\ DeadlineKept /\ PensFollow

LEMMA Lexicographic ==
  ASSUME NEW S \in Nat \ {0}, NEW a \in Int, NEW b \in 0 .. S - 1,
         NEW c \in Int, NEW d \in 0 .. S - 1
  PROVE  (a * S + b >= c * S + d) <=> (a > c \/ (a = c /\ b >= d))
<1>1. CASE a = c BY <1>1
<1>2. CASE a > c
  <2>1. a * S >= (c + 1) * S BY <1>2
  <2>2. (c + 1) * S = c * S + S OBVIOUS
  <2> QED BY <2>1, <2>2, <1>2
<1>3. CASE a < c
  <2>1. c * S >= (a + 1) * S BY <1>3
  <2>2. (a + 1) * S = a * S + S OBVIOUS
  <2> QED BY <2>1, <2>2, <1>3
<1> QED BY <1>1, <1>2, <1>3

LEMMA Clock ==
  ASSUME NEW n \in Nat
  PROVE  /\ n \div Second \in Nat /\ n % Second \in 0 .. Second - 1
         /\ n = (n \div Second) * Second + (n % Second)
BY ClockAssumption

\* The mouse is let in again at the instant the deadline stands for.
LEMMA DeadlinePasses ==
  ASSUME SDLTypeOK, DeadlineKept
  PROVE  shouldHandleMousePointer <=> now >= last_pen + Suppression
<1>1. now \in Nat /\ Second \in Nat \ {0}
  BY ClockAssumption DEF SDLTypeOK
<1>2. suppress_until[1] \in Nat /\ suppress_until[2] \in 0 .. Second - 1
  BY DEF SDLTypeOK
<1>3. gettime[1] = now \div Second /\ gettime[2] = now % Second BY DEF gettime
<1>4. /\ gettime[1] \in Int /\ gettime[2] \in 0 .. Second - 1
      /\ gettime[1] * Second + gettime[2] = now
  BY <1>1, <1>3, Clock
<1>5. suppress_until[1] * Second + suppress_until[2] = last_pen + Suppression
  BY DEF DeadlineKept
<1> HIDE DEF gettime
<1>6. shouldHandleMousePointer <=>
        gettime[1] * Second + gettime[2] >= suppress_until[1] * Second + suppress_until[2]
  <2> DEFINE a == gettime[1]  b == gettime[2]  c == suppress_until[1]  d == suppress_until[2]
  <2>1. a \in Int /\ b \in 0 .. Second - 1 /\ c \in Int /\ d \in 0 .. Second - 1
    BY <1>2, <1>4
  <2>2. shouldHandleMousePointer <=> (a > c \/ (a = c /\ b >= d))
    BY DEF shouldHandleMousePointer
  <2> HIDE DEF a, b, c, d
  <2>3. (a * Second + b >= c * Second + d) <=> (a > c \/ (a = c /\ b >= d))
    BY <1>1, <2>1, Lexicographic
  <2> QED BY <2>2, <2>3 DEF a, b, c, d
<1> QED BY <1>4, <1>5, <1>6

LEMMA FiveElements ==
  ASSUME NEW S, IsFiniteSet(S), NEW a \in S, NEW b \in S, NEW c \in S, NEW d \in S, NEW e \in S,
         b # a, c \notin {a, b}, d \notin {a, b, c}, e \notin {a, b, c, d}
  PROVE  Cardinality(S) >= 5
<1> DEFINE T1 == {a}  T2 == T1 \cup {b}  T3 == T2 \cup {c}  T4 == T3 \cup {d}  T5 == T4 \cup {e}
<1>1. b \notin T1 /\ c \notin T2 /\ d \notin T3 /\ e \notin T4 OBVIOUS
<1>2. T5 \in SUBSET S /\ \A x \in S : IsFiniteSet({x})
  BY FS_Singleton
<1>3. IsFiniteSet(T1) /\ Cardinality(T1) = 1 BY FS_Singleton
<1> HIDE DEF T1
<1>4. IsFiniteSet(T2) /\ Cardinality(T2) = 2 BY <1>1, <1>3, FS_AddElement
<1> HIDE DEF T2
<1>5. IsFiniteSet(T3) /\ Cardinality(T3) = 3 BY <1>1, <1>4, FS_AddElement
<1> HIDE DEF T3
<1>6. IsFiniteSet(T4) /\ Cardinality(T4) = 4 BY <1>1, <1>5, FS_AddElement
<1> HIDE DEF T4
<1>7. Cardinality(T5) = 5
  <2>1. Cardinality(T4 \cup {e}) = Cardinality(T4) + 1
    BY ONLY <1>1, <1>6, FS_AddElement
  <2> QED BY <2>1, <1>6
<1> HIDE DEF T5
<1>8. Cardinality(T5) <= Cardinality(S)
  <2>1. T5 \in SUBSET S BY <1>2
  <2> QED BY ONLY <2>1, IsFiniteSet(S), FS_Subset
<1>9. Cardinality(S) \in Nat BY FS_CardinalityType
<1> QED BY <1>7, <1>8, <1>9

\* A new finger gets a slot that no finger has, and that is not the pen's.
LEMMA SlotForFinger ==
  ASSUME SDLTypeOK, FingersApart, NEW f \in Fingers \ touching
  PROVE  getFingerSlot(f) \in FingerSlots
         /\ \A g \in touching : getFingerSlot(f) # finger_pointers[g]
<1> DEFINE Free == {s \in FingerSlots : s \notin UsedSlots}
<1>1. Free # {}
  <2> SUFFICES ASSUME Free = {} PROVE FALSE OBVIOUS
  <2>1. \A s \in {0, 1, 2, 3} : \E g \in Fingers : finger_pointers[g] = s
    BY DEF UsedSlots, FingerSlots, SDL_PEN_SLOT
  <2>2. PICK g0 \in Fingers, g1 \in Fingers, g2 \in Fingers, g3 \in Fingers :
          /\ finger_pointers[g0] = 0 /\ finger_pointers[g1] = 1
          /\ finger_pointers[g2] = 2 /\ finger_pointers[g3] = 3
    BY <2>1
  <2>3. finger_pointers[f] = None /\ None \notin {0, 1, 2, 3}
    BY ClockAssumption DEF FingersApart, ContactSlots, SDL_PEN_SLOT
  <2>4. Cardinality(Fingers) >= 5
    BY <2>2, <2>3, ClockAssumption, FiveElements
  <2> QED BY <2>4, ClockAssumption, FS_CardinalityType
<1>2. PICK m \in Free : \A s \in Free : m <= s
  BY <1>1, MinOfNats DEF FingerSlots, SDL_PEN_SLOT
<1>3. m \in 0 .. 3 /\ m \notin UsedSlots /\ \A t \in 0 .. m - 1 : t \in UsedSlots
  BY <1>2 DEF FingerSlots, SDL_PEN_SLOT
<1>4. getFingerSlot(f) = CHOOSE s \in ContactSlots :
                           s \notin UsedSlots /\ \A t \in 0 .. s - 1 : t \in UsedSlots
  BY DEF getFingerSlot, FingersApart
<1> DEFINE slot == getFingerSlot(f)
<1>5. slot \in ContactSlots /\ slot \notin UsedSlots /\ \A t \in 0 .. slot - 1 : t \in UsedSlots
  <2>1. m \in ContactSlots BY <1>3 DEF ContactSlots, SDL_PEN_SLOT
  <2> QED BY <1>3, <1>4, <2>1
<1> HIDE DEF slot
<1>6. slot <= m
  <2>1. slot \in Int /\ m \in Int BY <1>3, <1>5 DEF ContactSlots, SDL_PEN_SLOT
  <2>2. m < slot => m \in 0 .. slot - 1 BY <1>3, <2>1
  <2> QED BY <1>3, <1>5, <2>1, <2>2
<1>7. slot \in FingerSlots
  BY <1>3, <1>5, <1>6 DEF ContactSlots, FingerSlots, SDL_PEN_SLOT
<1>8. \A g \in touching : finger_pointers[g] \in UsedSlots
  <2>1. \A s \in FingerSlots : s # None
    BY ClockAssumption DEF FingerSlots, ContactSlots, SDL_PEN_SLOT
  <2> QED BY <2>1 DEF FingersApart, UsedSlots, SDLTypeOK
<1> QED BY <1>5, <1>7, <1>8 DEF slot

\* The deadline of a pen's event is 350 ms after it.
LEMMA DeadlineSet ==
  ASSUME SDLTypeOK, suppressMousePointersAfterPenEvent
  PROVE  /\ suppress_until' \in Nat \X (0 .. Second - 1)
         /\ suppress_until'[1] * Second + suppress_until'[2] = now + Suppression
<1> DEFINE k == now \div Second  u == now % Second
<1>1. /\ now \in Nat /\ Second \in Nat \ {0} /\ Suppression \in 1 .. Second
      /\ Suppression \in Nat
  BY ClockAssumption DEF SDLTypeOK
<1>2. k \in Nat /\ u \in 0 .. Second - 1 /\ now = k * Second + u
  BY <1>1, Clock
<1>3. suppress_until' = IF u + Suppression >= Second
                        THEN <<k + 1, (u + Suppression) - Second>>
                        ELSE <<k, u + Suppression>>
  <2>1. gettime[1] = k /\ gettime[2] = u BY DEF gettime
  <2> HIDE DEF k, u
  <2> QED BY <2>1 DEF suppressMousePointersAfterPenEvent, SuppressUntil
<1> HIDE DEF k, u
<1>4. CASE u + Suppression >= Second
  <2>1. suppress_until'[1] = k + 1 /\ suppress_until'[2] = (u + Suppression) - Second
        /\ suppress_until' = <<k + 1, (u + Suppression) - Second>>
    BY <1>3, <1>4
  <2>2. (u + Suppression) - Second \in 0 .. Second - 1 BY <1>1, <1>2, <1>4
  <2>3. (k + 1) * Second = k * Second + Second BY <1>1, <1>2
  <2>4. (k + 1) * Second + ((u + Suppression) - Second) = now + Suppression
    <3> DEFINE prod == k * Second
    <3>1. prod \in Int BY <1>1, <1>2
    <3> HIDE DEF prod
    <3> QED BY <1>1, <1>2, <2>3, <3>1 DEF prod
  <2> QED BY <1>1, <1>2, <2>1, <2>2, <2>4
<1>5. CASE ~(u + Suppression >= Second)
  <2>1. suppress_until' = <<k, u + Suppression>> BY <1>3, <1>5
  <2>2. u + Suppression \in 0 .. Second - 1 BY <1>1, <1>2, <1>5
  <2>3. k * Second + (u + Suppression) = now + Suppression BY <1>1, <1>2
  <2> QED BY <1>2, <2>1, <2>2, <2>3
<1> QED BY <1>4, <1>5

LEMMA PenEventKeeps ==
  ASSUME PointersInv, suppressMousePointersAfterPenEvent, NEW x \in Pens \cup {None},
         contact' = [Released EXCEPT ![SDL_PEN_SLOT] = x],
         UNCHANGED <<desk, proximity, held, touching, now, finger_pointers>>
  PROVE  /\ FingersApart' /\ MouseFollows' /\ DeadlineKept'
         /\ pointers' = {} /\ last_pen' \in 0 .. MaxTime
         /\ contact'[SDL_PEN_SLOT] = x
         /\ contact' \in [ContactSlots -> ContactSlots \cup Fingers \cup Pens \cup {None}]
<1>1. pointers' = {} /\ last_pen' = now /\ now \in 0 .. MaxTime
  BY DEF suppressMousePointersAfterPenEvent, PointersInv, SDLTypeOK
<1>2. contact \in [ContactSlots -> ContactSlots \cup Fingers \cup Pens \cup {None}]
  BY DEF PointersInv, SDLTypeOK
<1>3. /\ contact'[SDL_PEN_SLOT] = x
      /\ contact' \in [ContactSlots -> ContactSlots \cup Fingers \cup Pens \cup {None}]
      /\ \A s \in FingerSlots : contact'[s] = IF s \in pointers THEN None ELSE contact[s]
  BY <1>2 DEF Released, ContactSlots, FingerSlots, SDL_PEN_SLOT
<1>4. touching # {} => pointers = {}
  BY DEF PointersInv, FingersApart, MouseFollows, SDLTypeOK
<1>5. FingersApart' BY <1>3, <1>4 DEF PointersInv, FingersApart
<1>6. MouseFollows' BY <1>1, <1>3 DEF PointersInv, MouseFollows
<1>7. DeadlineKept' BY <1>1, DeadlineSet DEF PointersInv, DeadlineKept
<1> QED BY <1>1, <1>3, <1>5, <1>6, <1>7

\* The step of one pen while the others are away: r is its new state, point
\* its new pointer.
LEMMA PenStepKeeps ==
  ASSUME PointersInv, NEW p \in Pens, OthersAway(p), suppressMousePointersAfterPenEvent,
         UNCHANGED <<desk, proximity, held, touching, now, finger_pointers>>,
         NEW r \in PenState, pen' = [pen EXCEPT ![p] = r],
         NEW point \in PenPointer \cup {None},
         pen_pointers' = [pen_pointers EXCEPT ![p] = point],
         contact' = [Released EXCEPT ![SDL_PEN_SLOT] = IF r.at = "touch" THEN p ELSE None],
         pen_button_state' \subseteq PenButtons, tool_type' \in Tools \cup {"finger"},
         point # None <=> r.at # "away",
         r.at # "away" => /\ point.explicit = proximity
                          /\ point.down = (r.at = "touch")
                          /\ pen_tool_state' = {r.tool}
                          /\ pen_button_state' = r.buttons,
         r.at = "touch" => tool_type' = r.tool,
         r.at = "away" => /\ pen_tool_state' = {} /\ pen_button_state' \in {{}, r.buttons}
                          /\ proximity => r.buttons = {} /\ pen_button_state' = {}
  PROVE  PointersInv'
<1> DEFINE x == IF r.at = "touch" THEN p ELSE None
<1>1. x \in Pens \cup {None} OBVIOUS
<1> HIDE DEF x
<1>2. contact' = [Released EXCEPT ![SDL_PEN_SLOT] = x] BY DEF x
<1>3. /\ FingersApart' /\ MouseFollows' /\ DeadlineKept'
      /\ pointers' = {} /\ last_pen' \in 0 .. MaxTime
      /\ contact'[SDL_PEN_SLOT] = x
      /\ contact' \in [ContactSlots -> ContactSlots \cup Fingers \cup Pens \cup {None}]
  BY <1>1, <1>2, PenEventKeeps
<1>4. SDLTypeOK /\ PensFollow /\ pen \in [Pens -> PenState]
      /\ pen_pointers \in [Pens -> PenPointer \cup {None}]
  BY DEF PointersInv, SDLTypeOK, PenState
<1>5. pen' \in [Pens -> PenState] /\ pen'[p] = r /\ \A q \in Pens \ {p} : pen'[q] = pen[q]
  BY <1>4
<1>6. /\ pen_pointers' \in [Pens -> PenPointer \cup {None}] /\ pen_pointers'[p] = point
      /\ \A q \in Pens \ {p} : pen_pointers'[q] = pen_pointers[q]
  BY <1>4
<1>7. pen_tool_state' \subseteq Tools
  <2>1. CASE r.at # "away" BY <2>1 DEF PenState
  <2>2. CASE r.at = "away" BY <2>2
  <2> QED BY <2>1, <2>2
<1>8. SDLTypeOK'
  BY <1>3, <1>4, <1>5, <1>6, <1>7, DeadlineSet DEF SDLTypeOK, PenState
<1>9. PenFollows(p)'
  <2>1. x = p \/ r.at # "touch" BY DEF x
  <2>2. contact'[SDL_PEN_SLOT] = p \/ r.at # "touch" BY <1>3, <2>1
  <2>3. pen'[p] = r /\ pen_pointers'[p] = point /\ proximity' = proximity BY <1>5, <1>6
  <2> QED BY <2>2, <2>3 DEF PenFollows, Near, ToolOf
<1>10. ASSUME NEW q \in Pens \ {p} PROVE PenFollows(q)' /\ ~Near(q)'
  <2>1. ~Near(q) /\ PenFollows(q) BY <1>4 DEF OthersAway, Near, PensFollow
  <2>2. pen'[q] = pen[q] /\ pen_pointers'[q] = pen_pointers[q] /\ proximity' = proximity
    BY <1>5, <1>6
  <2> QED BY <2>1, <2>2 DEF PenFollows, Near
<1>11. PensFollow'
  <2>1. contact'[SDL_PEN_SLOT] # None => r.at = "touch" /\ contact'[SDL_PEN_SLOT] = p
    BY <1>3 DEF x
  <2>2. ~Near(p)' => /\ pen_tool_state' = {} /\ (proximity' => pen_button_state' = {})
                     /\ pen_button_state' \in {{}} \cup {pen'[q].buttons : q \in Pens}
    BY <1>5 DEF Near
  <2> QED BY <1>5, <1>9, <1>10, <2>1, <2>2 DEF PensFollow
<1> QED BY <1>3, <1>8, <1>11 DEF PointersInv

\* What the tables say of the one pen that may be near.
LEMMA PenKnown ==
  ASSUME PointersInv, NEW p \in Pens, OthersAway(p)
  PROVE  /\ pen[p] \in PenState /\ pen \in [Pens -> PenState]
         /\ Released[SDL_PEN_SLOT] = IF pen[p].at = "touch" THEN p ELSE None
         /\ Released \in [ContactSlots -> ContactSlots \cup Fingers \cup Pens \cup {None}]
         /\ IsDown(p) <=> pen[p].at = "touch"
         /\ pen_pointers \in [Pens -> PenPointer \cup {None}]
         /\ None \notin PenPointer
         /\ getPenPointer(p) \in PenPointer
         /\ Near(p) => getPenPointer(p) = pen_pointers[p] /\ pen_pointers[p] # None
         /\ getPenPointer(p).explicit = (Near(p) /\ proximity)
         /\ ~Near(p) => /\ pen_tool_state = {} /\ getPenPointer(p).down = FALSE
                        /\ proximity => pen_button_state = {} /\ pen[p].buttons = {}
         /\ pen_button_state \subseteq PenButtons /\ proximity \in BOOLEAN
         /\ tool_type \in Tools \cup {"finger"}
<1>1. /\ pen \in [Pens -> PenState] /\ pen[p] \in PenState
      /\ pen_pointers \in [Pens -> PenPointer \cup {None}]
      /\ pointers \subseteq Mouse /\ pen_button_state \subseteq PenButtons /\ proximity \in BOOLEAN
      /\ contact \in [ContactSlots -> ContactSlots \cup Fingers \cup Pens \cup {None}]
      /\ tool_type \in Tools \cup {"finger"}
  BY DEF PointersInv, SDLTypeOK, PenState
<1>2. PenFollows(p) /\ PensFollow BY DEF PointersInv, PensFollow
<1>3. None \notin PenPointer /\ None # p BY ClockAssumption
<1>4. SDL_PEN_SLOT \in ContactSlots /\ SDL_PEN_SLOT \notin pointers
  BY <1>1 DEF SDL_PEN_SLOT, ContactSlots, Mouse
<1>5. Released[SDL_PEN_SLOT] = contact[SDL_PEN_SLOT]
      /\ Released \in [ContactSlots -> ContactSlots \cup Fingers \cup Pens \cup {None}]
  BY <1>1, <1>4 DEF Released
<1>6. contact[SDL_PEN_SLOT] = IF pen[p].at = "touch" THEN p ELSE None
  <2>1. CASE pen[p].at = "touch" BY <2>1, <1>2 DEF PenFollows
  <2>2. CASE pen[p].at # "touch"
    <3>1. \A q \in Pens : pen[q].at # "touch" BY <2>2 DEF OthersAway
    <3> QED BY <3>1, <2>2, <1>2 DEF PensFollow
  <2> QED BY <2>1, <2>2
<1>7. pen_pointers[p] # None <=> Near(p) BY <1>2 DEF PenFollows
<1>8. CASE Near(p)
  <2>1. pen_pointers[p] # None /\ pen_pointers[p] \in PenPointer BY <1>1, <1>7, <1>8
  <2>2. pen_pointers[p].explicit = proximity /\ pen_pointers[p].down = (pen[p].at = "touch")
    BY <1>2, <1>8 DEF PenFollows
  <2>3. getPenPointer(p) = pen_pointers[p] BY <2>1 DEF getPenPointer
  <2>4. pen_pointers[p].down \in BOOLEAN /\ pen_pointers[p].explicit \in BOOLEAN
    BY <2>1 DEF PenPointer
  <2>5. IsDown(p) <=> pen[p].at = "touch" BY <2>1, <2>2, <2>4 DEF IsDown
  <2> QED BY <1>1, <1>3, <1>5, <1>6, <1>8, <2>1, <2>2, <2>3, <2>5
<1>9. CASE ~Near(p)
  <2>1. pen_pointers[p] = None /\ pen[p].at = "away" BY <1>7, <1>9 DEF Near
  <2>2. getPenPointer(p) = [down |-> FALSE, explicit |-> FALSE, tool |-> "pen", placed |-> FALSE]
    BY <2>1 DEF getPenPointer
  <2>3. getPenPointer(p) \in PenPointer BY <2>2 DEF PenPointer, Tools
  <2>4. \A q \in Pens : ~Near(q) BY <1>9 DEF OthersAway, Near
  <2>5. pen_tool_state = {} /\ (proximity => pen_button_state = {} /\ pen[p].buttons = {})
    BY <1>2, <1>9, <2>4 DEF PensFollow, PenFollows
  <2>6. ~IsDown(p) BY <2>1 DEF IsDown
  <2>7. getPenPointer(p).explicit = FALSE /\ getPenPointer(p).down = FALSE BY <2>2
  <2> QED BY <1>1, <1>3, <1>5, <1>6, <1>9, <2>1, <2>3, <2>5, <2>6, <2>7
<1> QED BY <1>8, <1>9

\* The pen touches or hovers with a tool, its new state being r.
LEMMA ContactKeeps ==
  ASSUME PointersInv, NEW p \in Pens, OthersAway(p), NEW down \in BOOLEAN, NEW tool \in Tools,
         NEW r \in PenState, pen' = [pen EXCEPT ![p] = r],
         r.at # "away", down = (r.at = "touch"), IsDown(p) => down,
         tool = r.tool,
         Near(p) \/ ~proximity,
         suppressMousePointersAfterPenEvent, updatePenContact(p, down, tool),
         pen_button_state' = r.buttons,
         UNCHANGED <<desk, proximity, held, touching, now, finger_pointers>>
  PROVE  PointersInv'
<1> DEFINE point == [getPenPointer(p) EXCEPT !.tool = tool, !.down = down, !.placed = TRUE]
<1>1. /\ getPenPointer(p) \in PenPointer /\ None \notin PenPointer
      /\ getPenPointer(p).explicit = (Near(p) /\ proximity)
      /\ Released[SDL_PEN_SLOT] = IF pen[p].at = "touch" THEN p ELSE None
      /\ Released \in [ContactSlots -> ContactSlots \cup Fingers \cup Pens \cup {None}]
      /\ IsDown(p) <=> pen[p].at = "touch"
  BY PenKnown
<1>2. (down \/ IsDown(p)) = down BY DEF IsDown
<1>3. pen_pointers' = [pen_pointers EXCEPT ![p] = point] /\ pen_tool_state' = {point.tool}
      /\ tool_type' = tool
      /\ contact' = [Released EXCEPT ![SDL_PEN_SLOT] =
                       IF ~down THEN None ELSE IF IsDown(p) THEN @ ELSE p]
  BY <1>2 DEF updatePenContact, beginPenProximity
<1>4. point \in PenPointer /\ point.explicit = getPenPointer(p).explicit
      /\ point.down = down /\ point.tool = tool
  BY <1>1 DEF PenPointer
<1> HIDE DEF point
<1>5. contact' = [Released EXCEPT ![SDL_PEN_SLOT] = IF r.at = "touch" THEN p ELSE None]
  <2>1. CASE ~down BY <2>1, <1>3
  <2>2. CASE down /\ IsDown(p) BY <2>2, <1>1, <1>3
  <2>3. CASE down /\ ~IsDown(p) BY <2>3, <1>3
  <2> QED BY <2>1, <2>2, <2>3
<1>6. point \in PenPointer \cup {None} /\ point # None BY <1>1, <1>4
<1>7. point.explicit = proximity
  BY <1>1, <1>4 DEF PointersInv, SDLTypeOK
<1>8. pen_button_state' \subseteq PenButtons BY DEF PenState
<1>9. tool_type' \in Tools \cup {"finger"} /\ pen_tool_state' = {r.tool}
      /\ point.down = (r.at = "touch") /\ tool_type' = r.tool
  BY <1>3, <1>4
<1>10. /\ point # None <=> r.at # "away"
       /\ r.at # "away" => /\ point.explicit = proximity
                           /\ point.down = (r.at = "touch")
                           /\ pen_tool_state' = {r.tool}
                           /\ pen_button_state' = r.buttons
       /\ r.at = "touch" => tool_type' = r.tool
       /\ r.at = "away" => /\ pen_tool_state' = {} /\ pen_button_state' \in {{}, r.buttons}
                           /\ proximity => r.buttons = {} /\ pen_button_state' = {}
  BY <1>6, <1>7, <1>9
<1>11. pen_pointers' = [pen_pointers EXCEPT ![p] = point] BY <1>3
<1> QED BY <1>5, <1>6, <1>8, <1>9, <1>10, <1>11, PenStepKeeps

LEMMA PensUnchanged ==
  ASSUME PensFollow, contact'[SDL_PEN_SLOT] = contact[SDL_PEN_SLOT],
         UNCHANGED <<proximity, pen, penVars>>
  PROVE  PensFollow'
<1>1. /\ proximity' = proximity /\ pen' = pen /\ pen_pointers' = pen_pointers
      /\ pen_button_state' = pen_button_state /\ pen_tool_state' = pen_tool_state
      /\ tool_type' = tool_type
  BY DEF penVars
<1>2. \A p \in Pens : (Near(p)' <=> Near(p)) /\ (PenFollows(p)' <=> PenFollows(p))
  BY <1>1 DEF Near, PenFollows, ToolOf
<1> QED BY <1>1, <1>2 DEF PensFollow, Near

LEMMA MouseKeeps ==
  ASSUME PointersInv, NEW b \in desk, MouseDown(b) \/ MouseUp(b)
  PROVE  PointersInv'
<1> DEFINE s == SlotOf(b)
<1>1. /\ SDLTypeOK /\ FingersApart /\ MouseFollows /\ DeadlineKept /\ PensFollow
      /\ held \subseteq desk \ {"finger"} /\ pointers \subseteq Mouse
      /\ contact \in [ContactSlots -> ContactSlots \cup Fingers \cup Pens \cup {None}]
  BY DEF PointersInv, SDLTypeOK
<1>2. /\ s \in Mouse /\ s \in ContactSlots /\ s # SDL_PEN_SLOT /\ s # None
      /\ SDL_PEN_SLOT \in ContactSlots /\ FingerSlots \subseteq ContactSlots
  BY ClockAssumption DEF SlotOf, Mouse, ContactSlots, SDL_PEN_SLOT, FingerSlots
<1>3. /\ UNCHANGED <<desk, proximity, touching, pen, now, last_pen, finger_pointers, suppress_until>>
      /\ UNCHANGED penVars
      /\ held' \subseteq desk \ {"finger"}
  BY <1>1 DEF MouseDown, MouseUp
<1>4. touching = {}
  <2>1. b # "finger" BY <1>1 DEF MouseDown, MouseUp
  <2> QED BY <2>1, <1>1 DEF FingersApart
<1>5. /\ pointers' \subseteq Mouse
      /\ contact' \in [ContactSlots -> ContactSlots \cup Fingers \cup Pens \cup {None}]
      /\ contact'[SDL_PEN_SLOT] = contact[SDL_PEN_SLOT]
  BY <1>1, <1>2 DEF MouseDown, MouseUp
<1>6. SDLTypeOK' BY <1>1, <1>3, <1>5 DEF SDLTypeOK, penVars
<1>7. FingersApart' BY <1>1, <1>3, <1>4 DEF FingersApart
<1>8. PensFollow' BY <1>1, <1>3, <1>5, PensUnchanged
<1>9. DeadlineKept' /\ MouseFollows'
  <2>1. CASE MouseDown(b)
    <3>1. held' = held \cup {b} BY <2>1 DEF MouseDown
    <3>2. CASE shouldHandleMousePointer /\ b \in {"left", "right"}
      <4>1. pointers' = pointers \cup {s} /\ contact' = [contact EXCEPT ![s] = s]
        BY <2>1, <3>2 DEF MouseDown
      <4>2. now >= last_pen + Suppression BY <1>1, <3>2, DeadlinePasses
      <4>3. DeadlineKept' BY <1>1, <1>3, <4>2 DEF DeadlineKept
      <4>4. contact'[s] = s /\ \A t \in ContactSlots \ {s} : contact'[t] = contact[t]
        BY <1>1, <1>2, <4>1
      <4>5. pointers \subseteq ContactSlots
        BY <1>1 DEF Mouse, ContactSlots, SDL_PEN_SLOT
      <4> HIDE DEF s
      <4>6. \A t \in pointers' : (\E c \in held' : SlotOf(c) = t) /\ contact'[t] = t
        BY <1>1, <3>1, <4>1, <4>4, <4>5 DEF MouseFollows, s
      <4>7. \A t \in FingerSlots : contact'[t] # None => t \in pointers'
        BY <1>1, <1>2, <1>4, <4>1, <4>4 DEF MouseFollows
      <4> QED BY <4>3, <4>6, <4>7 DEF MouseFollows
    <3>3. CASE ~(shouldHandleMousePointer /\ b \in {"left", "right"})
      <4>1. UNCHANGED <<pointers, contact>> BY <2>1, <3>3 DEF MouseDown
      <4> QED BY <1>1, <1>3, <3>1, <4>1 DEF MouseFollows, DeadlineKept
    <3> QED BY <3>2, <3>3
  <2>2. CASE MouseUp(b)
    <3>1. held' = held \ {b} BY <2>2 DEF MouseUp
    <3>2. CASE shouldHandleMousePointer /\ s \in pointers
      <4>1. pointers' = pointers \ {s} /\ contact' = [contact EXCEPT ![s] = None]
        BY <2>2, <3>2 DEF MouseUp
      <4>2. contact'[s] = None /\ \A t \in ContactSlots \ {s} : contact'[t] = contact[t]
        BY <1>1, <1>2, <4>1
      <4>3. pointers \subseteq ContactSlots
        BY <1>1 DEF Mouse, ContactSlots, SDL_PEN_SLOT
      <4>4. \A t \in pointers' : \E c \in held' : SlotOf(c) = t
        BY <1>1, <3>1, <4>1 DEF MouseFollows
      <4> HIDE DEF s
      <4>5. \A t \in pointers' : contact'[t] = t
        BY <1>1, <4>1, <4>2, <4>3 DEF MouseFollows
      <4>6. \A t \in FingerSlots : contact'[t] # None => t \in pointers'
        BY <1>1, <1>2, <1>4, <4>1, <4>2 DEF MouseFollows
      <4>7. DeadlineKept' BY <1>1, <1>3, <4>1 DEF DeadlineKept
      <4> QED BY <4>4, <4>5, <4>6, <4>7 DEF MouseFollows
    <3>3. CASE ~(shouldHandleMousePointer /\ s \in pointers)
      <4>1. UNCHANGED <<pointers, contact>> BY <2>2, <3>3 DEF MouseUp
      <4>2. s \notin pointers
        <5>1. shouldHandleMousePointer <=> now >= last_pen + Suppression BY <1>1, DeadlinePasses
        <5> QED BY <5>1, <3>3, <1>1 DEF DeadlineKept
      <4>3. \A t \in pointers' : \E c \in held' : SlotOf(c) = t
        BY <1>1, <3>1, <4>1, <4>2 DEF MouseFollows
      <4> QED BY <1>1, <1>3, <4>1, <4>3 DEF MouseFollows, DeadlineKept
    <3> QED BY <3>2, <3>3
  <2> QED BY <2>1, <2>2
<1> QED BY <1>6, <1>7, <1>8, <1>9 DEF PointersInv

LEMMA FingersKeep ==
  ASSUME PointersInv, NEW f \in Fingers, FingerDown(f) \/ FingerUp(f)
  PROVE  PointersInv'
<1> DEFINE s == getFingerSlot(f)
<1>1. /\ SDLTypeOK /\ FingersApart /\ MouseFollows /\ DeadlineKept /\ PensFollow
      /\ held \subseteq desk \ {"finger"} /\ touching \subseteq Fingers
      /\ finger_pointers \in [Fingers -> ContactSlots \cup {None}]
      /\ contact \in [ContactSlots -> ContactSlots \cup Fingers \cup Pens \cup {None}]
  BY DEF PointersInv, SDLTypeOK
<1>2. /\ s \in FingerSlots
      /\ \A g \in touching \ {f} : s # finger_pointers[g]
  <2>1. CASE f \in touching
    <3>1. finger_pointers[f] \in FingerSlots BY <2>1, <1>1 DEF FingersApart
    <3>2. finger_pointers[f] # None
      BY <3>1, ClockAssumption DEF FingerSlots, ContactSlots, SDL_PEN_SLOT
    <3>3. s = finger_pointers[f] BY <3>2 DEF getFingerSlot
    <3> QED BY <3>1, <3>3, <2>1, <1>1 DEF FingersApart
  <2>2. CASE f \notin touching BY <2>2, <1>1, SlotForFinger
  <2> QED BY <2>1, <2>2
<1> HIDE DEF s
<1>3. /\ s \in ContactSlots /\ s # SDL_PEN_SLOT /\ s # None /\ f # None
      /\ SDL_PEN_SLOT \in ContactSlots /\ FingerSlots \subseteq ContactSlots
  BY <1>2, ClockAssumption DEF ContactSlots, SDL_PEN_SLOT, FingerSlots
<1>4. /\ UNCHANGED <<desk, proximity, held, pen, now, last_pen, pointers, suppress_until>>
      /\ UNCHANGED penVars
      /\ "finger" \in desk
  BY <1>1 DEF FingerDown, FingerUp, FingersApart
<1>5. desk = {"finger"} /\ held = {} /\ pointers = {}
  <2>1. desk = {"finger"} BY <1>1, <1>4, ClockAssumption DEF SDLTypeOK
  <2> QED BY <2>1, <1>1 DEF MouseFollows
<1>6. CASE FingerDown(f)
  <2>1. /\ touching' = touching \cup {f} /\ f \notin touching
        /\ finger_pointers' = [finger_pointers EXCEPT ![f] = s]
        /\ contact' = [contact EXCEPT ![s] = f]
    BY <1>6 DEF FingerDown, s
  <2>2. /\ finger_pointers'[f] = s /\ \A g \in Fingers \ {f} : finger_pointers'[g] = finger_pointers[g]
        /\ contact'[s] = f /\ \A t \in ContactSlots \ {s} : contact'[t] = contact[t]
        /\ finger_pointers' \in [Fingers -> ContactSlots \cup {None}]
        /\ contact' \in [ContactSlots -> ContactSlots \cup Fingers \cup Pens \cup {None}]
    BY <1>1, <1>3, <2>1
  <2>3. SDLTypeOK' BY <1>1, <1>4, <2>1, <2>2 DEF SDLTypeOK, penVars
  <2>4. FingersApart'
    <3>1. \A g \in touching \ {f} :
            finger_pointers'[g] \in FingerSlots /\ contact'[finger_pointers'[g]] = g
      BY <1>1, <1>2, <1>3, <2>2 DEF FingersApart
    <3>2. \A g \in Fingers \ touching' : finger_pointers'[g] = None
      BY <1>1, <2>1, <2>2 DEF FingersApart
    <3>3. \A g, h \in touching' : finger_pointers'[g] = finger_pointers'[h] => g = h
      BY <1>1, <1>2, <2>1, <2>2 DEF FingersApart
    <3> QED BY <1>2, <1>4, <1>5, <2>1, <2>2, <3>1, <3>2, <3>3 DEF FingersApart
  <2>5. MouseFollows'
    <3>1. ASSUME NEW t \in FingerSlots, contact'[t] # None
          PROVE  \E g \in touching' : finger_pointers'[g] = t
      <4>1. CASE t = s BY <4>1, <2>1, <2>2
      <4>2. CASE t # s
        <5>1. contact[t] # None BY <4>2, <3>1, <1>3, <2>2
        <5>2. PICK g \in touching : finger_pointers[g] = t BY <5>1, <1>1, <1>5 DEF MouseFollows
        <5> QED BY <5>2, <1>1, <2>1, <2>2
      <4> QED BY <4>1, <4>2
    <3> QED BY <3>1, <1>4, <1>5 DEF MouseFollows
  <2>6. DeadlineKept' BY <1>1, <1>4 DEF DeadlineKept
  <2>7. PensFollow' BY <1>1, <1>3, <1>4, <2>2, PensUnchanged
  <2> QED BY <2>3, <2>4, <2>5, <2>6, <2>7 DEF PointersInv
<1>7. CASE FingerUp(f)
  <2>1. /\ touching' = touching \ {f} /\ f \in touching
        /\ finger_pointers' = [finger_pointers EXCEPT ![f] = None]
        /\ contact' = [contact EXCEPT ![s] = None]
    BY <1>7 DEF FingerUp, s
  <2>2. /\ finger_pointers'[f] = None /\ \A g \in Fingers \ {f} : finger_pointers'[g] = finger_pointers[g]
        /\ contact'[s] = None /\ \A t \in ContactSlots \ {s} : contact'[t] = contact[t]
        /\ finger_pointers' \in [Fingers -> ContactSlots \cup {None}]
        /\ contact' \in [ContactSlots -> ContactSlots \cup Fingers \cup Pens \cup {None}]
    BY <1>1, <1>3, <2>1
  <2>3. SDLTypeOK' BY <1>1, <1>4, <2>1, <2>2 DEF SDLTypeOK, penVars
  <2>4. FingersApart'
    <3>1. \A g \in touching \ {f} :
            finger_pointers'[g] \in FingerSlots /\ contact'[finger_pointers'[g]] = g
      BY <1>1, <1>2, <1>3, <2>2 DEF FingersApart
    <3>2. \A g \in Fingers \ touching' : finger_pointers'[g] = None
      BY <1>1, <2>1, <2>2 DEF FingersApart
    <3>3. \A g, h \in touching' : finger_pointers'[g] = finger_pointers'[h] => g = h
      BY <1>1, <2>1, <2>2 DEF FingersApart
    <3> QED BY <1>4, <1>5, <2>1, <3>1, <3>2, <3>3 DEF FingersApart
  <2>5. MouseFollows'
    <3>1. ASSUME NEW t \in FingerSlots, contact'[t] # None
          PROVE  \E g \in touching' : finger_pointers'[g] = t
      <4>1. t # s BY <3>1, <2>2
      <4>2. contact[t] # None BY <4>1, <3>1, <1>3, <2>2
      <4>3. PICK g \in touching : finger_pointers[g] = t BY <4>2, <1>1, <1>5 DEF MouseFollows
      <4>4. finger_pointers[f] = s
        <5>1. finger_pointers[f] # None
          BY <1>1, <2>1, ClockAssumption DEF FingersApart, FingerSlots, ContactSlots, SDL_PEN_SLOT
        <5> QED BY <5>1 DEF getFingerSlot, s
      <4> QED BY <4>1, <4>3, <4>4, <1>1, <2>1, <2>2
    <3> QED BY <3>1, <1>4, <1>5 DEF MouseFollows
  <2>6. DeadlineKept' BY <1>1, <1>4 DEF DeadlineKept
  <2>7. PensFollow' BY <1>1, <1>3, <1>4, <2>2, PensUnchanged
  <2> QED BY <2>3, <2>4, <2>5, <2>6, <2>7 DEF PointersInv
<1> QED BY <1>6, <1>7

LEMMA PensKeep ==
  ASSUME PointersInv, NEW p \in Pens,
         \/ PenIn(p) \/ PenMotion(p) \/ PenUp(p) \/ PenOut(p)
         \/ \E tool \in Tools : PenDown(p, tool)
         \/ \E b \in PenButtons : PenButton(p, b)
  PROVE  PointersInv'
<1>1. OthersAway(p)
  <2>1. CASE Near(p) BY <2>1 DEF PointersInv, PensFollow, Near, OthersAway
  <2>2. CASE ~Near(p) BY <2>2 DEF Near, PenIn, PenDown, PenMotion, PenUp, PenOut, PenButton
  <2> QED BY <2>1, <2>2
<1>2. /\ pen[p] \in PenState /\ pen \in [Pens -> PenState]
      /\ Released[SDL_PEN_SLOT] = IF pen[p].at = "touch" THEN p ELSE None
      /\ Released \in [ContactSlots -> ContactSlots \cup Fingers \cup Pens \cup {None}]
      /\ IsDown(p) <=> pen[p].at = "touch"
      /\ pen_pointers \in [Pens -> PenPointer \cup {None}]
      /\ None \notin PenPointer
      /\ getPenPointer(p) \in PenPointer
      /\ Near(p) => getPenPointer(p) = pen_pointers[p] /\ pen_pointers[p] # None
      /\ getPenPointer(p).explicit = (Near(p) /\ proximity)
      /\ ~Near(p) => /\ pen_tool_state = {} /\ getPenPointer(p).down = FALSE
                     /\ proximity => pen_button_state = {} /\ pen[p].buttons = {}
      /\ pen_button_state \subseteq PenButtons /\ proximity \in BOOLEAN
      /\ tool_type \in Tools \cup {"finger"}
  BY <1>1, PenKnown
<1>3. PenFollows(p) BY DEF PointersInv, PensFollow
<1>4. pen[p].tool \in Tools /\ pen[p].buttons \subseteq PenButtons BY <1>2 DEF PenState
<1>5. SDL_PEN_SLOT \in ContactSlots BY DEF ContactSlots, SDL_PEN_SLOT
<1>6. CASE PenIn(p)
  <2> DEFINE r == [pen[p] EXCEPT !.at = "near", !.tool = "pen"]
             point == [getPenPointer(p) EXCEPT !.tool = "pen", !.explicit = TRUE]
  <2>1. proximity /\ ~Near(p) /\ pen[p].at = "away" BY <1>6 DEF PenIn, Near
  <2>2. r \in PenState /\ r.at = "near" /\ r.buttons = {} /\ r.tool = "pen"
    BY <1>2, <2>1 DEF PenState, Tools
  <2>3. pen' = [pen EXCEPT ![p] = r] BY <1>2, <1>6 DEF PenIn
  <2>4. point \in PenPointer /\ point.explicit = TRUE /\ point.down = FALSE
    BY <1>2, <2>1 DEF PenPointer, Tools
  <2>5. /\ pen_pointers' = [pen_pointers EXCEPT ![p] = point]
        /\ pen_tool_state' = {"pen"} /\ contact' = Released
        /\ pen_button_state' = {} /\ tool_type' = tool_type
        /\ suppressMousePointersAfterPenEvent
        /\ UNCHANGED <<desk, proximity, held, touching, now, finger_pointers>>
    BY <1>2, <1>6, <2>1 DEF PenIn, beginPenProximity
  <2> HIDE DEF r, point
  <2>6. contact' = [Released EXCEPT ![SDL_PEN_SLOT] = IF r.at = "touch" THEN p ELSE None]
    BY <1>2, <1>5, <2>1, <2>2, <2>5
  <2>7. point \in PenPointer \cup {None} /\ point # None BY <1>2, <2>4
  <2>8. pen_button_state' \subseteq PenButtons /\ tool_type' \in Tools \cup {"finger"}
    BY <1>2, <2>5
  <2>9. /\ point # None <=> r.at # "away"
        /\ r.at # "away" => /\ point.explicit = proximity
                            /\ point.down = (r.at = "touch")
                            /\ pen_tool_state' = {r.tool}
                            /\ pen_button_state' = r.buttons
        /\ r.at = "touch" => tool_type' = r.tool
        /\ r.at = "away" => /\ pen_tool_state' = {} /\ pen_button_state' \in {{}, r.buttons}
                            /\ proximity => r.buttons = {} /\ pen_button_state' = {}
    BY <1>2, <2>1, <2>2, <2>4, <2>5, <2>7
  <2> QED BY <1>1, <2>2, <2>3, <2>5, <2>6, <2>7, <2>8, <2>9, PenStepKeeps
<1>7. ASSUME NEW tool \in Tools, PenDown(p, tool) PROVE PointersInv'
  <2> DEFINE r == [pen[p] EXCEPT !.at = "touch", !.tool = tool]
  <2>1. r \in PenState /\ r.at = "touch" /\ r.tool = tool /\ r.buttons = pen[p].buttons
    BY <1>2 DEF PenState
  <2>2. pen' = [pen EXCEPT ![p] = r] BY <1>2, <1>7 DEF PenDown
  <2>3. Near(p) \/ ~proximity BY <1>7 DEF PenDown, Near
  <2>4. TRUE \in BOOLEAN OBVIOUS
  <2>5. /\ suppressMousePointersAfterPenEvent /\ updatePenContact(p, TRUE, tool)
        /\ pen_button_state' = r.buttons
        /\ UNCHANGED <<desk, proximity, held, touching, now, finger_pointers>>
    BY <1>7, <2>1 DEF PenDown
  <2> HIDE DEF r
  <2> QED BY <1>1, <2>1, <2>2, <2>3, <2>4, <2>5, ContactKeeps
<1>8. CASE PenMotion(p)
  <2> DEFINE down == pen[p].at = "touch"  tool == ToolOf(p)
             r == [pen[p] EXCEPT !.tool = tool]
  <2>0. tool \in Tools BY <1>4 DEF ToolOf, Tools
  <2>a. r \in PenState /\ r.at = pen[p].at /\ r.tool = tool /\ r.buttons = pen[p].buttons
    BY <1>2, <2>0 DEF PenState
  <2>1. /\ Near(p) /\ r.at # "away"
        /\ suppressMousePointersAfterPenEvent /\ updatePenContact(p, down, tool)
        /\ pen_button_state' = r.buttons
        /\ UNCHANGED <<desk, proximity, held, touching, now, finger_pointers>>
    BY <1>8, <2>a DEF PenMotion, Near
  <2>2. r \in PenState /\ pen' = [pen EXCEPT ![p] = r] BY <1>2, <1>8, <2>a DEF PenMotion
  <2>3. /\ down \in BOOLEAN /\ down = (r.at = "touch") /\ (IsDown(p) => down)
        /\ tool = r.tool
    BY <1>2, <2>a
  <2> HIDE DEF r, down, tool
  <2> QED BY <1>1, <2>0, <2>a, <2>1, <2>2, <2>3, ContactKeeps
<1>9. ASSUME NEW b \in PenButtons, PenButton(p, b) PROVE PointersInv'
  <2> DEFINE Toggle(set) == IF b \notin pen[p].buttons THEN set \cup {b} ELSE set \ {b}
             down == pen[p].at = "touch"  tool == ToolOf(p)
             r == [pen[p] EXCEPT !.buttons = Toggle(pen[p].buttons), !.tool = tool]
  <2>0. tool \in Tools BY <1>4 DEF ToolOf, Tools
  <2>1. /\ Near(p) /\ pen[p].at # "away"
        /\ suppressMousePointersAfterPenEvent /\ updatePenContact(p, down, tool)
        /\ UNCHANGED <<desk, proximity, held, touching, now, finger_pointers>>
    BY <1>9 DEF PenButton, Near
  <2>2. pen_button_state' = Toggle(pen_button_state) BY <1>9 DEF PenButton
  <2>3. pen_button_state = pen[p].buttons BY <1>3, <2>1 DEF PenFollows
  <2>4. Toggle(pen[p].buttons) \subseteq PenButtons BY <1>4
  <2>5. r \in PenState /\ r.at = pen[p].at /\ r.tool = tool
        /\ r.buttons = Toggle(pen[p].buttons)
    BY <1>2, <2>0, <2>4 DEF PenState
  <2>6. pen' = [pen EXCEPT ![p] = r] BY <1>2, <1>9 DEF PenButton
  <2>7. /\ down \in BOOLEAN /\ down = (r.at = "touch") /\ (IsDown(p) => down)
        /\ tool = r.tool
    BY <1>2, <2>5
  <2>8. pen_button_state' = r.buttons BY <2>2, <2>3, <2>5
  <2> HIDE DEF r, down, tool
  <2> QED BY <1>1, <2>0, <2>1, <2>5, <2>6, <2>7, <2>8, ContactKeeps
<1>10. CASE PenUp(p)
  <2> DEFINE r == [pen[p] EXCEPT !.at = IF proximity THEN "near" ELSE "away"]
             point == IF proximity
                      THEN [pen_pointers[p] EXCEPT !.down = FALSE, !.tool = ToolOf(p)]
                      ELSE None
  <2>1. /\ pen[p].at = "touch" /\ Near(p) /\ IsDown(p) BY <1>2, <1>10 DEF PenUp, Near
  <2>2. /\ pen_pointers[p] \in PenPointer /\ pen_pointers[p].explicit = proximity
        /\ pen_pointers[p] # None
        /\ pen_tool_state = {pen[p].tool}
    BY <1>2, <1>3, <2>1 DEF PenFollows
  <2>3. r \in PenState /\ r.at = (IF proximity THEN "near" ELSE "away")
        /\ r.buttons = pen[p].buttons /\ r.tool = pen[p].tool
    BY <1>2 DEF PenState
  <2>4. pen' = [pen EXCEPT ![p] = r] BY <1>2, <1>10 DEF PenUp
  <2>5. pen_button_state' = r.buttons BY <1>10, <2>3 DEF PenUp
  <2>6. pen_pointers' = [pen_pointers EXCEPT ![p] = point]
    BY <1>2, <1>10, <2>1, <2>2 DEF PenUp, EndsProximity
  <2>7. pen_tool_state' = IF proximity THEN {r.tool} ELSE {}
    BY <1>10, <2>2, <2>3 DEF PenUp, EndsProximity
  <2>8. ToolOf(p) \in Tools BY <1>4 DEF ToolOf, Tools
  <2>9. proximity => /\ point \in PenPointer /\ point.explicit = TRUE /\ point.down = FALSE
                     /\ point.tool = ToolOf(p)
    BY <2>2, <2>8 DEF PenPointer
  <2>10. ~proximity => point = None OBVIOUS
  <2>11. contact' = [Released EXCEPT ![SDL_PEN_SLOT] = IF r.at = "touch" THEN p ELSE None]
    BY <1>10, <2>1, <2>3 DEF PenUp
  <2>12. /\ suppressMousePointersAfterPenEvent
         /\ UNCHANGED <<desk, proximity, held, touching, now, finger_pointers>>
         /\ tool_type' \in Tools \cup {"finger"} /\ pen_button_state' \subseteq PenButtons
    BY <1>4, <1>10, <2>1, <2>3, <2>5, <2>8 DEF PenUp
  <2> HIDE DEF r, point
  <2>13. point \in PenPointer \cup {None} BY <1>2, <2>9, <2>10
  <2>14. /\ point # None <=> r.at # "away"
         /\ r.at # "away" => /\ point.explicit = proximity
                             /\ point.down = (r.at = "touch")
                             /\ pen_tool_state' = {r.tool}
                             /\ pen_button_state' = r.buttons
         /\ r.at = "touch" => tool_type' = r.tool
         /\ r.at = "away" => /\ pen_tool_state' = {} /\ pen_button_state' \in {{}, r.buttons}
                             /\ proximity => r.buttons = {} /\ pen_button_state' = {}
    BY <1>2, <2>3, <2>5, <2>7, <2>9, <2>10
  <2> QED BY <1>1, <2>3, <2>4, <2>6, <2>11, <2>12, <2>13, <2>14, PenStepKeeps
<1>11. CASE PenOut(p)
  <2> DEFINE r == [pen[p] EXCEPT !.at = "away", !.buttons = {}]
  <2>1. r \in PenState /\ r.at = "away" /\ r.buttons = {} BY <1>2 DEF PenState
  <2>2. pen' = [pen EXCEPT ![p] = r] BY <1>2, <1>11 DEF PenOut
  <2>3. /\ pen_pointers' = [pen_pointers EXCEPT ![p] = None]
        /\ pen_tool_state' = {} /\ pen_button_state' = {}
        /\ suppressMousePointersAfterPenEvent
        /\ UNCHANGED <<desk, proximity, held, touching, now, finger_pointers>>
        /\ tool_type' \in Tools \cup {"finger"}
    BY <1>2, <1>11 DEF PenOut
  <2>4. contact' = [Released EXCEPT ![SDL_PEN_SLOT] = None]
    <3>1. IsDown(p) \/ Released[SDL_PEN_SLOT] = None BY <1>2
    <3>2. \E b \in BOOLEAN :
            contact' = [Released EXCEPT ![SDL_PEN_SLOT] = IF IsDown(p) \/ b THEN None ELSE @]
      <4> DEFINE b == pen_pointers[p] # None /\ pen_pointers[p].placed
      <4>1. contact' = [Released EXCEPT ![SDL_PEN_SLOT] = IF IsDown(p) \/ b THEN None ELSE @]
        BY <1>11 DEF PenOut
      <4>2. b \in BOOLEAN BY <1>2 DEF PenPointer
      <4> QED BY <4>1, <4>2
    <3> QED BY <3>1, <3>2, <1>2, <1>5
  <2> HIDE DEF r
  <2>5. contact' = [Released EXCEPT ![SDL_PEN_SLOT] = IF r.at = "touch" THEN p ELSE None]
    BY <2>1, <2>4
  <2>6. None \in PenPointer \cup {None} /\ pen_button_state' \subseteq PenButtons BY <2>3
  <2> QED BY <1>1, <2>1, <2>2, <2>3, <2>5, <2>6, PenStepKeeps
<1> QED BY <1>6, <1>7, <1>8, <1>9, <1>10, <1>11

\* The invariant behind the three properties of the SDL front end.
THEOREM PointersInvariance == SDLSpec => []PointersInv
<1>1. SDLInit => PointersInv
  <2> SUFFICES ASSUME SDLInit PROVE PointersInv OBVIOUS
  <2>1. Second \in Nat \ {0} /\ Suppression \in Nat \ {0} /\ MaxTime \in Nat BY ClockAssumption
  <2>2. SDLTypeOK BY <2>1 DEF SDLInit, SDLTypeOK, Tools, PenButtons
  <2>3. FingersApart /\ MouseFollows
    BY DEF SDLInit, FingersApart, MouseFollows, FingerSlots, ContactSlots, SDL_PEN_SLOT
  <2>4. DeadlineKept
    <3>1. suppress_until[1] = 0 /\ suppress_until[2] = 0 /\ last_pen = -Suppression /\ pointers = {}
      BY DEF SDLInit
    <3> QED BY <2>1, <3>1 DEF DeadlineKept
  <2>5. PensFollow BY DEF SDLInit, PensFollow, PenFollows, Near, ContactSlots, SDL_PEN_SLOT
  <2> QED BY <2>2, <2>3, <2>4, <2>5 DEF PointersInv
<1>2. PointersInv /\ [SDLNext]_sdlVars => PointersInv'
  <2> SUFFICES ASSUME PointersInv, [SDLNext]_sdlVars PROVE PointersInv' OBVIOUS
  <2>1. CASE Tick
    <3>1. /\ now' = now + 1 /\ now < MaxTime
          /\ UNCHANGED <<desk, proximity, held, touching, pen, last_pen, pointers,
                         finger_pointers, suppress_until, contact>>
          /\ UNCHANGED penVars
      BY <2>1 DEF Tick, devices
    <3>2. SDLTypeOK' BY <3>1, ClockAssumption DEF PointersInv, SDLTypeOK, penVars
    <3>3. FingersApart' BY <3>1 DEF PointersInv, FingersApart
    <3>4. MouseFollows' BY <3>1 DEF PointersInv, MouseFollows
    <3>5. DeadlineKept'
      <4>1. now \in Nat /\ last_pen \in Int /\ Suppression \in Nat
        BY ClockAssumption DEF PointersInv, SDLTypeOK
      <4> QED BY <3>1, <4>1 DEF PointersInv, DeadlineKept
    <3>6. PensFollow' BY <3>1, PensUnchanged DEF PointersInv
    <3> QED BY <3>2, <3>3, <3>4, <3>5, <3>6 DEF PointersInv
  <2>2. CASE UNCHANGED sdlVars
    BY <2>2, PensUnchanged
       DEF PointersInv, SDLTypeOK, FingersApart, MouseFollows, DeadlineKept, sdlVars, devices, penVars
  <2> QED BY <2>1, <2>2, MouseKeeps, FingersKeep, PensKeep DEF SDLNext
<1> QED BY <1>1, <1>2, PTL DEF SDLSpec

\* Every contact the front end sees is that of a finger, a held button or a pen
\* that touches, for any fingers and pens and any bound on the clock.
THEOREM ContactsAlwaysFollow == SDLSpec => []ContactsFollow
<1>1. PointersInv => ContactsFollow
  <2> SUFFICES ASSUME PointersInv PROVE ContactsFollow OBVIOUS
  <2>1. SDLTypeOK /\ FingersApart /\ MouseFollows /\ PensFollow BY DEF PointersInv
  <2>2. \A s \in FingerSlots : s # None
    BY ClockAssumption DEF FingerSlots, ContactSlots, SDL_PEN_SLOT
  <2>3. ContactSlots = FingerSlots \cup {SDL_PEN_SLOT}
    BY DEF FingerSlots, ContactSlots, SDL_PEN_SLOT
  <2>4. \A p \in Pens : pen[p].at = "touch" <=> contact[SDL_PEN_SLOT] = p
    <3> TAKE p \in Pens
    <3>1. p # None BY ClockAssumption
    <3> QED BY <3>1, <2>1 DEF PensFollow, PenFollows
  <2>5. \A f \in touching : finger_pointers[f] # None /\ contact[finger_pointers[f]] = f
    BY <2>1, <2>2 DEF FingersApart
  <2>6. \A s \in pointers : \E b \in held : SlotOf(b) = s /\ contact[s] = s
    BY <2>1 DEF MouseFollows
  <2>7. \A s \in ContactSlots : contact[s] # None =>
          \/ s \in pointers \/ \E f \in touching : finger_pointers[f] = s
          \/ s = SDL_PEN_SLOT /\ \E p \in Pens : pen[p].at = "touch"
    BY <2>1, <2>3 DEF MouseFollows, PensFollow
  <2> QED BY <2>1, <2>4, <2>5, <2>6, <2>7 DEF ContactsFollow, FingersApart
<1> QED BY <1>1, PointersInvariance, PTL

\* The mouse makes no contact before the deadline a pen's event set, which is
\* exact for any length of the second and of the suppression.
THEOREM MouseAlwaysYieldsToPen == SDLSpec => []MouseYieldsToPen
<1>1. PointersInv => MouseYieldsToPen
  <2> SUFFICES ASSUME PointersInv PROVE MouseYieldsToPen OBVIOUS
  <2>1. SDLTypeOK /\ DeadlineKept BY DEF PointersInv
  <2> QED BY <2>1, DeadlinePasses DEF MouseYieldsToPen, DeadlineKept
<1> QED BY <1>1, PointersInvariance, PTL

\* The keys of a pen that is near show its tool and its buttons; when no pen is
\* near no tool key is down, nor a button key but those of a pen that only
\* touches and was lifted with the button held.
THEOREM PenKeysAlwaysFollow == SDLSpec => []PenKeysFollow
<1>1. PointersInv => PenKeysFollow
  <2> SUFFICES ASSUME PointersInv PROVE PenKeysFollow OBVIOUS
  <2>1. PensFollow BY DEF PointersInv
  <2> QED BY <2>1 DEF PenKeysFollow, PensFollow, PenFollows, Near
<1> QED BY <1>1, PointersInvariance, PTL
=============================================================================
