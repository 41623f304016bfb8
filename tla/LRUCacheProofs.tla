--------------------------- MODULE LRUCacheProofs ---------------------------
(***************************************************************************)
(* Proofs about LRUCache for any number of keys, tuples and objects and    *)
(* any limits.  The inductive invariant says that the links form one chain *)
(* whose every NEXT leads to the immediate predecessor in the order of     *)
(* use; that is what makes list.oldest, a pointer moved by local surgery,  *)
(* the least recently used entry.  The byte count is a sum, which the      *)
(* module Folds defines by recursion over sets: what it is for all finite  *)
(* sets follows from a smallest one for which it would not be so.          *)
(***************************************************************************)
EXTENDS LRUCache, FiniteSetTheorems, WellFoundedInduction, NaturalsInduction, TLAPS

(* Cutting a tuple out keeps the chain of the others: lua.lru's cut is     *)
(* right for the newest, the oldest, the only and any other tuple.         *)
LEMMA CutWellFormed ==
  ASSUME NEW S \in SUBSET Tuples, NEW l, NEW o, NEW t \in S,
         WellFormed(l, S, o)
  PROVE  WellFormed(cut(l, t), S \ {t}, Forgotten(o, t))
<1> DEFINE c == cut(l, t)
           p == l.PREV[t]
           n == l.NEXT[t]
           q == Forgotten(o, t)
           R == S \ {t}
<1>0. /\ Nil \notin Tuples /\ t \in Tuples
      /\ l \in ListType /\ p \in Tuples \cup {Nil} /\ n \in Tuples \cup {Nil}
  BY NilAssumption DEF WellFormed, ListType
<1>1. /\ c.newest = IF p = Nil THEN n ELSE l.newest
      /\ c.oldest = IF n = Nil THEN p ELSE l.oldest
      /\ \A u \in Tuples : c.PREV[u] = IF u = t THEN Nil
                                    ELSE IF u = n THEN p ELSE l.PREV[u]
      /\ \A u \in Tuples : c.NEXT[u] = IF u = t THEN Nil
                                    ELSE IF u = p THEN n ELSE l.NEXT[u]
  BY DEF cut
<1>2. c \in ListType
  BY <1>0 DEF cut, ListType
<1>3. \A u, w \in R : <<u, w>> \in q <=> <<u, w>> \in o
  BY DEF Forgotten
<1>n. /\ n # Nil => n \in R /\ l.PREV[n] = t /\ <<n, t>> \in o
      /\ p # Nil => p \in R /\ l.NEXT[p] = t /\ <<t, p>> \in o
      /\ p # Nil /\ n # Nil => p # n /\ <<n, p>> \in o
  <2>0. Chain(l, S, o) /\ StrictOrder(o, S)
    BY DEF WellFormed
  <2>1. n # Nil => n \in R /\ l.PREV[n] = t /\ <<n, t>> \in o
    BY <2>0 DEF Chain, StrictOrder
  <2>2. ASSUME p # Nil PROVE p \in R /\ l.NEXT[p] = t /\ <<t, p>> \in o
    <3>1. p \in S /\ l.NEXT[p] = t
      BY <2>0, <2>2 DEF Chain
    <3>2. <<t, p>> \in o
      BY <1>0, <2>0, <3>1 DEF Chain
    <3> QED
      BY <2>0, <3>1, <3>2 DEF StrictOrder
  <2> QED
    BY <2>0, <2>1, <2>2 DEF StrictOrder
<1> HIDE DEF c, p, n
<1>4. StrictOrder(q, R)
  <2>1. q \subseteq R \X R
    BY DEF Forgotten, WellFormed, StrictOrder
  <2> QED
    BY <1>3, <2>1 DEF WellFormed, StrictOrder
<1>5. Chain(c, R, q)
  <2>0. Chain(l, S, o) /\ StrictOrder(o, S)
    BY DEF WellFormed
  <2>1. \A u \in Tuples \ R : c.NEXT[u] = Nil /\ c.PREV[u] = Nil
    BY <1>0, <1>1, <1>n, <2>0 DEF Chain, p, n
  <2>2. ASSUME NEW u \in R, c.NEXT[u] # Nil
        PROVE  /\ c.NEXT[u] \in R
               /\ c.PREV[c.NEXT[u]] = u
               /\ <<c.NEXT[u], u>> \in q
               /\ \A w \in R : w = u \/ w = c.NEXT[u] \/ <<u, w>> \in q
                               \/ <<w, c.NEXT[u]>> \in q
    <3>1. CASE u = p
      <4>1. c.NEXT[u] = n /\ n \in S /\ n # t /\ l.NEXT[u] = t /\ u # n
        BY <1>0, <1>1, <1>n, <2>2, <3>1
      <4>2. <<n, t>> \in o /\ <<t, u>> \in o /\ <<n, u>> \in o
        BY <1>0, <1>n, <3>1, <4>1
      <4>3. \A w \in R : w = u \/ w = n \/ <<u, w>> \in o \/ <<w, n>> \in o
        <5> TAKE w \in R
        <5>1. w = u \/ <<u, w>> \in o \/ <<w, t>> \in o
          BY <1>0, <2>0, <4>1 DEF Chain
        <5>2. w = n \/ <<t, w>> \in o \/ <<w, n>> \in o
          BY <1>0, <2>0, <4>1 DEF Chain, n
        <5>3. ~(<<t, w>> \in o /\ <<w, t>> \in o)
          BY <2>0 DEF StrictOrder
        <5> QED
          BY <5>1, <5>2, <5>3
      <4>4. c.PREV[n] = u
        BY <1>0, <1>1, <3>1, <4>1
      <4> QED
        BY <1>3, <4>1, <4>2, <4>3, <4>4, <2>2
    <3>2. CASE u # p
      <4>1. c.NEXT[u] = l.NEXT[u] /\ l.NEXT[u] \in S
        BY <1>0, <1>1, <2>0, <2>2, <3>2 DEF Chain
      <4>2. l.NEXT[u] # t
        BY <1>0, <2>0, <2>2, <3>2 DEF Chain, p
      <4>3. l.PREV[l.NEXT[u]] = u /\ <<l.NEXT[u], u>> \in o
        BY <1>0, <1>1, <2>0, <2>2, <4>1 DEF Chain
      <4>4. l.NEXT[u] # n
        BY <1>0, <1>n, <4>1, <4>2, <4>3
      <4>5. c.PREV[l.NEXT[u]] = u
        BY <1>0, <1>1, <4>1, <4>2, <4>3, <4>4
      <4>6. \A w \in R : w = u \/ w = l.NEXT[u] \/ <<u, w>> \in o
                         \/ <<w, l.NEXT[u]>> \in o
        BY <1>0, <2>0, <2>2, <4>1 DEF Chain
      <4> QED
        BY <1>3, <2>2, <4>1, <4>2, <4>3, <4>5, <4>6
    <3> QED
      BY <3>1, <3>2
  <2>3. ASSUME NEW u \in R, c.PREV[u] # Nil
        PROVE  c.PREV[u] \in R /\ c.NEXT[c.PREV[u]] = u
    <3>1. CASE u = n
      BY <1>0, <1>1, <1>n, <2>3, <3>1
    <3>2. CASE u # n
      <4>1. c.PREV[u] = l.PREV[u] /\ l.PREV[u] \in S
            /\ l.NEXT[l.PREV[u]] = u
        BY <1>0, <1>1, <2>0, <2>3, <3>2 DEF Chain
      <4>2. l.PREV[u] # t /\ l.PREV[u] # p
        BY <1>0, <1>n, <3>2, <4>1 DEF n
      <4> QED
        BY <1>0, <1>1, <4>1, <4>2
    <3> QED
      BY <3>1, <3>2
  <2> QED
    BY <2>1, <2>2, <2>3 DEF Chain
<1>6. Ends(c, R, q)
  <2>0. Chain(l, S, o) /\ StrictOrder(o, S) /\ Ends(l, S, o)
    BY DEF WellFormed
  <2>1. l.newest # Nil /\ l.oldest # Nil
    BY <2>0 DEF Ends
  <2>2. CASE R = {}
    <3>1. p = Nil /\ n = Nil
      BY <1>n, <2>2
    <3> QED
      BY <1>1, <2>2, <3>1 DEF Ends
  <2>3. CASE R # {}
    <3>1. /\ c.newest \in R
          /\ \A u \in R : (c.PREV[u] = Nil) <=> (u = c.newest)
          /\ \A u \in R : u # c.newest => <<u, c.newest>> \in o
      <4>1. CASE p = Nil
        <5>1. t = l.newest /\ n # Nil /\ n \in R /\ c.newest = n
          <6>1. t = l.newest
            BY <2>0, <2>1, <4>1 DEF Ends, p
          <6>2. n # Nil
            BY <2>0, <2>1, <2>3, <6>1 DEF Ends, StrictOrder, n
          <6> QED
            BY <1>1, <1>n, <4>1, <6>1, <6>2
        <5>2. \A u \in R : u # n => <<u, n>> \in o
          <6> TAKE u \in R
          <6>1. <<u, t>> \in o /\ <<t, u>> \notin o
            BY <2>0, <2>1, <5>1 DEF Ends, StrictOrder
          <6>2. u = n \/ <<t, u>> \in o \/ <<u, n>> \in o
            BY <1>0, <2>0, <5>1 DEF Chain, n
          <6> QED
            BY <6>1, <6>2
        <5>3. \A u \in R : (c.PREV[u] = Nil) <=> (u = n)
          <6> TAKE u \in R
          <6>1. c.PREV[u] = IF u = n THEN p ELSE l.PREV[u]
            BY <1>0, <1>1
          <6>2. l.PREV[u] # Nil
            BY <2>0, <2>1, <5>1 DEF Ends
          <6> QED
            BY <4>1, <6>1, <6>2
        <5> QED
          BY <5>1, <5>2, <5>3
      <4>2. CASE p # Nil
        <5>1. t # l.newest /\ l.newest \in R /\ c.newest = l.newest
          BY <1>1, <2>0, <2>1, <4>2 DEF Ends, p
        <5>2. \A u \in R : (c.PREV[u] = Nil) <=> (u = l.newest)
          <6> TAKE u \in R
          <6>1. c.PREV[u] = IF u = n THEN p ELSE l.PREV[u]
            BY <1>0, <1>1
          <6>2. (l.PREV[u] = Nil) <=> (u = l.newest)
            BY <2>0, <2>1 DEF Ends
          <6>3. u = n => l.PREV[u] = t
            BY <1>0, <1>n
          <6> QED
            BY <1>0, <4>2, <6>1, <6>2, <6>3
        <5> QED
          BY <2>0, <2>1, <5>1, <5>2 DEF Ends
      <4> QED
        BY <4>1, <4>2
    <3>2. /\ c.oldest \in R
          /\ \A u \in R : (c.NEXT[u] = Nil) <=> (u = c.oldest)
          /\ \A u \in R : u # c.oldest => <<c.oldest, u>> \in o
      <4>1. CASE n = Nil
        <5>1. t = l.oldest
          BY <2>0, <2>1, <4>1 DEF Ends, n
        <5>2. p # Nil
          <6> SUFFICES ASSUME p = Nil PROVE FALSE
            OBVIOUS
          <6>1. t = l.newest
            BY <2>0, <2>1 DEF Ends, p
          <6> QED
            BY <2>0, <2>1, <2>3, <5>1, <6>1 DEF Ends, StrictOrder
        <5>3. p \in R /\ l.NEXT[p] = t /\ c.oldest = p
          BY <1>1, <1>n, <4>1, <5>2
        <5>4. \A u \in R : u # p => <<p, u>> \in o
          <6> TAKE u \in R
          <6>1. <<t, u>> \in o /\ <<u, t>> \notin o
            BY <2>0, <2>1, <5>1 DEF Ends, StrictOrder
          <6>2. u = p \/ u = t \/ <<p, u>> \in o \/ <<u, t>> \in o
            BY <1>0, <2>0, <5>3 DEF Chain
          <6> QED
            BY <6>1, <6>2
        <5>5. \A u \in R : (c.NEXT[u] = Nil) <=> (u = p)
          <6> TAKE u \in R
          <6>1. c.NEXT[u] = IF u = p THEN n ELSE l.NEXT[u]
            BY <1>0, <1>1
          <6>2. l.NEXT[u] # Nil
            BY <2>0, <2>1, <5>1 DEF Ends
          <6> QED
            BY <4>1, <6>1, <6>2
        <5> QED
          BY <5>3, <5>4, <5>5
      <4>2. CASE n # Nil
        <5>1. t # l.oldest /\ l.oldest \in R /\ c.oldest = l.oldest
          BY <1>1, <2>0, <2>1, <4>2 DEF Ends, n
        <5>2. \A u \in R : (c.NEXT[u] = Nil) <=> (u = l.oldest)
          <6> TAKE u \in R
          <6>1. c.NEXT[u] = IF u = p THEN n ELSE l.NEXT[u]
            BY <1>0, <1>1
          <6>2. (l.NEXT[u] = Nil) <=> (u = l.oldest)
            BY <2>0, <2>1 DEF Ends
          <6>3. u = p => l.NEXT[u] = t
            BY <1>0, <1>n
          <6> QED
            BY <1>0, <4>2, <6>1, <6>2, <6>3
        <5> QED
          BY <2>0, <2>1, <5>1, <5>2 DEF Ends
      <4> QED
        BY <4>1, <4>2
    <3>3. c.newest # Nil /\ c.oldest # Nil
      BY <1>0, <3>1, <3>2
    <3> QED
      BY <1>3, <2>3, <3>1, <3>2, <3>3 DEF Ends
  <2> QED
    BY <2>2, <2>3
<1> QED
  BY <1>2, <1>4, <1>5, <1>6 DEF WellFormed, c

(* Inserting a tuple that is in no list puts it at the newest end. *)
LEMMA SetNewestWellFormed ==
  ASSUME NEW S \in SUBSET Tuples, NEW l, NEW o, NEW t \in Tuples \ S,
         WellFormed(l, S, o)
  PROVE  WellFormed(setNewest(l, t), S \cup {t}, UsedLast(o, S, t))
<1> DEFINE c == setNewest(l, t)
           q == UsedLast(o, S, t)
           R == S \cup {t}
<1>0. /\ Nil \notin Tuples /\ l \in ListType /\ StrictOrder(o, S)
      /\ Chain(l, S, o) /\ Ends(l, S, o)
  BY NilAssumption DEF WellFormed
<1>1. /\ \A u, w \in S : <<u, w>> \in q <=> <<u, w>> \in o
      /\ \A u \in S : <<u, t>> \in q /\ <<t, u>> \notin q
      /\ <<t, t>> \notin q
      /\ q \subseteq R \X R
  BY <1>0 DEF UsedLast, Forgotten, StrictOrder
<1>2. StrictOrder(q, R)
  BY <1>0, <1>1 DEF StrictOrder
<1>3. CASE l.newest = Nil
  <2>1. S = {}
    BY <1>0, <1>3 DEF Ends
  <2>2. /\ c.newest = t /\ c.oldest = t
        /\ c.PREV = l.PREV /\ c.NEXT = l.NEXT /\ c \in ListType
    BY <1>0, <1>3 DEF setNewest, ListType
  <2>3. Chain(c, R, q)
    BY <1>0, <2>1, <2>2 DEF Chain
  <2>4. Ends(c, R, q)
    BY <1>0, <2>1, <2>2 DEF Chain, Ends
  <2> QED
    BY <1>2, <2>2, <2>3, <2>4 DEF WellFormed
<1>4. CASE l.newest # Nil
  <2>1. /\ c.newest = t /\ c.oldest = l.oldest /\ c \in ListType
        /\ c.PREV = [l.PREV EXCEPT ![l.newest] = t]
        /\ c.NEXT = [l.NEXT EXCEPT ![t] = l.newest]
    BY <1>0, <1>4 DEF setNewest, ListType
  <2>2. l.newest \in S /\ l.oldest \in S /\ l.oldest # Nil /\ t \notin S
    BY <1>0, <1>4 DEF Ends
  <2>3. /\ c.NEXT[t] = l.newest /\ c.PREV[l.newest] = t
        /\ \A u \in Tuples : u # t => c.NEXT[u] = l.NEXT[u]
        /\ \A u \in Tuples : u # l.newest => c.PREV[u] = l.PREV[u]
    BY <1>0, <2>1, <2>2 DEF ListType
  <2>4. l.PREV[l.newest] = Nil /\ l.NEXT[t] = Nil /\ l.PREV[t] = Nil
    BY <1>0, <1>4, <2>2 DEF Ends, Chain
  <2>5. Chain(c, R, q)
    <3>1. \A u \in Tuples \ R : c.NEXT[u] = Nil /\ c.PREV[u] = Nil
      BY <1>0, <2>2, <2>3 DEF Chain
    <3>2. ASSUME NEW u \in R, c.NEXT[u] # Nil
          PROVE  /\ c.NEXT[u] \in R
                 /\ c.PREV[c.NEXT[u]] = u
                 /\ <<c.NEXT[u], u>> \in q
                 /\ \A w \in R : w = u \/ w = c.NEXT[u] \/ <<u, w>> \in q
                                 \/ <<w, c.NEXT[u]>> \in q
      <4>1. CASE u = t
        BY <1>0, <1>1, <1>4, <2>2, <2>3, <4>1 DEF Ends
      <4>2. CASE u # t
        <5>1. u \in S /\ c.NEXT[u] = l.NEXT[u] /\ l.NEXT[u] \in S
          BY <1>0, <2>3, <3>2, <4>2 DEF Chain
        <5>2. l.PREV[l.NEXT[u]] = u /\ l.NEXT[u] # l.newest
          <6>1. l.NEXT[u] # Nil
            BY <3>2, <5>1
          <6>2. l.PREV[l.NEXT[u]] = u
            BY <1>0, <5>1, <6>1 DEF Chain
          <6> QED
            BY <1>0, <2>4, <5>1, <6>2
        <5> QED
          <6>1. <<l.NEXT[u], u>> \in o
            BY <1>0, <3>2, <5>1 DEF Chain
          <6>2. \A w \in S : w = u \/ w = l.NEXT[u] \/ <<u, w>> \in o
                            \/ <<w, l.NEXT[u]>> \in o
            BY <1>0, <3>2, <5>1 DEF Chain
          <6>3. c.PREV[l.NEXT[u]] = u
            BY <2>3, <5>1, <5>2
          <6>4. \A w \in R : w = u \/ w = l.NEXT[u] \/ <<u, w>> \in q
                            \/ <<w, l.NEXT[u]>> \in q
            BY <1>1, <5>1, <6>2
          <6> QED
            BY <1>1, <5>1, <6>1, <6>3, <6>4
      <4> QED
        BY <4>1, <4>2
    <3>3. ASSUME NEW u \in R, c.PREV[u] # Nil
          PROVE  c.PREV[u] \in R /\ c.NEXT[c.PREV[u]] = u
      <4>1. CASE u = l.newest
        BY <2>3, <4>1
      <4>2. CASE u # l.newest
        BY <1>0, <2>2, <2>3, <2>4, <3>3, <4>2 DEF Chain
      <4> QED
        BY <4>1, <4>2
    <3> QED
      BY <3>1, <3>2, <3>3 DEF Chain
  <2>6. Ends(c, R, q)
    <3>1. c.newest # Nil /\ c.oldest # Nil /\ R # {}
      BY <1>0, <2>1, <2>2
    <3>2. /\ c.newest \in R
          /\ \A u \in R : (c.PREV[u] = Nil) <=> (u = c.newest)
          /\ \A u \in R : u # c.newest => <<u, c.newest>> \in q
      <4>1. \A u \in S : c.PREV[u] # Nil
        BY <1>0, <1>4, <2>2, <2>3 DEF Ends
      <4>2. c.PREV[t] = Nil
        BY <2>2, <2>3, <2>4
      <4> QED
        BY <1>1, <2>1, <4>1, <4>2
    <3>3. /\ c.oldest \in R
          /\ \A u \in R : (c.NEXT[u] = Nil) <=> (u = c.oldest)
          /\ \A u \in R : u # c.oldest => <<c.oldest, u>> \in q
      <4>1. \A u \in S : (c.NEXT[u] = Nil) <=> (u = l.oldest)
        BY <1>0, <2>2, <2>3 DEF Ends
      <4>2. c.NEXT[t] # Nil
        BY <1>4, <2>3
      <4>3. \A u \in S : u # l.oldest => <<l.oldest, u>> \in o
        BY <1>0, <2>2 DEF Ends
      <4> QED
        BY <1>1, <2>1, <2>2, <4>1, <4>2, <4>3
    <3> QED
      BY <3>1, <3>2, <3>3 DEF Ends
  <2> QED
    BY <1>2, <2>1, <2>5, <2>6 DEF WellFormed
<1> QED
  BY <1>3, <1>4
-----------------------------------------------------------------------------
(* What IInv keeps after the three ways the entries change. *)

(* del, called for a cached key, takes exactly its tuple out of everything. *)
LEMMA DelKeepsConsistency ==
  ASSUME IInv, NEW key \in Keys, NEW t, t = map[key], t # Nil,
         del(key, t), UNCHANGED <<tupleVars, limits>>
  PROVE  /\ t \in Live /\ Live' = Live \ {t}
         /\ map' \in [Keys -> Tuples \cup {Nil}] /\ map'[key] = Nil
         /\ freed' \subseteq Values \cup {Nil}
         /\ \A v \in Values : v \notin freed /\ v # VALUE[t] => v \notin freed'
         /\ WellFormed(list', Live', order') /\ list' \in ListType
         /\ order' \subseteq Tuples \X Tuples
         /\ \A k \in Keys : map'[k] # Nil => KEY'[map'[k]] = k
         /\ IsFiniteSet(CachedKeys') /\ size' = Cardinality(CachedKeys')
         /\ size' = size - 1 /\ bytes_used' \in Int
         /\ \A u \in Live' : VALUE'[u] \in Values /\ BYTES'[u] \in ByteSizes
         /\ \A u, w \in Live' : VALUE'[u] = VALUE'[w] => u = w
         /\ NoFreedValueCached'
         /\ WithinLimits'
<1>0. /\ TypeOK /\ Nil \notin Tuples
      /\ t \in Tuples /\ map' = [map EXCEPT ![key] = Nil]
      /\ VALUE' = VALUE /\ KEY' = KEY /\ BYTES' = BYTES
      /\ max_size' = max_size /\ max_bytes' = max_bytes
  BY NilAssumption DEF IInv, TypeOK, del, tupleVars, limits
<1>1. t \in Live /\ Live' = Live \ {t}
  <2>1. t \in Live
    BY <1>0 DEF Live
  <2>2. \A k \in Keys : map[k] = t => k = key
    BY <1>0 DEF IInv
  <2>3. \A u \in Tuples : (\E k \in Keys : map'[k] = u)
                            <=> (\E k \in Keys : map[k] = u) /\ u # t
    BY <1>0, <2>2 DEF TypeOK
  <2> QED
    BY <2>1, <2>3 DEF Live
<1>2. WellFormed(list', Live', order') /\ list' \in ListType
  <2>1. Live \in SUBSET Tuples
    BY DEF Live
  <2>2. list' = cut(list, t) /\ order' = Forgotten(order, t)
    BY DEF del
  <2>3. WellFormed(cut(list, t), Live \ {t}, Forgotten(order, t))
    BY <1>1, <2>1, CutWellFormed DEF IInv
  <2> QED
    BY <1>1, <2>2, <2>3 DEF WellFormed
<1>3. order' \subseteq Tuples \X Tuples
  BY <1>0 DEF del, Forgotten, TypeOK
<1>4. /\ map' \in [Keys -> Tuples \cup {Nil}] /\ map'[key] = Nil
      /\ \A k \in Keys : map'[k] # Nil => KEY'[map'[k]] = k
  BY <1>0 DEF TypeOK, IInv
<1>5. /\ IsFiniteSet(CachedKeys') /\ size' = Cardinality(CachedKeys')
      /\ size' = size - 1
  <2>1. key \in CachedKeys /\ CachedKeys' = CachedKeys \ {key}
    BY <1>0 DEF CachedKeys, TypeOK
  <2>2. IsFiniteSet(CachedKeys) /\ size = Cardinality(CachedKeys)
    BY DEF IInv
  <2>3. IsFiniteSet(CachedKeys \ {key})
        /\ Cardinality(CachedKeys \ {key}) = Cardinality(CachedKeys) - 1
    BY <2>1, <2>2, FS_RemoveElement
  <2> QED
    BY <2>1, <2>2, <2>3 DEF del
<1>6. BYTES[t] \in Nat /\ bytes_used' = bytes_used - BYTES[t]
      /\ bytes_used \in Int /\ max_bytes \in Nat /\ max_size \in Nat /\ size \in Int
  BY <1>0, SizesAssumption DEF TypeOK, del
<1>7. WithinLimits'
  BY <1>0, <1>5, <1>6 DEF WithinLimits, IInv
<1>8. /\ \A u \in Live' : VALUE'[u] \in Values /\ BYTES'[u] \in ByteSizes
      /\ \A u, w \in Live' : VALUE'[u] = VALUE'[w] => u = w
  BY <1>0, <1>1 DEF IInv
<1>9. /\ NoFreedValueCached' /\ freed' \subseteq Values \cup {Nil}
      /\ \A v \in Values : v \notin freed /\ v # VALUE[t] => v \notin freed'
  <2>1. freed' \subseteq freed \cup {VALUE[t]}
    BY DEF del
  <2>2. \A u \in Live' : VALUE[u] # VALUE[t] /\ VALUE[u] \notin freed
    BY <1>1 DEF IInv, NoFreedValueCached
  <2> QED
    BY <1>0, <1>1, <2>1, <2>2 DEF NoFreedValueCached, IInv, TypeOK
<1> QED
  BY <1>1, <1>2, <1>3, <1>4, <1>5, <1>6, <1>7, <1>8, <1>9

(* Relinking a cached tuple as the newest one keeps the chain. *)
LEMMA RelinkKeepsChain ==
  ASSUME IInv, NEW t \in Live
  PROVE  /\ WellFormed(setNewest(cut(list, t), t), Live, UsedLast(order, Live, t))
         /\ UsedLast(order, Live, t) \subseteq Tuples \X Tuples
<1> DEFINE R == Live \ {t}
           q == Forgotten(order, t)
<1>1. Live \in SUBSET Tuples /\ R \in SUBSET Tuples /\ t \in Tuples \ R
  BY DEF Live
<1>2. WellFormed(cut(list, t), R, q)
  BY <1>1, CutWellFormed DEF IInv
<1>3. WellFormed(setNewest(cut(list, t), t), R \cup {t}, UsedLast(q, R, t))
  BY <1>1, <1>2, SetNewestWellFormed
<1>4. R \cup {t} = Live /\ UsedLast(q, R, t) = UsedLast(order, Live, t)
  BY DEF UsedLast, Forgotten
<1>5. UsedLast(order, Live, t) \subseteq Tuples \X Tuples
  BY <1>1 DEF IInv, TypeOK, UsedLast, Forgotten
<1> QED
  BY <1>3, <1>4, <1>5
-----------------------------------------------------------------------------
USE DEF OpType

\* A new cache is an empty chain.
LEMMA InitIInv == Init => IInv
<1> SUFFICES ASSUME Init PROVE IInv
  OBVIOUS
<1>0. Nil \notin Tuples /\ Live = {} /\ CachedKeys = {}
  BY NilAssumption DEF Init, Live, CachedKeys
<1>1. TypeOK
  BY SizesAssumption DEF Init, TypeOK, ListType, Idle
<1>2. WellFormed(list, Live, order)
  BY <1>0, <1>1 DEF Init, TypeOK, WellFormed, StrictOrder, Chain, Ends
<1>3. IsFiniteSet(CachedKeys) /\ size = Cardinality(CachedKeys)
  BY <1>0, FS_EmptySet DEF Init
<1>4. OpConsistent
  BY DEF Init, Idle, OpConsistent
<1>5. WithinLimits
  BY <1>1, SizesAssumption DEF Init, TypeOK, WithinLimits
<1> QED
  BY <1>0, <1>1, <1>2, <1>3, <1>4, <1>5 DEF Init, IInv, NoFreedValueCached

(* A step that changes neither the entries nor their tuples keeps IInv if  *)
(* what it does change stays in range.                                     *)
LEMMA EntriesUnchanged ==
  ASSUME IInv, UNCHANGED <<map, tupleVars, list, size, bytes_used, order>>,
         max_size' \in SlotLimits, max_bytes' \in ByteLimits, WithinLimits',
         removed_tuple' \in {removed_tuple, Nil},
         freed' \subseteq freed,
         op' \in OpType,
         OpConsistent'
  PROVE  IInv'
<1>0. /\ map' = map /\ VALUE' = VALUE /\ KEY' = KEY /\ BYTES' = BYTES
      /\ list' = list /\ size' = size /\ bytes_used' = bytes_used
      /\ order' = order /\ Live' = Live /\ CachedKeys' = CachedKeys
  BY DEF tupleVars, Live, CachedKeys
<1>1. TypeOK'
  BY <1>0 DEF IInv, TypeOK
<1>2. removed_tuple' \notin Live'
  BY <1>0, NilAssumption DEF IInv, Live
<1>3. NoFreedValueCached'
  BY <1>0 DEF IInv, NoFreedValueCached
<1>4. WellFormed(list', Live', order')
  BY <1>0 DEF IInv
<1> QED
  BY <1>0, <1>1, <1>2, <1>3, <1>4 DEF IInv

\* Every step of every operation keeps the chain, its counters and the callers' progress.
LEMMA NextIInv == IInv /\ [Next]_vars => IInv'
<1> SUFFICES ASSUME IInv, [Next]_vars PROVE IInv'
  OBVIOUS
<1> USE NilAssumption, SizesAssumption
<1>0. TypeOK /\ OpConsistent /\ WithinLimits /\ Idle.name = "idle"
  BY DEF IInv, Idle
<1>1. ASSUME NEW key \in Keys, get(key) PROVE IInv'
  <2> DEFINE t == map[key]
  <2>1. t \in Live
    BY <1>0, <1>1 DEF get, Live, TypeOK
  <2>2. /\ Live' = Live /\ CachedKeys' = CachedKeys
        /\ map' = map /\ VALUE' = VALUE /\ KEY' = KEY /\ BYTES' = BYTES
        /\ freed' = freed /\ op' = op /\ size' = size
        /\ removed_tuple' = removed_tuple
        /\ bytes_used' = bytes_used /\ max_size' = max_size
        /\ max_bytes' = max_bytes
    BY <1>1 DEF get, Live, CachedKeys, tupleVars, limits
  <2>3. WellFormed(list', Live', order') /\ order' \subseteq Tuples \X Tuples
    BY <1>1, <2>1, <2>2, RelinkKeepsChain DEF get
  <2>4. TypeOK'
    BY <1>0, <2>2, <2>3 DEF TypeOK, WellFormed
  <2>5. OpConsistent' /\ NoFreedValueCached' /\ WithinLimits'
    BY <1>0, <2>2 DEF OpConsistent, NoFreedValueCached, WithinLimits, IInv
  <2> QED
    BY <2>2, <2>3, <2>4, <2>5 DEF IInv
<1>2. ASSUME NEW key \in Keys, delete(key) PROVE IInv'
  <2>1. CASE map[key] # Nil
    <3> DEFINE t == map[key]
    <3>1. del(key, t) /\ UNCHANGED <<tupleVars, limits>>
          /\ op' = Idle /\ op = Idle /\ removed_tuple' = Nil
      BY <1>2, <2>1 DEF delete
    <3>2. /\ Live' = Live \ {t}
          /\ map' \in [Keys -> Tuples \cup {Nil}]
          /\ freed' \subseteq Values \cup {Nil}
          /\ WellFormed(list', Live', order') /\ list' \in ListType
          /\ order' \subseteq Tuples \X Tuples
          /\ \A k \in Keys : map'[k] # Nil => KEY'[map'[k]] = k
          /\ IsFiniteSet(CachedKeys') /\ size' = Cardinality(CachedKeys')
          /\ size' = size - 1 /\ bytes_used' \in Int
          /\ \A u \in Live' : VALUE'[u] \in Values /\ BYTES'[u] \in ByteSizes
          /\ \A u, w \in Live' : VALUE'[u] = VALUE'[w] => u = w
          /\ NoFreedValueCached' /\ WithinLimits'
      BY <2>1, <3>1, DelKeepsConsistency
    <3>3. OpConsistent' /\ removed_tuple' \notin Live'
      BY <3>1 DEF OpConsistent, Idle, Live
    <3>4. TypeOK'
      BY <1>0, <3>1, <3>2 DEF TypeOK, tupleVars, limits
    <3> QED
      BY <3>2, <3>3, <3>4 DEF IInv
  <2>2. CASE map[key] = Nil
    <3>1. /\ UNCHANGED <<map, tupleVars, list, size, bytes_used, order, freed,
                         limits, op>>
          /\ op = Idle /\ removed_tuple' = Nil
      BY <1>2, <2>2 DEF delete
    <3>2. OpConsistent' /\ WithinLimits'
      BY <1>0, <3>1 DEF OpConsistent, WithinLimits, limits, Idle
    <3> QED
      BY <1>0, <3>1, <3>2, EntriesUnchanged DEF TypeOK, limits
  <2> QED
    BY <2>1, <2>2
<1>3. ASSUME NEW key \in Keys, NEW value \in Values, NEW bytes \in ByteSizes,
             set(key, value, bytes)
      PROVE  IInv'
  <2> DEFINE t == map[key]
  <2>0. /\ op = Idle /\ value \notin freed /\ \A u \in Live : VALUE[u] # value
        /\ op' = [name |-> "set", key |-> key, value |-> value,
                  bytes |-> bytes, limit |-> 0]
        /\ UNCHANGED <<tupleVars, limits>>
    BY <1>3 DEF set, Idle
  <2>1. op' \in OpType
    BY <2>0
  <2>2. CASE t # Nil
    <3>1. del(key, t) /\ removed_tuple' = t
      BY <1>3, <2>2 DEF set
    <3>2. /\ t \in Live /\ Live' = Live \ {t}
          /\ map' \in [Keys -> Tuples \cup {Nil}] /\ map'[key] = Nil
          /\ freed' \subseteq Values \cup {Nil}
          /\ \A v \in Values : v \notin freed /\ v # VALUE[t] => v \notin freed'
          /\ WellFormed(list', Live', order') /\ list' \in ListType
          /\ order' \subseteq Tuples \X Tuples
          /\ \A k \in Keys : map'[k] # Nil => KEY'[map'[k]] = k
          /\ IsFiniteSet(CachedKeys') /\ size' = Cardinality(CachedKeys')
          /\ size' = size - 1 /\ bytes_used' \in Int
          /\ \A u \in Live' : VALUE'[u] \in Values /\ BYTES'[u] \in ByteSizes
          /\ \A u, w \in Live' : VALUE'[u] = VALUE'[w] => u = w
          /\ NoFreedValueCached' /\ WithinLimits'
      BY <2>0, <2>2, <3>1, DelKeepsConsistency
    <3>3. removed_tuple' \notin Live'
      BY <3>1, <3>2
    <3>4. TypeOK'
      BY <1>0, <2>0, <2>1, <3>1, <3>2 DEF TypeOK, tupleVars, limits, Live
    <3>5. OpConsistent'
      BY <2>0, <3>2 DEF OpConsistent, tupleVars
    <3> QED
      BY <3>2, <3>3, <3>4, <3>5 DEF IInv
  <2>3. CASE t = Nil
    <3>1. UNCHANGED <<map, list, size, bytes_used, order, freed, removed_tuple>>
      BY <1>3, <2>3 DEF set
    <3>2. OpConsistent' /\ WithinLimits'
      BY <1>0, <2>0, <2>3, <3>1
      DEF OpConsistent, WithinLimits, limits, tupleVars, Live
    <3> QED
      BY <1>0, <2>0, <2>1, <3>1, <3>2, EntriesUnchanged DEF TypeOK, limits
  <2> QED
    BY <2>2, <2>3
<1>4. ASSUME clear \/ chop \/ (\E n \in SlotLimits : resize_slots(n))
             \/ (\E n \in ByteLimits : resize_bytes(n))
      PROVE  IInv'
  <2>1. size \in Nat
    BY FS_CardinalityType DEF IInv
  <2>2. UNCHANGED <<map, tupleVars, list, size, bytes_used, limits,
                    removed_tuple, freed, order>>
    BY <1>4 DEF clear, chop, resize_slots, resize_bytes
  <2>3. PICK n \in Nat, nm \in {"clear", "chop", "slots", "bytes"} :
          /\ op' = [name |-> nm, key |-> Nil, value |-> Nil, bytes |-> 0,
                    limit |-> n]
          /\ nm = "slots" => n \in SlotLimits
          /\ nm = "bytes" => n \in ByteLimits
    <3>1. size \div 2 \in Nat /\ 0 \in Nat
      BY <2>1
    <3>2. CASE clear
      BY <3>1, <3>2 DEF clear, Idle
    <3>3. CASE chop
      BY <3>1, <3>3 DEF chop, Idle
    <3>4. CASE \E n \in SlotLimits : resize_slots(n)
      BY <3>4 DEF resize_slots, Idle
    <3>5. CASE \E n \in ByteLimits : resize_bytes(n)
      BY <3>5 DEF resize_bytes, Idle
    <3> QED
      BY <1>4, <3>2, <3>3, <3>4, <3>5
  <2>4. OpConsistent' /\ WithinLimits'
    BY <1>0, <2>2, <2>3 DEF OpConsistent, WithinLimits, limits, Idle
  <2>5. op' \in OpType
    BY <2>3 DEF Idle
  <2> QED
    BY <1>0, <2>2, <2>4, <2>5, EntriesUnchanged DEF TypeOK, limits
<1>5. ASSUME NEW value \in Values, Create(value) PROVE IInv'
  <2>1. /\ UNCHANGED <<map, tupleVars, list, size, bytes_used, limits,
                       removed_tuple, op, order>>
        /\ op = Idle /\ freed' \subseteq freed
    BY <1>5 DEF Create
  <2>2. OpConsistent' /\ WithinLimits'
    BY <1>0, <2>1 DEF OpConsistent, WithinLimits, limits, Idle
  <2> QED
    BY <1>0, <2>1, <2>2, EntriesUnchanged DEF TypeOK, limits
<1>6. ASSUME EvictOldest PROVE IInv'
  <2> DEFINE t == list.oldest
             key == KEY[t]
  <2>0. /\ t # Nil /\ t \in Live /\ del(key, t) /\ removed_tuple' = t
        /\ UNCHANGED <<tupleVars, limits, op>>
    BY <1>6 DEF EvictOldest, IInv, WellFormed, Ends
  <2>1. key \in Keys /\ t = map[key]
    BY <2>0 DEF Live, IInv
  <2>2. /\ Live' = Live \ {t}
        /\ map' \in [Keys -> Tuples \cup {Nil}] /\ map'[key] = Nil
        /\ freed' \subseteq Values \cup {Nil}
        /\ \A v \in Values : v \notin freed /\ v # VALUE[t] => v \notin freed'
        /\ WellFormed(list', Live', order') /\ list' \in ListType
        /\ order' \subseteq Tuples \X Tuples
        /\ \A k \in Keys : map'[k] # Nil => KEY'[map'[k]] = k
        /\ IsFiniteSet(CachedKeys') /\ size' = Cardinality(CachedKeys')
        /\ size' = size - 1 /\ bytes_used' \in Int
        /\ \A u \in Live' : VALUE'[u] \in Values /\ BYTES'[u] \in ByteSizes
        /\ \A u, w \in Live' : VALUE'[u] = VALUE'[w] => u = w
        /\ NoFreedValueCached' /\ WithinLimits'
    BY <2>0, <2>1, DelKeepsConsistency
  <2>3. removed_tuple' \notin Live'
    BY <2>0, <2>2
  <2>4. TypeOK'
    BY <1>0, <2>0, <2>2 DEF TypeOK, tupleVars, limits, Live
  <2>5. OpConsistent'
    <3>1. map' = [map EXCEPT ![key] = Nil] /\ op' = op /\ VALUE' = VALUE
      BY <2>0 DEF del, tupleVars
    <3>2. op.name = "set" => map'[op.key] = Nil
      BY <1>0, <2>1, <3>1 DEF OpConsistent, TypeOK
    <3>3. op.name = "set" => op.value \notin freed'
      BY <1>0, <2>0, <2>2 DEF OpConsistent
    <3> QED
      BY <1>0, <2>2, <3>1, <3>2, <3>3 DEF OpConsistent
  <2> QED
    BY <2>2, <2>3, <2>4, <2>5 DEF IInv
<1>7. ASSUME SetRaises PROVE IInv'
  <2>1. /\ UNCHANGED <<map, tupleVars, list, size, bytes_used, limits,
                       removed_tuple, freed, order>>
        /\ op' = Idle
    BY <1>7 DEF SetRaises
  <2>2. OpConsistent' /\ WithinLimits'
    BY <1>0, <2>1 DEF OpConsistent, WithinLimits, limits, Idle
  <2>3. op' \in OpType
    BY <2>1 DEF Idle
  <2> QED
    BY <1>0, <2>1, <2>2, <2>3, EntriesUnchanged DEF TypeOK, limits
<1>8. ASSUME SetInserts PROVE IInv'
  <2>1. PICK t \in Tuples :
          /\ op.name = "set" /\ ~MustEvict
          /\ IF removed_tuple # Nil THEN t = removed_tuple ELSE t \notin Live
          /\ map' = [map EXCEPT ![op.key] = t]
          /\ VALUE' = [VALUE EXCEPT ![t] = op.value]
          /\ KEY' = [KEY EXCEPT ![t] = op.key]
          /\ BYTES' = [BYTES EXCEPT ![t] = op.bytes]
          /\ size' = size + 1
          /\ bytes_used' = bytes_used + op.bytes
          /\ list' = setNewest(list, t)
          /\ order' = UsedLast(order, Live, t)
          /\ removed_tuple' = Nil
          /\ op' = Idle
          /\ UNCHANGED <<limits, freed>>
    BY <1>8 DEF SetInserts
  <2>2. /\ t \notin Live /\ map[op.key] = Nil
        /\ op.key \in Keys /\ op.value \in Values /\ op.bytes \in ByteSizes
        /\ op.value \notin freed /\ \A u \in Live : VALUE[u] # op.value
    BY <1>0, <2>1 DEF IInv, OpConsistent
  <2>3. Live' = Live \cup {t} /\ CachedKeys' = CachedKeys \cup {op.key}
        /\ op.key \notin CachedKeys
    <3>1. \A k \in Keys : map'[k] = IF k = op.key THEN t ELSE map[k]
      BY <1>0, <2>1 DEF TypeOK
    <3>2. \A u \in Tuples : (\E k \in Keys : map'[k] = u)
                             <=> u = t \/ (\E k \in Keys : map[k] = u)
      BY <2>2, <3>1
    <3> QED
      BY <2>2, <3>1, <3>2 DEF Live, CachedKeys
  <2>4. WellFormed(list', Live', order')
    <3>1. Live \in SUBSET Tuples /\ WellFormed(list, Live, order)
      BY DEF IInv, Live
    <3>2. WellFormed(setNewest(list, t), Live \cup {t}, UsedLast(order, Live, t))
      BY <2>2, <3>1, SetNewestWellFormed
    <3> QED
      BY <2>1, <2>3, <3>2
  <2>5. order' \subseteq Tuples \X Tuples
    BY <1>0, <2>1 DEF TypeOK, UsedLast, Forgotten, Live
  <2>6. \A k \in Keys : map'[k] # Nil => KEY'[map'[k]] = k
    <3> TAKE k \in Keys
    <3>1. CASE k = op.key
      BY <1>0, <2>1, <2>2, <3>1 DEF TypeOK
    <3>2. CASE k # op.key
      <4>1. map'[k] = map[k]
        BY <1>0, <2>1, <3>2 DEF TypeOK
      <4>2. map[k] # Nil => map[k] \in Live /\ map[k] # t /\ KEY[map[k]] = k
        BY <1>0, <2>2 DEF Live, IInv, TypeOK
      <4> QED
        BY <1>0, <2>1, <4>1, <4>2 DEF TypeOK, Live
    <3> QED
      BY <3>1, <3>2
  <2>7. IsFiniteSet(CachedKeys') /\ size' = Cardinality(CachedKeys')
    BY <2>1, <2>3, FS_AddElement DEF IInv
  <2>8. /\ \A u \in Live' : VALUE'[u] \in Values /\ BYTES'[u] \in ByteSizes
        /\ \A u, w \in Live' : VALUE'[u] = VALUE'[w] => u = w
        /\ NoFreedValueCached'
    <3>1. /\ \A u \in Live : VALUE'[u] = VALUE[u] /\ BYTES'[u] = BYTES[u]
          /\ VALUE'[t] = op.value /\ BYTES'[t] = op.bytes /\ freed' = freed
      BY <1>0, <2>1, <2>2 DEF TypeOK, Live
    <3>2. \A u \in Live : VALUE[u] \in Values /\ BYTES[u] \in ByteSizes
                          /\ VALUE[u] \notin freed
      BY DEF IInv, NoFreedValueCached
    <3>3. \A u, w \in Live' : VALUE'[u] = VALUE'[w] => u = w
      BY <2>2, <2>3, <3>1 DEF IInv
    <3> QED
      BY <2>2, <2>3, <3>1, <3>2, <3>3 DEF NoFreedValueCached
  <2>9. TypeOK'
    <3>1. size' \in Int /\ bytes_used' \in Int
      BY <1>0, <2>1, <2>2 DEF TypeOK
    <3>2. op' \in OpType
      BY <2>1 DEF Idle
    <3> QED
      BY <1>0, <2>1, <2>2, <2>4, <2>5, <3>1, <3>2 DEF TypeOK, WellFormed, limits
  <2>10. OpConsistent' /\ removed_tuple' \notin Live'
    BY <2>1 DEF OpConsistent, Idle, Live
  <2>11. WithinLimits'
    BY <1>0, <2>1, <2>2 DEF MustEvict, WithinLimits, TypeOK, limits
  <2> QED
    BY <2>4, <2>6, <2>7, <2>8, <2>9, <2>10, <2>11 DEF IInv
<1>9. ASSUME Finishes PROVE IInv'
  <2>1. /\ UNCHANGED <<map, tupleVars, list, size, bytes_used, freed, order>>
        /\ op' = Idle /\ removed_tuple' \in {removed_tuple, Nil}
    BY <1>9 DEF Finishes
  <2>2. OpConsistent'
    BY <2>1 DEF OpConsistent, Idle
  <2>3. max_size' \in SlotLimits /\ max_bytes' \in ByteLimits
    BY <1>0, <1>9 DEF Finishes, OpConsistent, TypeOK
  <2>4. WithinLimits'
    <3>1. size \in Int /\ bytes_used \in Int /\ op.limit \in Nat
          /\ size <= max_size /\ bytes_used <= max_bytes
      BY <1>0 DEF TypeOK, WithinLimits
    <3>2. size <= max_size'
      BY <1>9, <3>1 DEF Finishes, MustEvict
    <3>3. bytes_used <= max_bytes'
      BY <1>9, <3>1 DEF Finishes, MustEvict
    <3> QED
      BY <2>1, <3>2, <3>3 DEF WithinLimits
  <2>5. op' \in OpType
    BY <2>1 DEF Idle
  <2> QED
    BY <2>1, <2>2, <2>3, <2>4, <2>5, EntriesUnchanged
<1>10. CASE UNCHANGED vars
  <2>1. OpConsistent' /\ WithinLimits'
    BY <1>0, <1>10 DEF vars, OpConsistent, WithinLimits, tupleVars, limits, Live
  <2> QED
    BY <1>0, <1>10, <2>1, EntriesUnchanged DEF vars, TypeOK, tupleVars, limits
<1> QED
  BY <1>1, <1>2, <1>3, <1>4, <1>5, <1>6, <1>7, <1>8, <1>9, <1>10
  DEF Next, Proceed
-----------------------------------------------------------------------------
(* The inductive invariant holds in every reachable state. *)
THEOREM Invariance == Spec => []IInv
<1>1. Init => IInv
  BY InitIInv
<1>2. IInv /\ [Next]_vars => IInv'
  BY NextIInv
<1> QED
  BY <1>1, <1>2, PTL DEF Spec

(* Whatever the limits and however many entries, the cache stays within    *)
(* its limits, in the middle of an operation too (ffi/lru.lua:116-133).    *)
THEOREM StaysWithinLimits == Spec => []WithinLimits
<1>1. IInv => WithinLimits
  BY DEF IInv
<1> QED
  BY <1>1, Invariance, PTL

(* An object whose onFree has run is never handed out again: no entry      *)
(* holds it (ffi/lru.lua:79-114, 149-157).                                 *)
THEOREM NeverServesFreedValue == Spec => []NoFreedValueCached
<1>1. IInv => NoFreedValueCached
  BY DEF IInv
<1> QED
  BY <1>1, Invariance, PTL

(* The pointer oldest, which the eviction loops follow, is nil exactly     *)
(* when the cache is empty and the least recently used entry otherwise     *)
(* (ffi/lru.lua:35-75).                                                    *)
THEOREM OldestIsLRU == Spec => []OldestIsLeastRecentlyUsed
<1>1. IInv => OldestIsLeastRecentlyUsed
  BY DEF IInv, OldestIsLeastRecentlyUsed, WellFormed, Ends
<1> QED
  BY <1>1, Invariance, PTL

(* Every loop ends: each of its iterations takes an entry out of the       *)
(* cache, and a call's other steps end it (ffi/lru.lua:116-147, 247-280).  *)
THEOREM EveryCallEnds == Spec => CallsEnd
<1> DEFINE Ends1 == op # Idle => op' = Idle \/ (Live' \subseteq Live /\ Live' # Live)
<1>1. ASSUME IInv, Next PROVE Ends1
  <2> SUFFICES ASSUME op # Idle PROVE op' = Idle \/ (Live' \subseteq Live /\ Live' # Live)
    OBVIOUS
  <2>1. CASE EvictOldest
    <3> DEFINE t == list.oldest
    <3>1. /\ t \in Live /\ KEY[t] \in Keys /\ map[KEY[t]] = t /\ t # Nil
      BY <1>1, <2>1 DEF EvictOldest, IInv, WellFormed, Ends, Live, TypeOK
    <3>2. /\ del(KEY[t], t) /\ UNCHANGED <<tupleVars, limits>>
      BY <2>1 DEF EvictOldest
    <3>3. Live' = Live \ {t}
      BY <1>1, <3>1, <3>2, DelKeepsConsistency
    <3> QED
      BY <3>1, <3>3
  <2>2. CASE SetRaises \/ SetInserts \/ Finishes
    BY <2>2 DEF SetRaises, SetInserts, Finishes
  <2> QED
    BY <1>1, <2>1, <2>2 DEF Next, Proceed, get, set, delete, clear, chop, Create,
       resize_slots, resize_bytes
<1>2. IInv /\ [Next]_vars => [Ends1]_vars
  BY <1>1
<1> QED
  BY <1>2, Invariance, PTL DEF Spec, CallsEnd

-----------------------------------------------------------------------------
(* Refinement: the table with its list implements LRUSpec. *)

LEMMA AbstractView ==
  ASSUME IInv
  PROVE  /\ Abstract!Cached = CachedKeys
         /\ \A k \in CachedKeys :
              /\ map[k] \in Live /\ KEY[map[k]] = k
              /\ contents[k] = [value |-> VALUE[map[k]], bytes |-> BYTES[map[k]]]
         /\ \A k, j \in Keys : <<k, j>> \in olderKeys <=>
                                 <<map[k], map[j]>> \in order
         /\ \A k, j \in Keys : <<k, j>> \in olderKeys =>
                                 k \in CachedKeys /\ j \in CachedKeys
<1>0. /\ \A k \in CachedKeys : k \in Keys /\ map[k] \in Live /\ KEY[map[k]] = k
      /\ order \subseteq Live \X Live /\ Nil \notin Live
  BY NilAssumption DEF IInv, TypeOK, CachedKeys, Live, WellFormed, StrictOrder
<1>1. Abstract!Cached = CachedKeys
  BY DEF Abstract!Cached, contents
<1>2. \A k \in CachedKeys :
        contents[k] = [value |-> VALUE[map[k]], bytes |-> BYTES[map[k]]]
  BY DEF contents
<1>3. \A k, j \in Keys : <<k, j>> \in olderKeys <=> <<map[k], map[j]>> \in order
  BY DEF olderKeys
<1>4. \A k, j \in Keys : <<map[k], map[j]>> \in order => map[k] # Nil /\ map[j] # Nil
  BY <1>0
<1> QED
  BY <1>0, <1>1, <1>2, <1>3, <1>4 DEF CachedKeys

\* Deleting the tuple of a key is what the abstract cache calls forgetting it.
LEMMA DelForgets ==
  ASSUME IInv, IInv', NEW k \in Keys, map[k] # Nil, del(k, map[k]),
         UNCHANGED <<tupleVars, limits>>
  PROVE  k \in Abstract!Cached /\ Abstract!Forget(k)
<1> DEFINE t == map[k]
<1>0. /\ k \in CachedKeys /\ map' = [map EXCEPT ![k] = Nil]
      /\ bytes_used' = bytes_used - BYTES[t] /\ order' = Forgotten(order, t)
      /\ VALUE' = VALUE /\ KEY' = KEY /\ BYTES' = BYTES
      /\ max_size' = max_size /\ max_bytes' = max_bytes
      /\ map \in [Keys -> Tuples \cup {Nil}]
  BY DEF CachedKeys, del, tupleVars, limits, IInv, TypeOK
<1>1. /\ Abstract!Cached = CachedKeys
      /\ \A j \in CachedKeys : j \in Keys /\ map[j] \in Live /\ KEY[map[j]] = j
      /\ \A j \in CachedKeys :
           contents[j] = [value |-> VALUE[map[j]], bytes |-> BYTES[map[j]]]
      /\ \A j, i \in Keys : <<j, i>> \in olderKeys =>
                               j \in CachedKeys /\ i \in CachedKeys
  BY AbstractView DEF CachedKeys
<1>2. CachedKeys' = CachedKeys \ {k}
  BY <1>0 DEF CachedKeys
<1>3. contents' = [j \in CachedKeys \ {k} |-> contents[j]]
  <2>1. \A j \in CachedKeys \ {k} : map'[j] = map[j]
    BY <1>0, <1>1
  <2>2. contents' = [j \in CachedKeys' |->
                       [value |-> VALUE[map'[j]], bytes |-> BYTES[map'[j]]]]
    BY <1>0 DEF contents
  <2> QED
    BY <1>1, <1>2, <2>1, <2>2
<1>4. olderKeys' = {p \in olderKeys : p[1] # k /\ p[2] # k}
  <2>1. \A j \in Keys : j # k => map'[j] = map[j] /\ (map[j] # Nil => map[j] # t)
    BY <1>0, <1>1 DEF CachedKeys
  <2>2. map'[k] = Nil /\ Nil \notin Live /\ order \subseteq Live \X Live
    BY <1>0, NilAssumption DEF IInv, WellFormed, StrictOrder, Live
  <2>3. \A j, i \in Keys : <<map'[j], map'[i]>> \in order' <=>
             <<map[j], map[i]>> \in order /\ j # k /\ i # k
    <3> SUFFICES ASSUME NEW j \in Keys, NEW i \in Keys
                 PROVE  <<map'[j], map'[i]>> \in order' <=>
                        <<map[j], map[i]>> \in order /\ j # k /\ i # k
      OBVIOUS
    <3>1. CASE j = k \/ i = k
      BY <1>0, <2>2, <3>1 DEF Forgotten
    <3>2. CASE j # k /\ i # k
      BY <1>0, <2>1, <2>2, <3>2 DEF Forgotten
    <3> QED
      BY <3>1, <3>2
  <2> QED
    BY <2>3 DEF olderKeys
<1>5. bytes_used' = bytes_used - contents[k].bytes
  <2>1. contents[k] = [value |-> VALUE[t], bytes |-> BYTES[t]]
    BY <1>0, <1>1
  <2>2. contents[k].bytes = BYTES[t]
    BY <2>1
  <2> QED
    BY <1>0, <2>2
<1> QED
  BY <1>0, <1>1, <1>3, <1>4, <1>5 DEF Abstract!Forget

\* A tuple made the latest is its key used last.
LEMMA UsedLastKeys ==
  ASSUME IInv, NEW m \in [Keys -> Tuples \cup {Nil}], NEW k \in Keys,
         NEW t \in Tuples, m[k] = t, \A j \in Keys : m[j] = t => j = k,
         \A j \in Keys : j # k => m[j] = map[j],
         map[k] = t \/ (map[k] = Nil /\ t \notin Live)
  PROVE  {p \in Keys \X Keys : <<m[p[1]], m[p[2]]>> \in UsedLast(order, Live, t)}
           = Abstract!UsedLast(olderKeys, CachedKeys, k)
<1> DEFINE q == UsedLast(order, Live, t)
<1>0. Nil \notin Tuples /\ order \subseteq Live \X Live /\ Live \subseteq Tuples
      /\ \A j \in Keys : map[j] \in Live <=> j \in CachedKeys
  BY NilAssumption DEF IInv, WellFormed, StrictOrder, Live, CachedKeys, TypeOK
<1>1. \A j, i \in Keys : <<j, i>> \in olderKeys <=> <<map[j], map[i]>> \in order
  BY DEF olderKeys
<1>2. \A a, b \in Tuples \cup {Nil} :
        <<a, b>> \in q <=> \/ <<a, b>> \in order /\ a # t /\ b # t
                           \/ a \in Live /\ a # t /\ b = t
  <2>1. \A a, b : <<a, b>> \in Forgotten(order, t) <=>
                    <<a, b>> \in order /\ a # t /\ b # t
    BY DEF Forgotten
  <2>2. \A a, b : <<a, b>> \in {<<u, t>> : u \in Live \ {t}} <=>
                    a \in Live /\ a # t /\ b = t
    <3>1. ASSUME NEW a, NEW b, <<a, b>> \in {<<u, t>> : u \in Live \ {t}}
          PROVE  a \in Live /\ a # t /\ b = t
      <4>1. PICK u \in Live \ {t} : <<a, b>> = <<u, t>>
        BY <3>1, Zenon
      <4>2. a = u /\ b = t
        BY <4>1
      <4> QED
        BY <4>1, <4>2
    <3>2. ASSUME NEW a, NEW b, a \in Live, a # t, b = t
          PROVE  <<a, b>> \in {<<u, t>> : u \in Live \ {t}}
      BY <3>2, Zenon
    <3> QED
      BY <3>1, <3>2
  <2> QED
    BY <2>1, <2>2 DEF UsedLast
<1> HIDE DEF q
<1>3. \A j, i \in Keys :
        <<m[j], m[i]>> \in q <=>
          \/ <<j, i>> \in olderKeys /\ j # k /\ i # k
          \/ j \in CachedKeys /\ j # k /\ i = k
  <2> SUFFICES ASSUME NEW j \in Keys, NEW i \in Keys
               PROVE  <<m[j], m[i]>> \in q <=>
                        \/ <<j, i>> \in olderKeys /\ j # k /\ i # k
                        \/ j \in CachedKeys /\ j # k /\ i = k
    OBVIOUS
  <2>1. CASE j = k
    BY <1>2, <2>1
  <2>2. CASE j # k /\ i = k
    BY <1>0, <1>2, <2>2
  <2>3. CASE j # k /\ i # k
    <3>1. m[j] = map[j] /\ m[i] = map[i] /\ m[j] # t /\ m[i] # t
      <4>1. \A x \in Keys : x # k => m[x] = map[x] /\ m[x] # t
        OBVIOUS
      <4> QED
        BY <2>3, <4>1
    <3>2. m[j] \in Tuples \cup {Nil} /\ m[i] \in Tuples \cup {Nil}
      OBVIOUS
    <3>3. <<m[j], m[i]>> \in q <=> <<m[j], m[i]>> \in order
      BY <1>2, <3>1, <3>2
    <3>4. <<j, i>> \in olderKeys <=> <<m[j], m[i]>> \in order
      BY <1>1, <3>1
    <3> QED
      BY <2>3, <3>3, <3>4
  <2> QED
    BY <2>1, <2>2, <2>3
<1>4. olderKeys \subseteq Keys \X Keys /\ CachedKeys \subseteq Keys
  BY DEF olderKeys, CachedKeys
<1> QED
  BY <1>3, <1>4 DEF Abstract!UsedLast, q
\* An empty chain is the empty abstract cache.
LEMMA InitRefines == Init => Abstract!SpecInit
<1> SUFFICES ASSUME Init PROVE Abstract!SpecInit
  OBVIOUS
<1>1. CachedKeys = {}
  BY DEF Init, CachedKeys
<1>2. contents = [k \in {} |-> 0]
  BY <1>1 DEF contents
<1>3. olderKeys = {}
  BY DEF Init, olderKeys
<1> QED
  BY <1>2, <1>3 DEF Init, Abstract!SpecInit

\* Every step is a step of the abstract cache, or leaves it as it is.
LEMMA StepRefines ==
  IInv /\ IInv' /\ [Next]_vars => [Abstract!SpecNext]_(Abstract!specVars)
<1> SUFFICES ASSUME IInv, IInv', [Next]_vars
             PROVE  Abstract!SpecNext \/ UNCHANGED Abstract!specVars
  OBVIOUS
<1>0. /\ TypeOK /\ Abstract!Cached = CachedKeys /\ CachedKeys \subseteq Keys
      /\ CachedKeys = {k \in Keys : map[k] # Nil} /\ Nil \notin Tuples
  BY AbstractView, NilAssumption DEF IInv, CachedKeys
<1>i. Idle.name = "idle"
  BY DEF Idle
<1>c. \A S : Abstract!Cardinality(S) = Cardinality(S)
  BY Zenon DEF Cardinality, Abstract!Cardinality
<1>a. ASSUME UNCHANGED <<map, tupleVars, order>>
      PROVE  contents' = contents /\ olderKeys' = olderKeys
  BY <1>a DEF contents, olderKeys, tupleVars, CachedKeys
<1>1. ASSUME NEW key \in Keys, get(key) PROVE Abstract!SpecNext
  <2> DEFINE t == map[key]
  <2>1. /\ key \in CachedKeys /\ t \in Tuples /\ op = Idle /\ op' = op
        /\ map' = map /\ bytes_used' = bytes_used /\ max_size' = max_size
        /\ max_bytes' = max_bytes /\ VALUE' = VALUE /\ BYTES' = BYTES
        /\ order' = UsedLast(order, Live, t)
    BY <1>0, <1>1 DEF get, tupleVars, limits, TypeOK
  <2>2. \A j \in Keys : map[j] = t => j = key
    BY <1>0, <2>1 DEF IInv
  <2>3. {p \in Keys \X Keys : <<map[p[1]], map[p[2]]>> \in UsedLast(order, Live, t)}
          = Abstract!UsedLast(olderKeys, CachedKeys, key)
    BY <1>0, <2>1, <2>2, UsedLastKeys DEF TypeOK
  <2>4. olderKeys' = Abstract!UsedLast(olderKeys, CachedKeys, key)
    BY <2>1, <2>3 DEF olderKeys
  <2>5. contents' = contents
    BY <2>1 DEF contents, CachedKeys
  <2>6. Abstract!Use(key)
    BY <1>0, <2>1, <2>4, <2>5 DEF Abstract!Use
  <2> QED
    BY <2>6 DEF Abstract!SpecNext
<1>2. ASSUME NEW key \in Keys, delete(key)
      PROVE  Abstract!SpecNext \/ UNCHANGED Abstract!specVars
  <2>1. op = Idle /\ op' = op /\ UNCHANGED <<tupleVars, limits>>
    BY <1>2 DEF delete
  <2>2. CASE map[key] # Nil
    <3>1. key \in Abstract!Cached /\ Abstract!Forget(key)
      BY <1>2, <2>1, <2>2, DelForgets DEF delete
    <3>2. Abstract!Drop(key)
      BY <2>1, <3>1 DEF Abstract!Drop
    <3> QED
      BY <3>2 DEF Abstract!SpecNext
  <2>3. CASE map[key] = Nil
    <3>1. UNCHANGED <<map, tupleVars, order, bytes_used, limits, op>>
      BY <1>2, <2>1, <2>3 DEF delete
    <3>2. contents' = contents /\ olderKeys' = olderKeys
      BY <1>a, <3>1
    <3> QED
      BY <3>1, <3>2 DEF Abstract!specVars, limits
  <2> QED
    BY <2>2, <2>3
<1>3. ASSUME NEW key \in Keys, NEW value \in Values, NEW bytes \in ByteSizes,
             set(key, value, bytes)
      PROVE  Abstract!SpecNext
  <2>1. op = Idle /\ op' # Idle /\ UNCHANGED <<tupleVars, limits>>
    BY <1>3 DEF set, Idle
  <2>2. CASE map[key] # Nil
    <3>1. key \in Abstract!Cached /\ Abstract!Forget(key)
      BY <1>3, <2>1, <2>2, DelForgets DEF set
    <3>2. Abstract!Drop(key)
      BY <2>1, <3>1 DEF Abstract!Drop
    <3> QED
      BY <3>2 DEF Abstract!SpecNext
  <2>3. CASE map[key] = Nil
    <3>1. UNCHANGED <<map, tupleVars, order, bytes_used, limits>>
      BY <1>3, <2>1, <2>3 DEF set
    <3>2. contents' = contents /\ olderKeys' = olderKeys
      BY <1>a, <3>1
    <3>3. Abstract!Begin
      BY <2>1, <3>1, <3>2 DEF Abstract!Begin, limits
    <3> QED
      BY <3>3 DEF Abstract!SpecNext
  <2> QED
    BY <2>2, <2>3
<1>4. ASSUME clear \/ chop \/ (\E n \in SlotLimits : resize_slots(n))
             \/ (\E n \in ByteLimits : resize_bytes(n))
      PROVE  Abstract!SpecNext
  <2>1. /\ op = Idle /\ op' # Idle
        /\ UNCHANGED <<map, tupleVars, order, bytes_used, limits>>
    <3>1. op = Idle /\ UNCHANGED <<map, tupleVars, order, bytes_used, limits>>
      BY <1>4 DEF clear, chop, resize_slots, resize_bytes
    <3>2. op'.name # "idle"
      <4>1. CASE clear
        BY <4>1 DEF clear, Idle
      <4>2. CASE chop
        BY <4>2 DEF chop, Idle
      <4>3. CASE \E n \in SlotLimits : resize_slots(n)
        BY <4>3 DEF resize_slots, Idle
      <4>4. CASE \E n \in ByteLimits : resize_bytes(n)
        BY <4>4 DEF resize_bytes, Idle
      <4> QED
        BY <1>4, <4>1, <4>2, <4>3, <4>4
    <3> QED
      BY <1>i, <3>1, <3>2
  <2>2. contents' = contents /\ olderKeys' = olderKeys
    BY <1>a, <2>1
  <2>3. Abstract!Begin
    BY <2>1, <2>2 DEF Abstract!Begin, limits
  <2> QED
    BY <2>3 DEF Abstract!SpecNext
<1>5. ASSUME NEW value \in Values, Create(value)
      PROVE  UNCHANGED Abstract!specVars
  <2>1. UNCHANGED <<map, tupleVars, order, bytes_used, limits, op>>
    BY <1>5 DEF Create
  <2> QED
    BY <1>a, <2>1 DEF Abstract!specVars, limits
<1>6. ASSUME EvictOldest PROVE Abstract!SpecNext
  <2> DEFINE t == list.oldest
             key == KEY[t]
  <2>1. /\ t # Nil /\ del(key, t) /\ op' = op /\ op # Idle
        /\ UNCHANGED <<tupleVars, limits>>
    BY <1>6, <1>i DEF EvictOldest, MustEvict
  <2>2. t \in Live /\ \A u \in Live : u # t => <<t, u>> \in order
    BY <2>1 DEF IInv, WellFormed, Ends
  <2>3. key \in Keys /\ map[key] = t
    <3>1. PICK k \in Keys : map[k] = t
      BY <2>2 DEF Live
    <3>2. KEY[map[k]] = k
      BY <2>1, <3>1 DEF IInv
    <3> QED
      BY <3>1, <3>2
  <2>4. key \in Abstract!Cached /\ Abstract!Forget(key)
    BY <2>1, <2>3, DelForgets
  <2>5. \A j \in CachedKeys \ {key} : <<key, j>> \in olderKeys
    <3> TAKE j \in CachedKeys \ {key}
    <3>1. j \in Keys /\ map[j] \in Live /\ KEY[map[j]] = j
      BY <1>0, AbstractView
    <3>2. <<map[key], map[j]>> \in order
      BY <2>2, <2>3, <3>1
    <3> QED
      BY <2>3, <3>1, <3>2, AbstractView
  <2>6. Abstract!Evict(key)
    BY <1>0, <2>1, <2>4, <2>5 DEF Abstract!Evict
  <2> QED
    BY <2>3, <2>6 DEF Abstract!SpecNext
<1>7. ASSUME SetRaises PROVE Abstract!SpecNext
  <2>1. /\ op # Idle /\ op' = Idle
        /\ UNCHANGED <<map, tupleVars, order, bytes_used, limits>>
    BY <1>7, <1>i DEF SetRaises
  <2>2. Abstract!Finish
    BY <1>a, <2>1 DEF Abstract!Finish, limits
  <2> QED
    BY <2>2 DEF Abstract!SpecNext
<1>8. ASSUME SetInserts PROVE Abstract!SpecNext
  <2>1. PICK t \in Tuples :
          /\ op.name = "set" /\ ~MustEvict
          /\ IF removed_tuple # Nil THEN t = removed_tuple ELSE t \notin Live
          /\ map' = [map EXCEPT ![op.key] = t]
          /\ VALUE' = [VALUE EXCEPT ![t] = op.value]
          /\ BYTES' = [BYTES EXCEPT ![t] = op.bytes]
          /\ bytes_used' = bytes_used + op.bytes
          /\ order' = UsedLast(order, Live, t)
          /\ op' = Idle
          /\ UNCHANGED limits
    BY <1>8 DEF SetInserts
  <2>2. /\ t \notin Live /\ map[op.key] = Nil /\ op # Idle
        /\ op.key \in Keys /\ op.value \in Values /\ op.bytes \in ByteSizes
        /\ \A j \in Keys : map[j] # t
    BY <1>i, <2>1 DEF IInv, OpConsistent, Live
  <2>3. /\ op.key \notin CachedKeys
        /\ \A j \in Keys : map'[j] = IF j = op.key THEN t ELSE map[j]
        /\ CachedKeys' = CachedKeys \cup {op.key}
    <3>1. \A j \in Keys : map'[j] = IF j = op.key THEN t ELSE map[j]
      BY <1>0, <2>1 DEF TypeOK
    <3> QED
      BY <1>0, <2>2, <3>1 DEF CachedKeys
  <2>4. contents' = [j \in CachedKeys \cup {op.key} |->
                       IF j = op.key THEN [value |-> op.value, bytes |-> op.bytes]
                       ELSE contents[j]]
    <3>1. contents' = [j \in CachedKeys' |->
                         [value |-> VALUE'[map'[j]], bytes |-> BYTES'[map'[j]]]]
      BY DEF contents
    <3>2. VALUE'[t] = op.value /\ BYTES'[t] = op.bytes
      BY <1>0, <2>1 DEF TypeOK
    <3>3. \A j \in CachedKeys : /\ map'[j] = map[j] /\ j # op.key
                                /\ VALUE'[map[j]] = VALUE[map[j]]
                                /\ BYTES'[map[j]] = BYTES[map[j]]
      BY <1>0, <2>1, <2>2, <2>3 DEF TypeOK
    <3>4. \A j \in CachedKeys :
            contents[j] = [value |-> VALUE[map[j]], bytes |-> BYTES[map[j]]]
      BY AbstractView
    <3> QED
      BY <2>2, <2>3, <3>1, <3>2, <3>3, <3>4
  <2>5. olderKeys' = Abstract!UsedLast(olderKeys, CachedKeys, op.key)
    <3>1. /\ map' \in [Keys -> Tuples \cup {Nil}]
          /\ map'[op.key] = t
          /\ \A j \in Keys : map'[j] = t => j = op.key
          /\ \A j \in Keys : j # op.key => map'[j] = map[j]
      BY <1>0, <2>1, <2>2, <2>3 DEF TypeOK
    <3>2. {p \in Keys \X Keys :
             <<map'[p[1]], map'[p[2]]>> \in UsedLast(order, Live, t)}
            = Abstract!UsedLast(olderKeys, CachedKeys, op.key)
      BY <2>2, <3>1, UsedLastKeys
    <3> QED
      BY <2>1, <3>2 DEF olderKeys
  <2>6. Cardinality(CachedKeys) < max_size /\ bytes_used + op.bytes <= max_bytes
    <3>1. /\ size = Cardinality(CachedKeys) /\ size \in Int /\ bytes_used \in Int
          /\ max_size \in Nat /\ max_bytes \in Nat /\ op.bytes \in Nat
      BY <1>0, SizesAssumption, FS_CardinalityType DEF IInv, TypeOK
    <3> QED
      BY <2>1, <3>1 DEF MustEvict
  <2>7. Abstract!Insert(op.key, op.value, op.bytes)
    <3>1. max_size' = max_size /\ max_bytes' = max_bytes
          /\ bytes_used' = bytes_used + op.bytes /\ op # Idle /\ op' = Idle
      BY <2>1, <2>2 DEF limits
    <3>2. /\ op.key \notin Abstract!Cached
          /\ Abstract!Cardinality(Abstract!Cached) < max_size
          /\ olderKeys' = Abstract!UsedLast(olderKeys, Abstract!Cached, op.key)
          /\ contents' = [j \in Abstract!Cached \cup {op.key} |->
               IF j = op.key THEN [value |-> op.value, bytes |-> op.bytes]
               ELSE contents[j]]
      BY <1>0, <1>c, <2>3, <2>4, <2>5, <2>6
    <3> QED
      BY <2>6, <3>1, <3>2 DEF Abstract!Insert
  <2> QED
    BY <2>2, <2>7 DEF Abstract!SpecNext
<1>9. ASSUME Finishes PROVE Abstract!SpecNext
  <2>1. /\ op # Idle /\ op' = Idle
        /\ UNCHANGED <<map, tupleVars, size, order, bytes_used>>
    BY <1>9, <1>i DEF Finishes
  <2>2. contents' = contents /\ olderKeys' = olderKeys
    BY <1>a, <2>1
  <2>3. /\ max_size' \in SlotLimits /\ max_bytes' \in ByteLimits
        /\ size <= max_size' /\ bytes_used <= max_bytes'
        /\ size = Cardinality(CachedKeys)
    BY <2>1 DEF IInv, WithinLimits, TypeOK
  <2>4. Abstract!Resize(max_size', max_bytes')
    <3>1. Abstract!Cardinality(Abstract!Cached) = size
      BY <1>0, <1>c, <2>3
    <3> QED
      BY <2>1, <2>2, <2>3, <3>1 DEF Abstract!Resize
  <2> QED
    BY <2>3, <2>4 DEF Abstract!SpecNext
<1>10. CASE UNCHANGED vars
  <2>1. UNCHANGED <<map, tupleVars, order, bytes_used, limits, op>>
    BY <1>10 DEF vars, tupleVars, limits
  <2> QED
    BY <1>a, <2>1 DEF Abstract!specVars, limits
<1> QED
  BY <1>1, <1>2, <1>3, <1>4, <1>5, <1>6, <1>7, <1>8, <1>9, <1>10
  DEF Next, Proceed

(* The cache of ffi/lru.lua implements LRUSpec: in particular what its     *)
(* loops give up on their own is always the least recently used entry, and *)
(* an insertion always fits.                                               *)
THEOREM Refinement == Spec => ImplementsLRU
<1>1. Init => Abstract!SpecInit
  BY InitRefines
<1>2. IInv /\ IInv' /\ [Next]_vars => [Abstract!SpecNext]_(Abstract!specVars)
  BY StepRefines
<1> QED
  BY <1>1, <1>2, Invariance, PTL DEF Spec, ImplementsLRU, Abstract!Spec

-----------------------------------------------------------------------------
(* Sums over finite sets, as MapThenSumSet folds them.                    *)

\* A set of naturals has a least element.
LEMMA MinOfNats ==
  ASSUME NEW T \in SUBSET Nat, T # {}
  PROVE  \E x \in T : \A y \in T : x <= y
<1>1. \E x \in T : \A y \in T : ~(<<y, x>> \in OpToRel(<, Nat))
  BY NatLessThanWellFounded, WFMin
<1>2. \A x, y \in Nat : <<y, x>> \in OpToRel(<, Nat) <=> y < x BY DEF OpToRel
<1>3. PICK x \in T : \A y \in T : ~(<<y, x>> \in OpToRel(<, Nat)) BY <1>1
<1>4. \A y \in T : y \in Nat /\ ~(y < x) BY <1>2, <1>3
<1>5. \A y \in T : x <= y BY <1>4
<1> QED BY <1>5

\* A family of subsets of a finite set has a smallest member.
LEMMA SmallestSet ==
  ASSUME NEW S, IsFiniteSet(S), NEW F \in SUBSET SUBSET S, F # {}
  PROVE  \E s \in F : \A t \in s : s \ {t} \notin F
<1> DEFINE N == {Cardinality(s) : s \in F}
<1>1. \A s \in F : IsFiniteSet(s) /\ Cardinality(s) \in Nat
  BY FS_Subset, FS_CardinalityType
<1>2. N \in SUBSET Nat /\ N # {} BY <1>1
<1>3. PICK n \in N : \A k \in N : n <= k BY <1>2, MinOfNats
<1>4. PICK s \in F : n = Cardinality(s) BY <1>3
<1>5. \A t \in s : Cardinality(s \ {t}) = Cardinality(s) - 1 BY <1>1, <1>4, FS_RemoveElement
<1>6. ASSUME NEW t \in s, s \ {t} \in F PROVE FALSE
  <2>1. n <= Cardinality(s \ {t}) BY <1>3, <1>6
  <2> QED BY <1>1, <1>4, <1>5, <2>1
<1> QED BY <1>4, <1>6

\* What MapThenSumSet folds: the sum of B over each subset of S.
IsSum(f, B, S) ==
  f = [s \in SUBSET S |-> IF s = {} THEN 0
                          ELSE B[CHOOSE x \in s : TRUE] + f[s \ {CHOOSE x \in s : TRUE}]]

BytesOf(B, S) == MapThenSumSet(LAMBDA t : B[t], S)

\* One step of the fold.
LEMMA SumStep ==
  ASSUME NEW f, NEW B, NEW S, IsSum(f, B, S), NEW s \in SUBSET S
  PROVE  IF s = {} THEN f[s] = 0
         ELSE \E x \in s : f[s] = B[x] + f[s \ {x}]
<1>1. f[s] = IF s = {} THEN 0
             ELSE B[CHOOSE x \in s : TRUE] + f[s \ {CHOOSE x \in s : TRUE}]
  BY Zenon DEF IsSum
<1>2. s # {} => (CHOOSE x \in s : TRUE) \in s OBVIOUS
<1> QED BY <1>1, <1>2

LEMMA SumTyped ==
  ASSUME NEW f, NEW B, NEW S, IsFiniteSet(S), IsSum(f, B, S), \A t \in S : B[t] \in Int
  PROVE  \A s \in SUBSET S : f[s] \in Int
<1> DEFINE F == {s \in SUBSET S : f[s] \notin Int}
<1> SUFFICES ASSUME F # {} PROVE FALSE OBVIOUS
<1>1. PICK s \in F : \A t \in s : s \ {t} \notin F BY SmallestSet
<1>2. s \in SUBSET S /\ f[s] \notin Int OBVIOUS
<1>3. PICK x \in s : f[s] = B[x] + f[s \ {x}] BY <1>2, SumStep
<1>4. s \ {x} \in SUBSET S /\ B[x] \in Int BY <1>2
<1>5. f[s \ {x}] \in Int BY <1>1, <1>4
<1> QED BY <1>2, <1>3, <1>4, <1>5

\* The sum does not depend on the order of its terms.
LEMMA SumRemoves ==
  ASSUME NEW f, NEW B, NEW S, IsFiniteSet(S), IsSum(f, B, S), \A t \in S : B[t] \in Int
  PROVE  \A s \in SUBSET S : \A t \in s : f[s] = B[t] + f[s \ {t}]
<1> DEFINE F == {s \in SUBSET S : \E t \in s : f[s] # B[t] + f[s \ {t}]}
<1> SUFFICES ASSUME F # {} PROVE FALSE OBVIOUS
<1>1. PICK s \in F : \A t \in s : s \ {t} \notin F BY SmallestSet
<1>2. PICK t \in s : f[s] # B[t] + f[s \ {t}] OBVIOUS
<1>3. s \in SUBSET S OBVIOUS
<1>4. PICK x \in s : f[s] = B[x] + f[s \ {x}] BY <1>2, <1>3, SumStep
<1>5. x # t BY <1>2, <1>4
<1> DEFINE r == (s \ {t}) \ {x}
<1>6. /\ s \ {x} \in SUBSET S /\ s \ {t} \in SUBSET S /\ r \in SUBSET S
      /\ t \in s \ {x} /\ x \in s \ {t} /\ r = (s \ {x}) \ {t} BY <1>3, <1>5
<1>7. f[s \ {x}] = B[t] + f[r]
  <2>1. s \ {x} \notin F BY <1>1
  <2>2. f[s \ {x}] = B[t] + f[(s \ {x}) \ {t}] BY <1>6, <2>1
  <2> QED BY <1>6, <2>2
<1>8. f[s \ {t}] = B[x] + f[r]
  <2>1. s \ {t} \notin F BY <1>1
  <2> QED BY <1>6, <2>1
<1>9. B[x] \in Int /\ B[t] \in Int /\ f[r] \in Int BY <1>3, <1>6, SumTyped
<1> HIDE DEF r, F
<1> QED BY <1>2, <1>4, <1>7, <1>8, <1>9

\* It depends on nothing but the terms.
LEMMA SumOfTerms ==
  ASSUME NEW f, NEW B, NEW S, IsSum(f, B, S), IsFiniteSet(S),
         NEW g, NEW C, NEW T, IsSum(g, C, T), IsFiniteSet(T),
         \A t \in S : B[t] \in Int, \A t \in T : C[t] \in Int,
         NEW U \in SUBSET S, U \in SUBSET T, \A t \in U : B[t] = C[t]
  PROVE  f[U] = g[U]
<1> DEFINE F == {s \in SUBSET U : f[s] # g[s]}
<1> SUFFICES ASSUME F # {} PROVE FALSE OBVIOUS
<1>0. IsFiniteSet(U) BY FS_Subset
<1>1. PICK s \in F : \A t \in s : s \ {t} \notin F BY <1>0, SmallestSet
<1>2. s \in SUBSET S /\ s \in SUBSET T /\ s \in SUBSET U /\ f[s] # g[s] OBVIOUS
<1>3. CASE s = {}
  <2>1. f[s] = 0 /\ g[s] = 0 BY <1>2, <1>3, SumStep
  <2> QED BY <1>2, <2>1
<1>4. CASE s # {}
  <2>1. PICK x : x \in s BY <1>4
  <2>2. f[s] = B[x] + f[s \ {x}] /\ g[s] = C[x] + g[s \ {x}] BY <1>2, <2>1, SumRemoves
  <2>3. s \ {x} \notin F BY <1>1, <2>1
  <2>4. f[s \ {x}] = g[s \ {x}]
    <3>1. s \ {x} \in SUBSET U BY <1>2
    <3> QED BY <2>3, <3>1
  <2>5. x \in U /\ B[x] = C[x] BY <1>2, <2>1
  <2> QED BY <1>2, <2>2, <2>4, <2>5
<1> QED BY <1>3, <1>4

\* The sum exists: it is built up by the size of the sets.
LEMMA SumExists ==
  ASSUME NEW B, NEW S, IsFiniteSet(S)
  PROVE  \E f : IsSum(f, B, S)
<1> DEFINE Upto(n) == {s \in SUBSET S : Cardinality(s) <= n}
           Pick(s) == CHOOSE x \in s : TRUE
           Sums(f, n) == /\ f = [s \in Upto(n) |-> f[s]]
                         /\ \A s \in Upto(n) : f[s] = IF s = {} THEN 0
                                                ELSE B[Pick(s)] + f[s \ {Pick(s)}]
           Bad == {n \in Nat : ~\E f : Sums(f, n)}
<1>1. \A s \in SUBSET S : /\ IsFiniteSet(s) /\ Cardinality(s) \in Nat
                          /\ Cardinality(s) <= Cardinality(S)
                          /\ (Cardinality(s) = 0) <=> (s = {})
  BY FS_Subset, FS_CardinalityType, FS_EmptySet
<1>2. \A s \in SUBSET S : s # {} => /\ Pick(s) \in s /\ s \ {Pick(s)} \in SUBSET S
                                    /\ Cardinality(s \ {Pick(s)}) = Cardinality(s) - 1
  BY <1>1, FS_RemoveElement
<1> HIDE DEF Pick
<1>3. Bad = {}
  <2> SUFFICES ASSUME Bad # {} PROVE FALSE OBVIOUS
  <2>1. PICK n \in Bad : \A k \in Bad : n <= k BY MinOfNats
  <2>2. CASE n = 0
    <3>1. \A s \in Upto(0) : s = {} BY <1>1
    <3>2. Sums([s \in Upto(0) |-> 0], 0) BY <3>1
    <3> QED BY <2>1, <2>2, <3>2
  <2>3. CASE n # 0
    <3>1. n \in Nat /\ n - 1 \in Nat /\ n - 1 \notin Bad
      <4>1. n \in Nat BY <2>1
      <4>2. n - 1 \in Nat /\ ~(n <= n - 1) BY <2>3, <4>1
      <4> QED BY <2>1, <4>1, <4>2
    <3>2. PICK f : Sums(f, n - 1) BY <3>1
    <3> DEFINE g == [s \in Upto(n) |-> IF s = {} THEN 0
                                       ELSE B[Pick(s)] + f[s \ {Pick(s)}]]
    <3>3. \A s \in Upto(n - 1) : s \in Upto(n) /\ g[s] = f[s]
      <4> TAKE s \in Upto(n - 1)
      <4>1. s \in Upto(n) BY <1>1, <3>1
      <4> QED BY <3>2, <4>1
    <3>4. \A s \in Upto(n) : s # {} => s \ {Pick(s)} \in Upto(n - 1)
      <4> SUFFICES ASSUME NEW s \in Upto(n), s # {} PROVE s \ {Pick(s)} \in Upto(n - 1)
        OBVIOUS
      <4>1. s \in SUBSET S /\ Cardinality(s) \in Nat /\ Cardinality(s) <= n BY <1>1
      <4>2. s \ {Pick(s)} \in SUBSET S /\ Cardinality(s \ {Pick(s)}) = Cardinality(s) - 1
        BY <1>2, <4>1
      <4> QED BY <3>1, <4>1, <4>2
    <3>5. Sums(g, n) BY <3>3, <3>4
    <3> QED BY <2>1, <3>5
  <2> QED BY <2>2, <2>3
<1>4. Cardinality(S) \in Nat /\ Upto(Cardinality(S)) = SUBSET S BY <1>1
<1>5. PICK f : Sums(f, Cardinality(S)) BY <1>3, <1>4
<1>6. /\ f = [s \in SUBSET S |-> f[s]]
      /\ \A s \in SUBSET S : f[s] = IF s = {} THEN 0 ELSE B[Pick(s)] + f[s \ {Pick(s)}]
  BY <1>4, <1>5
<1>7. f = [s \in SUBSET S |-> IF s = {} THEN 0 ELSE B[Pick(s)] + f[s \ {Pick(s)}]]
  BY <1>6
<1> QED BY <1>7 DEF IsSum, Pick

LEMMA BytesOfIsSum ==
  ASSUME NEW B, NEW S, IsFiniteSet(S)
  PROVE  \E f : IsSum(f, B, S) /\ BytesOf(B, S) = f[S]
<1>1. BytesOf(B, S) = (CHOOSE f : IsSum(f, B, S))[S]
  BY DEF BytesOf, MapThenSumSet, MapThenFoldSet, IsSum
<1>2. IsSum(CHOOSE f : IsSum(f, B, S), B, S) BY SumExists
<1> QED BY <1>1, <1>2

(* The sum of no bytes is 0, a further tuple adds its own, and the other   *)
(* tuples' bytes do not matter.                                            *)
LEMMA BytesOfTuples ==
  ASSUME NEW S, IsFiniteSet(S), NEW B, \A t \in S : B[t] \in Int
  PROVE  /\ BytesOf(B, S) \in Int
         /\ S = {} => BytesOf(B, S) = 0
         /\ \A t \in S : BytesOf(B, S) = B[t] + BytesOf(B, S \ {t})
         /\ \A C : (\A t \in S : B[t] = C[t]) => BytesOf(C, S) = BytesOf(B, S)
<1>1. PICK f : IsSum(f, B, S) /\ BytesOf(B, S) = f[S] BY BytesOfIsSum
<1>2. BytesOf(B, S) \in Int BY <1>1, SumTyped
<1>3. S = {} => BytesOf(B, S) = 0 BY <1>1, SumStep
<1>4. ASSUME NEW t \in S PROVE BytesOf(B, S) = B[t] + BytesOf(B, S \ {t})
  <2>1. f[S] = B[t] + f[S \ {t}] BY <1>1, SumRemoves
  <2>2. IsFiniteSet(S \ {t}) /\ \A u \in S \ {t} : B[u] \in Int BY FS_Subset
  <2>3. PICK g : IsSum(g, B, S \ {t}) /\ BytesOf(B, S \ {t}) = g[S \ {t}] BY <2>2, BytesOfIsSum
  <2>4. f[S \ {t}] = g[S \ {t}] BY <1>1, <2>2, <2>3, SumOfTerms
  <2> QED BY <1>1, <2>1, <2>3, <2>4
<1>5. ASSUME NEW C, \A t \in S : B[t] = C[t] PROVE BytesOf(C, S) = BytesOf(B, S)
  <2>1. PICK g : IsSum(g, C, S) /\ BytesOf(C, S) = g[S] BY BytesOfIsSum
  <2>2. f[S] = g[S] BY <1>1, <1>5, <2>1, SumOfTerms
  <2> QED BY <1>1, <2>1, <2>2
<1> QED BY <1>2, <1>3, <1>4, <1>5

-----------------------------------------------------------------------------
(* The counters.                                                           *)

BytesExact == bytes_used = BytesOf(BYTES, Live)

\* The table leads to each of its tuples from one key.
LEMMA OneKeyEach ==
  ASSUME IInv
  PROVE  /\ IsFiniteSet(Live) /\ Cardinality(Live) = Cardinality(CachedKeys)
         /\ Live \in SUBSET Tuples /\ \A t \in Live : BYTES[t] \in Int
<1> DEFINE m == [k \in CachedKeys |-> map[k]]
<1>1. CachedKeys \subseteq Keys /\ Nil \notin Tuples
      /\ map \in [Keys -> Tuples \cup {Nil}]
      /\ \A k \in CachedKeys : map[k] # Nil /\ KEY[map[k]] = k
  BY NilAssumption DEF IInv, TypeOK, CachedKeys
<1>2. \A k \in CachedKeys : map[k] \in Live
  BY <1>1 DEF Live
<1>3. \A t \in Live : \E k \in CachedKeys : map[k] = t
  BY <1>1 DEF Live, CachedKeys
<1>4. m \in Bijection(CachedKeys, Live)
  <2>1. m \in [CachedKeys -> Live] BY <1>2
  <2>2. \A j, k \in CachedKeys : m[j] = m[k] => j = k BY <1>1
  <2> QED BY <1>3, <2>1, <2>2 DEF Bijection, Injection, Surjection, IsInjective
<1>5. ExistsBijection(CachedKeys, Live) BY <1>4 DEF ExistsBijection
<1>6. IsFiniteSet(CachedKeys) BY DEF IInv
<1>7. \A t \in Live : BYTES[t] \in Int
  <2>1. \A t \in Live : BYTES[t] \in ByteSizes BY DEF IInv
  <2>2. \A b \in ByteSizes : b \in Int BY SizesAssumption
  <2> QED BY <2>1, <2>2
<1> QED BY <1>5, <1>6, <1>7, FS_Bijection DEF Live

\* del takes off the count the bytes of the tuple it takes out.
LEMMA DelCounts ==
  ASSUME IInv, BytesExact, NEW key \in Keys, NEW t, t = map[key], t # Nil,
         del(key, t), UNCHANGED <<tupleVars, limits>>
  PROVE  BytesExact'
<1>1. t \in Live /\ Live' = Live \ {t} BY DelKeepsConsistency
<1>2. BYTES' = BYTES /\ bytes_used' = bytes_used - BYTES[t] BY DEF del, tupleVars
<1>3. IsFiniteSet(Live) /\ \A u \in Live : BYTES[u] \in Int BY OneKeyEach
<1>4. BytesOf(BYTES, Live) = BYTES[t] + BytesOf(BYTES, Live \ {t}) /\ BYTES[t] \in Int
  BY <1>1, <1>3, BytesOfTuples
<1>5. BytesOf(BYTES, Live \ {t}) \in Int
  <2>1. IsFiniteSet(Live \ {t}) /\ \A u \in Live \ {t} : BYTES[u] \in Int
    BY <1>3, FS_Subset
  <2> QED BY <2>1, BytesOfTuples
<1>6. bytes_used' = BytesOf(BYTES, Live \ {t}) BY <1>2, <1>4, <1>5 DEF BytesExact
<1> QED BY <1>1, <1>2, <1>6 DEF BytesExact

\* A tuple that comes in adds its own to it.
LEMMA InsertCounts ==
  ASSUME IInv, BytesExact, SetInserts
  PROVE  BytesExact'
<1>1. PICK t \in Tuples :
        /\ op.name = "set"
        /\ IF removed_tuple # Nil THEN t = removed_tuple ELSE t \notin Live
        /\ map' = [map EXCEPT ![op.key] = t]
        /\ BYTES' = [BYTES EXCEPT ![t] = op.bytes]
        /\ bytes_used' = bytes_used + op.bytes
  BY DEF SetInserts
<1>2. /\ t \notin Live /\ op.key \in Keys /\ map[op.key] = Nil /\ op.bytes \in Nat
      /\ TypeOK
  BY <1>1, SizesAssumption DEF IInv, OpConsistent
<1>3. Live' = Live \cup {t}
  <2>1. \A k \in Keys : map'[k] = IF k = op.key THEN t ELSE map[k]
    BY <1>1, <1>2 DEF TypeOK
  <2>2. \A u \in Tuples : (\E k \in Keys : map'[k] = u)
                           <=> u = t \/ (\E k \in Keys : map[k] = u)
    BY <1>2, <2>1, NilAssumption
  <2> QED BY <2>2 DEF Live
<1>4. BYTES'[t] = op.bytes /\ \A u \in Live : BYTES[u] = BYTES'[u]
  BY <1>1, <1>2 DEF TypeOK, Live
<1>5. IsFiniteSet(Live) /\ \A u \in Live : BYTES[u] \in Int BY OneKeyEach
<1>6. BytesOf(BYTES', Live) = BytesOf(BYTES, Live) BY <1>4, <1>5, BytesOfTuples
<1>7. IsFiniteSet(Live') /\ \A u \in Live' : BYTES'[u] \in Int
  BY <1>2, <1>3, <1>4, <1>5, FS_AddElement
<1>8. t \in Live' /\ Live' \ {t} = Live BY <1>2, <1>3
<1>9. BytesOf(BYTES', Live') = BYTES'[t] + BytesOf(BYTES', Live)
  BY <1>7, <1>8, BytesOfTuples
<1>10. BytesOf(BYTES', Live') = op.bytes + bytes_used
  BY <1>4, <1>6, <1>9 DEF BytesExact
<1>11. bytes_used \in Int BY <1>2 DEF TypeOK
<1>12. bytes_used' = BytesOf(BYTES', Live') BY <1>1, <1>2, <1>10, <1>11
<1> QED BY <1>12 DEF BytesExact

\* No step lets the byte count and the bytes of the tuples part.
LEMMA StepCounts == IInv /\ BytesExact /\ [Next]_vars => BytesExact'
<1> SUFFICES ASSUME IInv, BytesExact, [Next]_vars PROVE BytesExact'
  OBVIOUS
<1>s. ASSUME UNCHANGED <<map, BYTES, bytes_used>> PROVE BytesExact'
  <2>1. Live' = Live /\ BYTES' = BYTES /\ bytes_used' = bytes_used BY <1>s DEF Live
  <2> QED BY <2>1 DEF BytesExact
<1>1. ASSUME NEW key \in Keys,
             delete(key) \/ \E value \in Values, bytes \in ByteSizes : set(key, value, bytes)
      PROVE  BytesExact'
  <2>1. CASE map[key] # Nil
    <3>1. del(key, map[key]) /\ UNCHANGED <<tupleVars, limits>>
      BY <1>1, <2>1 DEF delete, set
    <3> QED BY <2>1, <3>1, DelCounts
  <2>2. CASE map[key] = Nil
    BY <1>1, <1>s, <2>2 DEF delete, set, tupleVars
  <2> QED BY <2>1, <2>2
<1>2. ASSUME EvictOldest PROVE BytesExact'
  <2> DEFINE t == list.oldest
  <2>1. t # Nil /\ t \in Live /\ del(KEY[t], t) /\ UNCHANGED <<tupleVars, limits>>
    BY <1>2 DEF EvictOldest, IInv, WellFormed, Ends
  <2>2. KEY[t] \in Keys /\ t = map[KEY[t]]
    BY <2>1 DEF Live, IInv
  <2> QED BY <2>1, <2>2, DelCounts
<1>3. ASSUME SetInserts PROVE BytesExact' BY <1>3, InsertCounts
<1>4. ASSUME \/ \E key \in Keys : get(key)
             \/ clear \/ chop \/ SetRaises \/ Finishes
             \/ \E value \in Values : Create(value)
             \/ \E n \in SlotLimits : resize_slots(n)
             \/ \E n \in ByteLimits : resize_bytes(n)
             \/ UNCHANGED vars
      PROVE  BytesExact'
  <2>1. UNCHANGED <<map, BYTES, bytes_used>>
    BY <1>4 DEF get, clear, chop, SetRaises, Finishes, Create, resize_slots, resize_bytes,
                vars, tupleVars
  <2> QED BY <1>s, <2>1
<1> QED BY <1>1, <1>2, <1>3, <1>4 DEF Next, Proceed

(* After any calls, and in the middle of each loop, size is the number of  *)
(* the tuples in the table of lua.lru and bytes_used the total of their    *)
(* bytes, and both are within the limits.                                  *)
THEOREM CountersAreExact == Spec => []CountersExact
<1>1. Init => BytesExact
  <2> SUFFICES ASSUME Init PROVE BytesExact OBVIOUS
  <2>1. Live = {} /\ bytes_used = 0 BY NilAssumption DEF Init, Live
  <2>2. IsFiniteSet({}) /\ \A t \in {} : BYTES[t] \in Int BY FS_EmptySet
  <2>3. BytesOf(BYTES, {}) = 0 BY <2>2, BytesOfTuples
  <2> QED BY <2>1, <2>3 DEF BytesExact
<1>2. ASSUME IInv, BytesExact PROVE CountersExact
  <2>1. size = Cardinality(Live) BY <1>2, OneKeyEach DEF IInv
  <2> QED BY <1>2, <2>1 DEF IInv, CountersExact, BytesExact, BytesOf
<1> QED BY <1>1, <1>2, StepCounts, Invariance, PTL DEF Spec

(* "not enough storage for cache" is raised only for an entry that alone   *)
(* exceeds a limit, and no other loop of lua.lru runs into the end of the  *)
(* list: once every tuple is gone both counters are back to 0.             *)
THEOREM RaisesOnlyForTheTooBig == Spec => []RaisesOnlyWhenTooBig
<1>1. ASSUME IInv, CountersExact PROVE RaisesOnlyWhenTooBig
  <2> SUFFICES ASSUME MustEvict, list.oldest = Nil
               PROVE  op.name = "set" /\ (op.bytes > max_bytes \/ max_size = 0)
    BY DEF RaisesOnlyWhenTooBig
  <2>1. Live = {} BY <1>1 DEF IInv, WellFormed, Ends
  <2>2. size = 0 BY <1>1, <2>1, FS_EmptySet DEF CountersExact
  <2>3. bytes_used = 0
    <3>1. bytes_used = BytesOf(BYTES, {}) BY <1>1, <2>1 DEF CountersExact, BytesOf
    <3>2. IsFiniteSet({}) /\ \A t \in {} : BYTES[t] \in Int BY FS_EmptySet
    <3> QED BY <3>1, <3>2, BytesOfTuples
  <2>4. max_size \in Nat /\ max_bytes \in Nat /\ op \in OpType
    BY <1>1, SizesAssumption DEF IInv, TypeOK
  <2>5. op.limit \in Nat /\ op.bytes \in Nat BY <2>4 DEF OpType
  <2>6. \/ op.name = "set" /\ (size + 1 > max_size \/ bytes_used + op.bytes > max_bytes)
        \/ size > op.limit \/ size > 0 \/ bytes_used > op.limit
    BY DEF MustEvict
  <2>7. op.name = "set" /\ (1 > max_size \/ op.bytes > max_bytes)
    BY <2>2, <2>3, <2>5, <2>6
  <2> QED BY <2>4, <2>7
<1> QED BY <1>1, Invariance, CountersAreExact, PTL
=============================================================================
