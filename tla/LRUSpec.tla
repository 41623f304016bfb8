------------------------------ MODULE LRUSpec ------------------------------
(***************************************************************************)
(* What the cache of ffi/lru.lua promises its clients, with no table, no   *)
(* linked list and no loop: a bounded set of entries ordered by their last *)
(* use.  A client may look an entry up or drop it; everything the cache    *)
(* gives up on its own account, while an operation is under way, is its    *)
(* least recently used entry.                                              *)
(***************************************************************************)
EXTENDS Integers, FiniteSets

CONSTANTS
  Keys,         \* the keys clients use
  Values,       \* the objects clients store
  ByteSizes,    \* what one entry may weigh
  SlotLimits,   \* the limits on the number of entries clients ask for
  ByteLimits    \* the limits on their total weight clients ask for

VARIABLES
  contents,   \* the entry of every cached key: its value and its bytes
  older,      \* <<a, b>> \in older: key a was used less recently than key b
  slots,      \* how many entries the cache may hold
  budget,     \* how many bytes they may take together
  used,       \* how many bytes they take
  busy        \* an operation that makes room is under way

specVars == <<contents, older, slots, budget, used, busy>>

Cached == DOMAIN contents

\* k becomes the most recently used key of S \cup {k}.
UsedLast(o, S, k) ==
  {p \in o : p[1] # k /\ p[2] # k} \cup {<<j, k>> : j \in S \ {k}}

\* Key k leaves the cache.
Forget(k) ==
  /\ contents' = [j \in Cached \ {k} |-> contents[j]]
  /\ older' = {p \in older : p[1] # k /\ p[2] # k}
  /\ used' = used - contents[k].bytes
  /\ UNCHANGED <<slots, budget>>

SpecInit ==
  /\ contents = [k \in {} |-> 0]
  /\ older = {}
  /\ slots \in SlotLimits
  /\ budget \in ByteLimits
  /\ used = 0
  /\ busy = FALSE

(* A lookup that hits makes its key the most recently used one. *)
Use(k) ==
  /\ ~busy /\ k \in Cached
  /\ older' = UsedLast(older, Cached, k)
  /\ UNCHANGED <<contents, slots, budget, used, busy>>

(* A client drops the entry of a key of its own choice, to be rid of it    *)
(* (the cache is idle again) or to replace it (an insertion follows).      *)
Drop(k) ==
  /\ ~busy /\ k \in Cached
  /\ Forget(k)
  /\ busy' \in BOOLEAN

(* An operation that has to make room starts. *)
Begin ==
  /\ ~busy /\ busy' = TRUE
  /\ UNCHANGED <<contents, older, slots, budget, used>>

(* What the cache itself gives up is its least recently used entry. *)
Evict(k) ==
  /\ busy /\ k \in Cached
  /\ \A j \in Cached \ {k} : <<k, j>> \in older
  /\ Forget(k)
  /\ UNCHANGED busy

(* A new entry goes in only when it fits, and as the most recent one. *)
Insert(k, v, b) ==
  /\ busy /\ k \notin Cached
  /\ Cardinality(Cached) < slots
  /\ used + b <= budget
  /\ contents' = [j \in Cached \cup {k} |->
                    IF j = k THEN [value |-> v, bytes |-> b] ELSE contents[j]]
  /\ older' = UsedLast(older, Cached, k)
  /\ used' = used + b
  /\ busy' = FALSE
  /\ UNCHANGED <<slots, budget>>

(* The limits change only to values the present entries respect. *)
Resize(s, b) ==
  /\ busy /\ busy' = FALSE
  /\ Cardinality(Cached) <= s /\ used <= b
  /\ slots' = s /\ budget' = b
  /\ UNCHANGED <<contents, older, used>>

(* An operation ends without inserting anything. *)
Finish ==
  /\ busy /\ busy' = FALSE
  /\ UNCHANGED <<contents, older, slots, budget, used>>

SpecNext ==
  \/ Begin \/ Finish
  \/ \E k \in Keys : Use(k) \/ Drop(k) \/ Evict(k)
  \/ \E k \in Keys, v \in Values, b \in ByteSizes : Insert(k, v, b)
  \/ \E s \in SlotLimits, b \in ByteLimits : Resize(s, b)

Spec == SpecInit /\ [][SpecNext]_specVars
=============================================================================
