------------------------------ MODULE LRUCache ------------------------------
(***************************************************************************)
(* The cache of ffi/lru.lua as it is built: a table from keys to tuples,   *)
(* the tuples in a doubly linked list from the newest to the oldest, a     *)
(* size and a byte count kept beside them, and one removed tuple kept to   *)
(* be recycled by the next insertion.                                      *)
(*                                                                         *)
(* Lua runs one operation at a time; the loops that make room are modelled *)
(* one iteration (one del) per step, with the operation under way in op,   *)
(* because every iteration calls out of the cache (onFree) and because the *)
(* client sees all of them.  No operation starts while one is under way.   *)
(*                                                                         *)
(* A definition named X_... before a definition X is a variant of X with a *)
(* bug a maintainer could introduce; each property is broken by one.       *)
(*                                                                         *)
(* A cache created without max_bytes is the instance ByteSizes = {0}: its  *)
(* byte count and its byte limit stay 0 and never decide anything.         *)
(***************************************************************************)
EXTENDS Integers, FiniteSetsExt

CONSTANTS
  Keys, Values, ByteSizes, SlotLimits, ByteLimits,
  Tuples,               \* the Lua tables that serve as list nodes
  Nil,                  \* Lua's nil
  enable_eviction_cb    \* whether del calls value:onFree()

ASSUME SizesAssumption ==
  /\ ByteSizes \subseteq Nat /\ SlotLimits \subseteq Nat
  /\ ByteLimits \subseteq Nat
ASSUME NilAssumption ==
  Nil \notin Keys \cup Values \cup Tuples \cup Nat
ASSUME CallbackAssumption == enable_eviction_cb \in BOOLEAN

VARIABLES
  map,            \* key -> tuple
  VALUE, KEY, BYTES,       \* these fields of every tuple
  list,           \* the links: newest, oldest, and PREV and NEXT of every tuple
  size, bytes_used, max_size, max_bytes,
  removed_tuple,  \* the last deleted tuple, until an insertion recycles it
  op,             \* the operation under way, with its arguments and locals
  freed,          \* (history) the objects whose onFree has run
  order           \* (history) <<t, u>>: tuple t was used less recently than u

vars == <<map, VALUE, KEY, BYTES, list, size, bytes_used, max_size, max_bytes,
          removed_tuple, op, freed, order>>

tupleVars == <<VALUE, KEY, BYTES>>
limits    == <<max_size, max_bytes>>

Idle == [name |-> "idle", key |-> Nil, value |-> Nil, bytes |-> 0, limit |-> 0]

Live == {t \in Tuples : \E k \in Keys : map[k] = t}

-----------------------------------------------------------------------------
(* The linked list. *)

\* Remove tuple t from the list l.
cut(l, t) ==
  LET p == l.PREV[t]
      n == l.NEXT[t]
  IN  [newest |-> IF p = Nil THEN n ELSE l.newest,
       oldest |-> IF n = Nil THEN p ELSE l.oldest,
       PREV   |-> [u \in Tuples |-> IF u = t THEN Nil
                                    ELSE IF u = n THEN p ELSE l.PREV[u]],
       NEXT   |-> [u \in Tuples |-> IF u = t THEN Nil
                                    ELSE IF u = p THEN n ELSE l.NEXT[u]]]

\* Insert tuple t at the newest end of the list l.
setNewest(l, t) ==
  IF l.newest = Nil
  THEN [l EXCEPT !.newest = t, !.oldest = t]
  ELSE [newest |-> t,
        oldest |-> l.oldest,
        PREV   |-> [l.PREV EXCEPT ![l.newest] = t],
        NEXT   |-> [l.NEXT EXCEPT ![t] = l.newest]]

\* The history of uses when t leaves the cache, and when it is the last used.
Forgotten(o, t)   == {p \in o : p[1] # t /\ p[2] # t}
UsedLast(o, S, t) == Forgotten(o, t) \cup {<<u, t>> : u \in S \ {t}}

\* Leaves the entry in the table.
del_KeepsMapping(key, t) ==
  /\ freed' = IF enable_eviction_cb THEN freed \cup {VALUE[t]} ELSE freed
  /\ list' = cut(list, t)
  /\ size' = size - 1
  /\ bytes_used' = bytes_used - BYTES[t]
  /\ order' = Forgotten(order, t)
  /\ UNCHANGED map

\* Forgets the bytes, as the variants of del without max_bytes do.
del_KeepsBytes(key, t) ==
  /\ freed' = IF enable_eviction_cb THEN freed \cup {VALUE[t]} ELSE freed
  /\ map' = [map EXCEPT ![key] = Nil]
  /\ list' = cut(list, t)
  /\ size' = size - 1
  /\ order' = Forgotten(order, t)
  /\ UNCHANGED bytes_used

\* Delete the entry of key, whose tuple is t: its value is freed first.
del(key, t) ==
  /\ freed' = IF enable_eviction_cb THEN freed \cup {VALUE[t]} ELSE freed
  /\ map' = [map EXCEPT ![key] = Nil]
  /\ list' = cut(list, t)
  /\ size' = size - 1
  /\ bytes_used' = bytes_used - BYTES[t]
  /\ order' = Forgotten(order, t)

-----------------------------------------------------------------------------
ListType == [newest : Tuples \cup {Nil}, oldest : Tuples \cup {Nil},
             PREV : [Tuples -> Tuples \cup {Nil}],
             NEXT : [Tuples -> Tuples \cup {Nil}]]

OpType == [name : {"idle", "set", "clear", "chop", "slots", "bytes"},
           key : Keys \cup {Nil}, value : Values \cup {Nil},
           bytes : Nat, limit : Nat]

TypeOK ==
  /\ map \in [Keys -> Tuples \cup {Nil}]
  /\ VALUE \in [Tuples -> Values \cup {Nil}]
  /\ KEY \in [Tuples -> Keys \cup {Nil}]
  /\ BYTES \in [Tuples -> ByteSizes \cup {0}]
  /\ list \in ListType
  /\ size \in Int /\ bytes_used \in Int
  /\ max_size \in SlotLimits /\ max_bytes \in ByteLimits
  /\ removed_tuple \in Tuples \cup {Nil}
  /\ op \in OpType
  /\ freed \subseteq Values \cup {Nil}
  /\ order \subseteq Tuples \X Tuples

Init ==
  /\ map = [k \in Keys |-> Nil]
  /\ VALUE = [t \in Tuples |-> Nil]
  /\ KEY = [t \in Tuples |-> Nil]
  /\ BYTES = [t \in Tuples |-> 0]
  /\ list = [newest |-> Nil, oldest |-> Nil,
             PREV |-> [t \in Tuples |-> Nil], NEXT |-> [t \in Tuples |-> Nil]]
  /\ size = 0 /\ bytes_used = 0
  /\ max_size \in SlotLimits /\ max_size >= 1
  /\ max_bytes \in ByteLimits
  /\ removed_tuple = Nil
  /\ op = Idle
  /\ freed = {}
  /\ order = {}

-----------------------------------------------------------------------------
(* A lookup: nothing on a miss, the tuple to the newest end on a hit. *)
get(key) ==
  /\ op = Idle
  /\ map[key] # Nil
  /\ list' = setNewest(cut(list, map[key]), map[key])
  /\ order' = UsedLast(order, Live, map[key])
  /\ UNCHANGED <<map, tupleVars, size, bytes_used, limits, removed_tuple, op,
                 freed>>

(* An insertion first deletes the entry the key has.  Clients hand in an   *)
(* object that exists and that the cache does not hold.                    *)
set(key, value, bytes) ==
  /\ op = Idle
  /\ value \notin freed /\ \A t \in Live : VALUE[t] # value
  /\ op' = [Idle EXCEPT !.name = "set", !.key = key, !.value = value,
                        !.bytes = bytes]
  /\ IF map[key] # Nil
     THEN /\ del(key, map[key])
          /\ removed_tuple' = map[key]
     ELSE UNCHANGED <<map, list, size, bytes_used, order, freed,
                      removed_tuple>>
  /\ UNCHANGED <<tupleVars, limits>>

(* set(key, nil), which delete(key) is. *)
delete(key) ==
  /\ op = Idle
  /\ IF map[key] # Nil
     THEN del(key, map[key])
     ELSE UNCHANGED <<map, list, size, bytes_used, order, freed>>
  /\ removed_tuple' = Nil
  /\ UNCHANGED <<tupleVars, limits, op>>

clear ==
  /\ op = Idle
  /\ op' = [Idle EXCEPT !.name = "clear"]
  /\ UNCHANGED <<map, tupleVars, list, size, bytes_used, limits,
                 removed_tuple, freed, order>>

\* size > size / 2 and size > size \div 2 stop at the same size.
chop ==
  /\ op = Idle
  /\ op' = [Idle EXCEPT !.name = "chop", !.limit = size \div 2]
  /\ UNCHANGED <<map, tupleVars, list, size, bytes_used, limits,
                 removed_tuple, freed, order>>

resize_slots(new_size) ==
  /\ op = Idle /\ new_size # max_size
  /\ op' = [Idle EXCEPT !.name = "slots", !.limit = new_size]
  /\ UNCHANGED <<map, tupleVars, list, size, bytes_used, limits,
                 removed_tuple, freed, order>>

resize_bytes(new_bytes) ==
  /\ op = Idle /\ new_bytes # max_bytes
  /\ op' = [Idle EXCEPT !.name = "bytes", !.limit = new_bytes]
  /\ UNCHANGED <<map, tupleVars, list, size, bytes_used, limits,
                 removed_tuple, freed, order>>

(* A client creates an object; a freed object's identity is used again. *)
Create(value) ==
  /\ op = Idle /\ value \in freed
  /\ freed' = freed \ {value}
  /\ UNCHANGED <<map, tupleVars, list, size, bytes_used, limits,
                 removed_tuple, op, order>>

-----------------------------------------------------------------------------
\* Counts the entry to come nowhere.
MustEvict_OffByOne ==
  \/ op.name = "set"   /\ \/ size > max_size
                          \/ bytes_used + op.bytes > max_bytes
  \/ op.name = "clear" /\ size > 0
  \/ op.name = "chop"  /\ size > op.limit
  \/ op.name = "slots" /\ size > op.limit
  \/ op.name = "bytes" /\ bytes_used > op.limit

(* The loop of the operation under way goes on. *)
MustEvict ==
  \/ op.name = "set"   /\ \/ size + 1 > max_size
                          \/ bytes_used + op.bytes > max_bytes
  \/ op.name = "clear" /\ size > 0
  \/ op.name = "chop"  /\ size > op.limit
  \/ op.name = "slots" /\ size > op.limit
  \/ op.name = "bytes" /\ bytes_used > op.limit

\* Evicts from the wrong end.
EvictOldest_Newest ==
  /\ MustEvict /\ list.oldest # Nil
  /\ del(KEY[list.newest], list.newest)
  /\ removed_tuple' = list.newest
  /\ UNCHANGED <<tupleVars, limits, op>>

(* One iteration; with no oldest tuple, set raises and the others would    *)
(* index nil (RaisesOnlyWhenTooBig).                                       *)
EvictOldest ==
  /\ MustEvict /\ list.oldest # Nil
  /\ del(KEY[list.oldest], list.oldest)
  /\ removed_tuple' = list.oldest
  /\ UNCHANGED <<tupleVars, limits, op>>

(* assert(oldest, "not enough storage for cache"): by then the entry the   *)
(* key had and every other one are gone.                                   *)
SetRaises ==
  /\ op.name = "set" /\ MustEvict /\ list.oldest = Nil
  /\ op' = Idle
  /\ UNCHANGED <<map, tupleVars, list, size, bytes_used, limits,
                 removed_tuple, freed, order>>

(* The rest of set: recycle the removed tuple, or create one, and link it. *)
SetInserts ==
  \E t \in Tuples :
    /\ op.name = "set" /\ ~MustEvict
    /\ IF removed_tuple # Nil THEN t = removed_tuple ELSE t \notin Live
    /\ map' = [map EXCEPT ![op.key] = t]
    /\ VALUE' = [VALUE EXCEPT ![t] = op.value]
    /\ KEY' = [KEY EXCEPT ![t] = op.key]
    /\ BYTES' = [BYTES EXCEPT ![t] = op.bytes]
    /\ size' = size + 1
    /\ bytes_used' = bytes_used + op.bytes
    /\ list' = setNewest(list, t)
    /\ order' = UsedLast(order, Live, t)
    /\ removed_tuple' = Nil
    /\ op' = Idle
    /\ UNCHANGED <<limits, freed>>

(* The other operations end, the resizing ones by moving the limit. *)
Finishes ==
  /\ op.name \in {"clear", "chop", "slots", "bytes"} /\ ~MustEvict
  /\ removed_tuple' = IF op.name = "clear" THEN Nil ELSE removed_tuple
  /\ max_size' = IF op.name = "slots" THEN op.limit ELSE max_size
  /\ max_bytes' = IF op.name = "bytes" THEN op.limit ELSE max_bytes
  /\ op' = Idle
  /\ UNCHANGED <<map, tupleVars, list, size, bytes_used, freed, order>>

Proceed == EvictOldest \/ SetRaises \/ SetInserts \/ Finishes

Next ==
  \/ \E key \in Keys : get(key) \/ delete(key)
  \/ \E key \in Keys, value \in Values, bytes \in ByteSizes :
       set(key, value, bytes)
  \/ clear \/ chop
  \/ \E value \in Values : Create(value)
  \/ \E n \in SlotLimits : resize_slots(n)
  \/ \E n \in ByteLimits : resize_bytes(n)
  \/ Proceed

Spec == Init /\ [][Next]_vars

-----------------------------------------------------------------------------
(* Properties. *)

(* The cache never holds more entries, nor more bytes, than its limits of  *)
(* the moment allow, in the middle of an operation included (the loops of  *)
(* set, resize_slots and resize_bytes run before what they make room for). *)
WithinLimits == size <= max_size /\ bytes_used <= max_bytes

(* The counters are what they count, in every state and so in the middle   *)
(* of every loop, the number of tuples in the table and the total of their *)
(* bytes, and they are within the limits (del, set, makeFreeSpace).        *)
CountersExact ==
  /\ size = Cardinality(Live)
  /\ bytes_used = MapThenSumSet(LAMBDA t : BYTES[t], Live)
  /\ WithinLimits

(* No entry holds an object whose onFree has run: del takes the entry out  *)
(* of the table and of the list in the same call (ffi/lru.lua:79-114).     *)
NoFreedValueCached == \A t \in Live : VALUE[t] \notin freed

(* The table and the list agree: they hold the same tuples, each under its *)
(* own key, and the ends of the list are the extremes of the order of use. *)
OldestIsLeastRecentlyUsed ==
  /\ \A k \in Keys : map[k] # Nil => KEY[map[k]] = k
  /\ (list.oldest = Nil) <=> (Live = {})
  /\ list.oldest # Nil =>
       /\ list.oldest \in Live
       /\ \A t \in Live \ {list.oldest} : <<list.oldest, t>> \in order

(* "not enough storage for cache" is raised only for an entry that alone   *)
(* exceeds a limit, and no other loop ever finds the list empty (it would  *)
(* index nil): both rest on the counters being exact.                      *)
RaisesOnlyWhenTooBig ==
  MustEvict /\ list.oldest = Nil =>
    op.name = "set" /\ (op.bytes > max_bytes \/ max_size = 0)

(* Every step of an operation under way ends it or evicts an entry, for    *)
(* any limit, 0 included, that resize gave: no loop runs for ever on an    *)
(* entry that it does not evict (with deadlock freedom, every call         *)
(* returns or raises).                                                     *)
CallsEnd == [][op # Idle => op' = Idle \/ (Live' \subseteq Live /\ Live' # Live)]_vars

-----------------------------------------------------------------------------
(* The inductive invariant behind these properties (LRUCacheProofs). *)

(* o orders the set S: every pair one way, never both, transitively. *)
StrictOrder(o, S) ==
  /\ o \subseteq S \X S
  /\ \A t \in S : <<t, t>> \notin o
  /\ \A t, u \in S : t # u => <<t, u>> \in o \/ <<u, t>> \in o
  /\ \A t, u, w \in S : <<t, u>> \in o /\ <<u, w>> \in o => <<t, w>> \in o

(* The links of l form one chain through S, from the newest to the oldest. *)
Chain(l, S, o) ==
  /\ \A t \in Tuples \ S : l.NEXT[t] = Nil /\ l.PREV[t] = Nil
  /\ \A t \in S : l.NEXT[t] # Nil =>
       /\ l.NEXT[t] \in S
       /\ l.PREV[l.NEXT[t]] = t
       /\ <<l.NEXT[t], t>> \in o
       /\ \A u \in S : u = t \/ u = l.NEXT[t] \/ <<t, u>> \in o
                       \/ <<u, l.NEXT[t]>> \in o
  /\ \A t \in S : l.PREV[t] # Nil =>
       /\ l.PREV[t] \in S
       /\ l.NEXT[l.PREV[t]] = t

(* The ends of l are the extremes of S. *)
Ends(l, S, o) ==
  /\ l.newest = Nil <=> S = {}
  /\ l.oldest = Nil <=> S = {}
  /\ l.newest # Nil =>
       /\ l.newest \in S
       /\ \A t \in S : (l.PREV[t] = Nil) <=> (t = l.newest)
       /\ \A t \in S : t # l.newest => <<t, l.newest>> \in o
  /\ l.oldest # Nil =>
       /\ l.oldest \in S
       /\ \A t \in S : (l.NEXT[t] = Nil) <=> (t = l.oldest)
       /\ \A t \in S : t # l.oldest => <<l.oldest, t>> \in o

WellFormed(l, S, o) ==
  /\ l \in ListType
  /\ StrictOrder(o, S)
  /\ Chain(l, S, o)
  /\ Ends(l, S, o)

CachedKeys == {k \in Keys : map[k] # Nil}

\* The arguments and locals of the operation under way.
OpConsistent ==
  /\ op.name = "idle" => op = Idle
  /\ op.name = "slots" => op.limit \in SlotLimits
  /\ op.name = "bytes" => op.limit \in ByteLimits
  /\ op.name = "set" =>
       /\ op.key \in Keys /\ op.value \in Values /\ op.bytes \in ByteSizes
       /\ map[op.key] = Nil
       /\ op.value \notin freed /\ \A t \in Live : VALUE[t] # op.value

(* The links form one chain in the order of use, the table leads to        *)
(* exactly its tuples, the size counts them, each tuple holds an object of *)
(* its own that was not freed, and the tuple kept for recycling is not one *)
(* of them.                                                                *)
IInv ==
  /\ TypeOK
  /\ WellFormed(list, Live, order)
  /\ \A k \in Keys : map[k] # Nil => KEY[map[k]] = k
  /\ IsFiniteSet(CachedKeys) /\ size = Cardinality(CachedKeys)
  /\ removed_tuple \notin Live
  /\ OpConsistent
  /\ \A t \in Live : VALUE[t] \in Values /\ BYTES[t] \in ByteSizes
  /\ \A t, u \in Live : VALUE[t] = VALUE[u] => t = u
  /\ NoFreedValueCached
  /\ WithinLimits

-----------------------------------------------------------------------------
(* The table, the list and the counters implement the abstract cache. *)
contents == [k \in CachedKeys |->
               [value |-> VALUE[map[k]], bytes |-> BYTES[map[k]]]]

olderKeys == {p \in Keys \X Keys : <<map[p[1]], map[p[2]]>> \in order}

Abstract == INSTANCE LRUSpec WITH
  contents <- contents, older <- olderKeys, slots <- max_size,
  budget <- max_bytes, used <- bytes_used, busy <- (op # Idle)

ImplementsLRU == Abstract!Spec
=============================================================================
