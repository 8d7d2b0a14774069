------------------------------ MODULE LruCache ------------------------------
(***************************************************************************)
(* utilities/lru_cache/lru_cache.h: a list of entries, most recently used  *)
(* first, and an index from keys to list nodes.  Get and Put hold the      *)
(* mutex from end to end, so each is one action.                           *)
(*                                                                         *)
(* An iterator of the list is the identity of a node, which the allocator  *)
(* may reuse once the node is erased; expires_at is kept as the time that  *)
(* is left until it.                                                       *)
(***************************************************************************)
EXTENDS Integers, Sequences, FiniteSets, SequencesExt

CONSTANTS
  Key,       \* keys
  Value,     \* values
  Capacity,  \* capacity_
  Ttl        \* ttl_, in ticks of the clock

ASSUME CacheAssumption ==
  /\ IsFiniteSet(Key)
  /\ Capacity \in Nat
  /\ Ttl \in Nat

VARIABLES
  entries,   \* entries_: the list, front first
  index,     \* index_: from a key to the node of its entry
  recency    \* the pairs <<k, l>> where k was used after all uses of l (history)

cache == <<entries, index, recency>>

Node == 1..(Capacity + 1)

Entry == [node : Node, key : Key, value : Value, left : 0..Ttl]

CacheTypeOK ==
  /\ entries \in Seq(Entry)
  /\ DOMAIN index \subseteq Key
  /\ \A k \in DOMAIN index : index[k] \in Node

CacheInit ==
  /\ entries = <<>>
  /\ index = [k \in {} |-> 0]
  /\ recency = {}

-----------------------------------------------------------------------------
\* The position in the list of the entry that index_ gives for k.
Position(k) == CHOOSE i \in DOMAIN entries : entries[i].node = index[k]

Found(k) == k \in DOMAIN index

IsExpired(entry) == entry.left = 0

\* Does Get(k) return a value, and which.
Hit(k) == Found(k) /\ ~IsExpired(entries[Position(k)])
Cached(k) == entries[Position(k)].value

Erase(k) == [x \in DOMAIN index \ {k} |-> index[x]]

ToFront(i, entry) == <<entry>> \o RemoveAt(entries, i)

Use(k) == recency' = {p \in recency : p[2] # k} \cup ({k} \X (Key \ {k}))

\* Mutant of Get: the index keeps the iterator of an expired entry.
GetLeavingIndex(k) ==
  \/ /\ ~Found(k)
     /\ UNCHANGED cache
  \/ /\ Found(k)
     /\ IsExpired(entries[Position(k)])
     /\ entries' = RemoveAt(entries, Position(k))
     /\ UNCHANGED <<index, recency>>
  \/ /\ Hit(k)
     /\ entries' = ToFront(Position(k), entries[Position(k)])
     /\ Use(k)
     /\ UNCHANGED index

\* Mutant of Get: a hit stays where it is.
GetInPlace(k) ==
  \/ /\ ~Found(k)
     /\ UNCHANGED cache
  \/ /\ Found(k)
     /\ IsExpired(entries[Position(k)])
     /\ entries' = RemoveAt(entries, Position(k))
     /\ index' = Erase(k)
     /\ UNCHANGED recency
  \/ /\ Hit(k)
     /\ Use(k)
     /\ UNCHANGED <<entries, index>>

\* Mutant of Get: a hit starts the time to live again.
GetRefreshing(k) ==
  \/ /\ ~Found(k)
     /\ UNCHANGED cache
  \/ /\ Found(k)
     /\ IsExpired(entries[Position(k)])
     /\ entries' = RemoveAt(entries, Position(k))
     /\ index' = Erase(k)
     /\ UNCHANGED recency
  \/ /\ Hit(k)
     /\ entries' = ToFront(Position(k), [entries[Position(k)] EXCEPT !.left = Ttl])
     /\ Use(k)
     /\ UNCHANGED index

\* Get: a hit moves the entry to the front, an expired entry is erased.
Get(k) ==
  \/ /\ ~Found(k)
     /\ UNCHANGED cache
  \/ /\ Found(k)
     /\ IsExpired(entries[Position(k)])
     /\ entries' = RemoveAt(entries, Position(k))
     /\ index' = Erase(k)
     /\ UNCHANGED recency
  \/ /\ Hit(k)
     /\ entries' = ToFront(Position(k), entries[Position(k)])
     /\ Use(k)
     /\ UNCHANGED index

\* Put of a key that has an entry: new value, new time to live, to the front.
PutExisting(k, v) ==
  /\ Found(k)
  /\ entries' = ToFront(Position(k),
                        [entries[Position(k)] EXCEPT !.value = v, !.left = Ttl])
  /\ Use(k)
  /\ UNCHANGED index

FreeNode == CHOOSE n \in Node : \A i \in DOMAIN entries : entries[i].node # n

\* Mutant of PutNew: the cache is taken to be full one entry too early.
PutNewEvictingEarly(k, v) ==
  /\ ~Found(k)
  /\ LET entry == [node |-> FreeNode, key |-> k, value |-> v, left |-> Ttl]
         pushed == <<entry>> \o entries
         full == Len(pushed) >= Capacity
         evicted == IF full THEN {Last(pushed).key} ELSE {} IN
     /\ entries' = IF full THEN Front(pushed) ELSE pushed
     /\ index' = [x \in (DOMAIN index \cup {k}) \ evicted |->
                    IF x = k THEN FreeNode ELSE index[x]]
  /\ Use(k)

\* Put of another key: a new front, and the back is evicted if there are too many.
PutNew(k, v) ==
  /\ ~Found(k)
  /\ LET entry == [node |-> FreeNode, key |-> k, value |-> v, left |-> Ttl]
         pushed == <<entry>> \o entries
         full == Len(pushed) > Capacity
         evicted == IF full THEN {Last(pushed).key} ELSE {} IN
     /\ entries' = IF full THEN Front(pushed) ELSE pushed
     /\ index' = [x \in (DOMAIN index \cup {k}) \ evicted |->
                    IF x = k THEN FreeNode ELSE index[x]]
  /\ Use(k)

Disabled == Capacity = 0 \/ Ttl = 0

Put(k, v) ==
  IF Disabled
  THEN UNCHANGED cache
  ELSE PutExisting(k, v) \/ PutNew(k, v)

\* The clock advances.
Tick ==
  /\ entries' = [i \in DOMAIN entries |->
                   [entries[i] EXCEPT !.left = IF @ > 0 THEN @ - 1 ELSE 0]]
  /\ UNCHANGED <<index, recency>>

CacheNext ==
  \/ \E k \in Key : Get(k)
  \/ \E k \in Key, v \in Value : Put(k, v)
  \/ Tick

CacheSpec == CacheInit /\ [][CacheNext]_cache

-----------------------------------------------------------------------------
(***************************************************************************)
(* The list and the index agree: the index has exactly the keys of the     *)
(* list, each leads to a node that is in the list and holds that key (no   *)
(* dangling iterator, no iterator to a node reused for another key), and   *)
(* the list is not longer than the capacity.                               *)
(***************************************************************************)
IndexMatchesEntries ==
  /\ CacheTypeOK
  /\ Len(entries) <= Capacity
  /\ DOMAIN index = {entries[i].key : i \in DOMAIN entries}
  /\ \A k \in DOMAIN index :
       \E i \in DOMAIN entries :
         entries[i].node = index[k] /\ entries[i].key = k
  /\ \A i, j \in DOMAIN entries :
       entries[i].node = entries[j].node \/ entries[i].key = entries[j].key => i = j

(***************************************************************************)
(* The list is in order of last use, so the entry at its back, which the   *)
(* next insertion evicts, is the least recently used one.                  *)
(***************************************************************************)
EntriesInRecencyOrder ==
  /\ \A i, j \in DOMAIN entries :
       i < j => <<entries[i].key, entries[j].key>> \in recency
  /\ \A k, l \in Key : <<k, l>> \in recency => <<l, k>> \notin recency

Stored(k) == CHOOSE i \in DOMAIN entries : entries[i].key = k

Contents ==
  [k \in {entries[i].key : i \in DOMAIN entries} |->
     [value |-> entries[Stored(k)].value, left |-> entries[Stored(k)].left]]

Map == INSTANCE TtlMap WITH map <- Contents

(***************************************************************************)
(* The cache implements TtlMap: a Get never changes a value, a Put sets    *)
(* its own entry and at most costs one other entry its place, and only     *)
(* when the cache is full; nothing else removes an entry that has not      *)
(* expired.                                                                *)
(***************************************************************************)
ImplementsTtlMap == Map!TSpec
=============================================================================
