------------------------------- MODULE TtlMap -------------------------------
(***************************************************************************)
(* What a bounded cache with a time to live promises its callers: an entry *)
(* is what the last Put of its key stored, its time to live is set by Put  *)
(* only and runs out with the clock, and an entry disappears only because  *)
(* it expired or because a Put of another key needed its place.  Which     *)
(* entry makes place is left open here.                                    *)
(***************************************************************************)
EXTENDS Integers, FiniteSets

CONSTANTS
  Key,       \* keys of the cache
  Value,     \* values of the cache
  Capacity,  \* most entries it may keep
  Ttl        \* time to live of an entry, in ticks

VARIABLE map   \* map[k] = [value, left] for the keys that are stored

TInit == map = [k \in {} |-> [value |-> 0, left |-> 0]]

Without(K) == [k \in DOMAIN map \ K |-> map[k]]

Drop(k) ==
  /\ k \in DOMAIN map
  /\ map[k].left = 0
  /\ map' = Without({k})

Store(k, v) ==
  /\ Capacity > 0
  /\ \E victims \in SUBSET (DOMAIN map \ {k}) :
       /\ Cardinality(victims) =
            IF k \notin DOMAIN map /\ Cardinality(DOMAIN map) = Capacity
            THEN 1 ELSE 0
       /\ map' = [x \in (DOMAIN map \ victims) \cup {k} |->
                    IF x = k THEN [value |-> v, left |-> Ttl] ELSE map[x]]

Clock ==
  map' = [k \in DOMAIN map |->
            [map[k] EXCEPT !.left = IF @ > 0 THEN @ - 1 ELSE 0]]

TNext ==
  \/ \E k \in Key : Drop(k)
  \/ \E k \in Key, v \in Value : Store(k, v)
  \/ Clock

TSpec == TInit /\ [][TNext]_map
=============================================================================
