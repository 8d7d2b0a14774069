----------------------------- MODULE HandlePool -----------------------------
(***************************************************************************)
(* What a pool of reusable handles promises, with no mutex, no queue of    *)
(* waiters and no order among the free handles: every handle is either     *)
(* free or owned by exactly one lease, a lease owns at most one handle,    *)
(* only a free handle is granted, and an owned handle becomes free only by *)
(* being returned by its owner or changes hands only by being moved to     *)
(* an empty lease.                                                         *)
(*                                                                         *)
(* ResourcePool implements this specification; CurlHttpClient is built on  *)
(* it.                                                                     *)
(***************************************************************************)
EXTENDS Leases

VARIABLE owner   \* owner[r]: the lease that holds r, or NoLease

Free == {r \in Resource : owner[r] = NoLease}

Owns(l) == \E r \in Resource : owner[r] = l

HInit == owner = [r \in Resource |-> NoLease]

Grant(r, l) ==
  /\ owner[r] = NoLease
  /\ ~Owns(l)
  /\ owner' = [owner EXCEPT ![r] = l]

Return(r) ==
  /\ owner[r] # NoLease
  /\ owner' = [owner EXCEPT ![r] = NoLease]

Move(r, l) ==
  /\ owner[r] # NoLease
  /\ ~Owns(l)
  /\ owner' = [owner EXCEPT ![r] = l]

HNext ==
  \E r \in Resource :
    \/ \E l \in Lease : Grant(r, l) \/ Move(r, l)
    \/ Return(r)

HSpec == HInit /\ [][HNext]_owner
=============================================================================
