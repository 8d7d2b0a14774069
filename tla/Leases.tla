------------------------------- MODULE Leases -------------------------------
(***************************************************************************)
(* What the pool of resources and the HTTP client that uses it share.      *)
(***************************************************************************)
CONSTANTS
  Thread,     \* threads that use the pool
  Resource,   \* resources_: what factory() returned, pool_size of them
  Lease,      \* lease objects
  NoLease     \* not a lease object

ASSUME NoLeaseAssumption == NoLease \notin Lease
=============================================================================
