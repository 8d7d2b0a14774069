--------------------------- MODULE MCResourcePool ---------------------------
(***************************************************************************)
(* Three threads compete for two resources; two of them have a second      *)
(* lease, so they can hold one resource while waiting for another, move    *)
(* it, and overwrite one lease by another.                                 *)
(***************************************************************************)
EXTENDS ResourcePool

CONSTANTS t1, t2, t3, r1, r2, a1, a2, b1, b2, c1

MCThread == {t1, t2, t3}
MCResource == {r1, r2}
MCLease == {a1, a2, b1, b2, c1}
MCOwner == [l \in MCLease |->
              IF l \in {a1, a2} THEN t1 ELSE IF l \in {b1, b2} THEN t2 ELSE t3]
=============================================================================
