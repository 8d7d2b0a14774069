-------------------------- MODULE MCCurlHttpClient --------------------------
(***************************************************************************)
(* Two threads share one handle; two attempts of each kind; a request has  *)
(* no deadline or one that a single acquire and transfer can use up.       *)
(***************************************************************************)
EXTENDS CurlHttpClient

CONSTANTS t1, t2, h1

MCThread == {t1, t2}
MCResource == {h1}
MCLease == MCThread \X {"execute", "perform"}
MCTimeouts == {0, 3, NoDeadline}
=============================================================================
