------------------------- MODULE MCSimilarityStore -------------------------
(***************************************************************************)
(* Two readers share one connection and look up one key alone and both in  *)
(* a list with an id 0 between them.  Of the three versions of the data,   *)
(* the second changes k1, gives it more neighbours than a lookup returns,  *)
(* leaves k2 without neighbours, and has them in another order; the third  *)
(* does not have k2.  Each key is a batch of its own.                      *)
(***************************************************************************)
EXTENDS SimilarityStore

CONSTANTS k1, k2

MCKey == {k1, k2}
MCNeighbor == 1..3
MCScore == {1, 2}

MCData ==
  << [keys |-> <<k1, k2>>,
      values |-> (k1 :> (1 :> 2 @@ 2 :> 1)) @@ (k2 :> (1 :> 1))],
     [keys |-> <<k2, k1>>,
      values |-> (k1 :> (1 :> 1 @@ 2 :> 2 @@ 3 :> 2)) @@ (k2 :> Nothing)],
     [keys |-> <<k1>>,
      values |-> (k1 :> (3 :> 1)) @@ (k2 :> Nothing)] >>

MCSingleIds == {k1}
MCRequests == {<<k2, NoId, k1>>}
=============================================================================
