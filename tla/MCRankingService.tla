-------------------------- MODULE MCRankingService --------------------------
(***************************************************************************)
(* The ranking service alone: requests that are invalid in every way, up   *)
(* to three candidates over three items (with repetitions and id 0), items *)
(* with and without a document, and scores that tie.                       *)
(***************************************************************************)
EXTENDS RankingService

MCItem == 1..3
MCFeatures == {1}
MCDislike == [i \in MCItem |-> IF i = 2 THEN 1 ELSE 0]
MCCandidates ==
  BoundedSeq([item : MCItem \cup {0}, score : {1, 2}], 3)
MCRequests ==
  [user_id : {1}, profile : {0, 1}, max_results : {2},
   ranker_known : {TRUE}, candidates : MCCandidates]
  \cup
  [user_id : {0, 1}, profile : {0, 1, 2, NoProfile}, max_results : {0, 2},
   ranker_known : BOOLEAN, candidates : {<<>>, <<[item |-> 1, score |-> 1]>>}]

RankSpec == RankInit /\ [][RankNext(MCRequests)]_ranking
=============================================================================
