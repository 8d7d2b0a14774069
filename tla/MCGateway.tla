------------------------------ MODULE MCGateway ------------------------------
(***************************************************************************)
(* Requests with ids that cannot exist, with nothing asked for, and with   *)
(* fewer or more results than there are items; documents of profiles with  *)
(* the id of the user, another one, and none.                              *)
(***************************************************************************)
EXTENDS Gateway

MCItem == 1..2
MCFeatures == {1}
MCDislike == [i \in MCItem |-> IF i = 2 THEN 1 ELSE 0]
MCUserIds == {0, 1}
MCProfileIds == {0, 1, 2}
MCMaxResults == {-1, 0, 1, 2, 3}
MCScores == {1, 2}
=============================================================================
