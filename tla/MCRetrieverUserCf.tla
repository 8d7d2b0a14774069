------------------------- MODULE MCRetrieverUserCf -------------------------
(***************************************************************************)
(* Similar users with the id of the user itself, id 0, no positive score   *)
(* and ids beyond both limits, in front of and between the others; their   *)
(* profiles share items, have items the user has met and empty channels.   *)
(***************************************************************************)
EXTENDS RetrieverUserCf

Item(id, weight) == [item_id |-> id, weight |-> weight]

MCRequests ==
  LET own == [recent_liked |-> <<Item(1, 1)>>, liked |-> <<>>, interested |-> <<>>,
              rated |-> <<Item(2, 1)>>, negative |-> <<3, 0>>]
  IN [user_id : {1}, profile : {own}, max : {0, 1, 3}]
       \cup [user_id : {0, 1}, profile : {NoProfile}, max : {2}]

MCUserProfiles ==
  { [recent_liked |-> <<>>, liked |-> <<>>, interested |-> <<Item(1, 4)>>],
    [recent_liked |-> <<Item(4, 1), Item(5, 0)>>, liked |-> <<Item(3, 1)>>,
     interested |-> <<Item(4, 9)>>],
    [recent_liked |-> <<Item(0, 1), Item(5, 2)>>, liked |-> <<Item(6, 3), Item(2, 1)>>,
     interested |-> <<Item(7, 1)>>] }

N(id, score) == [id |-> id, score |-> score]

\* MaxInt = 5, MaxInt64 = 7.
MCUserLists ==
  { <<>>, <<N(1, 3), N(0, 2), N(2, 0)>>, <<N(9, 2)>>,
    <<N(8, 4), N(2, 2), N(3, 2)>>,
    <<N(1, 5), N(4, 3), N(6, 3), N(2, 1), N(3, 1)>> }

MCBase == <<10, 7, 3>>
=============================================================================
