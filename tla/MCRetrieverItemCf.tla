------------------------- MODULE MCRetrieverItemCf -------------------------
(***************************************************************************)
(* Profiles with more items than seeds are kept, with repeated items, an   *)
(* id that is not positive, ties and weights that are missing; neighbours  *)
(* that are shared by seeds, consumed, 0 or without a positive score.      *)
(***************************************************************************)
EXTENDS RetrieverItemCf

Item(id, weight) == [item_id |-> id, weight |-> weight]

Profile(recent, liked, interested, rated, negative) ==
  [recent_liked |-> recent, liked |-> liked, interested |-> interested,
   rated |-> rated, negative |-> negative]

MCProfiles ==
  { Profile(<<>>, <<Item(0, 1)>>, <<>>, <<Item(1, 1)>>, <<>>),
    Profile(<<Item(1, 1)>>, <<>>, <<Item(1, 2)>>, <<>>, <<5, -1>>),
    Profile(<<Item(-1, 1), Item(1, 0)>>, <<Item(2, 2), Item(1, 9)>>,
            <<Item(3, 5)>>, <<Item(4, 1)>>, <<>>),
    Profile(<<Item(1, 1)>>, <<Item(2, 2), Item(3, 1), Item(4, 9)>>, <<>>, <<>>, <<6>>) }

MCRequests ==
  [user_id : {1}, profile : MCProfiles, max : {0, 1, 3}]
    \cup [user_id : {0, 1}, profile : {NoProfile}, max : {2}]

N(id, score) == [id |-> id, score |-> score]

MCLists ==
  { <<>>, <<N(5, 2), N(6, 1)>>, <<N(7, 2), N(5, 2), N(6, 1)>>,
    <<N(4, 3), N(7, 1), N(0, 1), N(5, 0)>> }

MCBase == <<10, 5, 3>>
=============================================================================
