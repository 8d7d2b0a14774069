---------------------- MODULE MCRetrievalOrchestrator ----------------------
(***************************************************************************)
(* Two retrievers that return up to three candidates over three items (an  *)
(* item may be missing, duplicated, or id 0) for a request of up to three; *)
(* the expanded number overflows an int of the width given here.           *)
(***************************************************************************)
EXTENDS RetrievalOrchestrator

CONSTANTS item_cf, user_cf, i1, i2, i3

MCItem == {i1, i2, i3}
MCStubs == <<item_cf, user_cf>>
MCKnows == {user_cf}
MCLegacy == {user_cf}
MCRequested == {0, 1, 2, 3}
MCReplies == BoundedSeq(MCItem \cup {NoItem}, 3)
=============================================================================
