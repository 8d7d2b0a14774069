--------------------------- MODULE RetrieverItemCf ---------------------------
(***************************************************************************)
(* retrievers/item_cf/retriever_item_cf.cpp: the items of the user's own   *)
(* behaviour are the seeds, and their neighbours the candidates.  The      *)
(* neighbours are looked up in batches, one call of the similarity store   *)
(* after the other; each call may throw.  What a call may return is the    *)
(* subject of SimilarityStore, whose jobs may change the data in between.  *)
(*                                                                         *)
(* Calls of Retrieve share nothing but the store, so one is modelled.      *)
(***************************************************************************)
EXTENDS Retriever

CONSTANTS
  Lists,           \* what the store may find for an id: ids with scores
  MaxTriggerSeeds, \* max_trigger_seed_count
  BatchSize        \* redis_command_batch_size

ASSUME ItemCfAssumption ==
  /\ {MaxTriggerSeeds, BatchSize} \subseteq Nat \ {0}
  /\ Lists \subseteq ScoredLists

VARIABLES
  batch_start,    \* seeds before the current batch
  candidates,     \* of the session
  found           \* what was found, with the id that was asked for (history)

item_cf_vars == <<pc, request, trigger_seeds, batch_start, candidates, response, found>>

ItemCfTypeOK ==
  /\ pc \in {"idle", "lookup"}
  /\ request \in {NoRequest} \cup {Normalized(r) : r \in Requests}
  /\ trigger_seeds \in Seq([id : Nat \ {0}, score : Nat \ {0}])
  /\ batch_start \in 0..MaxTriggerSeeds
  /\ \A item \in DOMAIN candidates :
       item > 0 /\ candidates[item].score >= candidates[item].reason_score
  /\ response = NoResponse \/ response.status \in Status
  /\ pc = "lookup" =>
       /\ Len(trigger_seeds) \in 1..MaxTriggerSeeds
       /\ Len(found) = batch_start /\ batch_start < Len(trigger_seeds)

ItemCfInit ==
  /\ pc = "idle"
  /\ request = NoRequest
  /\ trigger_seeds = <<>>
  /\ batch_start = 0
  /\ candidates = NoCandidates
  /\ response = NoResponse
  /\ found = <<>>

-----------------------------------------------------------------------------
CollectItemSeeds(profile) == ChannelItems(profile, Base)

\* Mutant of SelectTopTriggerSeeds: the first ones are kept.
SelectTopTriggerSeedsFirst(seeds) == FirstN(seeds, MaxTriggerSeeds)

SelectTopTriggerSeeds(seeds) ==
  IF Len(seeds) <= MaxTriggerSeeds
  THEN seeds
  ELSE FirstN(Sorted(ToSet(seeds)), MaxTriggerSeeds)

\* Retrieve of RetrieverBase and DoRetrieve up to the first lookup.
RetrieveByItems(r) ==
  /\ pc = "idle"
  /\ request' = Normalized(r)
  /\ batch_start' = 0
  /\ candidates' = NoCandidates
  /\ found' = <<>>
  /\ trigger_seeds' = IF IsRequestValid(r)
                      THEN SelectTopTriggerSeeds(CollectItemSeeds(r.profile))
                      ELSE <<>>
  /\ \/ /\ ~ IsRequestValid(r)
        /\ Respond(InvalidRequest)
     \/ /\ IsRequestValid(r)
        /\ trigger_seeds' = <<>>
        /\ Respond(EmptyTriggerSeeds)
     \/ /\ trigger_seeds' # <<>>
        /\ pc' = "lookup"
        /\ response' = NoResponse

batch_end ==
  IF batch_start + BatchSize < Len(trigger_seeds)
  THEN batch_start + BatchSize ELSE Len(trigger_seeds)

item_ids_to_filter_out == Consumed(request.profile)

\* AggregateSimilarityBatch: list i belongs to seed batch_start + i.
AggregateSimilarityBatch(lists) ==
  FoldLeft(LAMBDA acc, i :
             AddNeighbors(acc, trigger_seeds[batch_start + i], lists[i],
                          item_ids_to_filter_out),
           candidates, [i \in DOMAIN lists |-> i])

\* The store answers a batch with at most `max` neighbours of each seed.
LookupBatch ==
  /\ pc = "lookup"
  /\ \E lists \in [1..(batch_end - batch_start) -> Lists] :
       LET cut == [i \in DOMAIN lists |-> FirstN(lists[i], request.max)] IN
       /\ candidates' = AggregateSimilarityBatch(cut)
       /\ found' = found \o
            [i \in DOMAIN lists |->
               [id |-> trigger_seeds[batch_start + i].id, list |-> cut[i]]]
  /\ IF batch_end < Len(trigger_seeds)
     THEN /\ batch_start' = batch_start + BatchSize
          /\ UNCHANGED <<pc, response>>
     ELSE /\ Respond(Filled(candidates', request.max))
          /\ UNCHANGED batch_start
  /\ UNCHANGED <<request, trigger_seeds>>

\* The store throws: the request fails, whatever was found before.
LookupFails ==
  /\ pc = "lookup"
  /\ Respond(SystemError)
  /\ UNCHANGED <<request, trigger_seeds, batch_start, candidates, found>>

Lookup == LookupBatch \/ LookupFails

ItemCfNext == (\E r \in Requests : RetrieveByItems(r)) \/ Lookup

ItemCfSpec == ItemCfInit /\ [][ItemCfNext]_item_cf_vars

-----------------------------------------------------------------------------
\* Each list that was found, with the seed whose id was asked for.
FoundBySeed ==
  [i \in DOMAIN found |->
     [seed |-> CHOOSE s \in ToSet(trigger_seeds) : s.id = found[i].id,
      list |-> found[i].list]]

(***************************************************************************)
(* The response has the best items among all neighbours of all seeds, each *)
(* with the sum of its seeds' contributions, in order, however the seeds   *)
(* fell into batches; its reasons name the strongest seed.  None of them   *)
(* is an item that the user liked, was shown interest in, rated or         *)
(* rejected (see Counts).  A lookup that fails after others have filled    *)
(* the pool fails the request as a whole.                                  *)
(***************************************************************************)
RanksNeighborsFound ==
  /\ ItemCfTypeOK
  /\ response.candidates # <<>> => Succeeded
  /\ Succeeded =>
    /\ {found[i].id : i \in DOMAIN found} = {s.id : s \in ToSet(trigger_seeds)}
    /\ IsBestOf(response.candidates, FoundBySeed, item_ids_to_filter_out, request.max)
    /\ ReasonsAreStrongest(response.candidates, FoundBySeed, item_ids_to_filter_out)

(***************************************************************************)
(* The seeds are the strongest items of the profile: one that was left out *)
(* is no stronger than any that was kept.                                  *)
(***************************************************************************)
SeedsAreStrongest ==
  trigger_seeds # <<>> =>
    LET all == ToSet(CollectItemSeeds(request.profile))
        kept == ToSet(trigger_seeds)
    IN /\ kept \subseteq all
       /\ Cardinality(kept) = Len(trigger_seeds)
       /\ \A s \in all \ kept :
            Len(trigger_seeds) = MaxTriggerSeeds /\ \A k \in kept : s.score <= k.score
=============================================================================
