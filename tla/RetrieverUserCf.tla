--------------------------- MODULE RetrieverUserCf ---------------------------
(***************************************************************************)
(* retrievers/user_cf/retriever_user_cf.cpp with BatchGetUserCfProfiles of *)
(* the profile service: similar users are the seeds, and the items of      *)
(* their profiles the candidates.  The profile service looks one user up   *)
(* after the other, while the profiles may change; a lookup that throws    *)
(* fails the batch, and the call may fail on the way.                      *)
(*                                                                         *)
(* MaxInt and MaxInt64 are the limits of the types, small enough to be     *)
(* passed by the user ids that are found.                                  *)
(***************************************************************************)
EXTENDS Retriever

CONSTANTS
  UserLists,     \* what the similarity store may find: ids with scores
  UserProfiles,  \* the profiles that users may have
  MaxSeeds,      \* trigger_seed_user_count
  MaxInt,        \* the largest int and
  MaxInt64       \* the largest int64_t

ASSUME UserCfAssumption ==
  /\ {MaxSeeds, MaxInt, MaxInt64} \subseteq Nat \ {0}
  /\ MaxInt < MaxInt64
  /\ UserLists \subseteq ScoredLists
  /\ NoProfile \notin UserProfiles
  /\ \A p \in UserProfiles : HasChannels(p)

VARIABLES
  results         \* results of the batch so far

user_cf_vars == <<pc, request, trigger_seeds, results, response>>

UserCfTypeOK ==
  /\ pc \in {"idle", "neighbors", "profiles"}
  /\ request \in {NoRequest} \cup {Normalized(r) : r \in Requests}
  /\ trigger_seeds \in Seq([id : Nat \ {0}, score : Nat \ {0}])
  /\ Len(trigger_seeds) <= MaxSeeds
  /\ \A i \in DOMAIN results : results[i].user_id \in 1..MaxInt64
  /\ response = NoResponse \/ response.status \in Status

UserCfInit ==
  /\ pc = "idle"
  /\ request = NoRequest
  /\ trigger_seeds = <<>>
  /\ results = <<>>
  /\ response = NoResponse

-----------------------------------------------------------------------------
\* Retrieve of RetrieverBase.
RetrieveByUsers(r) ==
  /\ pc = "idle"
  /\ request' = Normalized(r)
  /\ trigger_seeds' = <<>>
  /\ results' = <<>>
  /\ IF IsRequestValid(r)
     THEN pc' = "neighbors" /\ response' = NoResponse
     ELSE Respond(InvalidRequest)

CollectUserSeeds(user_id, neighbors) ==
  FoldLeft(LAMBDA acc, n :
             IF n.id = 0 \/ n.id = user_id \/ n.score <= 0 \/ Has(acc, n.id)
             THEN acc ELSE Append(acc, n),
           <<>>, neighbors)

\* The seeds that the profile service is asked for,
valid_indexes(seeds) == {i \in DOMAIN seeds : seeds[i].id <= MaxInt64}

\* and the place of the one at i in the call.
ResultIndex(seeds, i) == Cardinality({j \in valid_indexes(seeds) : j <= i})

\* The contributions of the profiles, one by one in the order of the seeds.
AggregateCandidates(seeds, profiles) ==
  FoldLeft(LAMBDA acc, i :
             IF profiles[i] = NoProfile
             THEN acc
             ELSE AddNeighbors(acc, seeds[i], ChannelItems(profiles[i], Base),
                               Consumed(request.profile)),
           NoCandidates, [i \in DOMAIN seeds |-> i])

\* LoadTriggerSeeds, and what follows it up to the call.
LoadTriggerSeeds ==
  /\ pc = "neighbors"
  /\ \E list \in UserLists :
       trigger_seeds' = CollectUserSeeds(request.user_id, FirstN(list, MaxSeeds))
  /\ \/ /\ trigger_seeds' = <<>>
        /\ Respond(EmptyTriggerSeeds)
     \/ /\ trigger_seeds' # <<>>
        /\ valid_indexes(trigger_seeds') = {}
        /\ Respond(Filled(NoCandidates, request.max))
     \/ /\ valid_indexes(trigger_seeds') # {}
        /\ pc' = "profiles"
        /\ UNCHANGED response
  /\ UNCHANGED <<request, results>>

\* The similarity store throws.
SeedsFail ==
  /\ pc = "neighbors"
  /\ Respond(SystemError)
  /\ UNCHANGED <<request, trigger_seeds, results>>

Result(id, status, profile) == [user_id |-> id, status |-> status, profile |-> profile]

\* What the service answers for one user.
ResultOf(id) ==
  IF id > MaxInt
  THEN {Result(id, "INVALID_REQUEST", NoProfile)}
  ELSE {Result(id, "USER_NOT_FOUND", NoProfile)}
         \cup {Result(id, "SUCCESS", p) : p \in UserProfiles}

\* One turn of the loop of BatchGetUserCfProfiles.
BatchGetUserCfProfiles ==
  /\ pc = "profiles"
  /\ \E i \in valid_indexes(trigger_seeds) :
       /\ ResultIndex(trigger_seeds, i) = Len(results) + 1
       /\ \E result \in ResultOf(trigger_seeds[i].id) :
            results' = Append(results, result)
  /\ UNCHANGED <<pc, request, trigger_seeds, response>>

\* Mutant of trigger_user_profiles: profile i is taken for seed i.
trigger_user_profilesUnmapped ==
  [i \in DOMAIN trigger_seeds |->
     IF i \in DOMAIN results /\ results[i].status = "SUCCESS"
     THEN results[i].profile ELSE NoProfile]

\* Result i belongs to the seed at valid_indexes[i].
trigger_user_profiles ==
  [i \in DOMAIN trigger_seeds |->
     LET result == results[ResultIndex(trigger_seeds, i)] IN
     IF i \in valid_indexes(trigger_seeds) /\ result.status = "SUCCESS"
     THEN result.profile ELSE NoProfile]

\* All results have come back: aggregate, sort and respond.
LoadTriggerUserProfiles ==
  /\ pc = "profiles"
  /\ Len(results) = Cardinality(valid_indexes(trigger_seeds))
  /\ Respond(Filled(AggregateCandidates(trigger_seeds, trigger_user_profiles),
                    request.max))
  /\ UNCHANGED <<request, trigger_seeds, results>>

\* A lookup of the profile service throws, or the call fails on the way.
ProfilesFail ==
  /\ pc = "profiles"
  /\ Respond(SystemError)
  /\ UNCHANGED <<request, trigger_seeds, results>>

UserCfNext ==
  \/ \E r \in Requests : RetrieveByUsers(r)
  \/ LoadTriggerSeeds
  \/ SeedsFail
  \/ BatchGetUserCfProfiles
  \/ LoadTriggerUserProfiles
  \/ ProfilesFail

UserCfSpec == UserCfInit /\ [][UserCfNext]_user_cf_vars

-----------------------------------------------------------------------------
\* The items of each similar user's profile, if it was found: by the user id
\* of the result, not by its place.
FoundByUser ==
  [i \in DOMAIN trigger_seeds |->
     LET own == {r \in ToSet(results) :
                   r.user_id = trigger_seeds[i].id /\ r.status = "SUCCESS"}
     IN [seed |-> trigger_seeds[i],
         list |-> IF own = {} THEN <<>>
                  ELSE ChannelItems((CHOOSE r \in own : TRUE).profile, Base)]]

(***************************************************************************)
(* The response has the best items of all profiles that were found, each   *)
(* weighted with the similarity of its own user, although users are left   *)
(* out of the batch, are not found or have no valid id; its reasons name   *)
(* the strongest user, and never the user that asked.  One lookup that     *)
(* throws fails the request as a whole.                                    *)
(***************************************************************************)
RanksProfilesFound ==
  /\ UserCfTypeOK
  /\ response.candidates # <<>> => Succeeded
  /\ Succeeded =>
    /\ IsBestOf(response.candidates, FoundByUser, Consumed(request.profile), request.max)
    /\ ReasonsAreStrongest(response.candidates, FoundByUser, Consumed(request.profile))
    /\ \A i \in DOMAIN response.candidates :
         response.candidates[i].trigger # request.user_id
=============================================================================
