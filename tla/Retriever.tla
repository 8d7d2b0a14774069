------------------------------ MODULE Retriever ------------------------------
(***************************************************************************)
(* What the two collaborative-filtering retrievers have in common: the     *)
(* request checks and the filter set of RetrieverBase, and the pool of     *)
(* scored candidates that each of them builds and turns into a response.   *)
(*                                                                         *)
(* Scores are integers: every weight, similarity and factor is a multiple  *)
(* of a unit, and Precision, a multiple of every rank, makes the division  *)
(* by the rank exact.  Rounding is not modelled.                           *)
(***************************************************************************)
EXTENDS Integers, Sequences, FiniteSets, FiniteSetsExt, SequencesExt

CONSTANTS
  Requests,      \* requests: user_id, profile, max
  NoProfile,     \* a request without a profile
  DefaultMax,    \* default_max_candidate_count
  Base,          \* the importance of the three channels
  Multiplier,    \* score_multiplier
  Precision      \* a common multiple of the ranks

Behaviors == Seq([item_id : Int, weight : Int])
ScoredLists == Seq([id : Nat, score : Int])

\* The numbers in a channel are so many that the ranks divide Precision.
IsChannel(items) ==
  /\ items \in Behaviors
  /\ \A rank \in DOMAIN items : \E q \in 1..Precision : Precision = q * rank

HasChannels(profile) ==
  IsChannel(profile.recent_liked) /\ IsChannel(profile.liked) /\ IsChannel(profile.interested)

ASSUME RetrieverAssumption ==
  /\ {Precision, Multiplier, DefaultMax} \subseteq Nat \ {0}
  /\ Base \in [1..3 -> Nat \ {0}]
  /\ \A r \in Requests :
       /\ r = [user_id |-> r.user_id, profile |-> r.profile, max |-> r.max]
       /\ {r.user_id, r.max} \subseteq Int
       /\ r.profile # NoProfile => HasChannels(r.profile)

VARIABLES
  pc,             \* where DoRetrieve is, see the two modules
  request,        \* normalized_request
  trigger_seeds,  \* of the session
  response

NoRequest == [user_id |-> 0, profile |-> NoProfile, max |-> 0]
NoResponse == [code |-> "none", status |-> "none", candidates |-> <<>>,
               candidate_count |-> 0]

Status == {"SUCCESS", "EMPTY_TRIGGER_SEEDS", "INVALID_REQUEST", "SYSTEM_ERROR"}

-----------------------------------------------------------------------------
(***************************************************************************)
(* RetrieverBase.                                                          *)
(***************************************************************************)
Normalized(r) == [r EXCEPT !.max = IF @ <= 0 THEN DefaultMax ELSE @]

IsRequestValid(r) == r.user_id > 0 /\ r.profile # NoProfile

\* candidate_count is set for a response with status SUCCESS only.
Response(code, status, candidates) ==
  [code |-> code, status |-> status, candidates |-> candidates,
   candidate_count |-> IF code = "OK" /\ status = "SUCCESS"
                       THEN Len(candidates) ELSE 0]

Respond(r) ==
  /\ pc' = "idle"
  /\ response' = r

Succeeded == pc = "idle" /\ response.status = "SUCCESS"

InvalidRequest == Response("INVALID_ARGUMENT", "INVALID_REQUEST", <<>>)
EmptyTriggerSeeds == Response("OK", "EMPTY_TRIGGER_SEEDS", <<>>)
SystemError == Response("INTERNAL", "SYSTEM_ERROR", <<>>)

Ids(items) == {items[i].item_id : i \in DOMAIN items}

\* CollectItemIdsToFilterOut.
Consumed(profile) ==
  {id \in Ids(profile.recent_liked) \cup Ids(profile.liked)
            \cup Ids(profile.interested) \cup Ids(profile.rated)
            \cup ToSet(profile.negative) : id > 0}

-----------------------------------------------------------------------------
(***************************************************************************)
(* The channels of a profile, as a list of ids with scores.  An item keeps *)
(* the score of the first channel and place it is met in; the ids that are *)
(* skipped still count for the rank of the ones behind them.               *)
(***************************************************************************)
Weight(item) == IF item.weight > 0 THEN item.weight ELSE 1

Has(list, id) == \E i \in DOMAIN list : list[i].id = id

AppendChannel(list, items, base) ==
  FoldLeft(LAMBDA acc, rank :
             IF items[rank].item_id <= 0 \/ Has(acc, items[rank].item_id)
             THEN acc
             ELSE Append(acc, [id |-> items[rank].item_id,
                               score |-> (base * Weight(items[rank]) * Precision)
                                           \div rank]),
           list, [rank \in DOMAIN items |-> rank])

ChannelItems(profile, base) ==
  AppendChannel(
    AppendChannel(
      AppendChannel(<<>>, profile.recent_liked, base[1]),
      profile.liked, base[2]),
    profile.interested, base[3])

-----------------------------------------------------------------------------
(***************************************************************************)
(* The candidates, by item.                                                *)
(***************************************************************************)
NoCandidates == [item \in {} |-> 0]

\* Mutant of AddCandidateContribution: the last contribution explains.
AddCandidateContributionLast(pool, seed, neighbor) ==
  LET contribution == seed.score * neighbor.score
      added == [score |-> contribution + (IF neighbor.id \in DOMAIN pool
                                          THEN pool[neighbor.id].score ELSE 0),
                trigger |-> seed.id,
                reason_score |-> contribution]
  IN IF neighbor.id = 0 \/ neighbor.score <= 0 \/ contribution <= 0
     THEN pool
     ELSE [item \in DOMAIN pool \cup {neighbor.id} |->
             IF item = neighbor.id THEN added ELSE pool[item]]

\* Adds to the score; the strongest contribution becomes the reason.
AddCandidateContribution(pool, seed, neighbor) ==
  LET contribution == seed.score * neighbor.score
      inserted == neighbor.id \notin DOMAIN pool
      old == pool[neighbor.id]
      explains == inserted \/ contribution > old.reason_score
      added == [score |-> IF inserted THEN contribution ELSE old.score + contribution,
                trigger |-> IF explains THEN seed.id ELSE old.trigger,
                reason_score |-> IF explains THEN contribution ELSE old.reason_score]
  IN IF neighbor.id = 0 \/ neighbor.score <= 0 \/ contribution <= 0
     THEN pool
     ELSE [item \in DOMAIN pool \cup {neighbor.id} |->
             IF item = neighbor.id THEN added ELSE pool[item]]

\* The neighbours of one seed, without those the user has met.
AddNeighbors(pool, seed, neighbors, filter) ==
  FoldLeft(LAMBDA acc, n : IF n.id \in filter THEN acc
                           ELSE AddCandidateContribution(acc, seed, n),
           pool, neighbors)

HigherScoreFirst(x, y) == x.score > y.score \/ (x.score = y.score /\ x.id < y.id)

\* Element n is the one that n - 1 others go before.
Sorted(S) ==
  [n \in 1..Cardinality(S) |->
     CHOOSE x \in S : Cardinality({y \in S : HigherScoreFirst(y, x)}) = n - 1]

FirstN(list, n) == SubSeq(list, 1, IF Len(list) < n THEN Len(list) ELSE n)

SortCandidates(pool) ==
  Sorted({[id |-> item, score |-> pool[item].score] : item \in DOMAIN pool})

\* FillResponseCandidates, and the status that is set after it.
Filled(pool, max) ==
  LET sorted == FirstN(SortCandidates(pool), max) IN
  Response("OK", "SUCCESS",
    [i \in DOMAIN sorted |->
       [item_id |-> sorted[i].id,
        score |-> sorted[i].score * Multiplier,
        trigger |-> pool[sorted[i].id].trigger,
        reason_score |-> pool[sorted[i].id].reason_score * Multiplier]])

-----------------------------------------------------------------------------
(***************************************************************************)
(* What a response must be, from the evidence: for each seed, with its     *)
(* score, the list of ids with scores that was found for it.               *)
(***************************************************************************)
Sum(numbers) == FoldLeft(LAMBDA x, y : x + y, 0, numbers)

Amount(e, j) == e.seed.score * e.list[j].score

\* Place j of the list is worth something, and for an item the user has not met.
Counts(e, j, filter) == Amount(e, j) > 0 /\ e.list[j].id \notin filter \cup {0}

Worth(e, item, filter) ==
  Sum([j \in DOMAIN e.list |->
         IF e.list[j].id = item /\ Counts(e, j, filter) THEN Amount(e, j) ELSE 0])

ScoreOf(evidence, item, filter) ==
  Sum([i \in DOMAIN evidence |-> Worth(evidence[i], item, filter)])

ContributionsOf(e, filter) ==
  {[item |-> e.list[j].id, trigger |-> e.seed.id, amount |-> Amount(e, j)] :
     j \in {k \in DOMAIN e.list : Counts(e, k, filter)}}

Contributions(evidence, filter) ==
  UNION {ContributionsOf(evidence[i], filter) : i \in DOMAIN evidence}

\* The best items of the evidence, each with what all seeds contribute to it.
IsBestOf(candidates, evidence, filter, max) ==
  LET items == {c.item : c \in Contributions(evidence, filter)}
      shown == Ids(candidates)
      total(item) == ScoreOf(evidence, item, filter)
      before(x, y) == total(x) > total(y) \/ (total(x) = total(y) /\ x < y)
  IN /\ shown \subseteq items
     /\ Len(candidates) = Cardinality(shown)
     /\ Len(candidates) = IF Cardinality(items) < max THEN Cardinality(items) ELSE max
     /\ \A i \in DOMAIN candidates :
          candidates[i].score = total(candidates[i].item_id) * Multiplier
     /\ \A i, j \in DOMAIN candidates :
          i < j => before(candidates[i].item_id, candidates[j].item_id)
     /\ \A x \in shown, y \in items \ shown : before(x, y)

\* Each reason names a seed with the largest contribution to its item.
ReasonsAreStrongest(candidates, evidence, filter) ==
  \A i \in DOMAIN candidates :
    LET own == {c \in Contributions(evidence, filter) : c.item = candidates[i].item_id} IN
    \E c \in own :
      /\ c.trigger = candidates[i].trigger
      /\ candidates[i].reason_score = c.amount * Multiplier
      /\ \A d \in own : d.amount <= c.amount
=============================================================================
