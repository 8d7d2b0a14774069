--------------------------- MODULE RankingService ---------------------------
(***************************************************************************)
(* ranking/ranking_service.cpp and ranking/heuristic_ranker.cpp: one Rank  *)
(* call.  The request is validated, its candidates are merged by item, the *)
(* features of the items are looked up one by one (each lookup may find    *)
(* nothing, or throw), every candidate is scored, and the best ones are    *)
(* returned.                                                               *)
(*                                                                         *)
(* Scores are integers here.  What the profile and the features of an item *)
(* contribute (interest, quality and negative feedback) is one number, and *)
(* so is what the profile says against the item itself.                    *)
(***************************************************************************)
EXTENDS Integers, Sequences, FiniteSets, SequencesExt

CONSTANTS
  Item,       \* item ids
  Features,   \* what the features of an item may add to its score
  NoEntry,    \* the item index has no document of the item
  NoProfile,  \* the request has no profile
  Dislike     \* Dislike[i]: weight of item i in the negative feedback

ASSUME RankingAssumption ==
  /\ Item \subseteq Nat \ {0}
  /\ Features \subseteq Int
  /\ NoEntry \notin Features
  /\ NoProfile \notin Nat
  /\ Dislike \in [Item -> Nat]

VARIABLES
  rank_pc,     \* idle, lookup, score
  request,     \* the RankRequest
  merged,      \* candidates, after NormalizeAndMergeCandidates
  entries,     \* item_index_entries, as far as they have been looked up
  found,       \* found[i]: the answer of the lookup of item i (history)
  rank_reply   \* the gRPC code and the RankResponse of the last call

ranking == <<rank_pc, request, merged, entries, found, rank_reply>>

RankStatus == {"none", "success", "invalid_request", "empty_candidates",
               "system_error"}

\* A candidate of a request, and one that stands for several of them.
Offered == [item : Item \cup {0}, score : Nat]
Merged == [item : Item, score : Nat, from : Seq(Nat \ {0})]

RankRequest ==
  [user_id : Int, profile : Int \cup {NoProfile}, max_results : Int,
   ranker_known : BOOLEAN, candidates : Seq(Offered)]

NoRequest ==
  [user_id |-> 0, profile |-> NoProfile, max_results |-> 0,
   ranker_known |-> TRUE, candidates |-> <<>>]

RankReply(code, status, ranked) ==
  [code |-> code, status |-> status, ranked |-> ranked]

RankTypeOK ==
  /\ rank_pc \in {"idle", "lookup", "score"}
  /\ request \in RankRequest
  /\ merged \in Seq(Merged)
  /\ entries \in Seq(Features \cup {NoEntry})
  /\ Len(entries) <= Len(merged)
  /\ found \in [Item -> Features \cup {NoEntry}]
  /\ rank_reply.code \in {"OK", "INVALID_ARGUMENT", "INTERNAL"}
  /\ rank_reply.status \in RankStatus
  /\ rank_reply.ranked \in Seq([candidate : Merged, score : Int])

RankInit ==
  /\ rank_pc = "idle"
  /\ request = NoRequest
  /\ merged = <<>>
  /\ entries = <<>>
  /\ found = [i \in Item |-> NoEntry]
  /\ rank_reply = RankReply("OK", "none", <<>>)

-----------------------------------------------------------------------------
\* Mutant of Valid: whose profile it is does not matter.
ValidOfAnybody(r) ==
  /\ r.user_id > 0
  /\ r.profile # NoProfile
  /\ r.max_results > 0

\* ValidateRankRequest: a profile that says whose it is is the user's.
Valid(r) ==
  /\ r.user_id > 0
  /\ r.profile # NoProfile
  /\ r.profile \in {0, r.user_id}
  /\ r.max_results > 0

\* One iteration of NormalizeAndMergeCandidates, for position n of offered.
MergeOne(candidates, offered, n) ==
  LET c == offered[n]
      i == SelectInSeq(candidates, LAMBDA m : m.item = c.item) IN
  IF c.item = 0 THEN candidates
  ELSE IF i = 0
       THEN Append(candidates, [item |-> c.item, score |-> c.score, from |-> <<n>>])
       ELSE [candidates EXCEPT ![i].score = @ + c.score, ![i].from = Append(@, n)]

NormalizeAndMergeCandidates(offered) ==
  FoldLeft(LAMBDA candidates, n : MergeOne(candidates, offered, n),
           <<>>, [n \in DOMAIN offered |-> n])

\* Return from Rank.
Ranked(code, status, ranked) ==
  /\ rank_pc' = "idle"
  /\ rank_reply' = RankReply(code, status, ranked)

Rank(r) ==
  /\ rank_pc = "idle"
  /\ request' = r
  /\ entries' = <<>>
  /\ found' = [i \in Item |-> NoEntry]
  /\ IF Valid(r) /\ r.ranker_known
     THEN merged' = NormalizeAndMergeCandidates(r.candidates)
     ELSE merged' = <<>>
  /\ \/ /\ ~Valid(r) \/ ~r.ranker_known
        /\ Ranked("INVALID_ARGUMENT", "invalid_request", <<>>)
     \/ /\ Valid(r) /\ r.ranker_known
        /\ merged' = <<>>
        /\ Ranked("OK", "empty_candidates", <<>>)
     \/ /\ Valid(r) /\ r.ranker_known
        /\ merged' # <<>>
        /\ rank_pc' = "lookup"
        /\ rank_reply' = RankReply("OK", "none", <<>>)

\* FindByItemIds: the next item has the features f, or no document.
Lookup(f) ==
  /\ rank_pc = "lookup"
  /\ LET i == merged[Len(entries) + 1].item IN
     /\ entries' = Append(entries, f)
     /\ found' = [found EXCEPT ![i] = f]
     /\ rank_pc' = IF Len(entries') = Len(merged) THEN "score" ELSE "lookup"
  /\ UNCHANGED <<request, merged, rank_reply>>

\* FindByItemIds throws, however many items it has found.
LookupFails ==
  /\ rank_pc = "lookup"
  /\ Ranked("INTERNAL", "system_error", <<>>)
  /\ UNCHANGED <<request, merged, entries, found>>

-----------------------------------------------------------------------------
ScoreCandidate(n) ==
  [candidate |-> merged[n],
   score |-> merged[n].score - Dislike[merged[n].item]
               + (IF entries[n] = NoEntry THEN 0 ELSE entries[n])]

\* The order of the ranking.
Better(x, y) ==
  \/ x.score > y.score
  \/ x.score = y.score /\ x.candidate.item < y.candidate.item

Fewer(x, y) == IF x <= y THEN x ELSE y

\* The permutation that puts the scored candidates into that order.
Order(scored) ==
  CHOOSE p \in Bijection(DOMAIN scored, DOMAIN scored) :
    \A m, n \in DOMAIN scored : m < n => Better(scored[p[m]], scored[p[n]])

Sorted(scored) == [n \in DOMAIN scored |-> scored[Order(scored)[n]]]

\* Mutant of Score: cut off before sorting.
ScoreFirstOnly ==
  /\ rank_pc = "score"
  /\ LET size == Fewer(request.max_results, Len(merged))
         scored == [n \in 1..size |-> ScoreCandidate(n)] IN
     Ranked("OK", "success", Sorted(scored))
  /\ UNCHANGED <<request, merged, entries, found>>

\* All candidates are scored and sorted, and the first ones are returned.
Score ==
  /\ rank_pc = "score"
  /\ LET scored == [n \in DOMAIN merged |-> ScoreCandidate(n)] IN
     Ranked("OK", "success",
            SubSeq(Sorted(scored), 1, Fewer(request.max_results, Len(scored))))
  /\ UNCHANGED <<request, merged, entries, found>>

RankStep ==
  \/ \E f \in Features \cup {NoEntry} : Lookup(f)
  \/ LookupFails
  \/ Score

\* The service alone, called with any of the requests R.
RankNext(R) == (\E r \in R : Rank(r)) \/ RankStep

-----------------------------------------------------------------------------
RankDone == rank_pc = "idle" /\ rank_reply.status # "none"

Positions(i) == {n \in DOMAIN request.candidates : request.candidates[n].item = i}

Offers == {i \in Item : Positions(i) # {}}

\* What all the occurrences of item i among the candidates add up to.
Total(candidates, i) ==
  FoldLeft(LAMBDA sum, c : IF c.item = i THEN sum + c.score ELSE sum, 0, candidates)

\* What item i deserves, from the request and the lookups alone.
Deserves(i) ==
  Total(request.candidates, i)
    - Dislike[i] + (IF found[i] = NoEntry THEN 0 ELSE found[i])

(***************************************************************************)
(* A successful ranking has as many different items as it may have, each   *)
(* with the score that all its occurrences in the request and its own      *)
(* features give it; no item that was left out or comes later deserves an  *)
(* earlier place.  An item without a document is ranked all the same, and  *)
(* a lookup that throws leaves nothing of a ranking in the reply.          *)
(***************************************************************************)
RankedAreTheBest ==
  /\ RankTypeOK
  /\ RankDone /\ rank_reply.status # "success" => rank_reply.ranked = <<>>
  /\ RankDone /\ rank_reply.status = "success" =>
    LET ranked == rank_reply.ranked
        item(n) == ranked[n].candidate.item
        before(i, j) == \/ Deserves(i) > Deserves(j)
                        \/ Deserves(i) = Deserves(j) /\ i < j IN
    /\ Len(ranked) = Fewer(request.max_results, Cardinality(Offers))
    /\ \A n \in DOMAIN ranked :
         /\ item(n) \in Offers
         /\ ranked[n].score = Deserves(item(n))
         /\ ToSet(ranked[n].candidate.from) = Positions(item(n))
         /\ \A i \in Offers \ {item(m) : m \in 1..n} : before(item(n), i)
         /\ \A m \in 1..(n - 1) : before(item(m), item(n))

=============================================================================
