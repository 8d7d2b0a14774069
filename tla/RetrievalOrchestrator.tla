----------------------- MODULE RetrievalOrchestrator -----------------------
(***************************************************************************)
(* retrieval/orchestrator/retrieval_orchestrator.cpp: one Retrieve call.   *)
(* The orchestrator calls its retrievers one after the other, goes on when *)
(* one fails, and merges what the others returned: it takes one candidate  *)
(* of each response in turn, adds it while there is room, and merges it    *)
(* into the candidate that is already there for the same item.             *)
(*                                                                         *)
(* A candidate of a response is told from the others by its occurrence     *)
(* <<retriever, position>>.  A reason is the occurrence it came with and a *)
(* retrieve_score, a sum of floating point numbers in the code, is the     *)
(* sequence of the occurrences whose scores were added: the reasons next   *)
(* to it.  `author` stands for item_type and for author_id, which are      *)
(* treated alike.                                                          *)
(***************************************************************************)
EXTENDS Integers, Sequences, FiniteSets, SequencesExt

CONSTANTS
  Item,         \* item ids
  NoItem,       \* item_id 0
  Stubs,        \* the names in retriever_stubs_, in their order
  Knows,        \* retrievers that set item_type and author_id
  Legacy,       \* retrievers that leave retrieval_signals empty
  Unknown,      \* item_type and author_id are not set
  RatioNum,     \* recall_candidate_expand_ratio_ is RatioNum / RatioDen
  RatioDen,
  MaxInt,       \* the largest int
  DefaultCount, \* default_max_candidate_count_ of the retrievers
  Requested,    \* the values of max_candidate_count
  Replies,      \* the responses of the retrievers: sequences of item ids
  Failed        \* the reply of a retriever that is not accepted

Retriever == ToSet(Stubs)

ASSUME OrchestratorAssumption ==
  /\ Stubs \in Seq(Retriever)
  /\ Stubs # <<>>
  /\ IsInjective(Stubs)
  /\ NoItem \notin Item
  /\ Unknown \notin Retriever
  /\ {RatioNum, RatioDen, MaxInt, DefaultCount} \subseteq Nat \ {0}
  /\ Replies \subseteq Seq(Item \cup {NoItem})
  /\ Failed \notin Replies
  /\ Requested \subseteq Int
  /\ \A n \in Requested : n <= MaxInt

VARIABLES
  pc,         \* idle, dispatch, merge
  max,        \* request.max_candidate_count
  asked,      \* max_candidate_count of the request to the retrievers
  called,     \* how many retrievers have been called
  reply,      \* reply[r]: the item ids r returned, or Failed (history)
  responses,  \* retriever_responses: the retrievers that succeeded, in order
  next,       \* next_candidate_indices
  turn,       \* response_index
  advanced,   \* advanced_in_round
  candidates, \* response->candidates
  index,      \* candidate_index_by_item_id
  status      \* response->status

dispatch == <<max, asked, called, reply, responses>>
merge == <<next, turn, advanced, candidates, index>>
vars == <<pc, dispatch, merge, status>>

Status == {"none", "success", "invalid_request", "system_error"}

Occurrence == Retriever \X (Nat \ {0})

Signal == [retriever : Retriever, reasons : Seq(Occurrence)]

Candidate ==
  [item : Item, author : Retriever \cup {Unknown}, retriever : Seq(Retriever),
   reasons : Seq(Occurrence), retrieval_signals : Seq(Signal)]

TypeOK ==
  /\ pc \in {"idle", "dispatch", "merge"}
  /\ max \in Int
  /\ asked \in Int
  /\ called \in 0..Len(Stubs)
  /\ \A r \in Retriever : reply[r] = Failed \/ reply[r] \in Seq(Item \cup {NoItem})
  /\ responses \in Seq(Retriever)
  /\ next \in [Retriever -> Nat]
  /\ turn \in 1..(Len(Stubs) + 1)
  /\ advanced \in BOOLEAN
  /\ candidates \in Seq(Candidate)
  /\ DOMAIN index \subseteq Item
  /\ \A i \in DOMAIN index : index[i] \in DOMAIN candidates
  /\ status \in Status

Init ==
  /\ pc = "idle"
  /\ max = 0
  /\ asked = 0
  /\ called = 0
  /\ reply = [r \in Retriever |-> Failed]
  /\ responses = <<>>
  /\ next = [r \in Retriever |-> 0]
  /\ turn = 1
  /\ advanced = FALSE
  /\ candidates = <<>>
  /\ index = [i \in {} |-> 0]
  /\ status = "none"

-----------------------------------------------------------------------------
Larger(x, y) == IF x >= y THEN x ELSE y

Smaller(x, y) == IF x <= y THEN x ELSE y

Ceiling(num, den) == (num + den - 1) \div den

\* static_cast<int> of a double: undefined outside the range of int.
CastToInt(x) == IF x <= MaxInt THEN {x} ELSE {-MaxInt - 1, MaxInt}

\* Mutant of ComputeRetrieverMaxCandidateCount: only the expanded count.
ExpandedCount(max_results) ==
  IF max_results <= 0
  THEN {max_results}
  ELSE CastToInt(Ceiling(max_results * RatioNum, RatioDen))

\* The possible results.
ComputeRetrieverMaxCandidateCount(max_results) ==
  IF max_results <= 0
  THEN {max_results}
  ELSE {Larger(max_results, n) :
          n \in CastToInt(Ceiling(max_results * RatioNum, RatioDen))}

EnsureRetrievalSignals(c) ==
  IF c.retrieval_signals # <<>>
  THEN c
  ELSE [c EXCEPT !.retrieval_signals =
          <<[retriever |-> Head(c.retriever), reasons |-> c.reasons]>>]

RebuildLegacyCandidateFields(c) ==
  LET signals == c.retrieval_signals
      AddName(names, signal) ==
        IF Contains(names, signal.retriever) THEN names
        ELSE Append(names, signal.retriever)
      AddReasons(reasons, signal) == reasons \o signal.reasons IN
  [c EXCEPT !.retriever = FoldLeft(AddName, <<>>, signals),
            !.reasons = FoldLeft(AddReasons, <<>>, signals)]

NormalizeCandidate(c) == RebuildLegacyCandidateFields(EnsureRetrievalSignals(c))

\* signals with the reasons of a signal added to the first of its retriever.
MergeRetrievalSignal(signals, signal) ==
  LET i == SelectInSeq(signals, LAMBDA s : s.retriever = signal.retriever) IN
  IF i = 0
  THEN Append(signals, signal)
  ELSE [signals EXCEPT ![i].reasons = @ \o signal.reasons]

MergeCandidate(source, target) ==
  RebuildLegacyCandidateFields(
    [target EXCEPT
       !.author = IF @ = Unknown THEN source.author ELSE @,
       !.retrieval_signals =
         FoldLeft(MergeRetrievalSignal, @,
                  NormalizeCandidate(source).retrieval_signals)])

-----------------------------------------------------------------------------
\* The locals and the response of a call, before anything has happened.
Fresh ==
  /\ called' = 0
  /\ reply' = [r \in Retriever |-> Failed]
  /\ responses' = <<>>
  /\ next' = [r \in Retriever |-> 0]
  /\ turn' = 1
  /\ advanced' = FALSE
  /\ candidates' = <<>>
  /\ index' = [i \in {} |-> 0]

\* Retrieve is called; user_id <= 0 and a missing profile are rejected.
Retrieve(n, valid) ==
  /\ pc = "idle"
  /\ Fresh
  /\ max' = n
  /\ IF valid
     THEN /\ pc' = "dispatch"
          /\ asked' \in ComputeRetrieverMaxCandidateCount(n)
          /\ status' = "none"
     ELSE /\ status' = "invalid_request"
          /\ UNCHANGED <<pc, asked>>

\* The most candidates a retriever returns, see RetrieverBase::Retrieve.
Limit == IF asked <= 0 THEN DefaultCount ELSE asked

\* The next retriever answers RETRIEVER_SUCCESS or RETRIEVER_EMPTY_TRIGGER_SEEDS.
Accepted(items) ==
  /\ pc = "dispatch"
  /\ called < Len(Stubs)
  /\ Len(items) <= Limit
  /\ called' = called + 1
  /\ reply' = [reply EXCEPT ![Stubs[called + 1]] = items]
  /\ responses' = Append(responses, Stubs[called + 1])
  /\ UNCHANGED <<pc, max, asked, merge, status>>

\* The call fails, or the retriever answers another status.
NotAccepted ==
  /\ pc = "dispatch"
  /\ called < Len(Stubs)
  /\ called' = called + 1
  /\ UNCHANGED <<pc, max, asked, reply, responses, merge, status>>

\* Mutant of Dispatched: one failure fails the request.
DispatchedAllOrNothing ==
  /\ pc = "dispatch"
  /\ called = Len(Stubs)
  /\ IF Len(responses) < Len(Stubs)
     THEN pc' = "idle" /\ status' = "system_error"
     ELSE pc' = "merge" /\ UNCHANGED status
  /\ UNCHANGED <<dispatch, merge>>

\* All have been called: the request fails if all failed.
Dispatched ==
  /\ pc = "dispatch"
  /\ called = Len(Stubs)
  /\ IF responses = <<>>
     THEN pc' = "idle" /\ status' = "system_error"
     ELSE pc' = "merge" /\ UNCHANGED status
  /\ UNCHANGED <<dispatch, merge>>

-----------------------------------------------------------------------------
\* The candidate at position p of the response of r.
Received(r, p) ==
  [item |-> reply[r][p],
   author |-> IF r \in Knows THEN r ELSE Unknown,
   retriever |-> <<r>>,
   reasons |-> << <<r, p>> >>,
   retrieval_signals |->
     IF r \in Legacy THEN <<>>
     ELSE <<[retriever |-> r, reasons |-> << <<r, p>> >>]>>]

Source == responses[turn]

\* Mutant of MergeInto: a full response is not touched any more.
MergeIntoIfRoom(c) ==
  /\ c.item \in DOMAIN index
  /\ candidates' = IF Len(candidates) < max
                   THEN [candidates EXCEPT ![index[c.item]] = MergeCandidate(c, @)]
                   ELSE candidates
  /\ UNCHANGED index

MergeInto(c) ==
  /\ c.item \in DOMAIN index
  /\ candidates' = [candidates EXCEPT ![index[c.item]] = MergeCandidate(c, @)]
  /\ UNCHANGED index

\* Mutant of AddNew: no index for the candidate.
AddUnindexed(c) ==
  /\ c.item \notin DOMAIN index \cup {NoItem}
  /\ candidates' = IF Len(candidates) < max
                   THEN Append(candidates, NormalizeCandidate(c))
                   ELSE candidates
  /\ UNCHANGED index

AddNew(c) ==
  /\ c.item \notin DOMAIN index \cup {NoItem}
  /\ IF Len(candidates) < max
     THEN /\ candidates' = Append(candidates, NormalizeCandidate(c))
          /\ index' = [i \in DOMAIN index \cup {c.item} |->
                         IF i = c.item THEN Len(candidates') ELSE index[i]]
     ELSE UNCHANGED <<candidates, index>>

\* Mutant of Turn: a round goes on with the response that has candidates left.
TurnWithoutInterleaving ==
  /\ pc = "merge"
  /\ turn <= Len(responses)
  /\ next[Source] < Len(reply[Source])
  /\ next' = [next EXCEPT ![Source] = @ + 1]
  /\ advanced' = TRUE
  /\ LET c == Received(Source, next'[Source]) IN
     \/ c.item = NoItem /\ UNCHANGED <<candidates, index>>
     \/ MergeInto(c)
     \/ AddNew(c)
  /\ UNCHANGED <<pc, dispatch, turn, status>>

\* One iteration of the for loop for a response that has candidates left.
Turn ==
  /\ pc = "merge"
  /\ turn <= Len(responses)
  /\ next[Source] < Len(reply[Source])
  /\ next' = [next EXCEPT ![Source] = @ + 1]
  /\ advanced' = TRUE
  /\ turn' = turn + 1
  /\ LET c == Received(Source, next'[Source]) IN
     \/ c.item = NoItem /\ UNCHANGED <<candidates, index>>
     \/ MergeInto(c)
     \/ AddNew(c)
  /\ UNCHANGED <<pc, dispatch, status>>

\* One iteration for a response that has not.
SkipTurn ==
  /\ pc = "merge"
  /\ turn <= Len(responses)
  /\ next[Source] >= Len(reply[Source])
  /\ turn' = turn + 1
  /\ UNCHANGED <<pc, dispatch, next, advanced, candidates, index, status>>

\* Mutant of EndRound: advanced_in_round is not reset.
EndRoundWithoutReset ==
  /\ pc = "merge"
  /\ turn > Len(responses)
  /\ turn' = 1
  /\ IF advanced
     THEN UNCHANGED <<pc, status>>
     ELSE pc' = "idle" /\ status' = "success"
  /\ UNCHANGED <<dispatch, next, advanced, candidates, index>>

\* The end of the for loop: another round, or the response is complete.
EndRound ==
  /\ pc = "merge"
  /\ turn > Len(responses)
  /\ turn' = 1
  /\ advanced' = FALSE
  /\ IF advanced
     THEN UNCHANGED <<pc, status>>
     ELSE pc' = "idle" /\ status' = "success"
  /\ UNCHANGED <<dispatch, next, candidates, index>>

-----------------------------------------------------------------------------
Reply == (\E items \in Replies : Accepted(items)) \/ NotAccepted

Proceed == Dispatched \/ Turn \/ SkipTurn \/ EndRound

Next ==
  \/ \E n \in Requested, valid \in BOOLEAN : Retrieve(n, valid)
  \/ Reply
  \/ Proceed

Spec == Init /\ [][Next]_vars

(***************************************************************************)
(* Fairness: the orchestrator runs, and a retriever that was called        *)
(* answers or fails.  The code sets no deadline on that call.              *)
(***************************************************************************)
FairSpec == Spec /\ WF_vars(Reply) /\ WF_vars(Proceed)

-----------------------------------------------------------------------------
Done == pc = "idle" /\ status # "none"

\* All candidates that were returned for an item, and the order of the rounds.
Occurrences(i) ==
  UNION {{r} \X {p \in DOMAIN reply[r] : reply[r][p] = i} :
           r \in {q \in Retriever : reply[q] # Failed}}

Order(r) == CHOOSE n \in DOMAIN Stubs : Stubs[n] = r

Before(o, p) ==
  o[2] < p[2] \/ (o[2] = p[2] /\ Order(o[1]) < Order(p[1]))

IsInOrder(seq, O) ==
  /\ ToSet(seq) = O
  /\ \A m, n \in DOMAIN seq : m < n => Before(seq[m], seq[n])

\* Taking turns meets item i before item j.
MetBefore(i, j) ==
  \E o \in Occurrences(i) : \A p \in Occurrences(j) : Before(o, p)

Shown == {candidates[n].item : n \in DOMAIN candidates}

(***************************************************************************)
(* The response has the items that the retrievers returned, each once, in  *)
(* the order in which taking turns meets them first; an item is left out   *)
(* only if the response is full with items that are met before it.  No     *)
(* retriever is passed over because another one failed or returned less.   *)
(***************************************************************************)
FirstComeFirstServed ==
  Done /\ status = "success" =>
    /\ \A i \in Shown : Occurrences(i) # {}
    /\ Len(candidates) <= Larger(0, max)
    /\ \A m, n \in DOMAIN candidates :
         m < n => MetBefore(candidates[m].item, candidates[n].item)
    /\ \A i \in Item \ Shown :
         Occurrences(i) # {} =>
           /\ Len(candidates) = Larger(0, max)
           /\ \A n \in DOMAIN candidates : MetBefore(candidates[n].item, i)

(***************************************************************************)
(* "Its sources and scores are combined instead of silently dropping one   *)
(* path" (README.md:54): a candidate has the scores and reasons of every   *)
(* occurrence of its item in every response, each once, those too that are *)
(* met after the response is full, and the fields for old clients say the  *)
(* same as the signals.                                                    *)
(***************************************************************************)
NoPathDropped ==
  Done /\ status = "success" =>
    \A n \in DOMAIN candidates :
      LET c == candidates[n]
          O == Occurrences(c.item) IN
      /\ ToSet(c.reasons) = O
      /\ IsInjective(c.reasons)
      /\ IsInjective(c.retriever)
      /\ c.retriever = [s \in DOMAIN c.retrieval_signals |->
                          c.retrieval_signals[s].retriever]
      /\ \A s \in DOMAIN c.retrieval_signals :
           IsInOrder(c.retrieval_signals[s].reasons,
                     {o \in O : o[1] = c.retrieval_signals[s].retriever})
      /\ c.author = Unknown <=> \A o \in O : o[1] \notin Knows

(***************************************************************************)
(* The request fails only if no retriever succeeded; otherwise the ones    *)
(* that did are enough.                                                    *)
(***************************************************************************)
FailsOnlyIfAllFail ==
  Done =>
    (status = "system_error" <=>
       status # "invalid_request" /\ \A r \in Retriever : reply[r] = Failed)

(***************************************************************************)
(* The index finds every candidate of the response while it is built.      *)
(***************************************************************************)
IndexFindsCandidates ==
  /\ TypeOK
  /\ Len(candidates) <= Larger(0, max)
  /\ DOMAIN index = {candidates[n].item : n \in DOMAIN candidates}
  /\ \A i \in DOMAIN index : candidates[index[i]].item = i

(***************************************************************************)
(* The retrievers are asked for at least as many candidates as the client  *)
(* wants, even when the expanded number does not fit into an int.          *)
(***************************************************************************)
AsksForEnough == pc # "idle" /\ max > 0 => asked \in max..MaxInt

\* The request ends, when the retrievers answer or fail.
RetrieveReturns == pc # "idle" ~> pc = "idle"
=============================================================================
