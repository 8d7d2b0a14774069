------------------------------ MODULE Gateway ------------------------------
(***************************************************************************)
(* gateway/gateway_service.cpp: one Recommend call through the profile,    *)
(* the retrieval and the ranking service, of which ranking is the detailed *)
(* RankingService.  Every service answers with a gRPC code and, if that is *)
(* OK, with a message that has a status of its own; a call may also fail   *)
(* on the way (unreachable service, message too large), which the code     *)
(* "UNAVAILABLE" stands for.  The gateway folds all of it into one gRPC    *)
(* code and one RecommendationStatus.                                      *)
(*                                                                         *)
(* Of the orchestrator only what RetrievalOrchestrator establishes is      *)
(* used: different items, not more than were asked for, or an error.       *)
(***************************************************************************)
EXTENDS RankingService

CONSTANTS
  UserIds,    \* values of RecommendRequest::user_id
  ProfileIds, \* values of Profile::user_id in the stored documents
  MaxResults, \* values of RecommendRequest::max_results
  Scores      \* retrieve_score of the candidates

ASSUME GatewayAssumption ==
  /\ UserIds \subseteq Int
  /\ ProfileIds \subseteq Int
  /\ NoProfile \notin ProfileIds
  /\ MaxResults \subseteq Int
  /\ Scores \subseteq Nat

VARIABLES
  pc,          \* idle, or the service call Recommend is at, see State
  user_id,     \* of the request
  max_results, \* of the request
  profile,     \* the profile GetProfile answered: its user_id
  retrieved,   \* retrieval_response.candidates
  reply,       \* what the last RPC of the gateway returned
  response,    \* the gRPC code and the RecommendResponse of the last call
  existed,     \* had the user a profile when it was looked up (history)
  trouble      \* did a store, a service or a connection fail (history)

call == <<user_id, max_results, profile, retrieved, reply, response>>
history == <<existed, trouble>>
vars == <<pc, call, history, ranking>>

(***************************************************************************)
(* get_profile, retrieve, rank: the service has been called.  *_reply: its *)
(* answer has arrived.                                                     *)
(***************************************************************************)
State == {"idle", "get_profile", "profile_reply", "retrieve",
          "retrieve_reply", "rank", "ranking", "rank_reply"}

RecommendationStatus ==
  {"none", "SUCCESS", "USER_NOT_FOUND", "INVALID_REQUEST", "SYSTEM_ERROR"}

Code == {"OK", "NOT_FOUND", "INVALID_ARGUMENT", "INTERNAL", "UNAVAILABLE"}

TypeOK ==
  /\ RankTypeOK
  /\ pc \in State
  /\ user_id \in Int
  /\ max_results \in Int
  /\ profile \in Int \cup {NoProfile}
  /\ retrieved \in Seq(Offered)
  /\ reply.code \in Code
  /\ response.code \in Code \ {"UNAVAILABLE"}
  /\ response.status \in RecommendationStatus
  /\ response.candidates \in Seq(Merged)
  /\ existed \in BOOLEAN
  /\ trouble \in BOOLEAN

(***************************************************************************)
(* What gRPC delivers of the answer of a service: the message comes with   *)
(* the code OK only, else its status reads as the first enumerator.        *)
(***************************************************************************)
Reply(code, status) ==
  [code |-> code, status |-> IF code = "OK" THEN status ELSE "success"]
Unavailable == Reply("UNAVAILABLE", "success")

Response(code, status, candidates) ==
  [code |-> code, status |-> status, candidates |-> candidates]

Init ==
  /\ RankInit
  /\ pc = "idle"
  /\ user_id = 0
  /\ max_results = 0
  /\ profile = NoProfile
  /\ retrieved = <<>>
  /\ reply = Reply("OK", "success")
  /\ response = Response("OK", "none", <<>>)
  /\ existed = FALSE
  /\ trouble = FALSE

-----------------------------------------------------------------------------
\* Recommend is called; nothing is validated here.
Recommend(user, n) ==
  /\ pc = "idle"
  /\ pc' = "get_profile"
  /\ user_id' = user
  /\ max_results' = n
  /\ profile' = NoProfile
  /\ retrieved' = <<>>
  /\ response' = Response("OK", "none", <<>>)
  /\ existed' = FALSE
  /\ trouble' = FALSE
  /\ UNCHANGED <<reply, ranking>>

\* An RPC comes back.
Replies(next, r) ==
  /\ pc' = next
  /\ reply' = r
  /\ trouble' = (trouble \/ r.code \in {"INTERNAL", "UNAVAILABLE"})

\* Recommend returns.
Respond(code, status, candidates) ==
  /\ pc' = "idle"
  /\ response' = Response(code, status, candidates)

-----------------------------------------------------------------------------
(***************************************************************************)
(* ProfileServiceImpl::GetProfile.  Any id may have a profile: only the    *)
(* other services insist on positive ones.  The user_id inside the document*)
(* that Elasticsearch has for the id is not compared with it: it may be    *)
(* another, or 0 if the document has none.                                 *)
(***************************************************************************)
GetProfile ==
  /\ pc = "get_profile"
  /\ \/ /\ Replies("profile_reply", Reply("OK", "success"))
        /\ profile' \in ProfileIds
        /\ existed' = TRUE
     \/ /\ \/ Replies("profile_reply", Reply("NOT_FOUND", "success"))
           \/ Replies("profile_reply", Reply("INTERNAL", "success"))
           \/ Replies("profile_reply", Unavailable)
        /\ UNCHANGED <<profile, existed>>
  /\ UNCHANGED <<user_id, max_results, retrieved, response, ranking>>

\* Mutant of FetchProfile: whatever goes wrong, the user was not found.
FetchProfileBlamingUser ==
  /\ pc = "profile_reply"
  /\ \/ /\ reply.code = "OK"
        /\ pc' = "retrieve"
        /\ UNCHANGED response
     \/ /\ reply.code # "OK"
        /\ Respond("NOT_FOUND", "USER_NOT_FOUND", <<>>)
  /\ UNCHANGED <<user_id, max_results, profile, retrieved, reply, history, ranking>>

FetchProfile ==
  /\ pc = "profile_reply"
  /\ \/ /\ reply.code = "OK"
        /\ pc' = "retrieve"
        /\ UNCHANGED response
     \/ /\ reply.code = "NOT_FOUND"
        /\ Respond("NOT_FOUND", "USER_NOT_FOUND", <<>>)
     \/ /\ reply.code \notin {"OK", "NOT_FOUND"}
        /\ Respond("INTERNAL", "SYSTEM_ERROR", <<>>)
  /\ UNCHANGED <<user_id, max_results, profile, retrieved, reply, history, ranking>>

\* What the orchestrator may return for n candidates.
Retrievable(n) ==
  {s \in SeqOf([item : Item, score : Scores], IF n < 0 THEN 0 ELSE n) :
     \A i, j \in DOMAIN s : s[i].item = s[j].item => i = j}

\* RetrievalOrchestrator::Retrieve.
Retrieve ==
  /\ pc = "retrieve"
  /\ \/ /\ user_id > 0 /\ profile # NoProfile
        /\ Replies("retrieve_reply", Reply("OK", "success"))
        /\ retrieved' \in Retrievable(max_results)
     \/ /\ user_id <= 0 \/ profile = NoProfile
        /\ Replies("retrieve_reply", Reply("INVALID_ARGUMENT", "success"))
        /\ UNCHANGED retrieved
     \/ /\ \/ Replies("retrieve_reply", Reply("INTERNAL", "success"))
           \/ Replies("retrieve_reply", Unavailable)
        /\ UNCHANGED retrieved
  /\ UNCHANGED <<user_id, max_results, profile, response, existed, ranking>>

(***************************************************************************)
(* The outcomes that FetchCandidates and FetchRankedCandidates distinguish *)
(* in the same way: only the service's verdict that the request is invalid *)
(* is passed on.                                                           *)
(***************************************************************************)
Accepted == reply.code = "OK" /\ reply.status = "success"
Rejected == reply.code = "INVALID_ARGUMENT" \/ reply.status = "invalid_request"

RespondError ==
  IF Rejected
  THEN Respond("INVALID_ARGUMENT", "INVALID_REQUEST", <<>>)
  ELSE Respond("INTERNAL", "SYSTEM_ERROR", <<>>)

FetchCandidates ==
  /\ pc = "retrieve_reply"
  /\ IF Accepted
     THEN pc' = "rank" /\ UNCHANGED response
     ELSE RespondError
  /\ UNCHANGED <<user_id, max_results, profile, retrieved, reply, history, ranking>>

\* Mutant of CallRank: the last candidate is not copied.
CallRankWithoutLast ==
  /\ pc = "rank"
  /\ pc' = "ranking"
  /\ Rank([user_id |-> user_id, profile |-> profile, max_results |-> max_results,
           ranker_known |-> TRUE,
           candidates |-> SubSeq(retrieved, 1, Len(retrieved) - 1)])
  /\ UNCHANGED <<call, history>>

\* FetchRankedCandidates calls the ranking service, with its default ranker.
CallRank ==
  /\ pc = "rank"
  /\ pc' = "ranking"
  /\ Rank([user_id |-> user_id, profile |-> profile, max_results |-> max_results,
           ranker_known |-> TRUE, candidates |-> retrieved])
  /\ UNCHANGED <<call, history>>

\* The ranking service works on the request.
RankingWorks ==
  /\ pc = "ranking"
  /\ RankStep
  /\ UNCHANGED <<pc, call, history>>

\* Its answer arrives, or does not.
RankReplies ==
  /\ pc = "ranking"
  /\ rank_pc = "idle"
  /\ \/ Replies("rank_reply", Reply(rank_reply.code, rank_reply.status))
     \/ Replies("rank_reply", Unavailable)
  /\ UNCHANGED <<user_id, max_results, profile, retrieved, response, existed, ranking>>

FetchRankedCandidates ==
  /\ pc = "rank_reply"
  /\ IF Accepted
     THEN Respond("OK", "SUCCESS",
                  [n \in DOMAIN rank_reply.ranked |-> rank_reply.ranked[n].candidate])
     ELSE RespondError
  /\ UNCHANGED <<user_id, max_results, profile, retrieved, reply, history, ranking>>

-----------------------------------------------------------------------------
Proceed ==
  \/ GetProfile
  \/ FetchProfile
  \/ Retrieve
  \/ FetchCandidates
  \/ CallRank
  \/ RankingWorks
  \/ RankReplies
  \/ FetchRankedCandidates

Next == (\E user \in UserIds, n \in MaxResults : Recommend(user, n)) \/ Proceed

Spec == Init /\ [][Next]_vars

-----------------------------------------------------------------------------
Answered == pc = "idle" /\ response.status # "none"

\* The profile is the user's, as far as it says whose it is.
OwnProfile == profile \in {0, user_id}

(***************************************************************************)
(* Who is blamed for what: the user is unknown only if there was no        *)
(* profile; the request is invalid only because of what the client sent or,*)
(* since no service before ranking looks, because the document stored for  *)
(* the user is another user's; and otherwise something failed, or no       *)
(* retriever found anything.  Without a failure each of these is told      *)
(* whenever it is so, and no result is ever based on another user's        *)
(* profile.  The gRPC code and the status agree, although those of the     *)
(* services need not, and SUCCESS is never told with nothing to show.      *)
(***************************************************************************)
BlameIsJustified ==
  /\ TypeOK
  /\ Answered =>
    /\ <<response.code, response.status>> \in
         {<<"OK", "SUCCESS">>, <<"NOT_FOUND", "USER_NOT_FOUND">>,
          <<"INVALID_ARGUMENT", "INVALID_REQUEST">>, <<"INTERNAL", "SYSTEM_ERROR">>}
    /\ response.status = "SUCCESS" <=> response.candidates # <<>>
    /\ response.status = "USER_NOT_FOUND" => ~existed /\ ~trouble
    /\ response.status = "INVALID_REQUEST" =>
         existed /\ (max_results <= 0 \/ user_id <= 0 \/ ~OwnProfile)
    /\ response.status = "SYSTEM_ERROR" =>
         \/ trouble
         \/ max_results > 0 /\ user_id > 0 /\ OwnProfile /\ retrieved = <<>>
    /\ response.status = "SUCCESS" =>
         existed /\ max_results > 0 /\ user_id > 0 /\ OwnProfile

(***************************************************************************)
(* Ranking orders what retrieval found and loses none of it: the number of *)
(* results that was asked for bounds retrieval already, so the ranker's    *)
(* own limit removes nothing, and its merge finds nothing to merge.        *)
(***************************************************************************)
NothingRetrievedIsLost ==
  Answered /\ response.status = "SUCCESS" =>
    /\ Len(response.candidates) = Len(retrieved)
    /\ \A n \in DOMAIN retrieved :
         \E m \in DOMAIN response.candidates :
           /\ response.candidates[m].item = retrieved[n].item
           /\ response.candidates[m].score = retrieved[n].score
=============================================================================
