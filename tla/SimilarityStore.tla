--------------------------- MODULE SimilarityStore ---------------------------
(***************************************************************************)
(* The readers of what RedisWriter writes: the batch lookup of             *)
(* RedisItemSimilarityStore on RedisClient (the lookup of one key, by      *)
(* RedisUserSimilarityStore, is like a batch of one).  Threads share a pool*)
(* of connections; a batch is a pipeline whose ZREVRANGE commands the      *)
(* server executes one by one, between the commands of a job.  An attempt  *)
(* may fail at any point, and some failures are worth another attempt.     *)
(***************************************************************************)
EXTENDS RedisWriter

CONSTANTS
  Thread,       \* threads of the retriever that look up neighbours
  NoId,         \* item id 0
  Requests,     \* the lists of ids that are looked up
  SingleIds,    \* the ids that are looked up alone
  MaxNeighbors, \* max_neighbor_count
  PoolSize,     \* Config::pool_size
  MaxAttempts   \* Config::retry.max_attempts

ASSUME StoreAssumption ==
  /\ NoId \notin Key
  /\ Requests \subseteq Seq(Key \cup {NoId})
  /\ SingleIds \subseteq Key \cup {NoId}
  /\ MaxNeighbors \in Int
  /\ {PoolSize, MaxAttempts} \subseteq Nat \ {0}

VARIABLES
  pc,        \* idle, connect, exec
  call,      \* the call of a thread that is not idle
  returned   \* what the last step returned or threw, if it did (history)

reader == <<pc, call>>
vars == <<database, writer, reader, returned>>

\* The place of n among the members of set, those with higher scores first.
Rank(set, n) ==
  Cardinality({m \in DOMAIN set :
                 set[m] > set[n] \/ (set[m] = set[n] /\ m >= n)})

\* ZREVRANGE key 0 max_neighbor_count-1 WITHSCORES.
ZRevRange(set) ==
  LET size == Cardinality(DOMAIN set)
      nth(i) == CHOOSE n \in DOMAIN set : Rank(set, n) = i IN
  [i \in 1..(IF size < MaxNeighbors THEN size ELSE MaxNeighbors) |->
     [member |-> nth(i), score |-> set[nth(i)]]]

Reply == {ZRevRange(set) : set \in SortedSet}

\* kIoError, kTimeout and kClosed; the other codes.
Retryable == {"connection"}
Final == {"other"}
Error == {"none"} \cup Retryable \cup Final

(***************************************************************************)
(* A call: item_ids, the loop variable attempt, the replies of the pipeline*)
(* so far and, as history, the version known to be complete when the call  *)
(* began, and whether at some time since then a job was not finished or one*)
(* of the keys had expired.                                                *)
(***************************************************************************)
Call == [ids : Seq(Key \cup {NoId}), attempt : 0..MaxAttempts,
         replies : Seq(Reply), floor : Version \cup {0}, disturbed : BOOLEAN]

NoCall == [ids |-> <<>>, attempt |-> 0, replies |-> <<>>, floor |-> 0,
           disturbed |-> FALSE]

TypeOK ==
  /\ WriterTypeOK
  /\ pc \in [Thread -> {"idle", "connect", "exec"}]
  /\ call \in [Thread -> Call]
  /\ \A r \in returned : r.error \in Error /\ r.lists \in Seq(Reply)

Init ==
  /\ WriterInit
  /\ pc = [t \in Thread |-> "idle"]
  /\ call = [t \in Thread |-> NoCall]
  /\ returned = {}

-----------------------------------------------------------------------------
\* The indexes of the ids whose keys are in the pipeline.
valid_item_indexes(list) == {i \in DOMAIN list : list[i] # NoId}

\* The command, and the reply, that belongs to list[i].
ReplyIndex(list, i) == Cardinality({j \in valid_item_indexes(list) : j <= i})

\* Call c of thread t is over.
Return(t, c, error, lists) ==
  /\ pc' = [pc EXCEPT ![t] = "idle"]
  /\ call' = [call EXCEPT ![t] = NoCall]
  /\ returned' = {[call |-> c, error |-> error, lists |-> lists]}

Disturbs(keys) == job' # "finished" \/ lapsed' \cap keys # {}

\* FindNeighborsByItemIds is called; without a key to look up it returns.
FindNeighborsByItemIds(t, list) ==
  /\ pc[t] = "idle"
  /\ UNCHANGED <<database, writer>>
  /\ LET c == [ids |-> list, attempt |-> 1, replies |-> <<>>,
               floor |-> IF job = "finished" THEN version ELSE 0,
               disturbed |-> Disturbs(ToSet(list))] IN
     IF valid_item_indexes(list) = {} \/ MaxNeighbors <= 0
     THEN Return(t, c, "none", [i \in DOMAIN list |-> <<>>])
     ELSE /\ pc' = [pc EXCEPT ![t] = "connect"]
          /\ call' = [call EXCEPT ![t] = c]
          /\ returned' = {}

(***************************************************************************)
(* FindNeighborsByUserId (and ByItemId), whose ZRevRangeWithScores has the *)
(* same loop over the attempts around a single command.                    *)
(***************************************************************************)
FindNeighborsByUserId(t, id) == FindNeighborsByItemIds(t, <<id>>)

InUse == {t \in Thread : pc[t] = "exec"}

\* The pipeline gets a connection of the pool and is sent.
Connect(t) ==
  /\ pc[t] = "connect"
  /\ Cardinality(InUse) < PoolSize
  /\ pc' = [pc EXCEPT ![t] = "exec"]
  /\ returned' = {}
  /\ UNCHANGED <<database, writer, call>>

\* No connection came free within wait_timeout, which is not retried.
PoolTimeout(t) ==
  /\ pc[t] = "connect"
  /\ Cardinality(InUse) = PoolSize
  /\ Return(t, call[t], "other", <<>>)
  /\ UNCHANGED <<database, writer>>

\* The server executes the next ZREVRANGE, the one for ids[i].
ExecuteRead(t) ==
  /\ pc[t] = "exec"
  /\ \E i \in valid_item_indexes(call[t].ids) :
       /\ ReplyIndex(call[t].ids, i) = Len(call[t].replies) + 1
       /\ call' = [call EXCEPT ![t].replies =
                     Append(@, ZRevRange(zset[call[t].ids[i]]))]
  /\ returned' = {}
  /\ UNCHANGED <<database, writer, pc>>

\* Mutant of ListOf: reply i is taken for id i.
ListOfUnmapped(t, i) ==
  IF i <= Len(call[t].replies) THEN call[t].replies[i] ELSE <<>>

\* Each reply belongs to the id whose index is in valid_item_indexes; the
\* other ids keep an empty list.
ListOf(t, i) ==
  IF i \in valid_item_indexes(call[t].ids)
  THEN call[t].replies[ReplyIndex(call[t].ids, i)]
  ELSE <<>>

\* All replies have arrived.
Receive(t) ==
  /\ pc[t] = "exec"
  /\ Len(call[t].replies) = Cardinality(valid_item_indexes(call[t].ids))
  /\ Return(t, call[t], "none", [i \in DOMAIN call[t].ids |-> ListOf(t, i)])
  /\ UNCHANGED <<database, writer>>

\* Mutant of AttemptFails: gives up one attempt too early.
AttemptFailsAtOnce(t, error) ==
  /\ pc[t] \in {"connect", "exec"}
  /\ IF error \in Retryable /\ call[t].attempt < MaxAttempts - 1
     THEN /\ pc' = [pc EXCEPT ![t] = "connect"]
          /\ call' = [call EXCEPT ![t].replies = <<>>, ![t].attempt = @ + 1]
          /\ returned' = {}
     ELSE Return(t, call[t], error, <<>>)
  /\ UNCHANGED <<database, writer>>

(***************************************************************************)
(* The attempt fails, while connecting or with any number of replies: the  *)
(* connection (Retryable), the server or the contents of a reply (Final).  *)
(* The store throws when no attempt is left.                               *)
(***************************************************************************)
AttemptFails(t, error) ==
  /\ pc[t] \in {"connect", "exec"}
  /\ IF error \in Retryable /\ call[t].attempt < MaxAttempts
     THEN /\ pc' = [pc EXCEPT ![t] = "connect"]
          /\ call' = [call EXCEPT ![t].replies = <<>>, ![t].attempt = @ + 1]
          /\ returned' = {}
     ELSE Return(t, call[t], error, <<>>)
  /\ UNCHANGED <<database, writer>>

-----------------------------------------------------------------------------
Lookup(t) ==
  \/ Connect(t)
  \/ PoolTimeout(t)
  \/ ExecuteRead(t)
  \/ Receive(t)
  \/ \E error \in Retryable \cup Final : AttemptFails(t, error)

\* The jobs; the history notices what they do during a call.
Write ==
  /\ WriterNext
  /\ call' = [t \in Thread |->
       [call[t] EXCEPT !.disturbed =
          @ \/ (pc[t] # "idle" /\ Disturbs(ToSet(call[t].ids)))]]
  /\ returned' = {}
  /\ UNCHANGED pc

Next ==
  \/ Write
  \/ \E t \in Thread :
       \/ \E list \in Requests : FindNeighborsByItemIds(t, list)
       \/ \E id \in SingleIds : FindNeighborsByUserId(t, id)
       \/ Lookup(t)

Spec == Init /\ [][Next]_vars

-----------------------------------------------------------------------------
\* The versions whose values for k a call may see after `first` was complete:
\* of a key that is not in `first`, what an older version left behind.
Visible(k, first) ==
  {v \in 1..version : k \in Keys(v) /\ (v >= first \/ k \notin Keys(first))}

\* A list that call c may get for k.
IsAnswer(list, k, c) ==
  \/ \E v \in Visible(k, c.floor) : list = ZRevRange(Values(v, k))
  \/ list = <<>> /\ (MaxNeighbors <= 0 \/ c.disturbed \/ k \notin Keys(c.floor))

(***************************************************************************)
(* Each id gets the neighbours of its own key: all those of one version    *)
(* (up to the limit), no older version than the one that was complete when *)
(* the call began, if that one has the key.  It gets none if it is 0 or is *)
(* not in that version, and otherwise only if, during the call, the job    *)
(* that writes them was at work or had stopped halfway, or a time to live  *)
(* was over.  Ids that are 0 do not shift the others.                      *)
(***************************************************************************)
AnswersAreWhole ==
  /\ TypeOK
  /\ ReplaceExisting =>
       \A r \in returned : r.error = "none" =>
         /\ Len(r.lists) = Len(r.call.ids)
         /\ \A i \in DOMAIN r.lists :
              IF r.call.ids[i] = NoId
              THEN r.lists[i] = <<>>
              ELSE IsAnswer(r.lists[i], r.call.ids[i], r.call)

(***************************************************************************)
(* A failure that may be temporary is reported only when all attempts have *)
(* been used.                                                              *)
(***************************************************************************)
RetriesAreUsed ==
  \A r \in returned : r.error \in Retryable => r.call.attempt = MaxAttempts
=============================================================================
