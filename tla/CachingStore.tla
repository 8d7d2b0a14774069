---------------------------- MODULE CachingStore ----------------------------
(***************************************************************************)
(* The read-through stores: CachingProfileStore::FindByUserId and          *)
(* CachingItemIndexStore::FindByItemId (the same code for two types) in    *)
(* front of the Elasticsearch stores.  The cache is locked during Get and  *)
(* during Put but not in between, where the request to Elasticsearch is:   *)
(* other threads fetch and fill the same key meanwhile, and the offline    *)
(* jobs rewrite the documents.                                             *)
(*                                                                         *)
(* The wrappers are only installed when capacity and time to live are      *)
(* positive; otherwise the services use the store behind them, which a     *)
(* disabled cache (one that stores nothing) stands for here.               *)
(***************************************************************************)
EXTENDS LruCache

CONSTANTS
  Thread,    \* threads of the server
  Absent,    \* there is no document: nullopt
  Failed,    \* FindBy... throws
  MaxFetch   \* longest time a request to Elasticsearch takes, in ticks

ASSUME StoreAssumption ==
  /\ {Absent, Failed} \cap Value = {}
  /\ Absent # Failed
  /\ MaxFetch \in Nat

VARIABLES
  stored,      \* the documents in Elasticsearch
  pc,          \* get, fetch or fill for each thread, idle outside FindBy...
  key,         \* the key the thread looks up
  fetched,     \* what Elasticsearch answered
  elapsed,     \* ticks since the request was sent
  age,         \* age[k][v]: ticks since v was last stored for k (history)
  seenAbsent,  \* was there a moment of the call without a document (history)
  answer       \* what the last call of the thread returned (history)

threads == <<pc, key, fetched, elapsed>>
vars == <<cache, stored, threads, age, seenAbsent, answer>>

\* The oldest value a call may return; ages above it are not told apart.
MaxAge == MaxFetch + (IF Disabled THEN 0 ELSE Ttl - 1)

Document == Value \cup {Absent}

TypeOK ==
  /\ CacheTypeOK
  /\ stored \in [Key -> Document]
  /\ pc \in [Thread -> {"idle", "get", "fetch", "fill"}]
  /\ key \in [Thread -> Key]
  /\ fetched \in [Thread -> Document]
  /\ elapsed \in [Thread -> 0..MaxFetch]
  /\ age \in [Key -> [Value -> 0..(MaxAge + 1)]]
  /\ seenAbsent \in [Thread -> BOOLEAN]
  /\ answer \in [Thread -> [value : Document \cup {Failed}, age : 0..(MaxAge + 1)]]

Init ==
  /\ CacheInit
  /\ stored \in [Key -> Document]
  /\ pc = [t \in Thread |-> "idle"]
  /\ key \in [Thread -> Key]
  /\ fetched = [t \in Thread |-> Absent]
  /\ elapsed = [t \in Thread |-> 0]
  /\ age = [k \in Key |-> [v \in Value |-> IF stored[k] = v THEN 0 ELSE MaxAge + 1]]
  /\ seenAbsent = [t \in Thread |-> FALSE]
  /\ answer = [t \in Thread |-> [value |-> Failed, age |-> 0]]

-----------------------------------------------------------------------------
\* FindBy... is called.
Call(t, k) ==
  /\ pc[t] = "idle"
  /\ pc' = [pc EXCEPT ![t] = "get"]
  /\ key' = [key EXCEPT ![t] = k]
  /\ seenAbsent' = [seenAbsent EXCEPT ![t] = stored[k] = Absent]
  /\ UNCHANGED <<cache, stored, fetched, elapsed, age, answer>>

\* FindBy... returns result (history: how old it is).
Answer(t, result) ==
  /\ pc' = [pc EXCEPT ![t] = "idle"]
  /\ elapsed' = [elapsed EXCEPT ![t] = 0]
  /\ fetched' = [fetched EXCEPT ![t] = Absent]
  /\ answer' = [answer EXCEPT ![t] =
       [value |-> result,
        age |-> IF result \in Value THEN age[key[t]][result] ELSE 0]]
  /\ UNCHANGED <<stored, key, age, seenAbsent>>

\* cache_.Get: a hit is returned, a miss goes to the store.
FindInCache(t) ==
  /\ pc[t] = "get"
  /\ Get(key[t])
  /\ \/ Hit(key[t]) /\ Answer(t, Cached(key[t]))
     \/ /\ ~Hit(key[t])
        /\ pc' = [pc EXCEPT ![t] = "fetch"]
        /\ UNCHANGED <<stored, key, fetched, elapsed, age, seenAbsent, answer>>

\* Elasticsearch reads the document; its answer is on the way from here on.
Fetch(t) ==
  /\ pc[t] = "fetch"
  /\ pc' = [pc EXCEPT ![t] = "fill"]
  /\ fetched' = [fetched EXCEPT ![t] = stored[key[t]]]
  /\ UNCHANGED <<cache, stored, key, elapsed, age, seenAbsent, answer>>

\* The request fails, or its answer cannot be parsed: an exception.
FetchFails(t) ==
  /\ pc[t] \in {"fetch", "fill"}
  /\ Answer(t, Failed)
  /\ UNCHANGED cache

\* Mutant of Fill: that there is no document is cached as well.
FillAbsent(t) ==
  /\ pc[t] = "fill"
  /\ Put(key[t], fetched[t])
  /\ Answer(t, fetched[t])

\* A document goes into the cache and to the caller, nullopt only to the caller.
Fill(t) ==
  /\ pc[t] = "fill"
  /\ IF fetched[t] = Absent
     THEN UNCHANGED cache
     ELSE Put(key[t], fetched[t])
  /\ Answer(t, fetched[t])

-----------------------------------------------------------------------------
\* An offline job writes a document, or an index is recreated without it.
Write(k, d) ==
  /\ stored[k] # d
  /\ stored' = [stored EXCEPT ![k] = d]
  /\ age' = IF d = Absent THEN age ELSE [age EXCEPT ![k][d] = 0]
  /\ seenAbsent' = [t \in Thread |-> seenAbsent[t] \/ (key[t] = k /\ d = Absent)]
  /\ UNCHANGED <<cache, threads, answer>>

(***************************************************************************)
(* The clock advances.  A fetch that takes MaxFetch ticks has ended: the   *)
(* timeout of the HTTP request bounds it.                                  *)
(***************************************************************************)
Fetching == {t \in Thread : pc[t] \in {"fetch", "fill"}}

Pass ==
  /\ \A t \in Fetching : elapsed[t] < MaxFetch
  /\ Tick
  /\ elapsed' = [t \in Thread |-> IF t \in Fetching THEN elapsed[t] + 1 ELSE 0]
  /\ age' = [k \in Key |-> [v \in Value |->
               IF stored[k] = v THEN 0
               ELSE IF age[k][v] <= MaxAge THEN age[k][v] + 1 ELSE MaxAge + 1]]
  /\ UNCHANGED <<stored, pc, key, fetched, seenAbsent, answer>>

Find(t) == FindInCache(t) \/ Fetch(t) \/ FetchFails(t) \/ Fill(t)

Next ==
  \/ \E t \in Thread : (\E k \in Key : Call(t, k)) \/ Find(t)
  \/ \E k \in Key, d \in Document : Write(k, d)
  \/ Pass

Spec == Init /\ [][Next]_vars

\* Calls proceed and time passes; nothing makes anybody call or write.
FairSpec == Spec /\ (\A t \in Thread : WF_vars(Find(t))) /\ WF_vars(Pass)

-----------------------------------------------------------------------------
(***************************************************************************)
(* A returned value was the stored one less than a time to live and a      *)
(* fetch ago, although a slow fetch can overwrite what a later one cached, *)
(* be overwritten itself, and be put into the cache after the document     *)
(* changed.                                                                *)
(***************************************************************************)
StalenessBounded ==
  TypeOK /\ \A t \in Thread : answer[t].age <= MaxAge

(***************************************************************************)
(* "Not found" is never served from the cache: a caller is told so only if *)
(* the document was missing at some moment of this very call, however      *)
(* recently it has been created.                                           *)
(***************************************************************************)
NotFoundIsFresh ==
  [][\A t \in Thread :
       pc[t] # "idle" /\ pc'[t] = "idle" /\ answer'[t].value = Absent
         => seenAbsent[t]]_vars

(***************************************************************************)
(* When a document stops changing, every other version of it disappears    *)
(* from what the cache returns, for ever, without anybody invalidating it. *)
(***************************************************************************)
StaleEntriesDieOut ==
  \A k \in Key, d \in Document :
    <>[](stored[k] = d) => <>[](Hit(k) => Cached(k) = d)
=============================================================================
