# ShootingStar in TLA+

ShootingStar is a recommendation engine: C++ gRPC services that answer
`Recommend`, and Python jobs that prepare the data the services read. This
directory holds TLA+ models of it, from the start of a service to the answer of
a request and the jobs that rewrite the data, the TLC configurations that check
them on small instances, and TLAPS proofs of their safety properties
for instances of any size.

Paths below are relative to the repository; `PROJECT.json` maps each definition
to the lines it models.

## 1. The system

```
client ─► Gateway ─► Profile service ──► read-through store ─► HTTP client ─► Elasticsearch
             │                              (LRU cache)         (pool of curl handles)
             ├────► Retrieval orchestrator ─► Item-CF retriever ─► similarity store ─► Redis
             │                             └► User-CF retriever ─► similarity store ─► Redis
             │                                       └─► Profile service (batch)
             └────► Ranking service (heuristic_v1) ─► read-through store ─► HTTP client ─► ES

offline:  builders ─► files ─► RedisWriter ─► Redis
                            └► ElasticsearchWriter ─► Elasticsearch
```

Every service is a synchronous gRPC server: each request runs on a thread of
its own and shares with others only what is named under "state".

| Component (source) | State | Operations | What is hard | What makes it correct |
|---|---|---|---|---|
| ResourcePool (`src/utilities/resource_pool`) | stack of free resources under a mutex, condition variable, movable leases | `Acquire(timeout)`, lease destruction, moves | wakeups after unlocking, timeouts, moves of leases that hold something | exclusive use, nothing leaks, no lost wakeup, acquires return |
| CurlHttpClient, CurlHandlePool (`src/utilities/http_client`) | the pool; per request three retry budgets and a deadline | `Execute` | handles on every error path; four kinds of retry under one deadline | handles only while in use, bounded transfers, bounded blocking, honest results |
| LruCache (`src/utilities/lru_cache`) | list, index of iterators, expiry times | `Get`, `Put` | two structures changed together, lazy expiry | index and list agree, least recently used goes first, reads do not extend lives |
| Read-through stores (`caching_profile_store.cpp`, `caching_item_index_store.cpp` and the Elasticsearch stores) | the cache | `FindByUserId`, `FindByItemId(s)` | no lock during the fetch, documents rewritten meanwhile | bounded staleness, "not found" never cached |
| Retrieval orchestrator | per request | `Retrieve`: call each retriever, merge in turns | partial failure, duplicates, cut-off | order, no path dropped, fails only if all fail |
| Retriever base, Item-CF, User-CF | per request | `Retrieve`: seeds, lookups (in batches), aggregation, cut-off | indexes of seeds, keys and results that differ; failures half-way | best of what was found, nothing consumed, failures are whole |
| Similarity stores, Redis client | pool of connections | batch and single `ZREVRANGE` with retries | not a transaction, runs against the jobs | answers are whole and of the right key |
| Profile service | its store | `GetProfile`, `BatchGetUserCfProfiles` | one failing lookup in a batch | statuses that agree with codes |
| Ranking service, heuristic ranker | per request | `Rank`: validate, merge, look up, score, sort | missing documents, failing lookups | the best, in order; statuses that agree |
| Gateway | per request | `Recommend`: three calls, one after the other | two layers of status of three services | blames the right party, loses nothing |
| Offline writers | files, batches | Redis pipelines, Elasticsearch bulk requests | crashes, retries, reruns, readers in between | a finished job leaves its data; no mixed versions |
| Offline builders and jobs | files | similarity, profile and index builders | sharded accumulation | equal to the unsharded definition |
| Local profile and item index stores, local similarity stores | a map, loaded once | loading at start-up, lookups | blank, bad and repeated lines; two formats | the whole file or no store |
| Elasticsearch client (`src/utilities/elasticsearch_client`) | none | `Create` with its checks, one request per call | its timeouts against those of the HTTP client | refuses settings under which a request cannot be finished |
| Global config (`src/utilities/global_config`) | the settings, process-wide | `Initialize`, `ApplyStartupFile`, `Apply`, getters | default, file and arguments, each with its own syntax and its own checks | precedence; reports the file it read |
| Service runner, runtime utilities (`src/utilities/grpc_service_runner`) | the process | `RunGrpcService`: configure, log, create, serve | any step may throw | serves or fails with one line in the log |
| Logger, registry, logging interceptor (`src/utilities/logger`) | registered loggers; per call whether its end is logged | `Register`, `Get`, the hooks of a call | references that outlive the lock; a cancellation that is delivered inside the logging of the end | loggers in use stay alive, one line about the end of each call |
| JSON and protobuf handlers | none | conversions | | (not modelled, section 7) |
| Command line clients, weather forecast, shell tools, manifests | none | one call each | nothing that a model would show | (not modelled, except the start of the weather forecast) |

## 2. The modules

| Module | Models | Composes | Runs |
|---|---|---|---|
| `Leases` | the constants that pool and client share | | through the next three |
| `HandlePool` | what a pool of handles promises (abstract) | | through the next two |
| `ResourcePool` | `resource_pool.h` | implements `HandlePool` | ResourcePool |
| `CurlHttpClient` | `curl_http_client.cpp` | built on `HandlePool` | CurlHttpClient |
| `TtlMap` | what a cache with a time to live promises (abstract) | | through the next one |
| `LruCache` | `lru_cache.h` | implements `TtlMap` | LruCache |
| `CachingStore` | the read-through stores and the documents behind them | `LruCache` and racing threads | CachingStore |
| `RetrievalOrchestrator` | `retrieval_orchestrator.cpp` | | RetrievalOrchestrator |
| `Retriever` | `retriever_base.cpp` and what the retrievers share | | through the next two |
| `RetrieverItemCf`, `RetrieverUserCf` | the two retrievers, the second with the batch of the profile service | `Retriever` | RetrieverItemCf, RetrieverUserCf |
| `RankingService` | `ranking_service.cpp`, `heuristic_ranker.cpp` | | RankingService |
| `Gateway` | `gateway_service.cpp`, `GetProfile` | `RankingService` | Gateway |
| `RedisWriter` | `redis_writer.py` and Redis | | through the next one |
| `SimilarityStore` | the Redis stores and `redis_client.cpp` | `RedisWriter` and readers | SimilarityStore |
| `GlobalConfig` | `global_config.cpp`: the table of settings, conversions, the syntax of files and arguments (pure operators) | | through `Server` |
| `LocalFiles` | the stores that are loaded from a file (pure operators) | | through `Server` |
| `ServiceFactory` | what the `Create` function of each service reads and refuses | `GlobalConfig`, `LocalFiles` | through `Server` |
| `ServerLogging` | `logger.cpp`, `logger_registry.cpp`: registry and interceptor | | through `Server` |
| `Server` | `grpc_service_runner.h`: a service from its command line to its last call | `ServiceFactory`, `ServerLogging` | Server, ServerReadme |
| `RetrievalOrchestratorProofs`, `ServerProofs` | theorems about the module each is named after (section 5) | | |
| `CurlHttpClientProofs`, `CachingStoreProofs`, `SimilarityStoreProofs`, `GatewayProofs` | theorems about the module each is named after and, before them, about the one it is built on: `ResourcePool`, `LruCache`, `RedisWriter`, `RankingService` | | |
| `RetrieverProofs` | theorems about the two retrievers | | |
| `DataInduction` | lemmas for the others: least elements, induction over positions, the functions that folds choose, ranks in an order, lists of numbers that cannot go down for ever | | |

Each `MC*` module gives the constants of its specification values for TLC. An
operator whose comment begins with "Mutant of" is a plausible bug in the
definition it names; each property is violated when one of them takes the
place of the original (the list is in `PROJECT.json`).

### How states and actions correspond to the code

* **ResourcePool.** One action per critical section: the mutex is held
  from end to end of each and nothing in it blocks except the wait. Kept apart is what the
  mutex does not cover: `notify_one` and the write of `nullptr` to the lease
  come after the unlock, and a waiter is asleep, awake without the mutex, or
  re-evaluating its predicate. Waking without a notification is allowed. A
  lease belongs to one thread (its `Owner`); leases are not shared in the code.
* **CurlHttpClient.** `pc` is the place in `Execute`, the budgets are its
  counters. `remaining[t]` and `wait[t]` stand for the deadline and the call in
  progress; `Elapse` lets time pass, also outside of blocking calls. curl is a choice
  among the outcomes that the code distinguishes. The lease is moved into the
  parameter of the function that performs the transfer; both are leases of
  `HandlePool`, so a lease left behind would be seen.
* **LruCache.** `entries` is the list, `index` the map of iterators, which are
  nodes that the allocator may reuse. `recency`, the pairs of keys of which
  the first was used last, is a history variable, used by one property and by no
  guard.
* **CachingStore.** `FindInCache`, `Fetch` (or `FetchFails`) and `Fill` are the
  three parts between which the mutex is free. `Write` is the offline job.
  `age` measures how long ago a value was the stored one.
* **RetrievalOrchestrator.** `Reply` is one call to one retriever, `Turn` one
  candidate of one response; a score is the sequence of scores that
  were added, so a lost or repeated addition is visible.
* **Retriever\*.** One action per call that leaves the process (a batch of
  lookups, the profile batch user by user) with all the computation that
  follows it. Scores are integers in a unit in which the divisions by rank are
  exact.
* **Gateway, RankingService.** One action per call and per lookup. Ranking is
  the detailed module; of profile and retrieval the gateway model keeps what
  they may answer. Every call may also fail on the way. The `user_id` inside a
  document is not the id it is stored under: nothing before ranking compares
  them, so `GetProfile` answers with any id of `ProfileIds`.
* **RedisWriter, SimilarityStore.** One action per command that the server
  executes. A pipeline that breaks off may be sent again as a whole
  (`Resend`, the client library), a job may die anywhere (`JobFails`) and be
  run again with the same or newer data. Readers execute one `ZREVRANGE` at a
  time in between. `pipeline` has, for each record of the current batch, the
  commands that the server has not executed yet. The replies of a lookup
  belong to the ids by their place among the valid ones (`ReplyIndex`).
* **Server.** One action per iteration of the loops over the file's entries and
  over `argv`, then one each for the logger, the service and the port; `Fail` is
  an exception from any of them. `values` is the map of texts, already in
  canonical form, as the code stores them. A text is what the parsers tell apart:
  an integer, a fraction, a path, or words. A file is the document that YAML makes
  of it and the lines that a data file has, since one path may serve as either;
  `leaves` are the entries of the document in the order of the map they are
  collected in, those of an array with their indices.
* **ServiceFactory, LocalFiles.** An operator named after a function says what
  a call of it returns, or that it throws. Creation contacts nobody, so there
  are no other failures.
* **ServerLogging.** One action per hook of the interceptor, in the thread of
  the call. `Cancel` is the client; what gRPC then delivers inside `IsCancelled`
  happens inside the step that asks. `lines` is the log of a call.

## 3. The runs

| Run | What it shows | Bounds, and why they are enough |
|---|---|---|
| ResourcePool | `InductiveInv` (with it the types and that nothing leaks), `ExclusiveUse`, `NoLostWakeup`; the pool implements `HandlePool`; every `Acquire` returns | 3 threads, 5 leases, 2 resources: two can wait for one that is released while the third takes it; two threads have two leases to move between. The theorems of section 5 remove the bounds |
| CurlHttpClient | handles only while in use, deadline bounds every blocking call and every transfer, no sleep after the last attempt, budgets, honest result; `Execute` returns | 2 requests for 1 handle (contention); 2 attempts in each budget (a first, a last); timeouts of 0, 3 and none against waits of 1 and 2, so the deadline falls before, into and after each wait |
| LruCache | list and index agree, recency order, implements `TtlMap` | capacity 2, 3 keys: hit at front and back, eviction, node reuse; time to live 2: fresh, aged, expired |
| CachingStore | staleness below time to live plus fetch, "not found" is fresh, old versions die out | 2 threads that race on a key, 2 values, fetches of up to 2 ticks, time to live 2 |
| RetrievalOrchestrator | order, merging, partial failure, `AsksForEnough`; the rounds end | 2 retrievers, replies of up to 3 among 3 items and id 0; `MaxInt` 3 with the ratio 3/2, so that the cast overflows |
| RetrieverItemCf | best of what was found, nothing consumed, strongest seeds, failures are whole | profiles with more items than seeds (3), repeated, tied and invalid ones; batches of 2, so a full and a partial one; neighbours that are shared, consumed, 0, or without a score |
| RetrieverUserCf | each profile counts with the similarity of its own user | lists with the user itself, id 0, ids beyond `int` and beyond `int64_t`; users found and not found; a failure after any number of users |
| RankingService | the ranking is the best of the request, and status, code and contents agree | up to 3 candidates of 3 items and id 0, so repetitions and ties; each lookup finds, misses or throws; limits 0 and 2 |
| Gateway | blame (with it that code and status agree), nothing lost | every answer of every service, 2 items, limits -1 to 3; users 0 and 1, for whom there may be a document with the id 0, 1 or 2, so a profile may be the user's, another's or nobody's |
| SimilarityStore | a finished job leaves its data, no key mixes versions; answers are whole, current and of the right key; retries are used | 3 versions over 2 keys (one that changes and has more neighbours than a lookup returns, one that is emptied and then dropped), batches of one, 2 attempts, expiry, any number of failures and reruns; 2 readers that share 1 connection, 2 attempts, a list with id 0 between its keys. Each job starts with the last version or any newer one, so versions are skipped, too |
| Server | precedence, the reported file, whole local stores; every call leaves the lines it owes and ends | 7 services, each with 21 command lines and 7 configurations (what each parser accepts and refuses, repeated options, both kinds of file, a file beside the executable, in the workspace or nowhere) and with 6 data files (blank, bad, empty and repeated lines); two calls at servers of three levels, unary or streaming, decodable or not, cancelled anywhere. |
| ServerReadme (expects a violation) | `FileOfTheReadmeIsFound`: README.md starts the services with a `--config_path` relative to the workspace, and the code looks for it only beside the executable, so the start fails | 7 services, that command line |

Type invariants are conjuncts of a property of each run. Deadlock is checked in
every run but Server and ServerReadme, where a process may fail to start and
calls come to an end.

What each property means is said in the comment above it. Some that a reader
of the code may find worth knowing:

* `NoLostWakeup` holds although `Release` notifies after unlocking and although
  a thread that never slept may take the resource first; `WakeGiveUp`, which
  looks once more before giving up, is what makes it hold at timeouts.
* `AcquireReturns` and `ExecuteReturns` hold although nobody is promised a
  resource: others may take each one that is released.
* `StalenessBounded` is one time to live **plus** one fetch, and no less: a slow
  fetch may overwrite what a later one cached, and the time to live starts again.
* `AnswersAreWhole` allows an empty answer while a job is at work or after one
  has stopped half-way: `DEL` and `ZADD` are not a transaction. It allows no
  mixture, and no older version than the one complete when the call began. Only
  a key that this version does not have may be answered with what an older one
  left behind, as nothing deletes it.
* `CallsAreAccountedFor` rests on `LogCompletion` setting its flag before it
  writes: writing asks `IsCancelled`, which may deliver the cancellation, whose
  hook logs the end of the same call.
* `LoggersStayAlive` is not a property of the registry, whose `Register` destroys
  what it replaces, but of how the services use it: they register once, before
  the first `Get`, and the blank logger is made only if it is not there.
* `BlameIsJustified` has an exception: if the document stored under the user's
  id carries another one (not 0), the profile service passes it on
  (`profile_service.cpp:251`), retrieval works with it, and only ranking compares
  (`ranking_service.cpp:62`). The client is then told `INVALID_REQUEST` although
  it sent nothing wrong. The property allows this and claims that nothing else
  is blamed on the client without reason, and that no answer is `SUCCESS` with
  another user's profile. A document without an id (0) is accepted as anybody's.
* `LoadedFilesAreWhole` is about files that can be read to their end. An error in
  the middle ends `getline` (`local_profile_loader.cpp:69`) and `rdbuf`
  (`local_file_item_index_store.cpp:42`) as the end of the file does, and nobody
  asks which it was; then what was read so far is the store. The model has no
  such error.
* `NothingRetrievedIsLost` relies on the gateway passing the same limit to
  retrieval and to ranking.

## 4. Fairness

Weak fairness only, and only of what the code or its environment carries on by
itself:

* pool: a thread that is inside the pool gets the mutex and returns from
  `notify_one`; time passes, and a wait whose time is over ends (`wait_for`).
  Nothing is assumed of when a lease is given back, nor of who gets a resource.
* HTTP client: a thread runs, time passes in a blocking call, and curl, which
  is given `CURLOPT_TIMEOUT_MS`, ends a transfer with some outcome.
* read-through stores: a call proceeds (the fetch has the HTTP client's
  timeout), and time passes.
* orchestrator: a service that was called answers, or its call fails. The code
  sets **no deadline** on these calls, so this is an assumption about the
  network; a service that accepts a call and is silent blocks its caller.
* server: the process runs until it serves or fails (`Run`), and each handler
  returns and its status is sent (`ServeCall`; the handlers' calls are those of
  the other modules). Nothing is assumed of clients: nobody has to cancel.

The other modules state safety only and assume no fairness.

## 5. What is proved

Each theorem holds for every value of the constants that satisfies the named
assumptions. Where a property is checked by a run, too, the theorem names it.

| Module | Theorems |
|---|---|
| `CurlHttpClientProofs` | of the pool: `TypeCorrect`, `InductiveInvariant` (`InductiveInv`), `ExclusiveAndComplete` (`ExclusiveUse`, `NoLeak`), `WakeupsAreNotLost` (`NoLostWakeup`), `PoolImplementsHandlePool` (refinement); of the client: `ClientInvariant`, `HandlesAreGivenBack` (`HandleOnlyWhileInUse`), `BlockingIsBounded` (`DeadlineBoundsBlocking`), `TransfersAreBoundedByBudgets` (`TransfersAreBounded`), `ReportsAreJustified` (`ResultIsJustified`), `NoLateTransfer` (`NoTransferAfterDeadline`), `EveryExecuteRunsDown` |
| `CachingStoreProofs` | `IndexIsAlwaysRight` (`IndexMatchesEntries`), `BackIsLeastRecentlyUsed` (`EntriesInRecencyOrder`), `CacheImplementsTtlMap` (refinement, `ImplementsTtlMap`), `AgesAreBounded`, `AnswersAreRecent` (`StalenessBounded`), `NotFoundIsNeverCached` (`NotFoundIsFresh`) |
| `RetrievalOrchestratorProofs` | `OrchestratorInvariant`, `OneSuccessIsEnough` (`FailsOnlyIfAllFail`), `AsksForEnoughAlways` (`AsksForEnough`), `TakingTurns`, `IndexAlwaysFindsCandidates` (`IndexFindsCandidates`), `NoPathIsDropped` (`NoPathDropped`), `FirstComeFirstServedAlways` (`FirstComeFirstServed`), `EveryRetrieveRunsDown` |
| `SimilarityStoreProofs` | of the jobs alone: `WriterInvariant`, `NoReaderSeesAMixture` (`NoMixedNeighbors`), `FinishedMeansWritten` (`FinishedJobLeavesItsData`), `EveryJobRunsDown`; with readers: `ReadersOnlyRead` (the composition implements `WriterSpec`), `NoMixtureWithReaders`, `FinishedMeansWrittenWithReaders`, `StoreInvariant`, `LookupsAreWhole` (`AnswersAreWhole`), `LookupsUseTheirRetries` (`RetriesAreUsed`), `EveryLookupRunsDown` |
| `GatewayProofs` | `RankingIsRight` (`RankedAreTheBest`, the ranking service alone), `GatewayInvariant`, `BlameIsAlwaysJustified` (`BlameIsJustified`), `NothingIsLost` (`NothingRetrievedIsLost`), `GatewayGetsTheBest` (`RankedAreTheBest`, called by the gateway) |
| `ServerProofs` | of the calls: `LoggingInvariant`, `HandlersLoggersStayAlive` (`LoggersStayAlive`), `CallsEndInTheLog` (`CallsAreAccountedFor`); of the start: `ConfigurationInvariant`, `OutcomeInvariant`, `ArgumentsBeatTheFile` (`Precedence`), `PathIsTheFileThatWasRead` (`ReportsTheFileItRead`), `CallsAreLoggedAtTheLevel` (`LevelIsConfigured`), `FilesAreLoadedWhole` (`LoadedFilesAreWhole`) |
| `RetrieverProofs` | `ItemCfInvariant`, `ItemCfRanksWhatItFound` (`RanksNeighborsFound`), `SeedsAreAlwaysStrongest` (`SeedsAreStrongest`), `UserCfInvariant`, `UserCfRanksWhatItFound` (`RanksProfilesFound`) |
| `DataInduction` | lemmas only |

Assumptions: the one named `...Assumption` of each module, which TLC evaluates
in the module's run. They say that numbers are numbers of the right sign, that
the null values are not members of their sets, that sets of threads, keys and
resources are finite where the code counts them, that every lease has an owner,
and that the records of one version of the offline data have different keys.
Those of `Server` are about the inputs: a program names itself as one of the
seven services, `argv` and the files are lists, and in a YAML document a key
occurs once and an array has one element at an index.

### The resource pool

The argument. None of the safety properties is inductive by itself.

* `ExclusiveUse` and `NoLeak` need each other, and both need `CallOK`: an
  acquire fills a lease that is empty and belongs to the calling thread, and a
  lease that a move assignment releases is not the one it takes over from.
* `NoLostWakeup` says something of the states in which nobody is awake, which
  does not survive a step from a state in which two resources are free and one
  thread is awake. `WakersCoverAvailable` counts instead: while anybody sleeps there are at
  most as many free resources as threads that are awake or about to notify. A
  release adds one to both sides; a taker that was awake removes one from both;
  a thread that never slept removes a resource only; a thread that goes to sleep finds none
  free; one that gives up has looked again and found none.
* `InductiveInv` is the conjunction of these with `PoolTypeOK`. The lemma
  `CallStep` covers the bookkeeping, `UseStep` the resources and `WakersStep`
  the counting, each with one step per action.
* For the refinement `OwnerOf` maps each resource to the lease that holds it;
  `ExclusiveUse` makes it unique. Taking maps to a grant, pushing back to a return,
  moves to transfers, everything else to stuttering.

TLC checks `InductiveInv` as an invariant of the run ResourcePool.

### The HTTP client

`IInv` joins three views of one request: who owns what follows from where the
control is (`LeasesMatchControl`: the lease of `Execute` and the parameter of the
function that transfers are never both filled), each transfer is charged to one
of two budgets when it ends (`BudgetsCharge`, so their sum bounds the transfers),
and what is left of the deadline bounds whatever is in progress, with an attempt left
for whoever sleeps (`DeadlineBoundsBlocking`). It needs only
the actions of `HandlePool`, not those of `ResourcePool`.

### The cache and the stores on it

`CachingStoreProofs` begins with what the operations on the list do to any list
whose nodes and keys are distinct (`Matches`): removing, moving to the front,
pushing, dropping the last. Every step of the cache is a composition of these,
and as nodes may be reused, the invariant is about the pairs of node and key.
For the refinement, `ContentsOf` maps list and index to the map of `TtlMap`; a hit
keeps the contents, an expired entry and an evicted one are removals that
`TtlMap` allows at any time.

The order of the list is that of the last uses: what moves to the front is what
was used, removing keeps the order of the rest (`RemovalKeepsOrder`), and
`recency` stays asymmetric, so what is dropped at the back is the one key that
every other was used after.

For the stores the age of each value under way is added: a fetched value is at
most as old as its fetch, a cached one at most a whole fetch and the part of its
time to live that is over (`CachedIsRecent`), and this is preserved because
`Put` starts a time to live only for a value that comes from a fetch. That
"not found" is never cached is an action property and needs more than the step:
`AbsentIsSeen` says that a thread that is about to answer "not found" has seen
the document missing during its own call.

### The retrieval orchestrator

`SuccessesAreCounted` ties the list of responses to the replies of all
retrievers: it is empty exactly if none of them has answered so far.
`AsksForEnough` does not rest on the ratio nor on what the cast of a product that
does not fit yields (any value, in the model): the larger of that and the limit
is taken.

The merge is `OInv`, in five parts. `Round` gives for each response the
position the turns have come to, from which follows which occurrences of an item have been
met (`MetOf`), and that these are all of them at the end. `Built` says what one
candidate is: every occurrence met, once, among its reasons, the signals of a
retriever in the order it gave them, and the fields for old clients equal to
what the signals say (`Whole`). That `MergeSignal` keeps this is most of the
work: it appends to the signal of a retriever if there is one and rebuilds the
old fields from all signals, a concatenation of sequences of any length
(`Concatenation`, `RebuiltIsWhole`). `Ordered` is `FirstComeFirstServed` of the
part that is met; it survives a turn because what a turn meets comes after all that
was met before (`Frontier`).

### The retrievers

Both retrievers are shown to make the same thing of their evidence, a list of
findings (a seed and the list found for it): `PoolOf(pool, E, filter)` says that
the pool has exactly the items that some place of some list of `E` contributes
to, each with the sum of its contributions (`ScoreOf`, a sum of sums) and with one of
the largest of them as its reason. One more place of the last list keeps it (`PlaceKeeps`),
so does an empty list (`EmptyListKeeps`), hence a whole list
(`AddNeighborsKeeps`) and any number of lists (`PoolFollows`). What
`FillResponseCandidates` takes from such a pool is the best of it:
`HigherScoreFirst` is a strict total order of items, so the ranks are a bijection
(`RanksAreUnique`, `SortedIs`, `FilledIsBest`).

What is left is to show that the evidence is the right one. In Item-CF the lists are
those of the first seeds, in their order (`AnswersTo`), and a batch from seed
b + 1 to b + m prolongs the evidence from b to b + m findings (`MoreAnswers`,
`LookupBatchFills`); the batches leave no trace. In User-CF `ResultIndex` is a
bijection between the seeds that can be asked for and the places of the call
(`ResultIndexIs`), so the profile at a seed's place is that of its user
(`ProfileAtSeed`), which `FoundByUser` finds by the id in the result. That ids of seeds differ
is what `AppendChannel` and `CollectUserSeeds` establish (`SeedLists`).

`RetrieverAssumption` has one premise that is the model's and not the code's:
the ranks in a channel divide `Precision`, so that scores are exact.

### Ranking and the gateway

`RankInv` follows a request through its three phases. Merging: `MergeOf(M,
offered, k)` says what the merged candidates are after the first k of the
request, every item of these once, with the positions it came from, and `SumOf`
that its score is the total of the scores at these positions; the fold keeps
both from one candidate to the next (`MergeOfNext`, `SumOfNext`). Scoring: each
lookup adds its candidate with the score its features give it, or gives up the
request. Sorting: the order is the choice of a sequence that is sorted, so it
must be shown that there is one (`OrderSorts`). The place of a candidate is the number of
those that are better, plus one; as "better" is a strict total order of the
positions, this is a bijection.

For the gateway `Known` says what each step of `Recommend` may rely on, and
`RankVerdict` what each pair of status and code of the ranking service says about the
call, from a profile of which only `profile \in ProfileIds` is known.
`BlameIsJustified` follows, since each outcome is reached from few of these. Nothing is lost by
counting: what was retrieved are different items, not more than the limit
(`RetrievedOK`), so the ranking has as many places as there are items
(`RankedAreTheBest`), each taken by a different one of them.

### The jobs and their readers

A job may stop after any command and a batch may be sent again, so the
invariant says for every record of the current batch how far it has come:
`Progress(k, d, z, e)` is what holds of key `k` when its `DEL` (d), `ZADD` (z) and
`EXPIRE` (e) are still to do, and `RecordInv` says that the commands left in the
pipeline are exactly those. A `ZADD` under `replace_existing` finds an empty key,
hence writes all of one version and nothing else; that is `NoMixedNeighbors`.
A record with nothing left to do is `Settled`, the records of earlier batches
stay settled, because keys of one version differ, and a finished job has no others;
that is `FinishedJobLeavesItsData`.

A reader changes nothing (`ReadersOnlyRead`), so both hold with readers at work.
For the lookups, `CallInv` says of a call in progress that every reply it has is
one it may return (`AnsweredSoFar`), that whatever is in the database is
visible to it (`SeesOnlyVisible`), and that a call that has not been disturbed
still runs under the finished job it began under. Jobs preserve it since they
write only versions that are not older. `IndexFacts` shows that the places of
the valid ids are 1 to n without repetition, so a reply cannot be taken for
another id's.

### The server: its start

`Precedence` compares the end of two loops with a definition that has no loops,
so the invariant has to say at every iteration what has been settled so far.
`ConfigInv` does:

* `FileApplied(next)`: a setting that the file mentions before `next` has the
  text of the file, every other one its default. `FinishFile` makes `FileSays` of
  it, with the array of rankers on top and the path last.
* `ArgumentsApplied(next)`: a setting has what its last option before `next` says,
  or else what the file says. An option may be the value of the option before it.
  The code finds out by going through `argv`, `IsOption` by the parity of the run
  of elements that take a value; `OptionsAlternate` is the step of one to the other,
  and `OptionsKnown` keeps that the loop is at an option (`FirstIsOption`).
* `PathReported`: nothing but `FinishFile` sets `config.path`. That an option for it
  means that a file was read (`PathOptionIsFound`) relates two scans of `argv`: that
  of `FindStartupConfigPath`, which comes first, and that of `Apply`.

The order of the rankers is a matter of counting: the code takes the one that
has n - 1 before it, the definition any sequence with growing indices.
`RankersHaveRanks` says that each rank is taken by exactly one,
`GoesUpInOnes` that what grows from 1 to c within c numbers grows in ones, and so
`ArrayOrderIsUnique`.

`OutcomeInv` follows the configuration to what is made of it. The copy of the level
in the interceptors is that of the configured logger as long as nothing else
registers a default, and `created` is what the factory makes of the final settings.
`LoadIsWhole` is about the loaders alone: after k lines the rows are those of the
last line of each id among the first k (`HasRows`), by induction over the lines. `LocalStoresCreate`
and its neighbours find the loader that a service comes to use.

### The server: its log

`CallInv` of `ServerProofs` gives, for each phase of a call, what its lines are:
none about its end before the flag is set, one after that, and that one the last.
`HeldSafely` strengthens `LoggersStayAlive` by what `Get` might replace: only the
blank logger, by itself.

### Induction over data

The provers cannot use an induction theorem that takes a predicate as its
parameter. `DataInduction` does without: a non-empty set of numbers has a least
element (`LeastElement`, from the well-founded order of finite sets by
inclusion), so a set of positions that holds 0 and with each position the next one
holds them all (`UpTo`); and the function by which a fold is defined exists
(`FoldExists`), so the value of a fold is reached step by step (`FoldSteps`,
`FoldReaches`). Each use names the set of the positions at which what is to be shown is true.

### Nothing goes on for ever

A client that retries, a merge that takes turns, a job that sends its batches again and a
lookup that begins again might each do so for ever. Fairness is out of the
provers' reach, but not what the answer rests on: a list of natural numbers, of
which an earlier one outweighs all later ones (`Below`, in `DataInduction`), that
every step but the last brings down. Such a list cannot go down for ever
(`NothingDescendsForever`, from the well-foundedness of lexicographic orders).

| Theorem | What is ahead, the weightiest first |
|---|---|
| `EveryExecuteRunsDown` | the transfers that the two budgets allow; how far the next one is; the acquires left for it; how far the next of them is; the time left to the call in progress and to the deadline. What other threads do leaves all five as they are |
| `EveryRetrieveRunsDown` | whether the merge is still to come; the retrievers to call; the signals that no turn has taken; whether this round has taken one; the turns left in it |
| `EveryJobRunsDown` | the records not written; how often their batch may still be sent; the commands that the server has not executed |
| `EveryLookupRunsDown` | the attempts left; whether this one is still without a connection; the ids without a reply. Neither jobs nor other threads add to them |

The numbers say why: every failed transfer is charged to one of the budgets before
the acquires begin anew, and a candidate with id 0 or beyond the limit is taken by a turn
all the same, so it counts as progress. What the theorems leave open is whether a call or
a job stops halfway; that it does not is fairness, and for Execute and Retrieve TLC checks it
(`ExecuteReturns`, `RetrieveReturns`).

### What is only model-checked

Liveness under fairness (`AcquireReturns`, `ExecuteReturns`, `StaleEntriesDieOut`,
`RetrieveReturns`, `EveryCallEnds`) and whatever needs `ENABLED`; of two of them, the
descent above is the part that needs no fairness. Every safety property
of a passing run is stated by a theorem.

## 6. Plan

The order in which the project was built, the most important behaviour first:

1. `HandlePool`, `ResourcePool` with proofs: everything that leaves a service
   over HTTP goes through the pool, and its errors are the least testable.
2. `CurlHttpClient` on the promise of `HandlePool`.
3. `TtlMap`, `LruCache`, `CachingStore`.
4. `RetrievalOrchestrator`.
5. `RankingService`, `Gateway`; `Retriever`, `RetrieverItemCf`,
   `RetrieverUserCf` with the profile batch: the request path is complete.
6. `RedisWriter`, `SimilarityStore`.
7. `GlobalConfig`, `LocalFiles`, `ServiceFactory`, `ServerLogging`, `Server`: the
   life of a process around the request path.
8. The proofs about 2, 3, 4, 6 and the log of 7, then `DataInduction` and with it the
   merge of 4, the proofs about 5, and the start of a process in 7; last, that nothing in 2, 4 and
   6 goes on for ever.

What would come next: `ElasticsearchWriter` (bulk requests that fail in part,
recreating an index against the readers of `CachingStore`); the sharded
accumulation of the two similarity builders against the unsharded definition;
the composition of the orchestrator with the two retrievers and of ranking with
`CachingStore`.
No module declares a RECURSIVE operator.

## 7. What is not modelled

* Data whose value no property distinguishes: messages, names, logging, JSON,
  protobuf fields that are only copied, floating point rounding.
* Redis and Elasticsearch themselves, beyond the commands that are used and
  their order. Two assumptions about Redis are stated in `RedisWriter`: one job
  runs at a time, and a connection that broke off executes nothing after its
  successor was opened.
* gRPC, beyond "a call returns or fails".
* Errors in the middle of reading a local file, which the loaders take for its end.
* Items and users that drop out of the data keep their old neighbours in
  Redis (`RedisWriter` deletes only the keys it writes, and `expire_seconds` is 0
  by default). The models contain this behaviour; no property forbids it.
* No service calls `CheckGrpcServerDeadline` yet; `ServerLogging` lets any
  handler do so, as the function is made for that. The interceptor's branch for
  a call that closes without a status and without a cancellation cannot be
  reached, since gRPC delivers that hook only after the status or in
  `IsCancelled`; neither can the branch of `ConfigArguments::Apply` that refuses
  a value for a negated boolean.
* Of `ParseLogLevel` the spellings in upper case stand for the others; the
  rankers in a file are words. The default prefix of the keys of the User-CF
  retriever is that of Item-CF; the models do not tell prefixes apart.
* `ElasticsearchWriter` and the builders and jobs of the offline tools, which
  compute files from files one after the other: what they write is arbitrary in
  the models. The conversions of JSON and protobuf, and the urls and bodies of
  requests to Elasticsearch.
* The single commands of `redis_client.cpp` that no service uses, and programs that
  only do input and output: command line clients, shell tools, manifests and
  build files.
