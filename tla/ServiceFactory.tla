--------------------------- MODULE ServiceFactory ---------------------------
(***************************************************************************)
(* What the Create function of each service reads from the settings, the   *)
(* configurations it refuses, and the store it loads.  Creating channels   *)
(* and clients connects to nothing, so nothing else can fail here.         *)
(*                                                                         *)
(* Every operator below that is named after a function says what a call    *)
(* of it returns: [ok, backend, store], with ok FALSE when it throws.      *)
(***************************************************************************)
EXTENDS GlobalConfig, LocalFiles

Made(backend, store) == [ok |-> TRUE, backend |-> backend, store |-> store]
Refused == [ok |-> FALSE, backend |-> "none", store |-> NoStore]

MadeIf(condition, made) == IF condition THEN made ELSE Refused

-----------------------------------------------------------------------------
\* A data path may lie under any ancestor of the working directory; here under one.
ResolveWorkspaceRelativePath(path) ==
  IF path = Empty \/ path.kind = "path" THEN path ELSE At("cwd", path)

OpenFile(path, disk) ==
  LET at == ResolveWorkspaceRelativePath(path) IN
  [found |-> at \in DOMAIN disk,
   file |-> IF at \in DOMAIN disk THEN disk[at].data ELSE Jsonl(<<>>)]

LocalStore(opened, store) ==
  MadeIf(opened.found /\ store.loaded, Made("local", store))

LocalFileProfileStore(values, disk) ==
  LET opened == OpenFile(values["profile_store.data_path"], disk) IN
  LocalStore(opened, LoadProfilesFromJsonlFile(opened.file))

LocalFileItemIndexStore(values, disk) ==
  LET opened == OpenFile(values["item_index_store.data_path"], disk) IN
  LocalStore(opened, LoadItemIndexFromFile(opened.file))

LocalFileSimilarityStore(values, disk) ==
  LET opened == OpenFile(values["similarity_store.data_path"], disk) IN
  LocalStore(opened, LoadSimilarityFromJsonlFile(opened.file))

TimeoutNotGreater(values, inner, outer) == values[inner].n <= values[outer].n

TimeoutSumNotGreater(values, first, second, outer) ==
  values[first].n + values[second].n <= values[outer].n

\* Validated twice: by Create, by key, and by the constructor.
ElasticsearchTimeoutsFit(values) ==
  /\ TimeoutNotGreater(values, EsConnectTimeout, EsHttpTimeout)
  /\ TimeoutNotGreater(values, EsAcquireTimeout, EsTimeout)
  /\ TimeoutNotGreater(values, EsHttpTimeout, EsTimeout)
  /\ TimeoutSumNotGreater(values, EsAcquireTimeout, EsHttpTimeout, EsTimeout)

TrimTrailingSlashes(t) == IF t = Word("/") THEN Empty ELSE t

ElasticsearchClientCreates(values) ==
  Readable(values, ElasticsearchGetters) /\ ElasticsearchTimeoutsFit(values)

ElasticsearchClientAccepts(values) ==
  TrimTrailingSlashes(values["elasticsearch.base_url"]) # Empty

\* The store on top of the client wants an index.
ElasticsearchStore(values) ==
  MadeIf(/\ ElasticsearchClientCreates(values)
         /\ ElasticsearchClientAccepts(values)
         /\ values["elasticsearch.index"] # Empty,
         Made("elasticsearch", NoStore))

RedisClientCreates(values) == Readable(values, RedisGetters)

ValidateRedisConfig(values) ==
  /\ values["redis.host"] # Empty
  /\ values["redis.port"].n > 0

RedisSimilarityStore(values) ==
  MadeIf(/\ RedisClientCreates(values)
         /\ ValidateRedisConfig(values)
         /\ values["redis.key_prefix"] # Empty,
         Made("redis", NoStore))

-----------------------------------------------------------------------------
\* Both sizes must be positive for a cache; otherwise there is none, silently.
WrapWithLocalCacheIfConfigured(values, store) ==
  IF values["local_cache.capacity"].n > 0 /\ values["local_cache.ttl_seconds"].n > 0
  THEN [store EXCEPT !.backend = "cached " \o @]
  ELSE store

CreateUncachedProfileStore(values, disk) ==
  CASE values["profile_store.type"] = Word("local") ->
         LocalFileProfileStore(values, disk)
    [] values["profile_store.type"] = Word("elasticsearch") -> ElasticsearchStore(values)
    [] OTHER -> Refused

ProfileServiceCreate(values, disk) ==
  WrapWithLocalCacheIfConfigured(values, CreateUncachedProfileStore(values, disk))

CreateUncachedItemIndexStore(values, disk) ==
  CASE values["item_index_store.type"] = Word("local") ->
         LocalFileItemIndexStore(values, disk)
    [] values["item_index_store.type"] = Word("elasticsearch") -> ElasticsearchStore(values)
    [] OTHER -> Refused

\* CreateRankers, RegisterRankers and RegisterDefaultRanker.
RankersRegister(values) ==
  LET names == RankingRankers(values) IN
  /\ names = <<"heuristic_v1">>
  /\ values["ranking.default_ranker"] = Word("heuristic_v1")

RankingServiceCreate(values, disk) ==
  MadeIf(RankersRegister(values),
         WrapWithLocalCacheIfConfigured(values, CreateUncachedItemIndexStore(values, disk)))

RetrievalOrchestratorCreate(values) ==
  MadeIf(/\ Accepts("uint16", values["retriever_item_cf.port"])
         /\ Accepts("uint16", values["retriever_user_cf.port"])
         /\ Accepts("positive double", values["retrieval.recall_candidate_expand_ratio"]),
         Made("none", NoStore))

CreateSimilarityStore(values, disk) ==
  CASE values["similarity_store.type"] = Word("redis") -> RedisSimilarityStore(values)
    [] values["similarity_store.type"] = Word("local") ->
         LocalFileSimilarityStore(values, disk)
    [] OTHER -> Refused

RetrieverItemCfCreate(values, disk) ==
  MadeIf(/\ Accepts("positive", values["retriever.max_trigger_seed_count"])
         /\ Accepts("positive", values["redis.command_batch_size"])
         /\ Accepts("positive double", values["retriever_item_cf.score_multiplier"]),
         CreateSimilarityStore(values, disk))

RetrieverUserCfCreate(values, disk) ==
  MadeIf(/\ Accepts("positive", values["retriever_user_cf.trigger_seed_user_count"])
         /\ Accepts("positive double", values["retriever_user_cf.score_multiplier"])
         /\ Accepts("uint16", values["profile_service.port"]),
         CreateSimilarityStore(values, disk))

GatewayServiceCreate(values) ==
  MadeIf(\A service \in {"profile_service.port", "retrieval_service.port",
                         "ranking_service.port"} :
           Accepts("uint16", values[service]),
         Made("none", NoStore))

\* Create takes the settings, except in the weather service.
CreateGrpcServer(service, values, disk) ==
  CASE service = "profile" -> ProfileServiceCreate(values, disk)
    [] service = "ranking" -> RankingServiceCreate(values, disk)
    [] service = "retrieval_orchestrator" -> RetrievalOrchestratorCreate(values)
    [] service = "retriever_item_cf" -> RetrieverItemCfCreate(values, disk)
    [] service = "retriever_user_cf" -> RetrieverUserCfCreate(values, disk)
    [] service = "gateway" -> GatewayServiceCreate(values)
    [] service = "fetcher" -> Made("none", NoStore)
=============================================================================
