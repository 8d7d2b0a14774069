---------------------------- MODULE GlobalConfig ----------------------------
(***************************************************************************)
(* utilities/global_config/global_config.cpp: the settings of a process,   *)
(* how texts are converted when they are stored and when they are read,    *)
(* the search for the configuration file and the parsing of one argument.  *)
(*                                                                         *)
(* A text is abstracted to what the code can tell apart: a decimal integer *)
(* that fits an int, a decimal fraction (in units of 10^-7), an absolute   *)
(* path (where it starts, and the rest), or anything else, which is the    *)
(* sequence of its trimmed non-empty parts between commas.                 *)
(***************************************************************************)
EXTENDS Integers, Sequences, FiniteSets, SequencesExt, TLC

Text(kind, n, words) == [kind |-> kind, n |-> n, words |-> words]
Num(n) == Text("num", n, <<>>)
Frac(n) == Text("frac", n, <<>>)
Words(ws) == Text("words", 0, ws)
Word(w) == Words(<<w>>)
Path(root, name) == Text("path", 0, <<root, name>>)
Empty == Words(<<>>)
NoText == Text("none", 0, <<>>)

-----------------------------------------------------------------------------
\* The table of settings: rows of key, type and default.
Entry(keys, type, default) ==
  {[key |-> k, type |-> type, default |-> default] : k \in keys}

RetryAttemptKeys ==
  {"elasticsearch.http_client.curl_handle_pool.retry.max_attempts",
   "elasticsearch.http_client.connect_retry.max_attempts",
   "elasticsearch.http_client.request_retry.max_attempts"}
RetryDelayKeys ==
  {"elasticsearch.http_client.curl_handle_pool.retry.delay_ms",
   "elasticsearch.http_client.connect_retry.delay_ms",
   "elasticsearch.http_client.request_retry.delay_ms"}
EsAcquireTimeout ==
  "elasticsearch.http_client.curl_handle_pool.acquire_timeout_ms"
EsHttpTimeout == "elasticsearch.http_client.request_timeout_ms"
EsConnectTimeout == "elasticsearch.http_client.connect_timeout_ms"
EsTimeout == "elasticsearch.request_timeout_ms"
ServiceHosts ==
  {"profile_service.host", "retrieval_service.host", "ranking_service.host",
   "retriever_item_cf.host", "retriever_user_cf.host"}
Multipliers ==
  {"retrieval.recall_candidate_expand_ratio",
   "retriever_item_cf.score_multiplier", "retriever_user_cf.score_multiplier"}

ServerEntries ==
  Entry({"config.path"}, "string", Word("config.debug.yaml"))
  \cup Entry({"server.host"}, "string", Word("127.0.0.1"))
  \cup Entry({"server.port"}, "uint16", Num(50000))
  \cup Entry({"server.log_level"}, "string", Word("INFO"))
  \cup Entry(ServiceHosts, "string", Word("localhost"))
  \cup Entry({"profile_service.port"}, "uint16", Num(50100))
  \cup Entry({"retrieval_service.port"}, "uint16", Num(50200))
  \cup Entry({"ranking_service.port"}, "uint16", Num(50300))
  \cup Entry({"retriever_item_cf.port"}, "uint16", Num(50210))
  \cup Entry({"retriever_user_cf.port"}, "uint16", Num(50220))

RetrievalEntries ==
  Entry(Multipliers, "double", Num(1))
  \cup Entry({"retriever.max_trigger_seed_count"}, "int", Num(24))
  \cup Entry({"retriever_user_cf.trigger_seed_user_count"}, "int", Num(10))

StoreEntries ==
  Entry({"profile_store.type", "item_index_store.type"}, "string", Word("local"))
  \cup Entry({"profile_store.data_path"}, "string", Word("profiles.jsonl"))
  \cup Entry({"item_index_store.data_path"}, "string", Word("item_index.jsonl"))
  \cup Entry({"ranking.rankers", "ranking.default_ranker"}, "string", Word("heuristic_v1"))
  \cup Entry({"similarity_store.type"}, "string", Word("redis"))
  \cup Entry({"similarity_store.data_path"}, "string", Empty)
  \cup Entry({"local_cache.capacity"}, "int", Num(0))
  \cup Entry({"local_cache.ttl_seconds"}, "int", Num(300))

ElasticsearchEntries ==
  Entry({"elasticsearch.base_url", "elasticsearch.password",
         "elasticsearch.http_client.ca_cert_path"}, "string", Empty)
  \cup Entry({"elasticsearch.index"}, "string", Word("movielens_32m_user_profile"))
  \cup Entry({"elasticsearch.username"}, "string", Word("elastic"))
  \cup Entry({"elasticsearch.password_env"}, "string", Word("ES_PASSWORD"))
  \cup Entry({EsTimeout}, "int", Num(100))
  \cup Entry({"elasticsearch.http_client.curl_handle_pool.pool_size"}, "int", Num(4))
  \cup Entry({EsAcquireTimeout, EsHttpTimeout}, "int", Num(30))
  \cup Entry({EsConnectTimeout}, "int", Num(20))
  \cup Entry(RetryAttemptKeys, "int", Num(3))
  \cup Entry(RetryDelayKeys, "int", Num(0))
  \cup Entry({"elasticsearch.http_client.follow_redirects",
               "elasticsearch.http_client.verify_ssl"}, "bool", Word("true"))

RedisEntries ==
  Entry({"redis.host"}, "string", Word("localhost"))
  \cup Entry({"redis.port"}, "uint16", Num(6379))
  \cup Entry({"redis.key_prefix"}, "string", Word("rec:item_cf:v1:neighbors"))
  \cup Entry({"redis.username", "redis.password"}, "string", Empty)
  \cup Entry({"redis.password_env"}, "string", Word("REDIS_PASSWORD"))
  \cup Entry({"redis.db"}, "int", Num(0))
  \cup Entry({"redis.connect_timeout_ms", "redis.socket_timeout_ms"}, "int", Num(100))
  \cup Entry({"redis.pool_size"}, "int", Num(4))
  \cup Entry({"redis.pool_wait_timeout_ms"}, "int", Num(50))
  \cup Entry({"redis.retry.max_attempts"}, "int", Num(2))
  \cup Entry({"redis.retry.delay_ms"}, "int", Num(10))
  \cup Entry({"redis.command_batch_size"}, "int", Num(8))

ConfigTable ==
  ServerEntries \cup RetrievalEntries \cup StoreEntries \cup ElasticsearchEntries
  \cup RedisEntries

Key == {e.key : e \in ConfigTable}

ConfigEntries == [k \in Key |-> CHOOSE e \in ConfigTable : e.key = k]

-----------------------------------------------------------------------------
\* What a text means as a value of a type; a text without meaning throws.
IsInt(t) == t.kind = "num"

MaxUint16 == 65535
IsUint16(t) == IsInt(t) /\ t.n \in 0 .. MaxUint16

IsTrue(t) == t \in {Num(1)} \cup {Word(w) : w \in {"true", "yes", "on"}}
IsFalse(t) == t \in {Num(0)} \cup {Word(w) : w \in {"false", "no", "off"}}

IsDouble(t) == t.kind \in {"num", "frac"}
DoubleOf(t) == IF t.kind = "num" THEN t.n * 10000000 ELSE t.n

Means(type, t) ==
  CASE type = "string" -> TRUE
    [] type = "int" -> IsInt(t)
    [] type = "uint16" -> IsUint16(t)
    [] type = "double" -> IsDouble(t)
    [] type = "bool" -> IsTrue(t) \/ IsFalse(t)

(***************************************************************************)
(* Every value is stored as the text of its value.  std::to_string keeps   *)
(* six decimals of a double, whatever the text had.                        *)
(***************************************************************************)
CanonicalizeValue(type, t) ==
  CASE type = "double" -> Frac(((DoubleOf(t) + 5) \div 10) * 10)
    [] type = "bool" -> Word(IF IsTrue(t) THEN "true" ELSE "false")
    [] OTHER -> t

Defaults ==
  [k \in Key |-> CanonicalizeValue(ConfigEntries[k].type, ConfigEntries[k].default)]

CanSet(key, t) == Means(ConfigEntries[key].type, t)

Set(values, key, t) ==
  [values EXCEPT ![key] = CanonicalizeValue(ConfigEntries[key].type, t)]

-----------------------------------------------------------------------------
\* What each getter asks of the value it returns, by section of the file.
Reads(keys, rule) == [k \in keys |-> rule]

AddressGetters ==
  Reads({"profile_service.port", "retrieval_service.port", "ranking_service.port",
         "retriever_item_cf.port", "retriever_user_cf.port"}, "uint16")
  @@ Reads(ServiceHosts, "any")

RetrievalGetters ==
  Reads(Multipliers, "positive double")
  @@ Reads({"retriever.max_trigger_seed_count",
            "retriever_user_cf.trigger_seed_user_count"}, "positive")

StoreGetters ==
  Reads({"profile_store.type", "profile_store.data_path", "item_index_store.type",
         "item_index_store.data_path", "ranking.rankers", "ranking.default_ranker",
         "similarity_store.type", "similarity_store.data_path"}, "any")

CacheGetters == Reads({"local_cache.capacity", "local_cache.ttl_seconds"}, "any")

ElasticsearchGetters ==
  Reads({EsTimeout, EsAcquireTimeout, EsHttpTimeout, EsConnectTimeout,
         "elasticsearch.http_client.curl_handle_pool.pool_size"}
        \cup RetryAttemptKeys, "positive")
  @@ Reads(RetryDelayKeys, "not negative")
  @@ Reads({"elasticsearch.http_client.follow_redirects",
            "elasticsearch.http_client.verify_ssl"}, "bool")
  @@ Reads({"elasticsearch.base_url", "elasticsearch.index", "elasticsearch.username",
            "elasticsearch.password", "elasticsearch.password_env",
            "elasticsearch.http_client.ca_cert_path"}, "any")

RedisGetters ==
  Reads({"redis.pool_size", "redis.retry.max_attempts", "redis.command_batch_size"},
        "positive")
  @@ Reads({"redis.db", "redis.connect_timeout_ms", "redis.socket_timeout_ms",
            "redis.pool_wait_timeout_ms", "redis.retry.delay_ms"}, "not negative")
  @@ Reads({"redis.port"}, "uint16")
  @@ Reads({"redis.host", "redis.key_prefix", "redis.username", "redis.password",
            "redis.password_env"}, "any")

\* The getter for t returns.
Accepts(rule, t) ==
  CASE rule = "any" -> TRUE
    [] rule = "uint16" -> IsUint16(t)
    [] rule = "bool" -> IsTrue(t) \/ IsFalse(t)
    [] rule = "not negative" -> IsInt(t) /\ t.n >= 0
    [] rule = "positive" -> IsInt(t) /\ t.n > 0
    [] rule = "positive double" -> IsDouble(t) /\ DoubleOf(t) > 0

Readable(values, getters) ==
  \A k \in DOMAIN getters : Accepts(getters[k], values[k])

ListenAddressReadable(values) == IsUint16(values["server.port"])

\* The parts of a text that is not a list of words name nothing there is.
SplitCommaSeparatedValues(t) == IF t.kind = "words" THEN t.words ELSE <<t.kind>>

RankingRankers(values) == SplitCommaSeparatedValues(values["ranking.rankers"])

-----------------------------------------------------------------------------
(***************************************************************************)
(* A YAML document is its root ("map", or what cannot be converted) and    *)
(* its leaves in the order of the map they are collected in: the key, the  *)
(* position in the array "ranking.rankers" (or NoIndex), and the text, or  *)
(* NoText for null.                                                        *)
(***************************************************************************)
NoIndex == -1
Leaf(key, t) == [key |-> key, index |-> NoIndex, text |-> t]
RankerLeaf(i, t) == [key |-> "ranking.rankers", index |-> i, text |-> t]

\* The positions of the leaves that are collected.
FlattenYamlNode(leaves) == {i \in DOMAIN leaves : leaves[i].text # NoText}

Settings(leaves) == {i \in FlattenYamlNode(leaves) : leaves[i].index = NoIndex}
Rankers(leaves) == {i \in FlattenYamlNode(leaves) : leaves[i].index # NoIndex}

\* The texts of the leaves at the positions that are listed, as one text.
Joined(leaves, positions) ==
  Words(FlattenSeq([n \in DOMAIN positions |->
          SplitCommaSeparatedValues(leaves[positions[n]].text)]))

\* Mutant of RankerArray: in the order of the map, which is that of the keys as text.
RankerArrayAsCollected(leaves) ==
  Joined(leaves, SetToSortSeq(Rankers(leaves), LAMBDA i, j : i < j))

\* The rankers of the array, in numeric order of their indices, as one text.
RankerArray(leaves) ==
  LET rankers == Rankers(leaves)
      before(i) == {j \in rankers : leaves[j].index < leaves[i].index}
  IN Joined(leaves, [n \in 1 .. Cardinality(rankers) |->
                       CHOOSE i \in rankers : Cardinality(before(i)) = n - 1])

-----------------------------------------------------------------------------
(***************************************************************************)
(* One element of argv: the name after "--" (a key, "" for an argument     *)
(* that does not start with "--", or an unknown name), whether the name    *)
(* follows "no", the text after "=" (or NoText), and the text of the whole *)
(* element for when it is consumed as a value.                             *)
(***************************************************************************)
Token(name, negated, value, whole) ==
  [name |-> name, negated |-> negated, value |-> value, whole |-> whole]

Option(key) == Token(key, FALSE, NoText, Word("--option"))
OptionIs(key, t) == Token(key, FALSE, t, Word("--option=value"))
NoOption(key) == Token(key, TRUE, NoText, Word("--nooption"))
Plain(t) == Token("", FALSE, NoText, t)
DashDash == Token("--", FALSE, NoText, Word("--"))

\* The negated form is only recognised for a boolean, and without a value.
Negates(a) ==
  a.negated /\ a.name \in Key /\ ConfigEntries[a.name].type = "bool" /\ a.value = NoText

Known(a) == a.name \in Key /\ (a.negated => Negates(a))

NextConsumed(a) ==
  ~a.negated /\ a.value = NoText /\ ConfigEntries[a.name].type # "bool"

\* The text that the option at position i of argv sets; there is one after it.
ReadArgumentValue(argv, i) ==
  LET a == argv[i] IN
  CASE a.negated -> Word("false")
    [] ~a.negated /\ a.value # NoText -> a.value
    [] ~a.negated /\ a.value = NoText ->
         IF NextConsumed(a) THEN argv[i + 1].whole ELSE Word("true")

(***************************************************************************)
(* The first element that looks like the option of the path, wherever it   *)
(* stands: this scan knows neither "--" nor which elements are the values  *)
(* of other options.  0 if there is none.                                  *)
(***************************************************************************)
StartupConfigToken(argv) ==
  SelectInSeq(argv, LAMBDA a : a.name = "config.path" /\ ~a.negated)

At(root, path) == Text("path", 0, <<root>> \o path.words)

ResolveStartupConfigPath(path, from_command_line, disk) ==
  IF path = Empty \/ path.kind = "path" THEN path
  ELSE IF \/ from_command_line
          \/ At("exe", path) \in DOMAIN disk
          \/ At("cwd", path) \notin DOMAIN disk
       THEN At("exe", path)
       ELSE At("cwd", path)
=============================================================================
