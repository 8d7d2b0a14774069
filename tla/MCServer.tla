------------------------------ MODULE MCServer ------------------------------
(***************************************************************************)
(* Every service is started with arguments and files of every kind; calls  *)
(* arrive at a server of each level.                                       *)
(***************************************************************************)
EXTENDS Server

CONSTANTS c1, c2, id1

MCCall == {c1, c2}
MCTraceId == {id1}

YamlFile(root, ls) ==
  [yaml |-> [root |-> root, leaves |-> ls], data |-> Jsonl(<<Line("bad")>>)]
Yaml(ls) == YamlFile("map", ls)
Data(f) == [yaml |-> [root |-> "scalar", leaves |-> <<>>], data |-> f]
LevelIs(w) == OptionIs("server.log_level", Word(w))
AbsFile == Path("etc", "c.yaml")

Arguments == {
  <<>>,
  <<LevelIs("DEBUG"), LevelIs("ERROR")>>,
  <<LevelIs("LOUD")>>,
  <<Option("server.log_level"), Plain(Word("WARN"))>>,
  <<Option("server.log_level")>>,
  <<Option("config.path")>>,
  <<Option("config.path"), Plain(AbsFile)>>,
  <<OptionIs("config.path", Word("c.yaml")), OptionIs("config.path", AbsFile)>>,
  <<Plain(Word("c.yaml"))>>,
  <<DashDash, OptionIs("config.path", AbsFile), Plain(Word("x"))>>,
  <<Option("server.host"), OptionIs("config.path", AbsFile), LevelIs("INFO")>>,
  <<Option("server.host"), DashDash, LevelIs("INFO"), DashDash, LevelIs("WARN")>>,
  <<NoOption("elasticsearch.http_client.verify_ssl"),
    Option("elasticsearch.http_client.follow_redirects")>>,
  <<Token("elasticsearch.http_client.verify_ssl", TRUE, Word("true"), Word("-"))>>,
  <<Option("no_such_option")>>,
  <<OptionIs("server.port", Num(65536))>>,
  <<OptionIs("redis.port", Num(0))>>,
  <<OptionIs("retriever_item_cf.score_multiplier", Frac(4)),
    OptionIs("retriever_user_cf.score_multiplier", Frac(6)),
    OptionIs("retrieval.recall_candidate_expand_ratio", Frac(-10))>>,
  <<OptionIs("ranking.rankers", Words(<<"heuristic_v1", "heuristic_v1">>))>>,
  <<OptionIs(EsTimeout, Num(59)), OptionIs("local_cache.capacity", Num(1))>>,
  <<OptionIs("local_cache.capacity", Word("many"))>>}

Elastic ==
  <<Leaf("elasticsearch.base_url", Word("http")),
    Leaf("item_index_store.type", Word("elasticsearch")),
    Leaf("local_cache.ttl_seconds", NoText),
    Leaf("profile_store.type", Word("elasticsearch")),
    Leaf("ranking.rankers", Word("ignored")),
    RankerLeaf(10, Empty), RankerLeaf(3, Word("heuristic_v1"))>>

LocalSimilarity ==
  <<Leaf("config.path", Word("another.yaml")),
    Leaf("server.log_level", Word("WARNING")),
    Leaf("similarity_store.data_path", Word("similar")),
    Leaf("similarity_store.type", Word("local"))>>

TwoRankers ==
  <<RankerLeaf(1, Word("a")), RankerLeaf(10, Word("b")), RankerLeaf(2, Word("heuristic_v1"))>>

Exe(name) == At("exe", Word(name))
Cwd(name) == At("cwd", Word(name))

Lines == {<<Row(1, 1), Line("empty"), Row(2, 1), Row(1, 2)>>,
          <<Row(1, 1), Line("blank")>>, <<Row(1, 1), Line("bad"), Row(2, 1)>>,
          <<Row(0, 1)>>, <<>>}

DataFiles ==
  {Jsonl(lines) : lines \in Lines} \cup {JsonArray(<<Row(1, 1), Row(1, 2)>>)}

DataOn(f) ==
  [path \in {Cwd("profiles.jsonl"), Cwd("item_index.jsonl"), Cwd("similar")} |-> Data(f)]

OneFile == DataOn(Jsonl(<<Row(1, 1)>>))

Configurations == {
  <<>>,
  Exe("config.debug.yaml") :> Yaml(LocalSimilarity) @@ Cwd("config.debug.yaml") :> Yaml(Elastic),
  Cwd("config.debug.yaml") :> Yaml(Elastic) @@ Exe("c.yaml") :> Yaml(LocalSimilarity),
  Exe("config.debug.yaml") :> YamlFile("scalar", <<>>),
  Exe("config.debug.yaml") :> Yaml(<<Leaf("server.host.0", Word("x"))>>),
  Exe("config.debug.yaml") :> Yaml(<<Leaf("redis.db", Word("x"))>>),
  AbsFile :> Yaml(TwoRankers) @@ Exe("c.yaml") :> Yaml(<<>>)}

StartOf(service, argv, disk, calls) ==
  [service |-> service, argv |-> argv, disk |-> disk, calls |-> calls]

\* Every service with every configuration, with every data file, and with calls.
MCStart ==
  {StartOf(s, argv, conf @@ OneFile, {}) :
     s \in Services, argv \in Arguments, conf \in Configurations}
  \cup {StartOf(s, <<>>, Exe("config.debug.yaml") :> Yaml(LocalSimilarity) @@ DataOn(f), {}) :
          s \in Services, f \in DataFiles}
  \cup {StartOf("gateway", <<LevelIs(w)>>, <<>>, MCCall) : w \in {"DEBUG", "INFO", "ERROR"}}

\* The start of README.md, with the file where README.md has it.
MCReadmeStart ==
  {StartOf(s, <<OptionIs("config.path", Word("src/config.debug.yaml"))>>,
           Cwd("src/config.debug.yaml") :> Yaml(LocalSimilarity) @@ OneFile, {}) :
     s \in Services}
=============================================================================
