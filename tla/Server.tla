------------------------------- MODULE Server -------------------------------
(***************************************************************************)
(* utilities/grpc_service_runner: a service from its command line to its   *)
(* last call.  RunGrpcService applies the configuration file and then the  *)
(* arguments, one setting after the other, registers the logger, creates   *)
(* the service and serves; any exception ends the process with one line    *)
(* in the log.  Defaults, files and arguments are those of GlobalConfig,   *)
(* the services those of ServiceFactory, the logging that of ServerLogging.*)
(***************************************************************************)
EXTENDS ServiceFactory, ServerLogging

CONSTANT Start   \* ways to start: [service, argv, disk], and the calls that follow

IsList(s) == Len(s) \in Nat /\ DOMAIN s = 1 .. Len(s)

\* A YAML map has a key once, and an array an element at an index.
IsDocument(ls) ==
  /\ IsList(ls)
  /\ \A i, j \in Settings(ls) : ls[i].key = ls[j].key => i = j
  /\ \A i \in Rankers(ls) : ls[i].index \in Nat
  /\ \A i, j \in Rankers(ls) : ls[i].index = ls[j].index => i = j

\* kServiceName of the programs that run a service.
Services == {"profile", "ranking", "retrieval_orchestrator", "retriever_item_cf",
             "retriever_user_cf", "gateway", "fetcher"}

(***************************************************************************)
(* A file is [yaml, data]: the document that a YAML reader makes of it,    *)
(* and the lines that a data file has.                                     *)
(***************************************************************************)
ASSUME StartAssumption ==
  \A s \in Start :
    /\ s.service \in Services
    /\ IsList(s.argv)
    /\ NoText \notin DOMAIN s.disk
    /\ \A path \in DOMAIN s.disk :
         IsDocument(s.disk[path].yaml.leaves) /\ IsList(s.disk[path].data.lines)

VARIABLES
  start,    \* how this process was started
  pc,       \* where RunGrpcService is
  values,   \* GlobalConfig::values_
  applied,  \* the path of the file that was applied, or NoText
  leaves,   \* the entries of the file
  next,     \* the entry of the file, or the element of argv, that is next
  created,  \* the service that was created
  failure   \* why the process failed, and the logger that was told

config == <<start, values, applied, leaves, next, created, failure>>
vars == <<start, pc, values, applied, leaves, next, created, failure, logging>>

Argv == start.argv
Disk == start.disk
NoFailure == [why |-> "", logger |-> NoLogger]

\* An exception: it is logged by the registered logger, or by the blank one.
Fail(why) ==
  /\ pc' = "failed"
  /\ failure' = [why |-> why, logger |-> GetLogger("")]
  /\ registry' = RegistryAfterGet("")
  /\ UNCHANGED <<start, values, applied, leaves, next, created, default_name,
                 factory, rpc>>

Goto(label) ==
  /\ pc' = label
  /\ UNCHANGED <<start, created, failure, logging>>

-----------------------------------------------------------------------------
StartupPathMissing ==
  LET i == StartupConfigToken(Argv) IN
  i # 0 /\ Argv[i].value = NoText /\ i = Len(Argv)

FromCommandLine == StartupConfigToken(Argv) # 0

\* FindStartupConfigPath: the text after the option, whatever it is.
FindStartupConfigPath ==
  LET i == StartupConfigToken(Argv) IN
  CASE i = 0 -> values["config.path"]
    [] i # 0 /\ Argv[i].value # NoText -> Argv[i].value
    [] OTHER -> Argv[i + 1].whole

\* Initialize and ApplyStartupFile, up to the file's contents.
ApplyStartupFile ==
  /\ pc = "start"
  /\ \/ StartupPathMissing /\ Fail("config path missing")
     \/ /\ ~StartupPathMissing
        /\ LET path == ResolveStartupConfigPath(FindStartupConfigPath, FromCommandLine, Disk)
           IN
           \/ /\ path \notin DOMAIN Disk /\ ~FromCommandLine
              /\ next' = 1
              /\ Goto("arguments")
              /\ UNCHANGED <<values, applied, leaves>>
           \/ /\ path \notin DOMAIN Disk /\ FromCommandLine
              /\ Fail("config file not found")
           \/ /\ path \in DOMAIN Disk /\ Disk[path].yaml.root # "map"
              /\ Fail("config file not read")
           \/ /\ path \in DOMAIN Disk /\ Disk[path].yaml.root = "map"
              /\ leaves' = Disk[path].yaml.leaves
              /\ applied' = path
              /\ next' = 1
              /\ Goto("file")
              /\ UNCHANGED values

\* One iteration of the loop of ApplyFile; the rankers of an array are put aside.
ApplySetting ==
  LET leaf == leaves[next] IN
  /\ pc = "file"
  /\ next <= Len(leaves)
  /\ \/ /\ next \notin Settings(leaves)
        /\ next' = next + 1
        /\ Goto("file")
        /\ UNCHANGED <<values, applied, leaves>>
     \/ /\ next \in Settings(leaves)
        /\ leaf.key \in Key /\ CanSet(leaf.key, leaf.text)
        /\ values' = Set(values, leaf.key, leaf.text)
        /\ next' = next + 1
        /\ Goto("file")
        /\ UNCHANGED <<applied, leaves>>
     \/ /\ next \in Settings(leaves)
        /\ ~(leaf.key \in Key /\ CanSet(leaf.key, leaf.text))
        /\ Fail("bad setting")

ArrayApplied ==
  IF Rankers(leaves) = {} THEN values
  ELSE Set(values, "ranking.rankers", RankerArray(leaves))

\* Mutant of FinishFile: the path is left to the file and the default.
FinishFileKeepingPath ==
  /\ pc = "file"
  /\ next > Len(leaves)
  /\ values' = ArrayApplied
  /\ next' = 1
  /\ Goto("arguments")
  /\ UNCHANGED <<applied, leaves>>

\* The end of ApplyFile and of ApplyStartupFile.
FinishFile ==
  /\ pc = "file"
  /\ next > Len(leaves)
  /\ values' = Set(ArrayApplied, "config.path", applied)
  /\ next' = 1
  /\ Goto("arguments")
  /\ UNCHANGED <<applied, leaves>>

(***************************************************************************)
(* One iteration of the loop of ConfigArguments::Apply.  The option of the *)
(* path is skipped with its value: it has done its work.                   *)
(***************************************************************************)
ApplyArgument ==
  LET a == Argv[next]
      text == ReadArgumentValue(Argv, next)
      path == a.name = "config.path" IN
  /\ pc = "arguments"
  /\ next <= Len(Argv)
  /\ \/ a.name = "--" /\ next' = Len(Argv) + 1 /\ Goto("arguments")
                      /\ UNCHANGED <<values, applied, leaves>>
     \/ a.name = "" /\ Fail("positional argument")
     \/ a.name \notin {"--", ""} /\ ~Known(a) /\ Fail("unknown argument")
     \/ /\ Known(a) /\ NextConsumed(a) /\ next = Len(Argv)
        /\ Fail("argument without value")
     \/ /\ Known(a) /\ (NextConsumed(a) => next < Len(Argv))
        /\ \/ /\ path \/ CanSet(a.name, text)
              /\ values' = IF path THEN values ELSE Set(values, a.name, text)
              /\ next' = next + IF NextConsumed(a) THEN 2 ELSE 1
              /\ Goto("arguments")
              /\ UNCHANGED <<applied, leaves>>
           \/ ~path /\ ~CanSet(a.name, text) /\ Fail("bad argument")

FinishArguments ==
  /\ pc = "arguments"
  /\ next > Len(Argv)
  /\ Goto("logger")
  /\ UNCHANGED <<values, applied, leaves, next>>

-----------------------------------------------------------------------------
\* ParseLogLevel; the spellings in lower case and capitalised are left out.
LevelOf(t) ==
  CASE t = Word("DEBUG") -> "debug"
    [] t = Word("INFO") -> "info"
    [] t \in {Word("WARNING"), Word("WARN")} -> "warning"
    [] t = Word("ERROR") -> "error"
    [] OTHER -> "unsupported"

\* Mutant of ServiceLogger: it is made before the configuration is applied.
ServiceLoggerByDefault ==
  Logger(start.service, LevelOf(Defaults["server.log_level"]), 1)

ServiceLogger == Logger(start.service, LevelOf(values["server.log_level"]), 1)

RegisterLogger ==
  /\ pc = "logger"
  /\ \/ /\ ServiceLogger.level \notin Level
        /\ Fail("unsupported log level")
     \/ /\ ServiceLogger.level \in Level
        /\ registry' = Registered(ServiceLogger)
        /\ default_name' = DefaultNameAfterSet(start.service, Registered(ServiceLogger))
        /\ pc' = "create"
        /\ UNCHANGED <<config, factory, rpc>>

\* GetListenAddress and Create; the interceptors get a copy of the logger's level.
CreateService ==
  LET made == CreateGrpcServer(start.service, values, Disk) IN
  /\ pc = "create"
  /\ \/ /\ ~ListenAddressReadable(values) \/ ~made.ok
        /\ Fail("service not created")
     \/ /\ ListenAddressReadable(values) /\ made.ok
        /\ created' = made
        /\ factory' = GetLogger("")
        /\ pc' = "build"
        /\ UNCHANGED <<start, values, applied, leaves, next, failure, registry,
                       default_name, rpc>>

\* BuildAndStart fails, for instance, when the port is taken.
BuildAndStart ==
  /\ pc = "build"
  /\ \/ Fail("server not started")
     \/ /\ pc' = "serving"
        /\ UNCHANGED <<config, logging>>

Run ==
  \/ ApplyStartupFile \/ ApplySetting \/ FinishFile \/ ApplyArgument
  \/ FinishArguments \/ RegisterLogger \/ CreateService \/ BuildAndStart

ServeCall(c) ==
  /\ pc = "serving"
  /\ HandleCall(c)
  /\ UNCHANGED <<pc, config>>

ClientActs(c) ==
  /\ pc = "serving"
  /\ c \in start.calls
  /\ \/ \E type \in {"unary", "streaming"}, decodes \in BOOLEAN,
          id \in TraceId \cup {NoTraceId} : Receive(c, type, decodes, id)
     \/ Cancel(c)
  /\ UNCHANGED <<pc, config>>

Init ==
  /\ start \in Start
  /\ pc = "start"
  /\ values = Defaults
  /\ applied = NoText
  /\ leaves = <<>>
  /\ next = 1
  /\ created = Refused
  /\ failure = NoFailure
  /\ LoggingInit

Next ==
  \/ Run
  \/ \E c \in Call : ServeCall(c) \/ ClientActs(c)

Spec == Init /\ [][Next]_vars

\* The process runs, and every handler returns in the end.
FairSpec == Spec /\ WF_vars(Run) /\ \A c \in Call : WF_vars(ServeCall(c))
-----------------------------------------------------------------------------
\* What the arguments say, without going through them in order: an element is
\* an option if an even number of elements that take a value run up to it.
Consumes(a) == a.name \in Key /\ NextConsumed(a)

IsOption(i) ==
  LET run == {j \in 1 .. (i - 1) : \A n \in j .. (i - 1) : Consumes(Argv[n])}
  IN Cardinality(run) % 2 = 0

Settles(i, key) ==
  /\ IsOption(i) /\ Argv[i].name = key
  /\ \A j \in 1 .. i : IsOption(j) => Argv[j].name # "--"

FromArguments(key) == {i \in DOMAIN Argv : Settles(i, key)}

\* The rankers of the array one after the other, whatever way they are found.
InArrayOrder ==
  {order \in [1 .. Cardinality(Rankers(leaves)) -> Rankers(leaves)] :
     \A m, n \in DOMAIN order : m < n => leaves[order[m]].index < leaves[order[n]].index}

FromFile(key) ==
  IF key = "ranking.rankers" /\ Rankers(leaves) # {}
  THEN {Joined(leaves, order) : order \in InArrayOrder}
  ELSE {leaves[i].text : i \in {j \in Settings(leaves) : leaves[j].key = key}}

Says(key) ==
  LET canonical(t) == CanonicalizeValue(ConfigEntries[key].type, t)
      last == CHOOSE i \in FromArguments(key) : \A j \in FromArguments(key) : j <= i IN
  IF FromArguments(key) # {} THEN canonical(ReadArgumentValue(Argv, last))
  ELSE IF FromFile(key) # {} THEN canonical(CHOOSE t \in FromFile(key) : TRUE)
  ELSE Defaults[key]

Configured == pc \in {"logger", "create", "build", "serving"}

TypeOK ==
  /\ start \in Start
  /\ pc \in {"start", "file", "arguments", "logger", "create", "build", "serving",
             "failed"}
  /\ \A key \in Key : Means(ConfigEntries[key].type, values[key])
  /\ next \in Nat \ {0}
  /\ \A name \in DOMAIN registry :
       registry[name].name = name /\ registry[name].level \in Level
  /\ \A c \in Call : rpc[c].status \in RpcStatus /\ rpc[c].min_level \in Level

(***************************************************************************)
(* The configuration of a process that got through its arguments is, for   *)
(* every setting, what its last argument says, or else the file, or else   *)
(* the default (ApplyStartupFile before ConfigArguments::Apply, with the   *)
(* rankers of an array after the rest and in the order of the array).      *)
(***************************************************************************)
Precedence ==
  /\ TypeOK
  /\ Configured => \A key \in Key \ {"config.path"} : values[key] = Says(key)

(***************************************************************************)
(* "config.path", which the log reports, names the file that was read, in  *)
(* spite of what this file and later arguments say about it; and if the    *)
(* arguments have an option for it, a file was read.                       *)
(***************************************************************************)
ReportsTheFileItRead ==
  Configured =>
    /\ applied # NoText => values["config.path"] = applied /\ applied \in DOMAIN Disk
    /\ applied = NoText => values["config.path"] = Defaults["config.path"]
    /\ FromArguments("config.path") # {} => applied # NoText

(***************************************************************************)
(* A service that runs on a local file has all of it: every line of the    *)
(* file that has any character other than white space is there, unless a   *)
(* later line has its id, and nothing else is.  (Of a file that could be   *)
(* read to its end: a loader takes an error in the middle for the end.)    *)
(***************************************************************************)
DataFile ==
  LET key == CASE start.service = "profile" -> "profile_store.data_path"
               [] start.service = "ranking" -> "item_index_store.data_path"
               [] OTHER -> "similarity_store.data_path" IN
  Disk[ResolveWorkspaceRelativePath(values[key])].data

LoadedFilesAreWhole ==
  created.store.loaded =>
    LET lines == DataFile.lines
        rows == created.store.rows IN
    /\ \A i \in DOMAIN lines :
         lines[i].kind \notin {"empty", "blank"} =>
           \E j \in i .. Len(lines) :
             /\ lines[j].kind = "row" /\ lines[j].id = lines[i].id
             /\ lines[i].id \in DOMAIN rows
             /\ rows[lines[i].id] = lines[j].payload
             /\ \A n \in j + 1 .. Len(lines) :
                  lines[n].kind = "row" => lines[n].id # lines[i].id
    /\ \A id \in DOMAIN rows :
         \E i \in DOMAIN lines : lines[i].kind = "row" /\ lines[i].id = id

-----------------------------------------------------------------------------
Completions(r) == {i \in DOMAIN r.lines : r.lines[i].event = "call_completed"}

(***************************************************************************)
(* Every call that is over has one line about its end, its last one, with  *)
(* the status that was sent and the trace id of its own request, unless    *)
(* all went well and the level of the server is above info: a failure is   *)
(* visible at every level (LogCompletion, whatever hook comes first).      *)
(***************************************************************************)
CallsAreAccountedFor ==
  \A c \in Call :
    LET r == rpc[c]
        quiet == r.status = "OK" /\ ~ShouldLog("info", factory.level) IN
    r.phase = "done" =>
      /\ Completions(r) = IF quiet THEN {} ELSE {Len(r.lines)}
      /\ \A i \in DOMAIN r.lines : r.lines[i].trace_id = r.trace_id
      /\ ~quiet => r.lines[Len(r.lines)].status = r.status
      /\ r.type = "unary" /\ r.logger # NoLogger => r.trace_id = r.sent_id

(***************************************************************************)
(* The lines about calls keep to the level that the configuration names,   *)
(* though the interceptors only have a copy of it (SetMinLogLevel before   *)
(* CreateServerLoggingInterceptorCreators).                                *)
(***************************************************************************)
LevelIsConfigured ==
  \A c \in Call : \A i \in DOMAIN rpc[c].lines :
    ShouldLog(rpc[c].lines[i].severity, LevelOf(Says("server.log_level")))

(***************************************************************************)
(* The reference to a logger that a handler got from LoggerRegistry::Get   *)
(* stays alive as long as the handler runs, although Register would        *)
(* destroy the logger it replaces.                                         *)
(***************************************************************************)
LoggersStayAlive ==
  \A c \in Call : rpc[c].phase = "handler" /\ rpc[c].logger # NoLogger =>
    \E name \in DOMAIN registry : registry[name] = rpc[c].logger

(***************************************************************************)
(* A process comes to serve or fails, and every call it receives is over   *)
(* some day, also when it is cancelled.                                    *)
(***************************************************************************)
EveryCallEnds ==
  /\ <>(pc \in {"serving", "failed"})
  /\ \A c \in Call : (rpc[c].phase # "none") ~> (rpc[c].phase = "done")

(***************************************************************************)
(* README.md starts every service with a --config_path that is relative to *)
(* the workspace: the file is there, so the start should not miss it.      *)
(***************************************************************************)
FileOfTheReadmeIsFound ==
  ~(failure.why = "config file not found"
    /\ At("cwd", FindStartupConfigPath) \in DOMAIN Disk)
=============================================================================
