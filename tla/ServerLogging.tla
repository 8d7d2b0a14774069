---------------------------- MODULE ServerLogging ----------------------------
(***************************************************************************)
(* utilities/logger: the registry of loggers, and the interceptor that     *)
(* logs every call of a server.                                            *)
(*                                                                         *)
(* A logger handed out by the registry is a reference without ownership.   *)
(* Loggers are records here; "serial" tells apart two objects that were    *)
(* registered under one name, so that a reference is alive exactly when    *)
(* the registry still holds the very record.                               *)
(*                                                                         *)
(* The hooks of one call run in its handler thread.  RECV_CLOSE is the     *)
(* exception that matters: gRPC delivers it inside any IsCancelled() of a  *)
(* cancelled call, be it the handler that asks, or LogCompletion itself.   *)
(***************************************************************************)
EXTENDS Integers, Sequences

CONSTANTS
  Call,       \* the calls a server receives
  TraceId,    \* the trace ids a request may have
  NoTraceId   \* a request without one

VARIABLES
  registry,      \* LoggerMap: the registered loggers by name
  default_name,  \* LoggerRegistry::default_logger_name
  factory,       \* what ServerLoggingInterceptorFactory copied of the logger
  rpc            \* rpc[c]: the interceptor of call c, and the call itself

logging == <<registry, default_name, factory, rpc>>

Level == {"debug", "info", "warning", "error"}
Rank == [debug |-> 0, info |-> 1, warning |-> 2, error |-> 3]
ShouldLog(level, min_level) == Rank[level] >= Rank[min_level]

-----------------------------------------------------------------------------
\* The registry.  Every operation holds the mutex from its first to its last step.
Logger(name, level, serial) == [name |-> name, level |-> level, serial |-> serial]
BlankLogger == Logger("blank_logger", "info", 0)
NoLogger == Logger("", "info", 0)

GetLogger(name) ==
  LET resolved == IF name = "" THEN default_name ELSE name IN
  IF resolved \in DOMAIN registry \ {"blank_logger"} THEN registry[resolved]
  ELSE BlankLogger

Registered(logger) ==
  [name \in {logger.name} \cup DOMAIN registry |->
     IF name = logger.name THEN logger ELSE registry[name]]

\* Mutant of RegistryAfterGet: a logger is made without looking for the old one.
RegistryAfterGetMaking(name) ==
  LET old == GetLogger(name) IN
  Registered([old EXCEPT !.serial = @ + 1])

\* Get adds the blank logger the first time it is what it returns.
RegistryAfterGet(name) ==
  IF GetLogger(name) = BlankLogger THEN Registered(BlankLogger)
  ELSE registry

\* The first name set stays.
DefaultNameAfterSet(name, registered) ==
  IF default_name = "" /\ name \in DOMAIN registered THEN name ELSE default_name

-----------------------------------------------------------------------------
\* The interceptor.
RpcStatus == {"none", "OK", "FAILED", "CANCELLED"}

LogLine(event, severity, r, status) ==
  [event |-> event, severity |-> severity, trace_id |-> r.trace_id, status |-> status]

NewRpc ==
  [phase |-> "none", type |-> "unary", sent_id |-> NoTraceId, trace_id |-> NoTraceId,
   min_level |-> "info", logger |-> NoLogger, status |-> "none", cancelled |-> FALSE,
   closed |-> FALSE, completion_logged |-> FALSE, lines |-> <<>>]

Write(r, line) ==
  IF ShouldLog(line.severity, r.min_level) THEN [r EXCEPT !.lines = Append(@, line)]
  ELSE r

LogPayloadEvent(event, r) == Write(r, LogLine(event, "debug", r, "none"))

CompletionLine(r, status) ==
  LogLine("call_completed", IF status = "OK" THEN "info" ELSE "error", r, status)

\* Mutant of LogCompletion: the flag is set after the line is written.
LogCompletionFlagLast(r, status) ==
  LET line == CompletionLine(r, status)
      nested == IF r.cancelled /\ ~r.closed THEN Write(r, CompletionLine(r, "CANCELLED")) ELSE r
  IN
  IF r.completion_logged THEN r
  ELSE [Write(nested, line) EXCEPT !.completion_logged = TRUE, !.closed = @ \/ r.cancelled]

\* The flag comes first: a line that is written asks IsCancelled, and what
\* that delivers to a cancelled call (RecvClose) comes back here.
LogCompletion(r, status) ==
  LET flagged == [r EXCEPT !.completion_logged = TRUE]
      line == CompletionLine(r, status) IN
  IF r.completion_logged THEN r
  ELSE IF ShouldLog(line.severity, r.min_level)
       THEN [Write(flagged, line) EXCEPT !.closed = @ \/ r.cancelled]
       ELSE flagged

\* Hook POST_RECV_CLOSE; a call that is cancelled before its status has no other one.
RecvClose(r) ==
  IF r.closed THEN r
  ELSE LogCompletion([r EXCEPT !.closed = TRUE],
                     IF r.cancelled THEN "CANCELLED" ELSE "FAILED")

\* Context::IsCancelled.
AskIsCancelled(r) == IF r.cancelled THEN RecvClose(r) ELSE r

(***************************************************************************)
(* A call arrives; its interceptor is made by the factory.  A request that *)
(* cannot be decoded reaches the interceptor as null, and no handler.  Of  *)
(* a streaming call no message is logged, nor are its ids known.  Handlers *)
(* begin with LoggerRegistry::Get().                                       *)
(***************************************************************************)
Receive(c, type, decodes, id) ==
  LET r == [NewRpc EXCEPT !.type = type, !.sent_id = id, !.min_level = factory.level] IN
  /\ rpc[c].phase = "none"
  /\ \/ /\ type = "unary" /\ decodes
        /\ rpc' = [rpc EXCEPT ![c] =
             LogPayloadEvent("request_received",
               [r EXCEPT !.phase = "handler", !.trace_id = id, !.logger = GetLogger("")])]
        /\ registry' = RegistryAfterGet("")
     \/ /\ type = "unary" /\ ~decodes
        /\ rpc' = [rpc EXCEPT ![c] = [r EXCEPT !.phase = "status", !.status = "FAILED"]]
        /\ UNCHANGED registry
     \/ /\ type = "streaming"
        /\ rpc' = [rpc EXCEPT ![c] = [r EXCEPT !.phase = "handler"]]
        /\ UNCHANGED registry
  /\ UNCHANGED <<default_name, factory>>

\* The client cancels, or its deadline passes, or its connection breaks.
Cancel(c) ==
  /\ rpc[c].phase \in {"handler", "status", "sent"}
  /\ ~rpc[c].cancelled
  /\ rpc' = [rpc EXCEPT ![c].cancelled = TRUE]
  /\ UNCHANGED <<registry, default_name, factory>>

\* A handler asks with CheckGrpcServerDeadline and gives up a cancelled call.
CheckDeadline(c) ==
  /\ rpc[c].phase = "handler"
  /\ rpc[c].cancelled
  /\ rpc' = [rpc EXCEPT ![c] =
       [AskIsCancelled(rpc[c]) EXCEPT !.phase = "status", !.status = "CANCELLED"]]
  /\ UNCHANGED <<registry, default_name, factory>>

\* The handler returns its status; an exception becomes one that is not OK.
HandlerReturns(c, status) ==
  /\ rpc[c].phase = "handler"
  /\ rpc' = [rpc EXCEPT ![c].phase = "status", ![c].status = status]
  /\ UNCHANGED <<registry, default_name, factory>>

\* Hooks PRE_SEND_MESSAGE (there is a response only with OK) and PRE_SEND_STATUS.
SendStatus(c) ==
  LET r == rpc[c]
      replied == IF r.status = "OK" /\ r.type = "unary"
                 THEN LogPayloadEvent("response_sent", r) ELSE r IN
  /\ r.phase = "status"
  /\ rpc' = [rpc EXCEPT ![c] =
       [LogCompletion(replied, r.status) EXCEPT !.phase = "sent"]]
  /\ UNCHANGED <<registry, default_name, factory>>

\* Mutant of CallEnds: the call waits for a hook that it had already.
CallEndsOnClose(c) ==
  /\ rpc[c].phase = "sent" /\ ~rpc[c].closed
  /\ rpc' = [rpc EXCEPT ![c] = [RecvClose(rpc[c]) EXCEPT !.phase = "done"]]
  /\ UNCHANGED <<registry, default_name, factory>>

\* The call is over: hook POST_RECV_CLOSE, unless it came before.
CallEnds(c) ==
  /\ rpc[c].phase = "sent"
  /\ rpc' = [rpc EXCEPT ![c] = [RecvClose(rpc[c]) EXCEPT !.phase = "done"]]
  /\ UNCHANGED <<registry, default_name, factory>>

HandleCall(c) ==
  \/ CheckDeadline(c)
  \/ \E status \in {"OK", "FAILED"} : HandlerReturns(c, status)
  \/ SendStatus(c)
  \/ CallEnds(c)

LoggingInit ==
  /\ registry = <<>>
  /\ default_name = ""
  /\ factory = NoLogger
  /\ rpc = [c \in Call |-> NewRpc]
=============================================================================
