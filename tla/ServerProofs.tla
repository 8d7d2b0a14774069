---------------------------- MODULE ServerProofs ----------------------------
(***************************************************************************)
(* Proofs about Server for every way to start a process, every set of      *)
(* calls and all trace ids: loggers that were handed out stay alive, every *)
(* call that is over is accounted for in the log, at the level that is     *)
(* configured; arguments come before the file and the file before the      *)
(* defaults; and a service that runs on a local file has all of it.        *)
(***************************************************************************)
EXTENDS Server, DataInduction, TLAPS

\* Calls arrive when the server is up, which is the last thing that happens.
ServedWhenUp == pc # "serving" => \A c \in Call : rpc[c] = NewRpc

LevelsAreLevels ==
  /\ \A name \in DOMAIN registry : registry[name].level \in Level
  /\ factory.level \in Level

\* LoggersStayAlive, and that nobody holds what Get would replace.
HeldSafely(r) ==
  r.phase = "handler" /\ r.logger # NoLogger =>
    \E name \in DOMAIN registry :
      /\ registry[name] = r.logger
      /\ name = "blank_logger" => r.logger = BlankLogger

Fields == {"phase", "type", "sent_id", "trace_id", "min_level", "logger", "status",
           "cancelled", "closed", "completion_logged", "lines"}

Lines == [event : {"request_received", "response_sent", "call_completed"},
          severity : Level,
          trace_id : TraceId \cup {NoTraceId},
          status : RpcStatus]

CallShape(r) ==
  /\ DOMAIN r = Fields
  /\ r.phase \in {"none", "handler", "status", "sent", "done"}
  /\ r.trace_id \in TraceId \cup {NoTraceId}
  /\ r.min_level \in Level
  /\ r.status \in RpcStatus
  /\ r.cancelled \in BOOLEAN /\ r.closed \in BOOLEAN /\ r.completion_logged \in BOOLEAN
  /\ r.lines \in Seq(Lines)
  /\ \A i \in DOMAIN r.lines : r.lines[i].trace_id = r.trace_id
  /\ \A i \in DOMAIN r.lines : ShouldLog(r.lines[i].severity, r.min_level)

Quiet(status, r) == status = "OK" /\ ~ShouldLog("info", r.min_level)

\* The lines of a call whose end was, or was not yet, logged with a status.
LoggedAs(r, status) ==
  /\ Completions(r) = IF Quiet(status, r) THEN {} ELSE {Len(r.lines)}
  /\ ~Quiet(status, r) => r.lines[Len(r.lines)].status = status

\* Where the end of a call was logged, by its phase.
LoggedInPhase(r) ==
  /\ r.completion_logged => LoggedAs(r, r.status)
  /\ ~r.completion_logged => Completions(r) = {}
  /\ r.phase \in {"none", "handler"} => ~r.completion_logged /\ ~r.closed
  /\ r.phase = "status" /\ r.completion_logged => r.status = "CANCELLED"
  /\ r.phase \in {"sent", "done"} => r.completion_logged
  /\ r.phase \notin {"none", "handler"} => r.status # "none"
  /\ r.type = "unary" /\ r.logger # NoLogger => r.trace_id = r.sent_id

CallInv(r) == CallShape(r) /\ LoggedInPhase(r)

IInv ==
  /\ ServedWhenUp
  /\ LevelsAreLevels
  /\ DOMAIN rpc = Call
  /\ \A c \in Call : HeldSafely(rpc[c])
  /\ \A c \in Call : CallInv(rpc[c])
  /\ \A c \in Call : rpc[c].phase # "none" => rpc[c].min_level = factory.level

-----------------------------------------------------------------------------
(* The registry.                                                           *)

\* Get adds the blank logger at most, and what it returns is on the registry.
LEMMA GetIsSafe ==
  ASSUME registry' = RegistryAfterGet("")
  PROVE  /\ \A name \in DOMAIN registry :
              /\ name \in DOMAIN registry'
              /\ name # "blank_logger" => registry'[name] = registry[name]
              /\ name = "blank_logger" => registry'[name] \in {registry[name], BlankLogger}
         /\ \A name \in DOMAIN registry' :
              \/ registry'[name] = BlankLogger
              \/ name \in DOMAIN registry /\ registry'[name] = registry[name]
         /\ \E name \in DOMAIN registry' :
              /\ registry'[name] = GetLogger("")
              /\ name = "blank_logger" => GetLogger("") = BlankLogger
<1>1. CASE GetLogger("") = BlankLogger
  <2>1. registry' = Registered(BlankLogger) /\ BlankLogger.name = "blank_logger"
    BY <1>1 DEF RegistryAfterGet, BlankLogger, Logger
  <2>2. /\ DOMAIN registry' = {"blank_logger"} \cup DOMAIN registry
        /\ registry'["blank_logger"] = BlankLogger
        /\ \A name \in DOMAIN registry \ {"blank_logger"} : registry'[name] = registry[name]
    <3>1. registry' = [name \in {"blank_logger"} \cup DOMAIN registry |->
                         IF name = "blank_logger" THEN BlankLogger ELSE registry[name]]
      BY <2>1 DEF Registered
    <3>2. QED
      BY <3>1
  <2>3. QED
    BY <1>1, <2>2
<1>2. CASE GetLogger("") # BlankLogger
  <2>1. registry' = registry
    BY <1>2 DEF RegistryAfterGet
  <2>2. \E name \in DOMAIN registry : registry[name] = GetLogger("") /\ name # "blank_logger"
    BY <1>2 DEF GetLogger
  <2>3. QED
    BY <2>1, <2>2
<1>3. QED
  BY <1>1, <1>2

LEMMA GetKeepsLevels ==
  ASSUME LevelsAreLevels, registry' = RegistryAfterGet("")
  PROVE  \A name \in DOMAIN registry' : registry'[name].level \in Level
<1>1. BlankLogger.level \in Level
  BY DEF BlankLogger, Logger, Level
<1>2. QED
  BY <1>1, GetIsSafe DEF LevelsAreLevels

LEMMA LoggerHasLevel ==
  ASSUME LevelsAreLevels
  PROVE  GetLogger("").level \in Level
  BY DEF LevelsAreLevels, GetLogger, BlankLogger, Logger, Level

-----------------------------------------------------------------------------
(* The interceptor.                                                        *)

LEMMA Severities ==
  /\ \A level \in Level : ShouldLog("error", level) \in BOOLEAN /\ ShouldLog("error", level)
  /\ \A a, b \in Level : ShouldLog(a, b) \in BOOLEAN
  BY DEF ShouldLog, Rank, Level

\* A line that is not about the end of the call changes nothing about its end.
LEMMA WriteKeepsCompletions ==
  ASSUME NEW r, CallShape(r),
         NEW event \in {"request_received", "response_sent"}, Completions(r) = {}
  PROVE  LET w == LogPayloadEvent(event, r) IN
         /\ CallShape(w) /\ Completions(w) = {}
         /\ \A f \in Fields \ {"lines"} : w[f] = r[f]
<1> DEFINE line == LogLine(event, "debug", r, "none")
<1> DEFINE w == [r EXCEPT !.lines = Append(@, line)]
<1>1. CASE ~ShouldLog("debug", r.min_level)
  BY <1>1 DEF LogPayloadEvent, Write, LogLine
<1>2. CASE ShouldLog("debug", r.min_level)
  <2>1. LogPayloadEvent(event, r) = w
    BY <1>2 DEF LogPayloadEvent, Write, LogLine
  <2>2. line \in Lines /\ line.trace_id = r.trace_id /\ line.event # "call_completed"
    BY DEF CallShape, LogLine, Lines, Level, RpcStatus
  <2>3. /\ DOMAIN w = Fields /\ w.lines = Append(r.lines, line)
        /\ \A f \in Fields \ {"lines"} : w[f] = r[f]
    BY DEF CallShape, Fields
  <2>4. w.lines \in Seq(Lines) /\ Len(w.lines) = Len(r.lines) + 1
        /\ DOMAIN w.lines = 1 .. Len(r.lines) + 1
        /\ \A i \in 1 .. Len(r.lines) : w.lines[i] = r.lines[i]
        /\ w.lines[Len(r.lines) + 1] = line
    BY <2>2, <2>3 DEF CallShape
  <2>5. \A i \in DOMAIN w.lines : ShouldLog(w.lines[i].severity, w.min_level)
    <3>1. line.severity = "debug" /\ w.min_level = r.min_level
      BY <2>3 DEF LogLine, Fields
    <3>2. \A i \in 1 .. Len(r.lines) : ShouldLog(r.lines[i].severity, r.min_level)
      BY DEF CallShape
    <3>3. QED
      BY <1>2, <2>4, <3>1, <3>2
  <2>6. CallShape(w)
    BY <2>2, <2>3, <2>4, <2>5 DEF CallShape, Fields
  <2>7. Completions(w) = {}
    BY <2>2, <2>3, <2>4 DEF CallShape, Completions
  <2>8. QED
    BY <2>1, <2>3, <2>6, <2>7
<1>3. QED
  BY <1>1, <1>2, Severities

\* LogCompletion writes the one line about the end, if the level lets it.
LEMMA LogCompletionLogs ==
  ASSUME NEW r, NEW status \in {"OK", "FAILED", "CANCELLED"},
         CallShape(r), ~r.completion_logged, Completions(r) = {}
  PROVE  LET w == LogCompletion(r, status) IN
         /\ CallShape(w) /\ LoggedAs(w, status) /\ w.completion_logged
         /\ \A f \in Fields \ {"lines", "closed", "completion_logged"} : w[f] = r[f]
<1> DEFINE line == CompletionLine(r, status)
<1> DEFINE flagged == [r EXCEPT !.completion_logged = TRUE]
<1>0. /\ DOMAIN flagged = Fields /\ flagged.completion_logged = TRUE
      /\ \A f \in Fields \ {"completion_logged"} : flagged[f] = r[f]
  BY DEF CallShape, Fields
<1>1. /\ line \in Lines /\ line.trace_id = r.trace_id
      /\ line.event = "call_completed" /\ line.status = status
      /\ line.severity = IF status = "OK" THEN "info" ELSE "error"
  BY DEF CallShape, CompletionLine, LogLine, Lines, Level, RpcStatus
<1>2. ShouldLog(line.severity, r.min_level) <=> ~Quiet(status, r)
  BY <1>1, Severities DEF Quiet, CallShape
<1>3. CASE Quiet(status, r)
  <2>1. LogCompletion(r, status) = flagged
    BY <1>2, <1>3 DEF LogCompletion
  <2>2. CallShape(flagged)
    BY <1>0 DEF CallShape, Fields
  <2>3. LoggedAs(flagged, status)
    BY <1>0, <1>3 DEF LoggedAs, Quiet, Completions, Fields
  <2>4. QED
    BY <1>0, <2>1, <2>2, <2>3
<1>4. CASE ~Quiet(status, r)
  <2> DEFINE lines == Append(r.lines, line)
  <2> DEFINE w == [[flagged EXCEPT !.lines = Append(@, line)] EXCEPT !.closed = @ \/ r.cancelled]
  <2>1. LogCompletion(r, status) = w
    <3>1. ShouldLog(line.severity, flagged.min_level)
      BY <1>0, <1>2, <1>4 DEF Fields
    <3>2. QED
      BY <1>2, <1>4, <3>1 DEF LogCompletion, Write
  <2>2. /\ DOMAIN w = Fields /\ w.lines = lines /\ w.completion_logged = TRUE
        /\ w.closed = (r.closed \/ r.cancelled)
        /\ \A f \in Fields \ {"lines", "closed", "completion_logged"} : w[f] = r[f]
    BY <1>0 DEF Fields
  <2>3. lines \in Seq(Lines) /\ Len(lines) = Len(r.lines) + 1
        /\ DOMAIN lines = 1 .. Len(r.lines) + 1 /\ Len(r.lines) \in Nat
        /\ DOMAIN r.lines = 1 .. Len(r.lines)
        /\ \A i \in 1 .. Len(r.lines) : lines[i] = r.lines[i]
        /\ lines[Len(r.lines) + 1] = line
    BY <1>1 DEF CallShape
  <2>4. \A i \in DOMAIN w.lines : ShouldLog(w.lines[i].severity, w.min_level)
    <3>1. w.min_level = r.min_level
      BY <2>2 DEF Fields
    <3>2. \A i \in 1 .. Len(r.lines) : ShouldLog(r.lines[i].severity, r.min_level)
      BY <2>3 DEF CallShape
    <3>3. QED
      BY <1>2, <1>4, <2>2, <2>3, <3>1, <3>2
  <2>5. CallShape(w)
    BY <1>1, <2>2, <2>3, <2>4 DEF CallShape, Fields
  <2>6. Completions(w) = {Len(w.lines)} /\ w.lines[Len(w.lines)].status = status
    BY <1>1, <2>2, <2>3 DEF Completions
  <2>7. LoggedAs(w, status)
    BY <1>4, <2>2, <2>6 DEF LoggedAs, Quiet, Fields
  <2>8. QED
    BY <2>1, <2>2, <2>5, <2>7
<1>5. QED
  BY <1>3, <1>4

\* RECV_CLOSE of a call logs its end, unless that was logged.
LEMMA RecvCloseLogs ==
  ASSUME NEW r, CallInv(r), ~r.completion_logged, ~r.closed
  PROVE  LET w == RecvClose(r) IN
         /\ CallShape(w) /\ w.completion_logged
         /\ LoggedAs(w, IF r.cancelled THEN "CANCELLED" ELSE "FAILED")
         /\ \A f \in Fields \ {"lines", "closed", "completion_logged"} : w[f] = r[f]
<1> DEFINE closed == [r EXCEPT !.closed = TRUE]
<1>1. /\ DOMAIN closed = Fields
      /\ \A f \in Fields \ {"closed"} : closed[f] = r[f]
      /\ closed.closed = TRUE
  BY DEF CallInv, CallShape, Fields
<1>2. CallShape(closed) /\ ~closed.completion_logged /\ Completions(closed) = {}
  BY <1>1 DEF CallInv, CallShape, LoggedInPhase, Completions, Fields
<1>3. RecvClose(r) = LogCompletion(closed, IF r.cancelled THEN "CANCELLED" ELSE "FAILED")
  BY DEF RecvClose
<1>4. QED
  <2> DEFINE status == IF r.cancelled THEN "CANCELLED" ELSE "FAILED"
  <2>1. /\ CallShape(LogCompletion(closed, status))
        /\ LoggedAs(LogCompletion(closed, status), status)
        /\ LogCompletion(closed, status).completion_logged
        /\ \A f \in Fields \ {"lines", "closed", "completion_logged"} :
             LogCompletion(closed, status)[f] = closed[f]
    BY <1>2, LogCompletionLogs
  <2>2. QED
    BY <1>1, <1>3, <2>1

\* RECV_CLOSE of a call whose end was logged changes no line.
LEMMA RecvCloseRepeats ==
  ASSUME NEW r, CallInv(r), r.completion_logged
  PROVE  LET w == RecvClose(r) IN
         /\ DOMAIN w = Fields /\ w.closed \in BOOLEAN
         /\ \A f \in Fields \ {"closed"} : w[f] = r[f]
  BY DEF RecvClose, LogCompletion, CallInv, CallShape, Fields

\* The shape of a call depends on no phase and no flag.
LEMMA ShapeIsKept ==
  ASSUME NEW r, CallShape(r), NEW w, DOMAIN w = Fields,
         \A f \in Fields \ {"phase", "status", "cancelled"} : w[f] = r[f],
         w.phase \in {"none", "handler", "status", "sent", "done"},
         w.status \in RpcStatus, w.cancelled \in BOOLEAN
  PROVE  /\ CallShape(w) /\ Completions(w) = Completions(r)
         /\ \A status : LoggedAs(r, status) => LoggedAs(w, status)
  BY DEF CallShape, Completions, LoggedAs, Quiet, Fields

-----------------------------------------------------------------------------
(* What each step of a call makes of its interceptor.                      *)

\* A call that goes on as it began.
Continues(r, w) ==
  /\ CallInv(w)
  /\ w.min_level = r.min_level
  /\ w.phase # "none"
  /\ w.phase = "handler" => r.phase = "handler" /\ w.logger = r.logger

LEMMA NewCall ==
  CallInv(NewRpc) /\ ~(NewRpc.phase = "handler") /\ NewRpc.phase = "none"
<1>1. NewRpc.lines \in Seq(Lines) /\ DOMAIN NewRpc.lines = {}
  BY DEF NewRpc
<1>2. DOMAIN NewRpc = Fields
  BY DEF NewRpc, Fields
<1>3. CallShape(NewRpc)
  BY <1>1, <1>2 DEF CallShape, NewRpc, RpcStatus, Level
<1>4. Completions(NewRpc) = {}
  BY <1>1 DEF Completions
<1>5. LoggedInPhase(NewRpc)
  BY <1>4 DEF LoggedInPhase, NewRpc
<1>6. QED
  BY <1>3, <1>5 DEF CallInv, NewRpc

\* The interceptor that Receive makes, by what becomes of the call.
Arrived(type, id, level) ==
  [NewRpc EXCEPT !.type = type, !.sent_id = id, !.min_level = level]

Decoded(type, id, level, logger) ==
  LogPayloadEvent("request_received",
    [Arrived(type, id, level) EXCEPT !.phase = "handler", !.trace_id = id, !.logger = logger])

Undecoded(type, id, level) ==
  [Arrived(type, id, level) EXCEPT !.phase = "status", !.status = "FAILED"]

Streaming(type, id, level) == [Arrived(type, id, level) EXCEPT !.phase = "handler"]

LEMMA Received ==
  ASSUME NEW type \in {"unary", "streaming"}, NEW id \in TraceId \cup {NoTraceId},
         NEW level \in Level, NEW logger
  PROVE  /\ CallInv(Decoded(type, id, level, logger))
         /\ Decoded(type, id, level, logger).min_level = level
         /\ Decoded(type, id, level, logger).logger = logger
         /\ Decoded(type, id, level, logger).phase = "handler"
         /\ CallInv(Undecoded(type, id, level))
         /\ Undecoded(type, id, level).min_level = level
         /\ Undecoded(type, id, level).phase = "status"
         /\ CallInv(Streaming(type, id, level))
         /\ Streaming(type, id, level).min_level = level
         /\ Streaming(type, id, level).logger = NoLogger
         /\ Streaming(type, id, level).phase = "handler"
<1> DEFINE r == [NewRpc EXCEPT !.type = type, !.sent_id = id, !.min_level = level]
<1> DEFINE undecoded == [r EXCEPT !.phase = "status", !.status = "FAILED"]
<1> DEFINE streaming == [r EXCEPT !.phase = "handler"]
<1> DEFINE held == [r EXCEPT !.phase = "handler", !.trace_id = id, !.logger = logger]
<1>1. /\ NewRpc.phase = "none" /\ NewRpc.trace_id = NoTraceId /\ NewRpc.logger = NoLogger
      /\ NewRpc.status = "none" /\ NewRpc.cancelled = FALSE /\ NewRpc.closed = FALSE
      /\ NewRpc.completion_logged = FALSE /\ NewRpc.lines = <<>> /\ DOMAIN NewRpc = Fields
  BY DEF NewRpc, Fields
<1>2. DOMAIN r = Fields /\ r.type = type /\ r.sent_id = id /\ r.min_level = level
      /\ \A f \in Fields \ {"type", "sent_id", "min_level"} : r[f] = NewRpc[f]
  BY <1>1 DEF Fields
<1>3. <<>> \in Seq(Lines) /\ DOMAIN <<>> = {}
  OBVIOUS
<1>4. CallInv(undecoded) /\ undecoded.min_level = level /\ undecoded.phase = "status"
  <2>1. /\ DOMAIN undecoded = Fields /\ undecoded.phase = "status"
        /\ undecoded.status = "FAILED" /\ undecoded.min_level = level
        /\ undecoded.logger = NoLogger /\ undecoded.lines = <<>>
        /\ undecoded.trace_id = NoTraceId /\ undecoded.cancelled = FALSE
        /\ undecoded.closed = FALSE /\ undecoded.completion_logged = FALSE
    BY <1>1, <1>2 DEF Fields
  <2>2. CallShape(undecoded)
    BY <1>3, <2>1 DEF CallShape, RpcStatus
  <2>3. QED
    BY <1>3, <2>1, <2>2 DEF CallInv, LoggedInPhase, Completions
<1>5. /\ CallInv(streaming) /\ streaming.min_level = level
      /\ streaming.logger = NoLogger /\ streaming.phase = "handler"
  <2>1. /\ DOMAIN streaming = Fields /\ streaming.phase = "handler"
        /\ streaming.status = "none" /\ streaming.min_level = level
        /\ streaming.logger = NoLogger /\ streaming.lines = <<>>
        /\ streaming.trace_id = NoTraceId /\ streaming.cancelled = FALSE
        /\ streaming.closed = FALSE /\ streaming.completion_logged = FALSE
    BY <1>1, <1>2 DEF Fields
  <2>2. CallShape(streaming)
    BY <1>3, <2>1 DEF CallShape, RpcStatus
  <2>3. QED
    BY <1>3, <2>1, <2>2 DEF CallInv, LoggedInPhase, Completions
<1>6. LET w == LogPayloadEvent("request_received", held) IN
      CallInv(w) /\ w.min_level = level /\ w.logger = logger /\ w.phase = "handler"
  <2> DEFINE w == LogPayloadEvent("request_received", held)
  <2>1. /\ DOMAIN held = Fields /\ held.phase = "handler" /\ held.trace_id = id
        /\ held.status = "none" /\ held.min_level = level /\ held.sent_id = id
        /\ held.logger = logger /\ held.lines = <<>> /\ held.cancelled = FALSE
        /\ held.closed = FALSE /\ held.completion_logged = FALSE
    BY <1>1, <1>2 DEF Fields
  <2>2. CallShape(held)
    BY <1>3, <2>1 DEF CallShape, RpcStatus
  <2>3. Completions(held) = {}
    BY <1>3, <2>1 DEF Completions
  <2>4. /\ CallShape(w) /\ Completions(w) = {}
        /\ \A f \in Fields \ {"lines"} : w[f] = held[f]
    BY <2>2, <2>3, WriteKeepsCompletions
  <2>5. /\ w.phase = "handler" /\ w.trace_id = id /\ w.sent_id = id /\ w.closed = FALSE
        /\ w.completion_logged = FALSE /\ w.min_level = level /\ w.logger = logger
    <3> HIDE DEF w, held, r
    <3>1. {"phase", "trace_id", "sent_id", "closed", "completion_logged", "min_level",
           "logger"} \subseteq Fields \ {"lines"}
      BY DEF Fields
    <3>2. QED
      BY <2>1, <2>4, <3>1
  <2>6. QED
    BY <2>4, <2>5 DEF CallInv, LoggedInPhase
<1>7. /\ Decoded(type, id, level, logger) = LogPayloadEvent("request_received", held)
      /\ Undecoded(type, id, level) = undecoded /\ Streaming(type, id, level) = streaming
  BY DEF Decoded, Undecoded, Streaming, Arrived
<1> HIDE DEF r, undecoded, streaming, held
<1>8. QED
  BY <1>4, <1>5, <1>6, <1>7

LEMMA Cancelled ==
  ASSUME NEW r, CallInv(r), r.phase \in {"handler", "status", "sent"}
  PROVE  Continues(r, [r EXCEPT !.cancelled = TRUE])
<1> DEFINE w == [r EXCEPT !.cancelled = TRUE]
<1>1. /\ DOMAIN w = Fields /\ w.cancelled = TRUE
      /\ \A f \in Fields \ {"cancelled"} : w[f] = r[f]
  BY DEF CallInv, CallShape, Fields
<1>2. CallShape(w) /\ Completions(w) = Completions(r)
      /\ \A status : LoggedAs(r, status) => LoggedAs(w, status)
  <2>1. /\ w.phase \in {"none", "handler", "status", "sent", "done"}
        /\ w.status \in RpcStatus /\ w.cancelled \in BOOLEAN
        /\ \A f \in Fields \ {"phase", "status", "cancelled"} : w[f] = r[f]
    BY <1>1 DEF CallInv, CallShape, Fields
  <2>2. QED
    BY <1>1, <2>1, ShapeIsKept DEF CallInv
<1>3. QED
  BY <1>1, <1>2 DEF Continues, CallInv, LoggedInPhase, Fields

LEMMA DeadlineChecked ==
  ASSUME NEW r, CallInv(r), r.phase = "handler", r.cancelled
  PROVE  Continues(r, [AskIsCancelled(r) EXCEPT !.phase = "status", !.status = "CANCELLED"])
<1> DEFINE asked == RecvClose(r)
<1> DEFINE w == [asked EXCEPT !.phase = "status", !.status = "CANCELLED"]
<1>1. ~r.completion_logged /\ ~r.closed /\ AskIsCancelled(r) = asked
  BY DEF CallInv, LoggedInPhase, AskIsCancelled
<1>2. /\ CallShape(asked) /\ asked.completion_logged /\ LoggedAs(asked, "CANCELLED")
      /\ \A f \in Fields \ {"lines", "closed", "completion_logged"} : asked[f] = r[f]
  BY <1>1, RecvCloseLogs
<1>3. /\ DOMAIN w = Fields /\ w.phase = "status" /\ w.status = "CANCELLED"
      /\ \A f \in Fields \ {"phase", "status"} : w[f] = asked[f]
  BY <1>2 DEF CallShape, Fields
<1>4. CallShape(w) /\ LoggedAs(w, "CANCELLED")
  <2>1. /\ w.phase \in {"none", "handler", "status", "sent", "done"}
        /\ w.status \in RpcStatus /\ w.cancelled \in BOOLEAN
        /\ \A f \in Fields \ {"phase", "status", "cancelled"} : w[f] = asked[f]
    BY <1>2, <1>3 DEF CallShape, Fields, RpcStatus
  <2> HIDE DEF asked, w
  <2>2. CallShape(w) /\ \A status : LoggedAs(asked, status) => LoggedAs(w, status)
    BY <1>2, <1>3, <2>1, ShapeIsKept
  <2>3. QED
    BY <1>2, <2>2
<1>5. /\ w.completion_logged /\ w.min_level = r.min_level /\ w.type = r.type
      /\ w.logger = r.logger /\ w.trace_id = r.trace_id /\ w.sent_id = r.sent_id
  BY <1>2, <1>3 DEF Fields
<1>6. Continues(r, w)
  BY <1>3, <1>4, <1>5 DEF Continues, CallInv, LoggedInPhase
<1>7. QED
  BY <1>1, <1>6

LEMMA Returned ==
  ASSUME NEW r, CallInv(r), r.phase = "handler", NEW status \in {"OK", "FAILED"}
  PROVE  \A w : /\ DOMAIN w = Fields /\ w.phase = "status" /\ w.status = status
                /\ \A f \in Fields \ {"phase", "status"} : w[f] = r[f]
                => Continues(r, w)
<1> SUFFICES ASSUME NEW w, DOMAIN w = Fields, w.phase = "status", w.status = status,
                    \A f \in Fields \ {"phase", "status"} : w[f] = r[f]
             PROVE  Continues(r, w)
  OBVIOUS
<1>1. CallShape(w) /\ Completions(w) = Completions(r)
  <2>1. /\ w.phase \in {"none", "handler", "status", "sent", "done"}
        /\ w.status \in RpcStatus /\ w.cancelled \in BOOLEAN
        /\ \A f \in Fields \ {"phase", "status", "cancelled"} : w[f] = r[f]
    BY DEF CallInv, CallShape, Fields, RpcStatus
  <2>2. QED
    BY <2>1, ShapeIsKept DEF CallInv
<1>2. /\ ~w.completion_logged /\ w.min_level = r.min_level /\ w.type = r.type
      /\ w.logger = r.logger /\ w.trace_id = r.trace_id /\ w.sent_id = r.sent_id
  BY DEF CallInv, LoggedInPhase, Fields
<1>3. Completions(w) = {}
  BY <1>1 DEF CallInv, LoggedInPhase
<1>4. QED
  BY <1>1, <1>2, <1>3 DEF Continues, CallInv, LoggedInPhase

LEMMA StatusSent ==
  ASSUME NEW r, CallInv(r), r.phase = "status"
  PROVE  LET replied == IF r.status = "OK" /\ r.type = "unary"
                        THEN LogPayloadEvent("response_sent", r) ELSE r IN
         Continues(r, [LogCompletion(replied, r.status) EXCEPT !.phase = "sent"])
<1> DEFINE replied == IF r.status = "OK" /\ r.type = "unary"
                      THEN LogPayloadEvent("response_sent", r) ELSE r
<1> DEFINE logged == LogCompletion(replied, r.status)
<1> DEFINE w == [logged EXCEPT !.phase = "sent"]
<1>1. /\ CallShape(logged) /\ LoggedAs(logged, r.status) /\ logged.completion_logged
      /\ \A f \in Fields \ {"lines", "closed", "completion_logged"} : logged[f] = r[f]
  <2>1. CASE r.completion_logged
    <3>1. r.status = "CANCELLED" /\ LoggedAs(r, r.status)
      BY <2>1 DEF CallInv, LoggedInPhase
    <3>2. logged = r
      BY <2>1, <3>1 DEF LogCompletion
    <3>3. QED
      BY <2>1, <3>1, <3>2 DEF CallInv
  <2>2. CASE ~r.completion_logged
    <3>1. CallShape(r) /\ Completions(r) = {}
      BY <2>2 DEF CallInv, LoggedInPhase
    <3>2. CallShape(replied) /\ Completions(replied) = {}
          /\ \A f \in Fields \ {"lines"} : replied[f] = r[f]
      BY <3>1, WriteKeepsCompletions
    <3>3. ~replied.completion_logged
      BY <2>2, <3>2 DEF Fields
    <3>4. r.status \in {"OK", "FAILED", "CANCELLED"}
      BY DEF CallInv, CallShape, RpcStatus, LoggedInPhase
    <3> HIDE DEF replied
    <3>5. /\ CallShape(LogCompletion(replied, r.status))
          /\ LoggedAs(LogCompletion(replied, r.status), r.status)
          /\ LogCompletion(replied, r.status).completion_logged
          /\ \A f \in Fields \ {"lines", "closed", "completion_logged"} :
               LogCompletion(replied, r.status)[f] = replied[f]
      BY <3>2, <3>3, <3>4, LogCompletionLogs
    <3>6. QED
      BY <3>2, <3>5
  <2>3. QED
    BY <2>1, <2>2
<1> HIDE DEF logged
<1>2. /\ DOMAIN w = Fields /\ w.phase = "sent"
      /\ \A f \in Fields \ {"phase"} : w[f] = logged[f]
  BY <1>1 DEF CallShape, Fields
<1> HIDE DEF w
<1>3. CallShape(w) /\ LoggedAs(w, r.status)
  <2>1. /\ w.phase \in {"none", "handler", "status", "sent", "done"}
        /\ w.status \in RpcStatus /\ w.cancelled \in BOOLEAN
        /\ \A f \in Fields \ {"phase", "status", "cancelled"} : w[f] = logged[f]
    BY <1>1, <1>2 DEF CallShape, Fields
  <2>2. CallShape(w) /\ \A status : LoggedAs(logged, status) => LoggedAs(w, status)
    BY <1>1, <1>2, <2>1, ShapeIsKept
  <2>3. QED
    BY <1>1, <2>2
<1>4. /\ w.completion_logged /\ w.min_level = r.min_level /\ w.type = r.type
      /\ w.logger = r.logger /\ w.trace_id = r.trace_id /\ w.sent_id = r.sent_id
      /\ w.status = r.status
  BY <1>1, <1>2 DEF Fields
<1>5. Continues(r, w)
  BY <1>2, <1>3, <1>4 DEF Continues, CallInv, LoggedInPhase
<1>6. QED
  BY <1>5 DEF w, logged, replied

LEMMA Ended ==
  ASSUME NEW r, CallInv(r), r.phase = "sent"
  PROVE  Continues(r, [RecvClose(r) EXCEPT !.phase = "done"])
<1> DEFINE closed == RecvClose(r)
<1> DEFINE w == [closed EXCEPT !.phase = "done"]
<1>1. r.completion_logged /\ LoggedAs(r, r.status)
  BY DEF CallInv, LoggedInPhase
<1>2. /\ DOMAIN closed = Fields /\ closed.closed \in BOOLEAN
      /\ \A f \in Fields \ {"closed"} : closed[f] = r[f]
  BY <1>1, RecvCloseRepeats
<1> HIDE DEF closed
<1>3. /\ DOMAIN w = Fields /\ w.phase = "done" /\ w.closed \in BOOLEAN
      /\ \A f \in Fields \ {"phase", "closed"} : w[f] = r[f]
  BY <1>2 DEF Fields
<1> HIDE DEF w
<1>4. CallShape(w) /\ LoggedAs(w, r.status)
  <2>1. /\ w.trace_id = r.trace_id /\ w.min_level = r.min_level /\ w.status = r.status
        /\ w.cancelled = r.cancelled /\ w.lines = r.lines
        /\ w.completion_logged = r.completion_logged
    BY <1>3, SMT DEF Fields
  <2>2. CallShape(w)
    BY <1>3, <2>1, SMT DEF CallInv, CallShape
  <2>3. LoggedAs(w, r.status)
    BY <1>1, <2>1, SMT DEF LoggedAs, Completions, Quiet
  <2>4. QED
    BY <2>2, <2>3
<1>5. /\ w.completion_logged /\ w.min_level = r.min_level /\ w.type = r.type
      /\ w.logger = r.logger /\ w.trace_id = r.trace_id /\ w.sent_id = r.sent_id
      /\ w.status = r.status
  BY <1>1, <1>3 DEF Fields
<1>6. Continues(r, w)
  BY <1>3, <1>4, <1>5 DEF Continues, CallInv, LoggedInPhase
<1>7. QED
  BY <1>6 DEF w, closed

-----------------------------------------------------------------------------
(* What each step of the server makes of all of its calls.                 *)

OnlyCall(c) == \A d \in Call : d # c => rpc'[d] = rpc[d]

Untouched == UNCHANGED <<registry, default_name, factory, pc>>

LEMMA CallContinues ==
  ASSUME DOMAIN rpc = Call, NEW c \in Call, CallInv(rpc[c]), ServeCall(c)
  PROVE  /\ DOMAIN rpc' = Call /\ OnlyCall(c) /\ Untouched
         /\ rpc[c].phase # "none"
         /\ Continues(rpc[c], rpc'[c])
<1>1. CASE CheckDeadline(c)
  <2>1. Continues(rpc[c], [AskIsCancelled(rpc[c]) EXCEPT !.phase = "status",
                                                         !.status = "CANCELLED"])
    BY <1>1, DeadlineChecked DEF CheckDeadline
  <2>2. QED
    BY <1>1, <2>1 DEF CheckDeadline, ServeCall, OnlyCall, Untouched
<1>2. ASSUME NEW status \in {"OK", "FAILED"}, HandlerReturns(c, status)
      PROVE  /\ DOMAIN rpc' = Call /\ OnlyCall(c) /\ Untouched
             /\ rpc[c].phase # "none"
             /\ Continues(rpc[c], rpc'[c])
  <2>1. /\ DOMAIN rpc'[c] = Fields /\ rpc'[c].phase = "status" /\ rpc'[c].status = status
        /\ \A f \in Fields \ {"phase", "status"} : rpc'[c][f] = rpc[c][f]
    BY <1>2 DEF HandlerReturns, CallInv, CallShape, Fields
  <2>2. rpc[c].phase = "handler"
    BY <1>2 DEF HandlerReturns
  <2>3. Continues(rpc[c], rpc'[c])
    BY <2>1, <2>2, Returned
  <2>4. QED
    BY <1>2, <2>2, <2>3 DEF HandlerReturns, ServeCall, OnlyCall, Untouched
<1>3. CASE SendStatus(c)
  <2> DEFINE replied == IF rpc[c].status = "OK" /\ rpc[c].type = "unary"
                        THEN LogPayloadEvent("response_sent", rpc[c]) ELSE rpc[c]
  <2>1. Continues(rpc[c], [LogCompletion(replied, rpc[c].status) EXCEPT !.phase = "sent"])
    BY <1>3, StatusSent DEF SendStatus
  <2>2. rpc' = [rpc EXCEPT ![c] = [LogCompletion(replied, rpc[c].status) EXCEPT !.phase = "sent"]]
    BY <1>3 DEF SendStatus
  <2>3. QED
    BY <1>3, <2>1, <2>2 DEF SendStatus, ServeCall, OnlyCall, Untouched
<1>4. CASE CallEnds(c)
  <2>1. Continues(rpc[c], [RecvClose(rpc[c]) EXCEPT !.phase = "done"])
    BY <1>4, Ended DEF CallEnds
  <2>2. QED
    BY <1>4, <2>1 DEF CallEnds, ServeCall, OnlyCall, Untouched
<1>5. QED
  BY <1>1, <1>2, <1>3, <1>4 DEF ServeCall, HandleCall

LEMMA CancelContinues ==
  ASSUME DOMAIN rpc = Call, NEW c \in Call, CallInv(rpc[c]), Cancel(c)
  PROVE  /\ DOMAIN rpc' = Call /\ OnlyCall(c)
         /\ rpc[c].phase # "none" /\ Continues(rpc[c], rpc'[c])
<1>1. Continues(rpc[c], [rpc[c] EXCEPT !.cancelled = TRUE])
  BY Cancelled DEF Cancel
<1>2. rpc' = [rpc EXCEPT ![c] = [rpc[c] EXCEPT !.cancelled = TRUE]]
  BY DEF Cancel
<1>3. QED
  BY <1>1, <1>2 DEF Cancel, OnlyCall

\* A call that arrives begins well, whatever logger it gets.
LEMMA ReceiveBegins ==
  ASSUME DOMAIN rpc = Call, LevelsAreLevels, NEW c \in Call,
         NEW type \in {"unary", "streaming"}, NEW decodes \in BOOLEAN,
         NEW id \in TraceId \cup {NoTraceId}, Receive(c, type, decodes, id)
  PROVE  /\ DOMAIN rpc' = Call /\ OnlyCall(c)
         /\ CallInv(rpc'[c]) /\ rpc'[c].min_level = factory.level
         /\ rpc'[c].phase # "none"
         /\ \/ rpc'[c].phase # "handler" /\ registry' = registry
            \/ rpc'[c].logger = NoLogger /\ registry' = registry
            \/ rpc'[c].logger = GetLogger("") /\ registry' = RegistryAfterGet("")
<1> DEFINE level == factory.level
<1> DEFINE logger == GetLogger("")
<1>1. level \in Level
  BY DEF LevelsAreLevels
<1>2. \/ /\ rpc' = [rpc EXCEPT ![c] = Decoded(type, id, level, logger)]
         /\ registry' = RegistryAfterGet("")
      \/ rpc' = [rpc EXCEPT ![c] = Undecoded(type, id, level)] /\ registry' = registry
      \/ rpc' = [rpc EXCEPT ![c] = Streaming(type, id, level)] /\ registry' = registry
  BY DEF Receive, Decoded, Undecoded, Streaming, Arrived
<1> HIDE DEF level, logger
<1>3. /\ CallInv(Decoded(type, id, level, logger))
      /\ Decoded(type, id, level, logger).min_level = level
      /\ Decoded(type, id, level, logger).logger = logger
      /\ Decoded(type, id, level, logger).phase = "handler"
  BY <1>1, Received
<1>4. /\ CallInv(Undecoded(type, id, level))
      /\ Undecoded(type, id, level).min_level = level
      /\ Undecoded(type, id, level).phase = "status"
  BY <1>1, Received
<1>5. /\ CallInv(Streaming(type, id, level))
      /\ Streaming(type, id, level).min_level = level
      /\ Streaming(type, id, level).logger = NoLogger
      /\ Streaming(type, id, level).phase = "handler"
  BY <1>1, Received
<1>6. QED
  BY <1>2, <1>3, <1>4, <1>5 DEF OnlyCall, level, logger

\* Until the server is up nothing is served, and levels come from the registry.
LEMMA RunServesNothing ==
  ASSUME LevelsAreLevels, Run
  PROVE  pc # "serving" /\ rpc' = rpc /\ LevelsAreLevels'
<1>1. ASSUME NEW why, Fail(why)
      PROVE  rpc' = rpc /\ LevelsAreLevels'
  BY <1>1, GetKeepsLevels DEF Fail, LevelsAreLevels
<1>2. ASSUME NEW label, Goto(label)
      PROVE  rpc' = rpc /\ LevelsAreLevels'
  BY <1>2 DEF Goto, logging, LevelsAreLevels
<1>3. CASE ApplyStartupFile
  BY <1>1, <1>2, <1>3 DEF ApplyStartupFile
<1>4. CASE ApplySetting
  BY <1>1, <1>2, <1>4 DEF ApplySetting
<1>5. CASE FinishFile
  BY <1>2, <1>5 DEF FinishFile
<1>6. CASE ApplyArgument
  BY <1>1, <1>2, <1>6 DEF ApplyArgument
<1>7. CASE FinishArguments
  BY <1>2, <1>7 DEF FinishArguments
<1>8. CASE RegisterLogger
  <2>1. CASE \E why : Fail(why)
    BY <1>1, <1>8, <2>1 DEF RegisterLogger
  <2>2. CASE /\ ServiceLogger.level \in Level
             /\ registry' = Registered(ServiceLogger)
             /\ factory' = factory /\ rpc' = rpc
    <3>1. registry' = [name \in {ServiceLogger.name} \cup DOMAIN registry |->
                         IF name = ServiceLogger.name THEN ServiceLogger ELSE registry[name]]
      BY <2>2 DEF Registered
    <3>2. QED
      BY <1>8, <2>2, <3>1 DEF RegisterLogger, LevelsAreLevels
  <2>3. QED
    BY <1>8, <2>1, <2>2 DEF RegisterLogger
<1>9. CASE CreateService
  <2>1. CASE \E why : Fail(why)
    BY <1>1, <1>9, <2>1 DEF CreateService
  <2>2. CASE registry' = registry /\ rpc' = rpc /\ factory' = GetLogger("")
    BY <1>9, <2>2, LoggerHasLevel DEF CreateService, LevelsAreLevels
  <2>3. QED
    BY <1>9, <2>1, <2>2 DEF CreateService
<1>10. CASE BuildAndStart
  BY <1>1, <1>10 DEF BuildAndStart, logging, LevelsAreLevels
<1>11. QED
  BY <1>3, <1>4, <1>5, <1>6, <1>7, <1>8, <1>9, <1>10 DEF Run

\* Before the server is up there are no calls for the invariant to speak of.
LEMMA NobodyCalled ==
  ASSUME DOMAIN rpc' = Call, \A c \in Call : rpc'[c] = NewRpc, LevelsAreLevels'
  PROVE  IInv'
<1>1. \A c \in Call : CallInv(rpc'[c]) /\ rpc'[c].phase = "none"
  BY NewCall
<1>2. QED
  BY <1>1 DEF IInv, ServedWhenUp, HeldSafely

-----------------------------------------------------------------------------
(* The invariant holds when a process starts and in every step of it.      *)

LEMMA InitHolds == Init => IInv
<1> SUFFICES ASSUME Init PROVE IInv
  OBVIOUS
<1>1. DOMAIN rpc = Call /\ \A c \in Call : rpc[c] = NewRpc
  BY DEF Init, LoggingInit
<1>2. LevelsAreLevels
  <2>1. NoLogger.level \in Level
    BY DEF NoLogger, Logger, Level
  <2>2. DOMAIN <<>> = {}
    OBVIOUS
  <2>3. factory = NoLogger /\ registry = <<>>
    BY DEF Init, LoggingInit
  <2>4. QED
    BY <2>1, <2>2, <2>3 DEF LevelsAreLevels
<1>3. \A c \in Call : CallInv(rpc[c]) /\ rpc[c].phase = "none"
  BY <1>1, NewCall
<1>4. QED
  BY <1>1, <1>2, <1>3 DEF IInv, ServedWhenUp, HeldSafely

LEMMA StepHolds == IInv /\ [Next]_vars => IInv'
<1> SUFFICES ASSUME IInv, [Next]_vars PROVE IInv'
  OBVIOUS
<1>1. CASE Run
  <2>1. pc # "serving" /\ rpc' = rpc /\ LevelsAreLevels'
    BY <1>1, RunServesNothing DEF IInv
  <2>2. DOMAIN rpc' = Call /\ \A c \in Call : rpc'[c] = NewRpc
    BY <2>1 DEF IInv, ServedWhenUp
  <2>3. QED
    BY <2>1, <2>2, NobodyCalled
<1>2. ASSUME NEW c \in Call, ServeCall(c)
      PROVE  IInv'
  <2>1. /\ DOMAIN rpc' = Call /\ OnlyCall(c) /\ Untouched
        /\ rpc[c].phase # "none" /\ Continues(rpc[c], rpc'[c])
    BY <1>2, CallContinues DEF IInv
  <2>2. pc = "serving"
    BY <1>2 DEF ServeCall
  <2>3. QED
    BY <2>1, <2>2
    DEF IInv, OnlyCall, Untouched, Continues, ServedWhenUp, LevelsAreLevels, HeldSafely
<1>3. ASSUME NEW c \in Call, Cancel(c), pc = "serving", UNCHANGED pc
      PROVE  IInv'
  <2>1. /\ DOMAIN rpc' = Call /\ OnlyCall(c)
        /\ rpc[c].phase # "none" /\ Continues(rpc[c], rpc'[c])
    BY <1>3, CancelContinues DEF IInv
  <2>2. UNCHANGED <<registry, default_name, factory>>
    BY <1>3 DEF Cancel
  <2>3. QED
    BY <1>3, <2>1, <2>2
    DEF IInv, OnlyCall, Continues, ServedWhenUp, LevelsAreLevels, HeldSafely
<1>4. ASSUME NEW c \in Call, NEW type \in {"unary", "streaming"}, NEW decodes \in BOOLEAN,
             NEW id \in TraceId \cup {NoTraceId}, Receive(c, type, decodes, id),
             pc = "serving", UNCHANGED pc
      PROVE  IInv'
  <2>1. /\ DOMAIN rpc' = Call /\ OnlyCall(c)
        /\ CallInv(rpc'[c]) /\ rpc'[c].min_level = factory.level
        /\ \/ rpc'[c].phase # "handler" /\ registry' = registry
           \/ rpc'[c].logger = NoLogger /\ registry' = registry
           \/ rpc'[c].logger = GetLogger("") /\ registry' = RegistryAfterGet("")
    BY <1>4, ReceiveBegins DEF IInv
  <2>2. factory' = factory /\ (registry' = registry \/ registry' = RegistryAfterGet(""))
    BY <1>4 DEF Receive
  <2>3. LevelsAreLevels'
    BY <2>2, GetKeepsLevels DEF IInv, LevelsAreLevels
  <2>4. \A d \in Call : HeldSafely(rpc[d])
    BY DEF IInv
  <2>5. \A d \in Call \ {c} : HeldSafely(rpc[d])'
    <3>1. \A d \in Call \ {c} : rpc'[d] = rpc[d]
      BY <2>1 DEF OnlyCall
    <3>2. CASE registry' = registry
      BY <2>4, <3>1, <3>2 DEF HeldSafely
    <3>3. CASE registry' = RegistryAfterGet("")
      <4>1. \A name \in DOMAIN registry :
              /\ name \in DOMAIN registry'
              /\ name # "blank_logger" => registry'[name] = registry[name]
              /\ name = "blank_logger" => registry'[name] \in {registry[name], BlankLogger}
        BY <3>3, GetIsSafe
      <4> SUFFICES ASSUME NEW d \in Call \ {c}, rpc[d].phase = "handler",
                          rpc[d].logger # NoLogger
                   PROVE  \E name \in DOMAIN registry' :
                            /\ registry'[name] = rpc[d].logger
                            /\ name = "blank_logger" => rpc[d].logger = BlankLogger
        BY <3>1 DEF HeldSafely
      <4>2. PICK name \in DOMAIN registry :
              registry[name] = rpc[d].logger
                /\ (name = "blank_logger" => rpc[d].logger = BlankLogger)
        BY <2>4 DEF HeldSafely
      <4>3. QED
        BY <4>1, <4>2
    <3>4. QED
      BY <2>2, <3>2, <3>3
  <2>6. HeldSafely(rpc[c])'
    BY <2>1, GetIsSafe DEF HeldSafely
  <2>7. QED
    BY <1>4, <2>1, <2>2, <2>3, <2>5, <2>6 DEF IInv, OnlyCall, ServedWhenUp
<1>5. CASE UNCHANGED vars
  BY <1>5 DEF vars, logging, IInv, ServedWhenUp, LevelsAreLevels, HeldSafely
<1>6. QED
  BY <1>1, <1>2, <1>3, <1>4, <1>5 DEF Next, ClientActs

-----------------------------------------------------------------------------
(* The theorems.                                                           *)

\* The invariant of logging, of which the properties below are consequences.
THEOREM LoggingInvariant == Spec => []IInv
  BY InitHolds, StepHolds, PTL DEF Spec

\* No handler is left with a reference to a logger that Register destroyed:
\* the lock of the registry covers Get, and nothing is registered while the
\* server is up, except the blank logger that Get itself adds.
THEOREM HandlersLoggersStayAlive == Spec => []LoggersStayAlive
<1>1. IInv => LoggersStayAlive
  BY DEF IInv, HeldSafely, LoggersStayAlive
<1>2. QED
  BY <1>1, LoggingInvariant, PTL

\* LogCompletion logs the end of every call once, with its status and its
\* trace id, whichever hook of the interceptor comes first.
THEOREM CallsEndInTheLog == Spec => []CallsAreAccountedFor
<1>1. IInv => CallsAreAccountedFor
  <2> SUFFICES ASSUME IInv, NEW c \in Call, rpc[c].phase = "done"
               PROVE  LET r == rpc[c]
                          quiet == r.status = "OK" /\ ~ShouldLog("info", factory.level) IN
                      /\ Completions(r) = IF quiet THEN {} ELSE {Len(r.lines)}
                      /\ \A i \in DOMAIN r.lines : r.lines[i].trace_id = r.trace_id
                      /\ ~quiet => r.lines[Len(r.lines)].status = r.status
                      /\ r.type = "unary" /\ r.logger # NoLogger => r.trace_id = r.sent_id
    BY DEF CallsAreAccountedFor
  <2>1. CallInv(rpc[c]) /\ rpc[c].min_level = factory.level
    BY DEF IInv
  <2>2. LoggedAs(rpc[c], rpc[c].status)
    BY <2>1 DEF CallInv, LoggedInPhase
  <2>3. QED
    BY <2>1, <2>2 DEF CallInv, CallShape, LoggedInPhase, LoggedAs, Quiet
<1>2. QED
  BY <1>1, LoggingInvariant, PTL

-----------------------------------------------------------------------------
(* The table of settings.                                                  *)

\* The ports there are by default.
DefaultPort == {50000, 50100, 50200, 50300, 50210, 50220, 6379}

\* Every row has a default that its type can mean, and no key is "--".
GoodRow(e) ==
  /\ e.key # "--"
  /\ e.type \in {"string", "int", "double", "uint16", "bool"}
  /\ e.type \in {"int", "double", "uint16"} => e.default.kind = "num"
  /\ e.type = "uint16" => e.default.n \in DefaultPort
  /\ e.type = "bool" => e.default = Word("true")

LEMMA RowsAreGood == \A e \in ConfigTable : GoodRow(e)
<1>1. ASSUME NEW e \in ServerEntries PROVE GoodRow(e)
  <2>1. e.key # "--"
    BY SMT DEF Entry, ServerEntries, ServiceHosts
  <2>2. e.type \in {"string", "int", "double", "uint16", "bool"}
    BY SMT DEF Entry, ServerEntries
  <2>3. e.type \in {"int", "double", "uint16"} => e.default.kind = "num"
    BY SMT DEF Entry, ServerEntries, Num, Text
  <2>4. e.type = "uint16" => e.default.n \in DefaultPort
    BY SMT DEF Entry, ServerEntries, Num, Text, DefaultPort
  <2>5. e.type = "bool" => e.default = Word("true")
    BY SMT DEF Entry, ServerEntries
  <2>6. QED
    BY <2>1, <2>2, <2>3, <2>4, <2>5, SMT DEF GoodRow
<1>2. ASSUME NEW e \in RetrievalEntries PROVE GoodRow(e)
  <2>1. e.key # "--"
    BY SMT DEF Entry, RetrievalEntries, Multipliers
  <2>2. e.type \in {"string", "int", "double", "uint16", "bool"}
    BY SMT DEF Entry, RetrievalEntries
  <2>3. e.type \in {"int", "double", "uint16"} => e.default.kind = "num"
    BY SMT DEF Entry, RetrievalEntries, Num, Text
  <2>4. e.type = "uint16" => e.default.n \in DefaultPort
    BY SMT DEF Entry, RetrievalEntries, Num, Text, DefaultPort
  <2>5. e.type = "bool" => e.default = Word("true")
    BY SMT DEF Entry, RetrievalEntries
  <2>6. QED
    BY <2>1, <2>2, <2>3, <2>4, <2>5, SMT DEF GoodRow
<1>3. ASSUME NEW e \in StoreEntries PROVE GoodRow(e)
  <2>1. e.key # "--"
    BY SMT DEF Entry, StoreEntries
  <2>2. e.type \in {"string", "int", "double", "uint16", "bool"}
    BY SMT DEF Entry, StoreEntries
  <2>3. e.type \in {"int", "double", "uint16"} => e.default.kind = "num"
    BY SMT DEF Entry, StoreEntries, Num, Text
  <2>4. e.type = "uint16" => e.default.n \in DefaultPort
    BY SMT DEF Entry, StoreEntries, Num, Text, DefaultPort
  <2>5. e.type = "bool" => e.default = Word("true")
    BY SMT DEF Entry, StoreEntries
  <2>6. QED
    BY <2>1, <2>2, <2>3, <2>4, <2>5, SMT DEF GoodRow
<1>4. ASSUME NEW e \in ElasticsearchEntries PROVE GoodRow(e)
  <2>1. e.key # "--"
    BY SMT DEF Entry, ElasticsearchEntries, RetryAttemptKeys, RetryDelayKeys, EsTimeout,
           EsAcquireTimeout, EsHttpTimeout, EsConnectTimeout
  <2>2. e.type \in {"string", "int", "double", "uint16", "bool"}
    BY SMT DEF Entry, ElasticsearchEntries
  <2>3. e.type \in {"int", "double", "uint16"} => e.default.kind = "num"
    BY SMT DEF Entry, ElasticsearchEntries, Num, Text
  <2>4. e.type = "uint16" => e.default.n \in DefaultPort
    BY SMT DEF Entry, ElasticsearchEntries, Num, Text, DefaultPort
  <2>5. e.type = "bool" => e.default = Word("true")
    BY SMT DEF Entry, ElasticsearchEntries
  <2>6. QED
    BY <2>1, <2>2, <2>3, <2>4, <2>5, SMT DEF GoodRow
<1>5. ASSUME NEW e \in RedisEntries PROVE GoodRow(e)
  <2>1. e.key # "--"
    BY SMT DEF Entry, RedisEntries
  <2>2. e.type \in {"string", "int", "double", "uint16", "bool"}
    BY SMT DEF Entry, RedisEntries
  <2>3. e.type \in {"int", "double", "uint16"} => e.default.kind = "num"
    BY SMT DEF Entry, RedisEntries, Num, Text
  <2>4. e.type = "uint16" => e.default.n \in DefaultPort
    BY SMT DEF Entry, RedisEntries, Num, Text, DefaultPort
  <2>5. e.type = "bool" => e.default = Word("true")
    BY SMT DEF Entry, RedisEntries
  <2>6. QED
    BY <2>1, <2>2, <2>3, <2>4, <2>5, SMT DEF GoodRow
<1>6. QED
  BY <1>1, <1>2, <1>3, <1>4, <1>5, Zenon DEF ConfigTable

LEMMA EntryOfKey ==
  ASSUME NEW k \in Key
  PROVE  ConfigEntries[k] \in ConfigTable /\ ConfigEntries[k].key = k
<1>1. \E e \in ConfigTable : e.key = k
  BY DEF Key
<1>2. QED
  BY <1>1, Zenon DEF ConfigEntries

StringKeys == {"config.path", "server.log_level", "ranking.rankers"}

LEMMA KeysOfStrings ==
  /\ StringKeys \subseteq Key
  /\ \A k \in StringKeys : ConfigEntries[k].type = "string"
<1>1. ASSUME NEW k \in StringKeys PROVE \E e \in ConfigTable : e.key = k
  <2>1. \E t : [key |-> k, type |-> "string", default |-> t] \in ConfigTable
    <3>1. CASE k = "config.path"
      <4>1. Entry({k}, "string", Word("config.debug.yaml")) \subseteq ConfigTable
        BY <3>1, SMT DEF ConfigTable, ServerEntries
      <4>2. [key |-> k, type |-> "string", default |-> Word("config.debug.yaml")]
              \in Entry({k}, "string", Word("config.debug.yaml"))
        BY SMT DEF Entry
      <4>3. QED
        BY <4>1, <4>2
    <3>2. CASE k = "server.log_level"
      <4>1. Entry({k}, "string", Word("INFO")) \subseteq ConfigTable
        BY <3>2, SMT DEF ConfigTable, ServerEntries
      <4>2. [key |-> k, type |-> "string", default |-> Word("INFO")]
              \in Entry({k}, "string", Word("INFO"))
        BY SMT DEF Entry
      <4>3. QED
        BY <4>1, <4>2
    <3>3. CASE k = "ranking.rankers"
      <4>1. Entry({k, "ranking.default_ranker"}, "string", Word("heuristic_v1"))
              \subseteq ConfigTable
        BY <3>3, SMT DEF ConfigTable, StoreEntries
      <4>2. [key |-> k, type |-> "string", default |-> Word("heuristic_v1")]
              \in Entry({k, "ranking.default_ranker"}, "string", Word("heuristic_v1"))
        BY SMT DEF Entry
      <4>3. QED
        BY <4>1, <4>2
    <3>4. QED
      BY <3>1, <3>2, <3>3 DEF StringKeys
  <2>2. QED
    BY <2>1
<1>2. ASSUME NEW e \in ConfigTable, e.key \in StringKeys PROVE e.type = "string"
  <2>1. CASE e \in ServerEntries
    BY <1>2, <2>1, SMT DEF ServerEntries, Entry, StringKeys, ServiceHosts
  <2>2. CASE e \in RetrievalEntries
    BY <1>2, <2>2, SMT DEF RetrievalEntries, Entry, StringKeys, Multipliers
  <2>3. CASE e \in StoreEntries
    BY <1>2, <2>3, SMT DEF StoreEntries, Entry, StringKeys
  <2>4. CASE e \in ElasticsearchEntries
    BY <1>2, <2>4, SMT
    DEF ElasticsearchEntries, Entry, StringKeys, RetryAttemptKeys, RetryDelayKeys,
        EsTimeout, EsAcquireTimeout, EsHttpTimeout, EsConnectTimeout
  <2>5. CASE e \in RedisEntries
    BY <1>2, <2>5, SMT DEF RedisEntries, Entry, StringKeys
  <2>6. QED
    BY <2>1, <2>2, <2>3, <2>4, <2>5, Zenon DEF ConfigTable
<1>3. StringKeys \subseteq Key
  BY <1>1, Zenon DEF Key
<1>4. QED
  BY <1>2, <1>3, EntryOfKey

LEMMA DashesAreNoKey == "--" \notin Key
  BY RowsAreGood DEF Key, GoodRow

LEMMA TypesMean ==
  ASSUME NEW t
  PROVE  /\ Means("string", t)
         /\ Means("int", t) <=> IsInt(t)
         /\ Means("uint16", t) <=> IsUint16(t)
         /\ Means("double", t) <=> IsDouble(t)
         /\ Means("bool", t) <=> IsTrue(t) \/ IsFalse(t)
  BY SMT DEF Means

Port == 0 .. MaxUint16

LEMMA PortsMean ==
  ASSUME NEW t, IsInt(t), NEW n \in Port, t.n = n
  PROVE  IsUint16(t)
  BY SMT DEF Port, IsUint16

LEMMA DefaultsMean ==
  ASSUME NEW k \in Key
  PROVE  Means(ConfigEntries[k].type, ConfigEntries[k].default)
<1> DEFINE e == ConfigEntries[k]
           t == e.default
<1>1. GoodRow(e)
  BY EntryOfKey, RowsAreGood
<1> HIDE DEF e
<1>2. e.type \in {"int", "double"} => IsInt(t) /\ IsDouble(t)
  BY <1>1, SMT DEF GoodRow, IsInt, IsDouble
<1>3. ASSUME e.type = "uint16" PROVE IsUint16(t)
  <2>1. \A n \in DefaultPort : n \in Port
    <3>1. MaxUint16 \in Int /\ \A n \in DefaultPort : n \in Int /\ 0 <= n /\ n <= MaxUint16
      BY SMT DEF DefaultPort, MaxUint16
    <3>2. QED
      BY <3>1, SMT DEF Port
  <2>2. IsInt(t) /\ t.n \in DefaultPort
    BY <1>1, <1>3, SMT DEF GoodRow, IsInt
  <2>3. PICK n \in Port : t.n = n
    BY <2>1, <2>2, Zenon
  <2>4. QED
    BY <2>2, <2>3, PortsMean, Zenon
<1>4. e.type = "bool" => IsTrue(t)
  BY <1>1, SMT DEF GoodRow, IsTrue
<1>5. e.type \in {"string", "int", "double", "uint16", "bool"}
  BY <1>1, SMT DEF GoodRow
<1>6. QED
  BY <1>2, <1>3, <1>4, <1>5, TypesMean, Zenon DEF e

LEMMA CanonicalStrings == \A t : CanonicalizeValue("string", t) = t
  BY SMT DEF CanonicalizeValue

LEMMA CanonicalMeans ==
  ASSUME NEW k \in Key, NEW t, CanSet(k, t)
  PROVE  Means(ConfigEntries[k].type, CanonicalizeValue(ConfigEntries[k].type, t))
<1> DEFINE type == ConfigEntries[k].type
<1>1. Means(type, t)
  BY DEF CanSet
<1> HIDE DEF type
<1>2. ASSUME type = "double" PROVE Means(type, CanonicalizeValue(type, t))
  <2>1. PICK n : CanonicalizeValue(type, t) = Frac(n)
    BY <1>2, SMT DEF CanonicalizeValue
  <2>2. IsDouble(Frac(n))
    BY SMT DEF IsDouble, Frac, Text
  <2>3. QED
    BY <1>2, <2>1, <2>2, TypesMean, Zenon
<1>3. ASSUME type = "bool" PROVE Means(type, CanonicalizeValue(type, t))
  <2>1. PICK w \in {"true", "false"} : CanonicalizeValue(type, t) = Word(w)
    BY <1>3, SMT DEF CanonicalizeValue
  <2>2. IsTrue(Word(w)) \/ IsFalse(Word(w))
    BY <2>1, SMT DEF IsTrue, IsFalse
  <2>3. QED
    BY <1>3, <2>1, <2>2, TypesMean, Zenon
<1>4. ASSUME type \notin {"double", "bool"} PROVE Means(type, CanonicalizeValue(type, t))
  <2>1. CanonicalizeValue(type, t) = t
    BY <1>4, SMT DEF CanonicalizeValue
  <2>2. QED
    BY <1>1, <2>1, Zenon
<1>5. Means(type, CanonicalizeValue(type, t))
  BY <1>2, <1>3, <1>4, Zenon
<1>6. QED
  BY <1>5, Zenon DEF type

-----------------------------------------------------------------------------
(* The elements of argv that are options.                                  *)

\* The elements before position i that take a value, up to it without a gap.
RunUpTo(i) == {j \in 1 .. (i - 1) : \A n \in j .. (i - 1) : Consumes(Argv[n])}

LEMMA RunIsFinite ==
  ASSUME NEW i \in Nat \ {0}
  PROVE  IsFiniteSet(RunUpTo(i)) /\ Cardinality(RunUpTo(i)) \in Nat
<1>1. 1 \in Int /\ i - 1 \in Int
  OBVIOUS
<1>2. IsFiniteSet(1 .. (i - 1))
  BY <1>1, FS_Interval
<1>3. RunUpTo(i) \subseteq 1 .. (i - 1)
  BY DEF RunUpTo
<1>4. QED
  BY <1>2, <1>3, FS_Subset, FS_CardinalityType

LEMMA FirstIsOption == IsOption(1)
<1>1. RunUpTo(1) = {}
  BY DEF RunUpTo
<1>2. Cardinality(RunUpTo(1)) = 0
  BY <1>1, FS_EmptySet
<1>3. QED
  BY <1>2 DEF IsOption, RunUpTo

\* What follows an option that takes it as its value is no option.
LEMMA OptionsAlternate ==
  ASSUME NEW i \in Nat \ {0}
  PROVE  IsOption(i + 1) <=> ~(IsOption(i) /\ Consumes(Argv[i]))
<1> DEFINE a == Cardinality(RunUpTo(i))
           b == Cardinality(RunUpTo(i + 1))
<1>1. IsOption(i) <=> a % 2 = 0
  BY DEF IsOption, RunUpTo
<1>2. IsOption(i + 1) <=> b % 2 = 0
  BY DEF IsOption, RunUpTo
<1>3. a \in Nat
  BY RunIsFinite
<1>4. CASE ~Consumes(Argv[i])
  <2>1. RunUpTo(i + 1) = {}
    BY <1>4 DEF RunUpTo
  <2>2. b = 0
    BY <2>1, FS_EmptySet
  <2>3. QED
    BY <1>2, <1>4, <2>2
<1>5. CASE Consumes(Argv[i])
  <2>1. RunUpTo(i + 1) = RunUpTo(i) \cup {i} /\ i \notin RunUpTo(i)
    BY <1>5 DEF RunUpTo
  <2>2. b = a + 1
    BY <2>1, RunIsFinite, FS_AddElement
  <2> HIDE DEF a, b
  <2>3. b % 2 = 0 <=> ~(a % 2 = 0)
    BY <1>3, <2>2
  <2>4. QED
    BY <1>1, <1>2, <1>5, <2>3
<1>6. QED
  BY <1>4, <1>5

-----------------------------------------------------------------------------
(* The invariant of the configuration.                                     *)

Canonical(key, t) == CanonicalizeValue(ConfigEntries[key].type, t)

\* The settings of the leaves before position n have been applied, and no other.
FileApplied(n) ==
  \A key \in Key :
    /\ \A i \in Settings(leaves) :
         leaves[i].key = key /\ i < n => values[key] = Canonical(key, leaves[i].text)
    /\ (\A i \in Settings(leaves) : leaves[i].key = key => i >= n)
         => values[key] = Defaults[key]

\* What the file says, or else the default.
AnyOf(S) == CHOOSE t \in S : TRUE

FileSays(key) ==
  IF FromFile(key) # {} THEN Canonical(key, AnyOf(FromFile(key)))
  ELSE Defaults[key]

IsLast(i, key, n) ==
  /\ i \in FromArguments(key) /\ i < n
  /\ \A j \in FromArguments(key) : j < n => j <= i

\* The arguments before position n have been applied on top of the file.
ArgumentsApplied(n) ==
  \A key \in Key \ {"config.path"} :
    /\ \A i \in DOMAIN Argv :
         IsLast(i, key, n) => values[key] = Canonical(key, ReadArgumentValue(Argv, i))
    /\ (\A i \in FromArguments(key) : i >= n) => values[key] = FileSays(key)

\* The options before position n are known, and the loop is at an option or done.
OptionsKnown(n) ==
  /\ \A i \in DOMAIN Argv : Settles(i, Argv[i].name) /\ i < n => Known(Argv[i])
  /\ n <= Len(Argv) =>
       /\ IsOption(n)
       /\ \A i \in 1 .. (n - 1) : IsOption(i) => Argv[i].name # "--"

PathReported ==
  /\ applied # NoText => values["config.path"] = applied /\ applied \in DOMAIN Disk
  /\ applied = NoText => values["config.path"] = Defaults["config.path"] /\ ~FromCommandLine

AllMean(v) ==
  /\ DOMAIN v = Key
  /\ \A key \in Key : Means(ConfigEntries[key].type, v[key])

ValuesMean == AllMean(values)

Phases == {"start", "file", "arguments", "logger", "create", "build", "serving", "failed"}

ConfigInv ==
  /\ start \in Start /\ pc \in Phases /\ next \in Nat \ {0}
  /\ ValuesMean
  /\ IsDocument(leaves)
  /\ pc = "start" => values = Defaults /\ applied = NoText /\ leaves = <<>>
  /\ pc = "file" => FileApplied(next) /\ applied \in DOMAIN Disk
  /\ Configured \/ pc = "arguments" =>
       ArgumentsApplied(next) /\ OptionsKnown(next) /\ PathReported
  /\ Configured => next > Len(Argv)

-----------------------------------------------------------------------------
(* The invariant of what comes of the configuration.                       *)

NamesMatch == \A name \in DOMAIN registry : registry[name].name = name

\* A call that has not come has left nothing behind.
NothingBefore == \A c \in Call : rpc[c].phase = "none" => rpc[c] = NewRpc

ConfiguredLevel == LevelOf(values["server.log_level"])

OutcomeInv ==
  /\ NamesMatch
  /\ NothingBefore
  /\ pc \in {"start", "file", "arguments", "logger"} => default_name = ""
  /\ pc = "create" => GetLogger("").level = ConfiguredLevel
  /\ pc \in {"build", "serving"} => factory.level = ConfiguredLevel
  /\ pc \in {"start", "file", "arguments", "logger", "create"} => created = Refused
  /\ created \in {Refused, CreateGrpcServer(start.service, values, Disk)}

-----------------------------------------------------------------------------
(* The rankers of an array, in the order of their indices.                 *)

\* What goes up all the way from 1 to c within c numbers goes up in ones.
LEMMA GoesUpInOnes ==
  ASSUME NEW c \in Nat, NEW g \in [1 .. c -> 0 .. (c - 1)],
         \A m, n \in 1 .. c : m < n => g[m] < g[n]
  PROVE  \A n \in 1 .. c : g[n] = n - 1
<1> DEFINE A == {k \in 0 .. c : k # 0 => g[k] >= k - 1}
           B == {k \in 0 .. c : k # c => g[c - k] <= (c - k) - 1}
<1>1. \A n \in 1 .. c : g[n] \in Int /\ 0 <= g[n] /\ g[n] <= c - 1
  OBVIOUS
<1>2. 0 .. c \subseteq A
  <2>1. 0 \in A
    OBVIOUS
  <2>2. ASSUME NEW k \in 0 .. (c - 1), k \in A PROVE k + 1 \in A
    <3>1. CASE k = 0
      BY <1>1, <3>1
    <3>2. CASE k # 0
      <4>1. k \in 1 .. c /\ k + 1 \in 1 .. c /\ k < k + 1
        BY <3>2
      <4>2. g[k] < g[k + 1] /\ g[k] >= k - 1
        BY <2>2, <3>2, <4>1
      <4>3. QED
        BY <1>1, <4>1, <4>2
    <3>3. QED
      BY <3>1, <3>2
  <2> HIDE DEF A
  <2>3. QED
    BY <2>1, <2>2, UpTo
<1>3. 0 .. c \subseteq B
  <2>1. 0 \in B
    BY <1>1
  <2>2. ASSUME NEW k \in 0 .. (c - 1), k \in B PROVE k + 1 \in B
    <3>1. CASE k + 1 = c
      BY <3>1
    <3>2. CASE k + 1 # c
      <4>1. c - k \in 1 .. c /\ c - (k + 1) \in 1 .. c /\ c - (k + 1) < c - k
        BY <3>2
      <4>2. g[c - (k + 1)] < g[c - k] /\ g[c - k] <= (c - k) - 1
        BY <2>2, <4>1
      <4>3. g[c - (k + 1)] <= (c - (k + 1)) - 1
        BY <1>1, <4>1, <4>2
      <4>4. QED
        BY <4>3
    <3>3. QED
      BY <3>1, <3>2
  <2> HIDE DEF B
  <2>3. QED
    BY <2>1, <2>2, UpTo
<1>4. SUFFICES ASSUME NEW n \in 1 .. c PROVE g[n] = n - 1
  OBVIOUS
<1>5. n \in 0 .. c /\ c - n \in 0 .. c /\ c - (c - n) = n /\ n # 0 /\ c - n # c
  OBVIOUS
<1>6. n \in A /\ c - n \in B
  <2> HIDE DEF A, B
  <2>1. QED
    BY <1>2, <1>3, <1>5
<1>7. g[n] >= n - 1
  BY <1>5, <1>6
<1>8. g[n] <= n - 1
  <2>1. g[c - (c - n)] <= (c - (c - n)) - 1
    BY <1>5, <1>6
  <2>2. QED
    BY <1>5, <2>1
<1>9. QED
  BY <1>1, <1>7, <1>8

BeforeRanker(ls, i) == {j \in Rankers(ls) : ls[j].index < ls[i].index}

\* Each number below the size of the array is the rank of one element.
LEMMA RankersHaveRanks ==
  ASSUME NEW ls, IsDocument(ls)
  PROVE  /\ Cardinality(Rankers(ls)) \in Nat
         /\ \A i \in Rankers(ls) :
              Cardinality(BeforeRanker(ls, i)) \in 0 .. (Cardinality(Rankers(ls)) - 1)
         /\ \A i, j \in Rankers(ls) :
              ls[i].index < ls[j].index <=>
                Cardinality(BeforeRanker(ls, i)) < Cardinality(BeforeRanker(ls, j))
         /\ \A i, j \in Rankers(ls) :
              Cardinality(BeforeRanker(ls, i)) = Cardinality(BeforeRanker(ls, j)) => i = j
         /\ \A k \in 0 .. (Cardinality(Rankers(ls)) - 1) :
              \E i \in Rankers(ls) : Cardinality(BeforeRanker(ls, i)) = k
<1> DEFINE R == Rankers(ls)
           B == {p \in R \X R : ls[p[1]].index < ls[p[2]].index}
<1>1. R \subseteq 1 .. Len(ls) /\ Len(ls) \in Nat
  BY DEF IsDocument, IsList, Rankers, FlattenYamlNode
<1>2. IsFiniteSet(R) /\ Cardinality(R) \in Nat
  <2>1. 1 \in Int /\ Len(ls) \in Int
    BY <1>1
  <2>2. IsFiniteSet(1 .. Len(ls))
    BY <2>1, FS_Interval
  <2>3. QED
    BY <1>1, <2>2, FS_Subset, FS_CardinalityType
<1>3. /\ \A i \in R : ls[i].index \in Nat
      /\ \A i, j \in R : ls[i].index = ls[j].index => i = j
  BY DEF IsDocument
<1> HIDE DEF R
<1>4. \A i, j \in R : <<i, j>> \in B <=> ls[i].index < ls[j].index
  OBVIOUS
<1>5. Orders(B, R)
  <2>1. \A x \in R : <<x, x>> \notin B
    BY <1>3, <1>4
  <2>2. \A x, y, z \in R : <<x, y>> \in B /\ <<y, z>> \in B => <<x, z>> \in B
    BY <1>3, <1>4
  <2>3. \A x, y \in R : x # y => <<x, y>> \in B \/ <<y, x>> \in B
    BY <1>3, <1>4
  <2>4. QED
    BY <2>1, <2>2, <2>3 DEF Orders
<1>6. \A i \in R : Ahead(B, R, i) = BeforeRanker(ls, i)
  BY <1>4 DEF Ahead, BeforeRanker, R
<1> HIDE DEF B
<1>7. /\ \A x \in R : Cardinality(Ahead(B, R, x)) \in 0 .. (Cardinality(R) - 1)
      /\ \A x, y \in R :
           <<x, y>> \in B <=> Cardinality(Ahead(B, R, x)) < Cardinality(Ahead(B, R, y))
      /\ \A x, y \in R :
           Cardinality(Ahead(B, R, x)) = Cardinality(Ahead(B, R, y)) => x = y
      /\ \A k \in 0 .. (Cardinality(R) - 1) :
           \E x \in R : Cardinality(Ahead(B, R, x)) = k
  BY <1>2, <1>5, RanksAreUnique
<1>8. /\ \A i \in R : Cardinality(BeforeRanker(ls, i)) \in 0 .. (Cardinality(R) - 1)
      /\ \A i, j \in R : ls[i].index < ls[j].index <=>
           Cardinality(BeforeRanker(ls, i)) < Cardinality(BeforeRanker(ls, j))
      /\ \A i, j \in R :
           Cardinality(BeforeRanker(ls, i)) = Cardinality(BeforeRanker(ls, j)) => i = j
      /\ \A k \in 0 .. (Cardinality(R) - 1) :
           \E i \in R : Cardinality(BeforeRanker(ls, i)) = k
  BY <1>4, <1>6, <1>7
<1>9. QED
  BY <1>2, <1>8 DEF R

\* Whoever goes through the array by its indices finds what RankerArray does.
LEMMA ArrayOrderIsUnique ==
  ASSUME IsDocument(leaves)
  PROVE  /\ InArrayOrder # {}
         /\ \A order \in InArrayOrder : Joined(leaves, order) = RankerArray(leaves)
<1> DEFINE R == Rankers(leaves)
           c == Cardinality(R)
           rank(i) == Cardinality(BeforeRanker(leaves, i))
           sorted == [n \in 1 .. c |-> CHOOSE i \in R : rank(i) = n - 1]
<1>1. /\ c \in Nat
      /\ \A i \in R : rank(i) \in 0 .. (c - 1)
      /\ \A i, j \in R : leaves[i].index < leaves[j].index <=> rank(i) < rank(j)
      /\ \A i, j \in R : rank(i) = rank(j) => i = j
      /\ \A k \in 0 .. (c - 1) : \E i \in R : rank(i) = k
  BY RankersHaveRanks
<1>2. RankerArray(leaves) = Joined(leaves, sorted)
  BY DEF RankerArray, BeforeRanker
<1>3. InArrayOrder = {order \in [1 .. c -> R] :
        \A m, n \in 1 .. c : m < n => leaves[order[m]].index < leaves[order[n]].index}
  BY DEF InArrayOrder
<1> HIDE DEF R, c, rank
<1>4. \A n \in 1 .. c : sorted[n] \in R /\ rank(sorted[n]) = n - 1
  <2> SUFFICES ASSUME NEW n \in 1 .. c
               PROVE  sorted[n] \in R /\ rank(sorted[n]) = n - 1
    OBVIOUS
  <2>1. n - 1 \in 0 .. (c - 1)
    BY <1>1
  <2>2. \E i \in R : rank(i) = n - 1
    BY <1>1, <2>1
  <2>3. sorted[n] = CHOOSE i \in R : rank(i) = n - 1
    OBVIOUS
  <2> HIDE DEF sorted
  <2>4. QED
    BY <2>2, <2>3
<1>5. sorted \in [1 .. c -> R]
  BY <1>4
<1> HIDE DEF sorted
<1>6. sorted \in InArrayOrder
  <2>1. \A m, n \in 1 .. c : m < n =>
          leaves[sorted[m]].index < leaves[sorted[n]].index
    <3> SUFFICES ASSUME NEW m \in 1 .. c, NEW n \in 1 .. c, m < n
                 PROVE  leaves[sorted[m]].index < leaves[sorted[n]].index
      OBVIOUS
    <3>1. rank(sorted[m]) = m - 1 /\ rank(sorted[n]) = n - 1 /\ m - 1 < n - 1
      BY <1>1, <1>4
    <3>2. QED
      BY <1>1, <1>4, <3>1
  <2>2. QED
    BY <1>3, <1>5, <2>1
<1>7. ASSUME NEW order \in InArrayOrder PROVE order = sorted
  <2>1. order \in [1 .. c -> R]
    BY <1>3, <1>7
  <2>2. \A m, n \in 1 .. c : m < n =>
          leaves[order[m]].index < leaves[order[n]].index
    BY <1>3, <1>7
  <2> DEFINE g == [n \in 1 .. c |-> rank(order[n])]
  <2>3. g \in [1 .. c -> 0 .. (c - 1)]
    BY <1>1, <2>1
  <2>4. \A m, n \in 1 .. c : m < n => g[m] < g[n]
    BY <1>1, <2>1, <2>2
  <2>5. \A n \in 1 .. c : g[n] = rank(order[n])
    OBVIOUS
  <2> HIDE DEF g
  <2>6. \A n \in 1 .. c : g[n] = n - 1
    BY <1>1, <2>3, <2>4, GoesUpInOnes
  <2>7. \A n \in 1 .. c : order[n] = sorted[n]
    <3> SUFFICES ASSUME NEW n \in 1 .. c PROVE order[n] = sorted[n]
      OBVIOUS
    <3>1. rank(order[n]) = rank(sorted[n])
      BY <1>4, <2>5, <2>6
    <3>2. order[n] \in R /\ sorted[n] \in R
      BY <1>5, <2>1
    <3>3. QED
      BY <1>1, <3>1, <3>2
  <2>8. PICK D : D = 1 .. c
    OBVIOUS
  <2>9. order \in [D -> R] /\ sorted \in [D -> R] /\ \A n \in D : order[n] = sorted[n]
    BY <1>5, <2>1, <2>7, <2>8
  <2>10. QED
    BY <2>9
<1>8. QED
  BY <1>2, <1>6, <1>7

-----------------------------------------------------------------------------
(* The invariant of the configuration is kept.                             *)

LEMMA ArgumentsStay ==
  ASSUME start' = start
  PROVE  /\ Argv' = Argv /\ Disk' = Disk
         /\ \A i : IsOption(i)' <=> IsOption(i)
         /\ \A i, key : Settles(i, key)' <=> Settles(i, key)
         /\ \A key : FromArguments(key)' = FromArguments(key)
         /\ FromCommandLine' <=> FromCommandLine
<1>1. Argv' = Argv /\ Disk' = Disk
  BY DEF Argv, Disk
<1>2. \A i : IsOption(i)' <=> IsOption(i)
  BY <1>1 DEF IsOption
<1>3. \A i, key : Settles(i, key)' <=> Settles(i, key)
  BY <1>1, <1>2 DEF Settles
<1>4. \A key : FromArguments(key)' = FromArguments(key)
  BY <1>1, <1>3 DEF FromArguments
<1>5. FromCommandLine' <=> FromCommandLine
  BY <1>1 DEF FromCommandLine
<1>6. QED
  BY <1>1, <1>2, <1>3, <1>4, <1>5

LEMMA FileStays ==
  ASSUME leaves' = leaves
  PROVE  \A key : FromFile(key)' = FromFile(key) /\ FileSays(key)' = FileSays(key)
<1>1. \A key : FromFile(key)' = FromFile(key)
  BY DEF FromFile, InArrayOrder
<1>2. QED
  BY <1>1 DEF FileSays

LEMMA SetSets ==
  ASSUME NEW v, AllMean(v), NEW key \in Key, NEW t, CanSet(key, t)
  PROVE  /\ AllMean(Set(v, key, t))
         /\ Set(v, key, t)[key] = Canonical(key, t)
         /\ \A k \in Key \ {key} : Set(v, key, t)[k] = v[k]
<1> DEFINE w == Set(v, key, t)
<1>1. DOMAIN v = Key /\ \A k \in Key : Means(ConfigEntries[k].type, v[k])
  BY DEF AllMean
<1>2. /\ DOMAIN w = Key
      /\ w[key] = Canonical(key, t)
      /\ \A k \in Key \ {key} : w[k] = v[k]
  BY <1>1 DEF Set, Canonical
<1>3. Means(ConfigEntries[key].type, Canonical(key, t))
  BY CanonicalMeans DEF Canonical
<1> HIDE DEF w
<1>4. \A k \in Key : Means(ConfigEntries[k].type, w[k])
  BY <1>1, <1>2, <1>3, Zenon
<1>5. AllMean(w)
  BY <1>2, <1>4 DEF AllMean
<1>6. QED
  BY <1>2, <1>5 DEF w

\* Nothing of the configuration changes, and it was complete or does not matter.
LEMMA ConfigKeeps ==
  ASSUME ConfigInv, UNCHANGED <<start, values, applied, leaves, next>>,
         \/ pc' = pc \/ pc' = "failed"
         \/ /\ Configured \/ (pc = "arguments" /\ next > Len(Argv))
            /\ Configured'
  PROVE  ConfigInv'
<1>1. pc' \in Phases
  BY DEF ConfigInv, Configured, Phases
<1>2. ValuesMean' /\ IsDocument(leaves)'
  BY DEF ConfigInv, ValuesMean
<1>3. CASE pc' = "failed"
  BY <1>1, <1>2, <1>3 DEF ConfigInv, Configured
<1>4. CASE pc' # "failed"
  <2>1. FileApplied(next) => FileApplied(next)'
    BY DEF FileApplied
  <2>2. ArgumentsApplied(next) => ArgumentsApplied(next)'
    <3>1. \A i, key, n : IsLast(i, key, n)' <=> IsLast(i, key, n)
      BY ArgumentsStay DEF IsLast
    <3>2. QED
      BY <3>1, ArgumentsStay, FileStays DEF ArgumentsApplied
  <2>3. OptionsKnown(next) => OptionsKnown(next)'
    BY ArgumentsStay DEF OptionsKnown
  <2>4. PathReported => PathReported'
    BY ArgumentsStay DEF PathReported
  <2>5. Argv' = Argv /\ Disk' = Disk
    BY ArgumentsStay
  <2>6. start' \in Start /\ next' \in Nat \ {0}
    BY DEF ConfigInv
  <2>7. /\ Configured' => (Configured \/ pc = "arguments") /\ next > Len(Argv)
        /\ pc' = "arguments" => pc = "arguments"
        /\ pc' = "file" => pc = "file"
        /\ pc' = "start" => pc = "start"
    BY <1>4 DEF Configured, ConfigInv
  <2>8. QED
    BY <1>1, <1>2, <2>1, <2>2, <2>3, <2>4, <2>5, <2>6, <2>7 DEF ConfigInv
<1>5. QED
  BY <1>3, <1>4

LEMMA FailKeeps ==
  ASSUME ConfigInv, NEW why, Fail(why)
  PROVE  ConfigInv'
  BY ConfigKeeps DEF Fail

LEMMA ConfigInit == Init => ConfigInv
<1> SUFFICES ASSUME Init PROVE ConfigInv
  OBVIOUS
<1>1. AllMean(Defaults)
  <2>1. DOMAIN Defaults = Key
    BY DEF Defaults
  <2>2. ASSUME NEW key \in Key PROVE Means(ConfigEntries[key].type, Defaults[key])
    <3>1. Defaults[key] = CanonicalizeValue(ConfigEntries[key].type, ConfigEntries[key].default)
      BY DEF Defaults
    <3>2. CanSet(key, ConfigEntries[key].default)
      BY DefaultsMean DEF CanSet
    <3>3. QED
      BY <3>1, <3>2, CanonicalMeans
  <2>3. QED
    BY <2>1, <2>2 DEF AllMean
<1>2. IsDocument(<<>>)
  <2>1. IsList(<<>>) /\ DOMAIN <<>> = {}
    BY DEF IsList
  <2>2. Settings(<<>>) = {} /\ Rankers(<<>>) = {}
    BY <2>1 DEF Settings, Rankers, FlattenYamlNode
  <2>3. QED
    BY <2>1, <2>2 DEF IsDocument
<1>3. /\ start \in Start /\ pc = "start" /\ values = Defaults /\ applied = NoText
      /\ leaves = <<>> /\ next = 1
  BY DEF Init
<1>4. QED
  BY <1>1, <1>2, <1>3 DEF ConfigInv, ValuesMean, Configured, Phases

\* The loop over the arguments begins with what the file says.
LEMMA ArgumentsBegin ==
  ASSUME start \in Start, start' = start, next' = 1,
         \A key \in Key \ {"config.path"} : values'[key] = FileSays(key)'
  PROVE  ArgumentsApplied(next)' /\ OptionsKnown(next)'
<1>1. DOMAIN Argv = 1 .. Len(Argv) /\ Len(Argv) \in Nat
  BY StartAssumption DEF IsList, Argv
<1>2. /\ DOMAIN Argv' = DOMAIN Argv /\ Len(Argv') = Len(Argv)
      /\ \A i, key : Settles(i, key)' <=> Settles(i, key)
      /\ \A key : FromArguments(key)' = FromArguments(key)
      /\ \A i : IsOption(i)' <=> IsOption(i)
  BY ArgumentsStay
<1>3. ArgumentsApplied(next)'
  <2>1. \A key : FromArguments(key) \subseteq DOMAIN Argv
    BY DEF FromArguments
  <2>2. \A i, key : ~IsLast(i, key, next)'
    BY <1>1, <1>2, <2>1 DEF IsLast
  <2>3. QED
    BY <2>2 DEF ArgumentsApplied
<1>4. OptionsKnown(next)'
  <2>1. \A i \in DOMAIN Argv : ~(i < 1)
    BY <1>1
  <2>2. IsOption(1)'
    BY <1>2, FirstIsOption
  <2>3. 1 .. (1 - 1) = {}
    OBVIOUS
  <2>4. QED
    BY <1>2, <2>1, <2>2, <2>3 DEF OptionsKnown
<1>5. QED
  BY <1>3, <1>4

LEMMA NothingOnFile ==
  ASSUME leaves = <<>>
  PROVE  \A key : FileSays(key) = Defaults[key]
<1>1. Settings(leaves) = {} /\ Rankers(leaves) = {}
  BY DEF Settings, Rankers, FlattenYamlNode
<1>2. \A key : FromFile(key) = {}
  BY <1>1 DEF FromFile
<1>3. QED
  BY <1>2 DEF FileSays

LEMMA StartupFileKeeps ==
  ASSUME ConfigInv, ApplyStartupFile
  PROVE  ConfigInv'
<1> DEFINE path == ResolveStartupConfigPath(FindStartupConfigPath, FromCommandLine, Disk)
<1>0. pc = "start" /\ values = Defaults /\ applied = NoText /\ leaves = <<>>
  BY DEF ApplyStartupFile, ConfigInv
<1>1. CASE \E why : Fail(why)
  BY <1>1, FailKeeps
<1>2. CASE /\ path \notin DOMAIN Disk /\ ~FromCommandLine /\ next' = 1
           /\ Goto("arguments") /\ UNCHANGED <<values, applied, leaves>>
  <2>1. start' = start /\ pc' = "arguments" /\ start \in Start /\ 1 \in Nat \ {0}
    BY <1>2 DEF Goto, ConfigInv
  <2>2. ~FromCommandLine'
    BY <1>2, <2>1, ArgumentsStay
  <2>3. \A key : FileSays(key)' = Defaults[key]
    BY <1>0, <1>2, NothingOnFile, FileStays
  <2>4. ArgumentsApplied(next)' /\ OptionsKnown(next)'
    <3>1. \A key \in Key \ {"config.path"} : values'[key] = FileSays(key)'
      BY <1>0, <1>2, <2>3
    <3>2. QED
      BY <1>2, <2>1, <3>1, ArgumentsBegin
  <2>5. PathReported'
    BY <1>0, <1>2, <2>2 DEF PathReported
  <2>6. ValuesMean' /\ IsDocument(leaves)'
    BY <1>2 DEF ConfigInv, ValuesMean
  <2>7. QED
    BY <1>2, <2>1, <2>4, <2>5, <2>6 DEF ConfigInv, Configured, Phases
<1>3. CASE /\ path \in DOMAIN Disk /\ leaves' = Disk[path].yaml.leaves /\ applied' = path
           /\ next' = 1 /\ Goto("file") /\ UNCHANGED values
  <2>1. start' = start /\ pc' = "file" /\ start \in Start /\ 1 \in Nat \ {0}
    BY <1>3 DEF Goto, ConfigInv
  <2>2. IsDocument(leaves)'
    BY <1>3, <2>1, StartAssumption DEF Disk
  <2>3. applied' \in DOMAIN Disk'
    BY <1>3, <2>1, ArgumentsStay
  <2>4. ValuesMean'
    BY <1>3 DEF ConfigInv, ValuesMean
  <2>5. FileApplied(next)'
    <3>1. Settings(leaves') \subseteq DOMAIN leaves' /\ DOMAIN leaves' = 1 .. Len(leaves')
          /\ Len(leaves') \in Nat
      BY <2>2 DEF IsDocument, IsList, Settings, FlattenYamlNode
    <3>2. \A i \in Settings(leaves') : ~(i < 1)
      BY <3>1
    <3>3. QED
      BY <1>0, <1>3, <3>2 DEF FileApplied
  <2>6. QED
    BY <1>3, <2>1, <2>2, <2>3, <2>4, <2>5 DEF ConfigInv, Configured, Phases
<1> HIDE DEF path
<1>4. QED
  <2>1. \/ \E why : Fail(why)
        \/ /\ path \notin DOMAIN Disk /\ ~FromCommandLine /\ next' = 1
           /\ Goto("arguments") /\ UNCHANGED <<values, applied, leaves>>
        \/ /\ path \in DOMAIN Disk /\ leaves' = Disk[path].yaml.leaves /\ applied' = path
           /\ next' = 1 /\ Goto("file") /\ UNCHANGED values
    BY DEF ApplyStartupFile, path
  <2>2. QED
    BY <1>1, <1>2, <1>3, <2>1

LEMMA SettingKeeps ==
  ASSUME ConfigInv, ApplySetting
  PROVE  ConfigInv'
<1>0. /\ pc = "file" /\ next <= Len(leaves) /\ next \in Nat \ {0}
      /\ FileApplied(next) /\ applied \in DOMAIN Disk /\ start \in Start
      /\ ValuesMean /\ IsDocument(leaves)
  BY DEF ApplySetting, ConfigInv
<1>1. Settings(leaves) \subseteq Nat
      /\ \A i, j \in Settings(leaves) : leaves[i].key = leaves[j].key => i = j
  BY <1>0 DEF IsDocument, IsList, Settings, FlattenYamlNode
<1>2. CASE \E why : Fail(why)
  BY <1>2, FailKeeps
<1>3. ASSUME next' = next + 1, Goto("file"), UNCHANGED <<applied, leaves>>,
             ValuesMean', FileApplied(next)'
      PROVE  ConfigInv'
  <2>1. start' = start /\ pc' = "file" /\ next' \in Nat \ {0}
    BY <1>0, <1>3 DEF Goto
  <2>2. applied' \in DOMAIN Disk'
    BY <1>0, <1>3, <2>1, ArgumentsStay
  <2>3. IsDocument(leaves)'
    BY <1>0, <1>3
  <2>4. QED
    BY <1>0, <1>3, <2>1, <2>2, <2>3 DEF ConfigInv, Configured, Phases
<1>4. CASE /\ next \notin Settings(leaves) /\ next' = next + 1 /\ Goto("file")
           /\ UNCHANGED <<values, applied, leaves>>
  <2>1. \A i \in Settings(leaves) : i < next + 1 <=> i < next
    BY <1>0, <1>1, <1>4
  <2>2. \A i \in Settings(leaves) : i >= next + 1 => i >= next
    BY <1>0, <1>1
  <2>3. FileApplied(next)'
    BY <1>0, <1>4, <2>1, <2>2 DEF FileApplied
  <2>4. ValuesMean'
    BY <1>0, <1>4 DEF ValuesMean
  <2>5. QED
    BY <1>3, <1>4, <2>3, <2>4
<1>5. CASE /\ next \in Settings(leaves) /\ leaves[next].key \in Key
           /\ CanSet(leaves[next].key, leaves[next].text)
           /\ values' = Set(values, leaves[next].key, leaves[next].text)
           /\ next' = next + 1 /\ Goto("file") /\ UNCHANGED <<applied, leaves>>
  <2> DEFINE k == leaves[next].key
  <2>1. /\ AllMean(values')
        /\ values'[k] = Canonical(k, leaves[next].text)
        /\ \A key \in Key \ {k} : values'[key] = values[key]
    BY <1>0, <1>5, SetSets DEF ValuesMean
  <2>2. ASSUME NEW key \in Key, NEW i \in Settings(leaves), leaves[i].key = key, i < next + 1
        PROVE  values'[key] = Canonical(key, leaves[i].text)
    <3>1. CASE key = k
      <4>1. i = next
        BY <1>1, <1>5, <2>2, <3>1
      <4>2. QED
        BY <2>1, <3>1, <4>1
    <3>2. CASE key # k
      <4>1. i # next
        BY <2>2, <3>2
      <4>2. i < next
        BY <1>0, <1>1, <2>2, <4>1
      <4>3. values[key] = Canonical(key, leaves[i].text)
        BY <1>0, <2>2, <4>2 DEF FileApplied
      <4>4. QED
        BY <2>1, <3>2, <4>3
    <3>3. QED
      BY <3>1, <3>2
  <2>3. ASSUME NEW key \in Key, \A i \in Settings(leaves) : leaves[i].key = key => i >= next + 1
        PROVE  values'[key] = Defaults[key]
    <3>1. key # k
      BY <1>0, <1>5, <2>3
    <3>2. \A i \in Settings(leaves) : leaves[i].key = key => i >= next
      BY <1>0, <1>1, <2>3
    <3>3. values[key] = Defaults[key]
      BY <1>0, <3>2 DEF FileApplied
    <3>4. QED
      BY <2>1, <3>1, <3>3
  <2> HIDE DEF k
  <2>4. leaves' = leaves /\ next' = next + 1
    BY <1>5
  <2>5. FileApplied(next)'
    BY <2>2, <2>3, <2>4 DEF FileApplied
  <2>6. QED
    BY <1>3, <1>5, <2>1, <2>5 DEF ValuesMean
<1>6. QED
  BY <1>2, <1>4, <1>5 DEF ApplySetting

\* When the loop over the file is through, only the array is left to apply.
LEMMA FileIsDone ==
  ASSUME IsDocument(leaves), NEW n \in Nat, n > Len(leaves), FileApplied(n),
         NEW key \in Key
  PROVE  /\ key # "ranking.rankers" \/ Rankers(leaves) = {} => values[key] = FileSays(key)
         /\ key = "ranking.rankers" /\ Rankers(leaves) # {}
              => FileSays(key) = Canonical(key, RankerArray(leaves))
<1>1. /\ \A i \in Settings(leaves) : i < n /\ ~(i >= n)
      /\ \A i, j \in Settings(leaves) : leaves[i].key = leaves[j].key => i = j
  BY DEF IsDocument, IsList, Settings, FlattenYamlNode
<1>2. ASSUME key # "ranking.rankers" \/ Rankers(leaves) = {}
      PROVE  values[key] = FileSays(key)
  <2>1. FromFile(key) = {leaves[i].text : i \in {j \in Settings(leaves) : leaves[j].key = key}}
    BY <1>2 DEF FromFile
  <2>2. CASE \E i \in Settings(leaves) : leaves[i].key = key
    <3>1. PICK i \in Settings(leaves) : leaves[i].key = key
      BY <2>2
    <3>2. FromFile(key) = {leaves[i].text}
      BY <1>1, <2>1, <3>1
    <3>3. AnyOf(FromFile(key)) = leaves[i].text /\ FromFile(key) # {}
      BY <3>2 DEF AnyOf
    <3>4. FileSays(key) = Canonical(key, leaves[i].text)
      BY <3>3 DEF FileSays
    <3>5. values[key] = Canonical(key, leaves[i].text)
      BY <1>1, <3>1 DEF FileApplied
    <3>6. QED
      BY <3>4, <3>5
  <2>3. CASE \A i \in Settings(leaves) : leaves[i].key # key
    <3>1. FromFile(key) = {}
      BY <2>1, <2>3
    <3>2. FileSays(key) = Defaults[key]
      BY <3>1 DEF FileSays
    <3>3. values[key] = Defaults[key]
      BY <2>3 DEF FileApplied
    <3>4. QED
      BY <3>2, <3>3
  <2>4. QED
    BY <2>2, <2>3
<1>3. ASSUME key = "ranking.rankers", Rankers(leaves) # {}
      PROVE  FileSays(key) = Canonical(key, RankerArray(leaves))
  <2>1. FromFile(key) = {Joined(leaves, order) : order \in InArrayOrder}
    BY <1>3 DEF FromFile
  <2>2. FromFile(key) = {RankerArray(leaves)}
    BY <2>1, ArrayOrderIsUnique
  <2>3. AnyOf(FromFile(key)) = RankerArray(leaves) /\ FromFile(key) # {}
    BY <2>2 DEF AnyOf
  <2>4. QED
    BY <2>3 DEF FileSays
<1>4. QED
  BY <1>2, <1>3

LEMMA FinishFileKeeps ==
  ASSUME ConfigInv, FinishFile
  PROVE  ConfigInv'
<1>1. /\ next > Len(leaves) /\ next \in Nat \ {0} /\ FileApplied(next) /\ start \in Start
      /\ applied \in DOMAIN Disk /\ ValuesMean /\ IsDocument(leaves)
  BY DEF FinishFile, ConfigInv
<1>2. /\ start' = start /\ applied' = applied /\ leaves' = leaves
      /\ next' = 1 /\ pc' = "arguments"
      /\ values' = Set(ArrayApplied, "config.path", applied)
  BY DEF FinishFile, Goto
<1>3. /\ {"config.path", "ranking.rankers"} \subseteq Key
      /\ \A t : CanSet("config.path", t) /\ CanSet("ranking.rankers", t)
  BY KeysOfStrings, TypesMean DEF StringKeys, CanSet
<1>4. AllMean(ArrayApplied) /\ \A key \in Key : ArrayApplied[key] = FileSays(key)
  <2>1. CASE Rankers(leaves) = {}
    BY <1>1, <2>1, FileIsDone DEF ArrayApplied, ValuesMean
  <2>2. CASE Rankers(leaves) # {}
    <3> DEFINE v == Set(values, "ranking.rankers", RankerArray(leaves))
    <3>1. ArrayApplied = v
      BY <2>2 DEF ArrayApplied
    <3>2. /\ AllMean(v)
          /\ v["ranking.rankers"] = Canonical("ranking.rankers", RankerArray(leaves))
          /\ \A key \in Key \ {"ranking.rankers"} : v[key] = values[key]
      BY <1>1, <1>3, SetSets DEF ValuesMean
    <3> HIDE DEF v
    <3>3. ASSUME NEW key \in Key PROVE v[key] = FileSays(key)
      BY <1>1, <2>2, <3>2, FileIsDone
    <3>4. QED
      BY <3>1, <3>2, <3>3
  <2>3. QED
    BY <2>1, <2>2
<1>5. /\ AllMean(values')
      /\ values'["config.path"] = applied
      /\ \A key \in Key \ {"config.path"} : values'[key] = FileSays(key)
  <2>1. /\ AllMean(Set(ArrayApplied, "config.path", applied))
        /\ Set(ArrayApplied, "config.path", applied)["config.path"]
             = Canonical("config.path", applied)
        /\ \A key \in Key \ {"config.path"} :
             Set(ArrayApplied, "config.path", applied)[key] = ArrayApplied[key]
    BY <1>3, <1>4, SetSets
  <2>2. Canonical("config.path", applied) = applied
    BY KeysOfStrings, CanonicalStrings DEF StringKeys, Canonical
  <2>3. QED
    BY <1>2, <1>4, <2>1, <2>2
<1>6. ArgumentsApplied(next)' /\ OptionsKnown(next)'
  <2>1. \A key \in Key \ {"config.path"} : values'[key] = FileSays(key)'
    BY <1>2, <1>5, FileStays
  <2>2. QED
    BY <1>1, <1>2, <2>1, ArgumentsBegin
<1>7. PathReported'
  <2>1. applied # NoText
    BY <1>1, StartAssumption DEF Disk
  <2>2. Disk' = Disk
    BY <1>2, ArgumentsStay
  <2>3. QED
    BY <1>1, <1>2, <1>5, <2>1, <2>2 DEF PathReported
<1>8. QED
  BY <1>1, <1>2, <1>5, <1>6, <1>7 DEF ConfigInv, ValuesMean, Configured, Phases

-----------------------------------------------------------------------------
(* The loop over the arguments.                                            *)

\* The option at position n has been dealt with, and m is where the next one is.
LEMMA OptionApplied ==
  ASSUME start' = start, leaves' = leaves, NEW n \in Nat \ {0}, NEW m \in Nat, n < m,
         DOMAIN Argv = 1 .. Len(Argv), Len(Argv) \in Nat, n <= Len(Argv),
         ArgumentsApplied(n), OptionsKnown(n), Known(Argv[n]),
         \A i \in (n + 1) .. (m - 1) : ~IsOption(i),
         m <= Len(Argv) => IsOption(m),
         \A key \in Key \ {"config.path", Argv[n].name} : values'[key] = values[key],
         Argv[n].name # "config.path" =>
           values'[Argv[n].name] = Canonical(Argv[n].name, ReadArgumentValue(Argv, n)),
         next' = m
  PROVE  ArgumentsApplied(next)' /\ OptionsKnown(next)'
<1> DEFINE name == Argv[n].name
<1>1. /\ IsOption(n) /\ name \in Key /\ name # "--"
      /\ \A i \in 1 .. (n - 1) : IsOption(i) => Argv[i].name # "--"
  BY DashesAreNoKey DEF OptionsKnown, Known
<1>2. Settles(n, name) /\ n \in FromArguments(name)
  <2>1. \A j \in 1 .. n : j = n \/ j \in 1 .. (n - 1)
    OBVIOUS
  <2>2. Settles(n, name)
    BY <1>1, <2>1 DEF Settles
  <2>3. QED
    BY <2>2 DEF FromArguments
<1>3. ASSUME NEW i \in 1 .. Len(Argv), IsOption(i), i < m
      PROVE  i < n \/ i = n
  <2>1. i \in Int /\ n \in Int /\ m \in Int
    OBVIOUS
  <2>2. i \notin (n + 1) .. (m - 1)
    BY <1>3
  <2>3. QED
    BY <1>3, <2>1, <2>2
<1>4. \A key : \A i \in FromArguments(key) :
        i \in 1 .. Len(Argv) /\ IsOption(i) /\ Argv[i].name = key /\ Settles(i, key)
  BY DEF FromArguments, Settles
<1>5. /\ DOMAIN Argv' = DOMAIN Argv /\ Len(Argv') = Len(Argv) /\ Argv' = Argv
      /\ \A i, key : Settles(i, key)' <=> Settles(i, key)
      /\ \A key : FromArguments(key)' = FromArguments(key)
      /\ \A i : IsOption(i)' <=> IsOption(i)
      /\ \A key : FileSays(key)' = FileSays(key)
  BY ArgumentsStay, FileStays
<1> HIDE DEF name
<1>6. ASSUME NEW key \in Key \ {"config.path"}, NEW i \in DOMAIN Argv, IsLast(i, key, m)
      PROVE  values'[key] = Canonical(key, ReadArgumentValue(Argv, i))
  <2>1. /\ i \in FromArguments(key) /\ i < m
        /\ \A j \in FromArguments(key) : j < m => j <= i
    BY <1>6 DEF IsLast
  <2>2. i < n \/ i = n
    BY <1>3, <1>4, <2>1
  <2>3. CASE key = name
    <3>1. n <= i
      BY <1>2, <2>1, <2>3
    <3>2. i = n
      BY <2>2, <3>1
    <3>3. QED
      BY <1>6, <2>3, <3>2 DEF name
  <2>4. CASE key # name
    <3>1. i # n
      BY <1>4, <2>1, <2>4 DEF name
    <3>2. i < n
      BY <2>2, <3>1
    <3>3. \A j \in FromArguments(key) : j < n => j < m
      BY <1>4
    <3>4. IsLast(i, key, n)
      BY <2>1, <3>2, <3>3 DEF IsLast
    <3>5. values[key] = Canonical(key, ReadArgumentValue(Argv, i))
      BY <1>6, <3>4 DEF ArgumentsApplied
    <3>6. QED
      BY <2>4, <3>5 DEF name
  <2>5. QED
    BY <2>3, <2>4
<1>7. ASSUME NEW key \in Key \ {"config.path"}, \A i \in FromArguments(key) : i >= m
      PROVE  values'[key] = FileSays(key)
  <2>1. key # name
    BY <1>2, <1>7
  <2>2. \A i \in FromArguments(key) : i >= n
    BY <1>4, <1>7
  <2>3. values[key] = FileSays(key)
    BY <2>2 DEF ArgumentsApplied
  <2>4. QED
    BY <2>1, <2>3 DEF name
<1>8. ArgumentsApplied(next)'
  <2>1. \A i, key : IsLast(i, key, next)' <=> IsLast(i, key, m)
    BY <1>5 DEF IsLast
  <2>2. QED
    BY <1>5, <1>6, <1>7, <2>1 DEF ArgumentsApplied
<1>9. OptionsKnown(next)'
  <2>1. ASSUME NEW i \in DOMAIN Argv, Settles(i, Argv[i].name), i < m
        PROVE  Known(Argv[i])
    <3>1. IsOption(i)
      BY <2>1 DEF Settles
    <3>2. i < n \/ i = n
      BY <1>3, <2>1, <3>1
    <3>3. QED
      BY <2>1, <3>2 DEF OptionsKnown
  <2>2. ASSUME m <= Len(Argv), NEW i \in 1 .. (m - 1), IsOption(i)
        PROVE  Argv[i].name # "--"
    <3>1. i \in 1 .. Len(Argv) /\ i < m
      BY <2>2
    <3>2. i < n \/ i = n
      BY <1>3, <2>2, <3>1
    <3>3. QED
      BY <1>1, <2>2, <3>2 DEF name
  <2>3. QED
    BY <1>5, <2>1, <2>2 DEF OptionsKnown
<1>10. QED
  BY <1>8, <1>9

\* "--" ends the loop, and what comes after it settles nothing.
LEMMA DashesEnd ==
  ASSUME start' = start, leaves' = leaves, values' = values, NEW n \in Nat \ {0},
         DOMAIN Argv = 1 .. Len(Argv), Len(Argv) \in Nat, n <= Len(Argv),
         ArgumentsApplied(n), OptionsKnown(n), Argv[n].name = "--",
         next' = Len(Argv) + 1
  PROVE  ArgumentsApplied(next)' /\ OptionsKnown(next)'
<1>1. ASSUME NEW i \in DOMAIN Argv, NEW key, Settles(i, key) PROVE i < n
  <2>1. IsOption(n)
    BY DEF OptionsKnown
  <2>2. n \notin 1 .. i
    BY <1>1, <2>1 DEF Settles
  <2>3. QED
    BY <2>2
<1>2. \A key : \A i \in FromArguments(key) : i < n /\ i \in 1 .. Len(Argv)
  BY <1>1 DEF FromArguments
<1>3. /\ DOMAIN Argv' = DOMAIN Argv /\ Len(Argv') = Len(Argv) /\ Argv' = Argv
      /\ \A i, key : Settles(i, key)' <=> Settles(i, key)
      /\ \A key : FromArguments(key)' = FromArguments(key)
      /\ \A i : IsOption(i)' <=> IsOption(i)
      /\ \A key : FileSays(key)' = FileSays(key)
  BY ArgumentsStay, FileStays
<1>4. \A i, key : IsLast(i, key, next)' => IsLast(i, key, n)
  <2>1. \A i, key : IsLast(i, key, next)' => i \in FromArguments(key)
          /\ \A j \in FromArguments(key) : j < Len(Argv) + 1 => j <= i
    BY <1>3 DEF IsLast
  <2>2. \A key : \A j \in FromArguments(key) : j < Len(Argv) + 1
    BY <1>2
  <2>3. QED
    BY <1>2, <2>1, <2>2 DEF IsLast
<1>5. \A key : (\A i \in FromArguments(key) : i >= Len(Argv) + 1)
                 => \A i \in FromArguments(key) : i >= n
  BY <1>2
<1>6. ArgumentsApplied(next)'
  BY <1>3, <1>4, <1>5 DEF ArgumentsApplied
<1>7. OptionsKnown(next)'
  <2>1. ~(Len(Argv) + 1 <= Len(Argv))
    OBVIOUS
  <2>2. QED
    BY <1>1, <1>3, <2>1 DEF OptionsKnown
<1>8. QED
  BY <1>6, <1>7

LEMMA ArgumentKeeps ==
  ASSUME ConfigInv, ApplyArgument
  PROVE  ConfigInv'
<1> DEFINE a == Argv[next]
           text == ReadArgumentValue(Argv, next)
           path == a.name = "config.path"
           step == IF NextConsumed(a) THEN 2 ELSE 1
<1>1. /\ pc = "arguments" /\ next <= Len(Argv) /\ next \in Nat \ {0} /\ start \in Start
      /\ ArgumentsApplied(next) /\ OptionsKnown(next) /\ PathReported
      /\ ValuesMean /\ IsDocument(leaves)
  BY DEF ApplyArgument, ConfigInv
<1>2. DOMAIN Argv = 1 .. Len(Argv) /\ Len(Argv) \in Nat
  BY <1>1, StartAssumption DEF IsList, Argv
<1>3. CASE \E why : Fail(why)
  BY <1>3, FailKeeps
<1>4. ASSUME Goto("arguments"), UNCHANGED <<applied, leaves>>, next' \in Nat \ {0},
             ValuesMean', values'["config.path"] = values["config.path"],
             ArgumentsApplied(next)', OptionsKnown(next)'
      PROVE  ConfigInv'
  <2>1. start' = start /\ pc' = "arguments"
    BY <1>4 DEF Goto
  <2>2. PathReported'
    BY <1>1, <1>4, <2>1, ArgumentsStay DEF PathReported
  <2>3. IsDocument(leaves)'
    BY <1>1, <1>4
  <2>4. QED
    BY <1>1, <1>4, <2>1, <2>2, <2>3 DEF ConfigInv, Configured, Phases
<1>5. CASE a.name = "--" /\ next' = Len(Argv) + 1 /\ Goto("arguments")
           /\ UNCHANGED <<values, applied, leaves>>
  <2>1. start' = start /\ next' \in Nat \ {0}
    BY <1>2, <1>5 DEF Goto
  <2>2. ArgumentsApplied(next)' /\ OptionsKnown(next)'
    BY <1>1, <1>2, <1>5, <2>1, DashesEnd
  <2>3. ValuesMean'
    BY <1>1, <1>5 DEF ValuesMean
  <2>4. QED
    BY <1>4, <1>5, <2>1, <2>2, <2>3
<1>6. CASE /\ Known(a) /\ (NextConsumed(a) => next < Len(Argv))
           /\ path \/ CanSet(a.name, text)
           /\ values' = IF path THEN values ELSE Set(values, a.name, text)
           /\ next' = next + step
           /\ Goto("arguments") /\ UNCHANGED <<applied, leaves>>
  <2> DEFINE m == next + step
  <2>1. /\ start' = start /\ next' = m /\ m \in Nat \ {0} /\ next < m
    BY <1>1, <1>6 DEF Goto
  <2>2. a.name \in Key /\ IsOption(next) /\ (Consumes(a) <=> NextConsumed(a))
    BY <1>1, <1>6 DEF Known, OptionsKnown, Consumes
  <2>3. /\ \A i \in (next + 1) .. (m - 1) : ~IsOption(i)
        /\ IsOption(m)
    <3>1. CASE NextConsumed(a)
      <4>1. m = next + 2 /\ m = (next + 1) + 1 /\ (next + 1) .. (m - 1) = {next + 1}
            /\ next + 1 \in Nat \ {0}
        BY <1>1, <3>1
      <4>2. ~IsOption(next + 1)
        BY <1>1, <2>2, <3>1, OptionsAlternate
      <4>3. IsOption((next + 1) + 1)
        BY <4>1, <4>2, OptionsAlternate
      <4>4. QED
        BY <4>1, <4>2, <4>3
    <3>2. CASE ~NextConsumed(a)
      <4>1. m = next + 1 /\ (next + 1) .. (m - 1) = {}
        BY <1>1, <3>2
      <4>2. IsOption(next + 1)
        BY <1>1, <2>2, <3>2, OptionsAlternate
      <4>3. QED
        BY <4>1, <4>2
    <3>3. QED
      BY <3>1, <3>2
  <2>4. /\ ValuesMean'
        /\ values'["config.path"] = values["config.path"]
        /\ \A key \in Key \ {"config.path", a.name} : values'[key] = values[key]
        /\ a.name # "config.path" => values'[a.name] = Canonical(a.name, text)
    <3>1. CASE path
      <4>1. values' = values
        BY <1>6, <3>1
      <4>2. QED
        BY <1>1, <3>1, <4>1 DEF ValuesMean
    <3>2. CASE ~path
      <4>1. values' = Set(values, a.name, text) /\ CanSet(a.name, text)
        BY <1>6, <3>2
      <4>2. /\ AllMean(Set(values, a.name, text))
            /\ Set(values, a.name, text)[a.name] = Canonical(a.name, text)
            /\ \A key \in Key \ {a.name} : Set(values, a.name, text)[key] = values[key]
        BY <1>1, <2>2, <4>1, SetSets DEF ValuesMean
      <4>3. "config.path" \in Key
        BY KeysOfStrings DEF StringKeys
      <4> HIDE DEF text
      <4>4. QED
        BY <3>2, <4>1, <4>2, <4>3 DEF ValuesMean
    <3>3. QED
      BY <3>1, <3>2
  <2> HIDE DEF m
  <2>5. ArgumentsApplied(next)' /\ OptionsKnown(next)'
    <3>1. leaves' = leaves /\ Known(Argv[next]) /\ m \in Nat /\ (m <= Len(Argv) => IsOption(m))
      BY <1>6, <2>1, <2>3
    <3>2. QED
      BY <1>1, <1>2, <2>1, <2>3, <2>4, <3>1, OptionApplied
  <2>6. QED
    BY <1>4, <1>6, <2>1, <2>4, <2>5
<1>7. \/ \E why : Fail(why)
      \/ a.name = "--" /\ next' = Len(Argv) + 1 /\ Goto("arguments")
                       /\ UNCHANGED <<values, applied, leaves>>
      \/ /\ Known(a) /\ (NextConsumed(a) => next < Len(Argv))
         /\ path \/ CanSet(a.name, text)
         /\ values' = IF path THEN values ELSE Set(values, a.name, text)
         /\ next' = next + step
         /\ Goto("arguments") /\ UNCHANGED <<applied, leaves>>
  <2> SUFFICES ASSUME ~\E why : Fail(why)
               PROVE  \/ a.name = "--" /\ next' = Len(Argv) + 1 /\ Goto("arguments")
                                       /\ UNCHANGED <<values, applied, leaves>>
                      \/ /\ Known(a) /\ (NextConsumed(a) => next < Len(Argv))
                         /\ path \/ CanSet(a.name, text)
                         /\ values' = IF path THEN values ELSE Set(values, a.name, text)
                         /\ next' = next + step
                         /\ Goto("arguments") /\ UNCHANGED <<applied, leaves>>
    OBVIOUS
  <2>1. QED
    BY Zenon DEF ApplyArgument
<1> HIDE DEF a, text, path, step
<1>8. QED
  BY <1>3, <1>5, <1>6, <1>7

\* The configuration is complete when the logger is registered.
LEMMA ConfigStep == ConfigInv /\ [Next]_vars => ConfigInv'
<1> SUFFICES ASSUME ConfigInv, [Next]_vars PROVE ConfigInv'
  OBVIOUS
<1>1. CASE ApplyStartupFile
  BY <1>1, StartupFileKeeps
<1>2. CASE ApplySetting
  BY <1>2, SettingKeeps
<1>3. CASE FinishFile
  BY <1>3, FinishFileKeeps
<1>4. CASE ApplyArgument
  BY <1>4, ArgumentKeeps
<1>5. CASE FinishArguments
  <2>1. /\ pc = "arguments" /\ next > Len(Argv) /\ Configured'
        /\ UNCHANGED <<start, values, applied, leaves, next>>
    BY <1>5 DEF FinishArguments, Goto, Configured
  <2>2. QED
    BY <2>1, ConfigKeeps
<1>6. ASSUME UNCHANGED <<start, values, applied, leaves, next>>, Configured,
             Configured' \/ pc' = "failed"
      PROVE  ConfigInv'
  BY <1>6, ConfigKeeps
<1>7. CASE RegisterLogger
  BY <1>6, <1>7 DEF RegisterLogger, Fail, config, Configured
<1>8. CASE CreateService
  BY <1>6, <1>8 DEF CreateService, Fail, Configured
<1>9. CASE BuildAndStart
  BY <1>6, <1>9 DEF BuildAndStart, Fail, config, Configured
<1>10. CASE UNCHANGED <<pc, config>>
  <2>1. UNCHANGED <<start, values, applied, leaves, next>> /\ pc' = pc
    BY <1>10 DEF config
  <2>2. QED
    BY <2>1, ConfigKeeps
<1>11. CASE \E c \in Call : ServeCall(c) \/ ClientActs(c)
  BY <1>10, <1>11 DEF ServeCall, ClientActs
<1>12. CASE UNCHANGED vars
  BY <1>10, <1>12 DEF vars, config
<1>13. QED
  BY <1>1, <1>2, <1>3, <1>4, <1>5, <1>7, <1>8, <1>9, <1>11, <1>12 DEF Next, Run

-----------------------------------------------------------------------------
(* What comes of the configuration is kept.                                *)

LEMMA RegisteredNames ==
  ASSUME NamesMatch, NEW logger, registry' = Registered(logger)
  PROVE  NamesMatch'
<1>1. registry' = [name \in {logger.name} \cup DOMAIN registry |->
                     IF name = logger.name THEN logger ELSE registry[name]]
  BY DEF Registered
<1>2. DOMAIN registry' = {logger.name} \cup DOMAIN registry
  BY <1>1
<1>3. ASSUME NEW name \in DOMAIN registry' PROVE registry'[name].name = name
  <2>1. registry'[name] = IF name = logger.name THEN logger ELSE registry[name]
    BY <1>1, <1>2
  <2>2. QED
    BY <1>2, <2>1 DEF NamesMatch
<1>4. QED
  BY <1>3 DEF NamesMatch

LEMMA GetKeepsNames ==
  ASSUME NamesMatch, registry' = RegistryAfterGet("") \/ registry' = registry
  PROVE  NamesMatch'
<1>1. CASE registry' = registry
  BY <1>1 DEF NamesMatch
<1>2. CASE registry' = Registered(BlankLogger)
  BY <1>2, RegisteredNames
<1>3. QED
  BY <1>1, <1>2 DEF RegistryAfterGet

\* The logger of the service is the one that Get returns from then on.
LEMMA ServiceLoggerIsDefault ==
  ASSUME start \in Start, default_name = "", registry' = Registered(ServiceLogger),
         default_name' = DefaultNameAfterSet(start.service, Registered(ServiceLogger))
  PROVE  GetLogger("")' = ServiceLogger
<1>1. ServiceLogger.name = start.service /\ start.service \notin {"", "blank_logger"}
  BY StartAssumption DEF ServiceLogger, Logger, Services
<1>2. registry' = [name \in {start.service} \cup DOMAIN registry |->
                     IF name = start.service THEN ServiceLogger ELSE registry[name]]
  BY <1>1 DEF Registered
<1>3. start.service \in DOMAIN registry' /\ registry'[start.service] = ServiceLogger
  BY <1>2
<1>4. default_name' = start.service
  BY <1>3 DEF DefaultNameAfterSet
<1>5. QED
  BY <1>1, <1>3, <1>4 DEF GetLogger

LEMMA OutcomeInit == Init => OutcomeInv
<1> SUFFICES ASSUME Init PROVE OutcomeInv
  OBVIOUS
<1>1. /\ registry = <<>> /\ default_name = "" /\ pc = "start" /\ created = Refused
      /\ \A c \in Call : rpc[c] = NewRpc
  BY DEF Init, LoggingInit
<1>2. DOMAIN <<>> = {}
  OBVIOUS
<1>3. QED
  BY <1>1, <1>2 DEF OutcomeInv, NamesMatch, NothingBefore

LEMMA OutcomeOfFailure ==
  ASSUME OutcomeInv, NEW why, Fail(why)
  PROVE  OutcomeInv'
<1>1. /\ pc' = "failed" /\ UNCHANGED <<start, values, created, rpc>>
      /\ registry' = RegistryAfterGet("")
  BY DEF Fail
<1>2. NamesMatch'
  BY <1>1, GetKeepsNames DEF OutcomeInv
<1>3. Disk' = Disk
  BY <1>1 DEF Disk
<1>4. QED
  BY <1>1, <1>2, <1>3 DEF OutcomeInv, NothingBefore

\* Before the logger is registered nothing has come of the configuration.
LEMMA OutcomeOfLoading ==
  ASSUME OutcomeInv, pc \in {"start", "file", "arguments"},
         NEW label \in {"file", "arguments", "logger"}, Goto(label)
  PROVE  OutcomeInv'
<1>1. /\ pc' = label /\ UNCHANGED <<created, registry, default_name, rpc>>
      /\ created = Refused /\ default_name = ""
  BY DEF Goto, logging, OutcomeInv
<1>2. QED
  BY <1>1 DEF OutcomeInv, NamesMatch, NothingBefore

LEMMA OutcomeOfRegistering ==
  ASSUME OutcomeInv, ConfigInv, RegisterLogger
  PROVE  OutcomeInv'
<1>1. CASE \E why : Fail(why)
  BY <1>1, OutcomeOfFailure
<1>2. CASE /\ registry' = Registered(ServiceLogger)
           /\ default_name' = DefaultNameAfterSet(start.service, Registered(ServiceLogger))
           /\ pc' = "create" /\ UNCHANGED <<config, factory, rpc>>
  <2>1. start \in Start /\ default_name = "" /\ created = Refused
    BY DEF RegisterLogger, OutcomeInv, ConfigInv
  <2>2. GetLogger("")' = ServiceLogger
    BY <1>2, <2>1, ServiceLoggerIsDefault
  <2>3. UNCHANGED <<start, values, created, rpc>> /\ pc' = "create"
    BY <1>2 DEF config
  <2>4. GetLogger("").level' = ConfiguredLevel'
    <3>1. ConfiguredLevel' = ConfiguredLevel
      BY <2>3 DEF ConfiguredLevel
    <3>2. ServiceLogger.level = ConfiguredLevel
      BY DEF ServiceLogger, Logger, ConfiguredLevel
    <3>3. QED
      BY <2>2, <3>1, <3>2
  <2>5. NamesMatch'
    BY <1>2, RegisteredNames DEF OutcomeInv
  <2>6. NothingBefore'
    BY <2>3 DEF OutcomeInv, NothingBefore
  <2>7. QED
    BY <2>1, <2>3, <2>4, <2>5, <2>6 DEF OutcomeInv
<1>3. QED
  BY <1>1, <1>2 DEF RegisterLogger

LEMMA OutcomeOfCreating ==
  ASSUME OutcomeInv, CreateService
  PROVE  OutcomeInv'
<1> DEFINE made == CreateGrpcServer(start.service, values, Disk)
<1>1. CASE \E why : Fail(why)
  BY <1>1, OutcomeOfFailure
<1>2. CASE /\ created' = made /\ factory' = GetLogger("") /\ pc' = "build"
           /\ UNCHANGED <<start, values, registry, default_name, rpc>>
  <2>1. GetLogger("").level = ConfiguredLevel
    BY DEF CreateService, OutcomeInv
  <2>2. factory.level' = ConfiguredLevel'
    BY <1>2, <2>1 DEF ConfiguredLevel
  <2>3. created' = CreateGrpcServer(start.service, values, Disk)'
    BY <1>2 DEF Disk
  <2>4. NamesMatch' /\ NothingBefore'
    BY <1>2 DEF OutcomeInv, NamesMatch, NothingBefore
  <2>5. QED
    BY <1>2, <2>2, <2>3, <2>4 DEF OutcomeInv
<1>3. QED
  BY <1>1, <1>2 DEF CreateService

\* Serving changes nothing about it, but for the blank logger that Get may add.
LEMMA OutcomeOfServing ==
  ASSUME OutcomeInv,
         pc = "serving" \/ (registry' = registry /\ default_name' = default_name),
         UNCHANGED <<pc, start, values, created, factory>>,
         registry' = RegistryAfterGet("") \/ registry' = registry,
         NothingBefore'
  PROVE  OutcomeInv'
<1>1. NamesMatch'
  BY GetKeepsNames DEF OutcomeInv
<1>2. Disk' = Disk /\ ConfiguredLevel' = ConfiguredLevel
  BY DEF Disk, ConfiguredLevel
<1>3. registry' = registry /\ default_name' = default_name => GetLogger("")' = GetLogger("")
  BY DEF GetLogger
<1>4. CASE pc = "serving"
  BY <1>1, <1>2, <1>4 DEF OutcomeInv
<1>5. CASE registry' = registry /\ default_name' = default_name
  BY <1>1, <1>2, <1>3, <1>5 DEF OutcomeInv
<1>6. QED
  BY <1>4, <1>5

LEMMA OutcomeStep == IInv /\ ConfigInv /\ OutcomeInv /\ [Next]_vars => OutcomeInv'
<1> SUFFICES ASSUME IInv, ConfigInv, OutcomeInv, [Next]_vars PROVE OutcomeInv'
  OBVIOUS
<1>1. CASE ApplyStartupFile
  BY <1>1, OutcomeOfFailure, OutcomeOfLoading DEF ApplyStartupFile
<1>2. CASE ApplySetting
  BY <1>2, OutcomeOfFailure, OutcomeOfLoading DEF ApplySetting
<1>3. CASE FinishFile
  BY <1>3, OutcomeOfLoading DEF FinishFile
<1>4. CASE ApplyArgument
  BY <1>4, OutcomeOfFailure, OutcomeOfLoading DEF ApplyArgument
<1>5. CASE FinishArguments
  BY <1>5, OutcomeOfLoading DEF FinishArguments
<1>6. CASE RegisterLogger
  BY <1>6, OutcomeOfRegistering
<1>7. CASE CreateService
  BY <1>7, OutcomeOfCreating
<1>8. CASE BuildAndStart
  <2>1. CASE \E why : Fail(why)
    BY <2>1, OutcomeOfFailure
  <2>2. CASE pc' = "serving" /\ UNCHANGED <<config, logging>>
    <3>1. UNCHANGED <<start, values, created, registry, default_name, factory, rpc>>
          /\ pc = "build" /\ pc' = "serving"
      BY <1>8, <2>2 DEF BuildAndStart, config, logging
    <3>2. Disk' = Disk /\ ConfiguredLevel' = ConfiguredLevel
      BY <3>1 DEF Disk, ConfiguredLevel
    <3>3. QED
      BY <3>1, <3>2 DEF OutcomeInv, NamesMatch, NothingBefore
  <2>3. QED
    BY <1>8, <2>1, <2>2 DEF BuildAndStart
<1>9. ASSUME NEW c \in Call, ServeCall(c)
      PROVE  OutcomeInv'
  <2>1. /\ DOMAIN rpc' = Call /\ OnlyCall(c) /\ Untouched
        /\ Continues(rpc[c], rpc'[c])
    BY <1>9, CallContinues DEF IInv
  <2>2. NothingBefore'
    BY <2>1 DEF OutcomeInv, NothingBefore, OnlyCall, Continues
  <2>3. pc = "serving" /\ UNCHANGED <<pc, start, values, created, factory, registry>>
    BY <1>9, <2>1 DEF ServeCall, config, Untouched
  <2>4. QED
    BY <2>2, <2>3, OutcomeOfServing
<1>10. ASSUME NEW c \in Call, ClientActs(c)
       PROVE  OutcomeInv'
  <2>1. pc = "serving" /\ UNCHANGED <<pc, start, values, created>>
    BY <1>10 DEF ClientActs, config
  <2>2. CASE Cancel(c)
    <3>1. /\ DOMAIN rpc' = Call /\ OnlyCall(c) /\ Continues(rpc[c], rpc'[c])
      BY <2>2, CancelContinues DEF IInv
    <3>2. NothingBefore'
      BY <3>1 DEF OutcomeInv, NothingBefore, OnlyCall, Continues
    <3>3. registry' = registry /\ factory' = factory
      BY <2>2 DEF Cancel
    <3>4. QED
      BY <2>1, <3>2, <3>3, OutcomeOfServing
  <2>3. ASSUME NEW type \in {"unary", "streaming"}, NEW decodes \in BOOLEAN,
               NEW id \in TraceId \cup {NoTraceId}, Receive(c, type, decodes, id)
        PROVE  OutcomeInv'
    <3>1. OnlyCall(c) /\ rpc'[c].phase # "none"
      BY <2>3, ReceiveBegins DEF IInv
    <3>2. NothingBefore'
      BY <3>1 DEF OutcomeInv, NothingBefore, OnlyCall
    <3>3. factory' = factory /\ (registry' = RegistryAfterGet("") \/ registry' = registry)
      BY <2>3 DEF Receive
    <3>4. QED
      BY <2>1, <3>2, <3>3, OutcomeOfServing
  <2>4. QED
    BY <1>10, <2>2, <2>3 DEF ClientActs
<1>11. CASE UNCHANGED vars
  <2>1. UNCHANGED <<pc, start, values, created, factory, registry, default_name, rpc>>
    BY <1>11 DEF vars, logging
  <2>2. NothingBefore'
    BY <2>1 DEF OutcomeInv, NothingBefore
  <2>3. QED
    BY <2>1, <2>2, OutcomeOfServing
<1>12. QED
  BY <1>1, <1>2, <1>3, <1>4, <1>5, <1>6, <1>7, <1>8, <1>9, <1>10, <1>11 DEF Next, Run

-----------------------------------------------------------------------------
(* The theorems about the configuration.                                   *)

\* The invariant of the loops over the file and over the arguments.
THEOREM ConfigurationInvariant == Spec => []ConfigInv
  BY ConfigInit, ConfigStep, PTL DEF Spec

\* The invariant of the logger and of the service that come of it.
THEOREM OutcomeInvariant == Spec => []OutcomeInv
<1>1. Init => IInv /\ ConfigInv /\ OutcomeInv
  BY InitHolds, ConfigInit, OutcomeInit
<1>2. IInv /\ ConfigInv /\ OutcomeInv /\ [Next]_vars => (IInv /\ ConfigInv /\ OutcomeInv)'
  BY StepHolds, ConfigStep, OutcomeStep
<1>3. QED
  BY <1>1, <1>2, PTL DEF Spec

LEMMA SaysWhatApplies ==
  ASSUME ConfigInv, Configured, NEW key \in Key \ {"config.path"}
  PROVE  values[key] = Says(key)
<1>1. start \in Start /\ ArgumentsApplied(next) /\ next > Len(Argv) /\ next \in Nat
  BY DEF ConfigInv
<1>2. DOMAIN Argv = 1 .. Len(Argv) /\ Len(Argv) \in Nat
  BY <1>1, StartAssumption DEF IsList, Argv
<1>3. CASE FromArguments(key) # {}
  <2> DEFINE S == FromArguments(key)
             last == CHOOSE i \in S : \A j \in S : j <= i
  <2>1. S \in SUBSET (1 .. Len(Argv))
    BY <1>2 DEF FromArguments
  <2>2. \E i \in S : \A j \in S : j <= i
    <3> HIDE DEF S
    <3>1. S # {}
      BY <1>3 DEF S
    <3>2. Max(S) \in S /\ \A j \in S : j <= Max(S)
      BY <1>2, <2>1, <3>1, MaxIsIn
    <3>3. QED
      BY <3>2
  <2>3. last \in S /\ \A j \in S : j <= last
    BY <2>2
  <2>4. Says(key) = Canonical(key, ReadArgumentValue(Argv, last))
    BY <1>3, Zenon DEF Says, Canonical
  <2> HIDE DEF last
  <2>5. last \in DOMAIN Argv /\ last < next
    BY <1>1, <1>2, <2>1, <2>3
  <2>6. IsLast(last, key, next)
    BY <2>3, <2>5 DEF IsLast
  <2>7. values[key] = Canonical(key, ReadArgumentValue(Argv, last))
    BY <1>1, <2>5, <2>6 DEF ArgumentsApplied
  <2>8. QED
    BY <2>4, <2>7
<1>4. CASE FromArguments(key) = {}
  <2>1. values[key] = FileSays(key)
    BY <1>1, <1>4 DEF ArgumentsApplied
  <2>2. Says(key) = FileSays(key)
    BY <1>4, Zenon DEF Says, FileSays, Canonical, AnyOf
  <2>3. QED
    BY <2>1, <2>2
<1>5. QED
  BY <1>3, <1>4

\* For every way to start: the arguments come before the file and the file
\* before the default (ApplyStartupFile before ConfigArguments::Apply), the
\* last argument wins, and an array of rankers keeps its order.
THEOREM ArgumentsBeatTheFile == Spec => []Precedence
<1>1. IInv /\ ConfigInv /\ OutcomeInv => Precedence
  <2> SUFFICES ASSUME IInv, ConfigInv, OutcomeInv PROVE Precedence
    OBVIOUS
  <2>1. \A c \in Call : rpc[c].status \in RpcStatus /\ rpc[c].min_level \in Level
    BY DEF IInv, CallInv, CallShape
  <2>2. \A name \in DOMAIN registry :
          registry[name].name = name /\ registry[name].level \in Level
    BY DEF IInv, LevelsAreLevels, OutcomeInv, NamesMatch
  <2>3. TypeOK
    BY <2>1, <2>2 DEF ConfigInv, ValuesMean, AllMean, TypeOK, Phases
  <2>4. QED
    BY <2>3, SaysWhatApplies DEF Precedence
<1>2. QED
  BY <1>1, LoggingInvariant, ConfigurationInvariant, OutcomeInvariant, PTL

\* An option for the path that is applied is one that the first scan found.
LEMMA PathOptionIsFound ==
  ASSUME ConfigInv, Configured, FromArguments("config.path") # {}
  PROVE  FromCommandLine
<1>1. start \in Start /\ OptionsKnown(next) /\ next > Len(Argv) /\ next \in Nat
  BY DEF ConfigInv
<1>2. DOMAIN Argv = 1 .. Len(Argv) /\ Len(Argv) \in Nat
  BY <1>1, StartAssumption DEF IsList, Argv
<1>3. PICK i \in DOMAIN Argv : Settles(i, "config.path")
  BY DEF FromArguments
<1>4. Argv[i].name = "config.path" /\ i < next
  BY <1>1, <1>2, <1>3 DEF Settles
<1>5. Known(Argv[i])
  BY <1>1, <1>3, <1>4 DEF OptionsKnown
<1>6. ~Argv[i].negated
  <2>1. ConfigEntries["config.path"].type = "string"
    BY KeysOfStrings DEF StringKeys
  <2>2. QED
    BY <1>4, <1>5, <2>1 DEF Known, Negates
<1> DEFINE I == {j \in 1 .. Len(Argv) : Argv[j].name = "config.path" /\ ~Argv[j].negated}
<1>7. I # {} /\ I \subseteq Nat /\ 0 \notin I
  BY <1>2, <1>4, <1>6
<1>8. StartupConfigToken(Argv) = Min(I)
  BY <1>7 DEF StartupConfigToken, SelectInSeq
<1> HIDE DEF I
<1>9. Min(I) \in I
  BY <1>7, MinIsIn
<1>10. QED
  BY <1>7, <1>8, <1>9 DEF FromCommandLine

\* For every way to start: "config.path" names the file that was applied
\* (ApplyStartupFile sets it last, ConfigArguments::Apply skips its option).
THEOREM PathIsTheFileThatWasRead == Spec => []ReportsTheFileItRead
<1>1. ConfigInv => ReportsTheFileItRead
  BY PathOptionIsFound DEF ConfigInv, PathReported, ReportsTheFileItRead
<1>2. QED
  BY <1>1, ConfigurationInvariant, PTL

\* For every way to start: the copy of the level in the interceptors is the
\* level that the configuration names, and all lines of calls keep to it.
THEOREM CallsAreLoggedAtTheLevel == Spec => []LevelIsConfigured
<1>1. IInv /\ ConfigInv /\ OutcomeInv => LevelIsConfigured
  <2> SUFFICES ASSUME IInv, ConfigInv, OutcomeInv, NEW c \in Call,
                      NEW i \in DOMAIN rpc[c].lines
               PROVE  ShouldLog(rpc[c].lines[i].severity, LevelOf(Says("server.log_level")))
    BY DEF LevelIsConfigured
  <2>1. rpc[c] # NewRpc
    <3>1. NewRpc.lines = <<>> /\ DOMAIN <<>> = {}
      BY DEF NewRpc
    <3>2. QED
      BY <3>1
  <2>2. pc = "serving" /\ rpc[c].phase # "none"
    BY <2>1 DEF IInv, ServedWhenUp, OutcomeInv, NothingBefore
  <2>3. rpc[c].min_level = factory.level /\ CallShape(rpc[c])
    BY <2>2 DEF IInv, CallInv
  <2>4. ShouldLog(rpc[c].lines[i].severity, rpc[c].min_level)
    BY <2>3 DEF CallShape
  <2>5. factory.level = ConfiguredLevel
    BY <2>2 DEF OutcomeInv
  <2>6. values["server.log_level"] = Says("server.log_level")
    BY <2>2, SaysWhatApplies, KeysOfStrings DEF Configured, StringKeys
  <2>7. QED
    BY <2>3, <2>4, <2>5, <2>6 DEF ConfiguredLevel
<1>2. QED
  BY <1>1, LoggingInvariant, ConfigurationInvariant, OutcomeInvariant, PTL

-----------------------------------------------------------------------------
(* The files that services load.                                           *)

\* What has been loaded after each line.
RowsAfter(g, lines) ==
  /\ DOMAIN g[0] = {}
  /\ \A k \in 1 .. Len(lines) : g[k] = AddRow(g[k - 1], lines[k])

LEMMA RowsStepByStep ==
  ASSUME NEW lines, IsList(lines)
  PROVE  \E g : RowsAfter(g, lines) /\ FoldLeft(AddRow, <<>>, lines) = g[Len(lines)]
<1> DEFINE n == Len(lines)
           I == {lines[i].id : i \in 1 .. n}
           P == {lines[i].payload : i \in 1 .. n}
           B == {lines[i] : i \in 1 .. n}
           A == UNION {[S -> P] : S \in SUBSET I}
           F == [x \in A \X B |-> AddRow(x[1], x[2])]
           iter == CHOOSE iter :
                     iter = [t \in SUBSET DOMAIN lines |->
                       IF t = {} THEN <<>> ELSE AddRow(iter[t \ {Max(t)}], lines[Max(t)])]
<1>1. DOMAIN lines = 1 .. n /\ n \in Nat /\ \A i \in 1 .. n : lines[i] \in B
  BY DEF IsList
<1>2. FoldLeft(AddRow, <<>>, lines) = iter[DOMAIN lines]
  BY DEF FoldLeft, MapThenFoldSet
<1>3. \A line \in B : line.id \in I /\ line.payload \in P
  OBVIOUS
<1> HIDE DEF n, I, P, B
<1>4. ASSUME NEW rows \in A, NEW line \in B PROVE AddRow(rows, line) \in A
  <2>1. PICK S \in SUBSET I : rows \in [S -> P]
    OBVIOUS
  <2>2. CASE line.kind = "row"
    <3> DEFINE w == [id \in DOMAIN rows \cup {line.id} |->
                       IF id = line.id THEN line.payload ELSE rows[id]]
    <3>1. AddRow(rows, line) = w
      BY <2>2 DEF AddRow
    <3>2. S \cup {line.id} \in SUBSET I /\ DOMAIN rows = S
      BY <1>3, <2>1
    <3>3. w \in [S \cup {line.id} -> P]
      BY <1>3, <2>1, <3>2
    <3>4. QED
      BY <3>1, <3>2, <3>3
  <2>3. CASE line.kind # "row"
    BY <2>3 DEF AddRow
  <2>4. QED
    BY <2>2, <2>3
<1>5. <<>> \in A /\ DOMAIN <<>> = {}
  <2>1. <<>> \in [{} -> P] /\ {} \in SUBSET I
    OBVIOUS
  <2>2. QED
    BY <2>1
<1> HIDE DEF A
<1>6. F \in [A \X B -> A]
  BY <1>4
<1>7. \A rows \in A, line \in B : F[<<rows, line>>] = AddRow(rows, line)
  OBVIOUS
<1> HIDE DEF F, iter
<1>8. PICK f : FoldsBy(f, A, F, <<>>, lines, n)
  BY <1>1, <1>5, <1>6, FoldExists
<1>9. ASSUME NEW t \in SUBSET (1 .. n), t # {}
      PROVE  f[t] = AddRow(f[t \ {Max(t)}], lines[Max(t)]) /\ Max(t) \in 1 .. n
  <2>1. Max(t) \in 1 .. n
    BY <1>1, <1>9, MaxIsIn
  <2>2. f[t \ {Max(t)}] \in A /\ lines[Max(t)] \in B
    BY <1>1, <1>8, <2>1 DEF FoldsBy
  <2>3. QED
    BY <1>7, <1>8, <1>9, <2>1, <2>2 DEF FoldsBy
<1>10. f = [t \in SUBSET (1 .. n) |->
              IF t = {} THEN <<>> ELSE AddRow(f[t \ {Max(t)}], lines[Max(t)])]
  BY <1>8, <1>9 DEF FoldsBy
<1>11. iter = [t \in SUBSET (1 .. n) |->
                 IF t = {} THEN <<>> ELSE AddRow(iter[t \ {Max(t)}], lines[Max(t)])]
  BY <1>1, <1>10 DEF iter
<1>12. FoldsLike(iter, A, F, <<>>, lines, n)
  <2>1. iter[{}] = <<>>
    BY <1>11, {} \in SUBSET (1 .. n)
  <2>2. ASSUME NEW t \in SUBSET (1 .. n), t # {}, iter[t \ {Max(t)}] \in A
        PROVE  iter[t] = F[<<iter[t \ {Max(t)}], lines[Max(t)]>>]
    <3>1. lines[Max(t)] \in B
      BY <1>1, <1>9, <2>2
    <3>2. iter[t] = AddRow(iter[t \ {Max(t)}], lines[Max(t)])
      BY <1>11, <2>2
    <3>3. QED
      BY <1>7, <2>2, <3>1, <3>2
  <2>3. QED
    BY <2>1, <2>2 DEF FoldsLike
<1>13. PICK g : StepsBy(g, A, F, <<>>, lines, n) /\ iter[1 .. n] = g[n]
  BY <1>1, <1>8, <1>12, FoldReaches
<1>14. /\ \A k \in 0 .. n : g[k] \in A
       /\ g[0] = <<>> /\ \A k \in 1 .. n : g[k] = F[<<g[k - 1], lines[k]>>]
  BY <1>13 DEF StepsBy
<1>15. ASSUME NEW k \in 1 .. n PROVE g[k] = AddRow(g[k - 1], lines[k])
  <2>1. k - 1 \in 0 .. n /\ lines[k] \in B
    BY <1>1
  <2>2. QED
    BY <1>7, <1>14, <2>1
<1>16. RowsAfter(g, lines)
  BY <1>5, <1>14, <1>15 DEF RowsAfter, n
<1>17. QED
  BY <1>1, <1>2, <1>13, <1>16 DEF n

\* rows has the last row of each id among the first k lines, and nothing else.
HasRows(rows, lines, k) ==
  /\ \A i \in 1 .. k : lines[i].kind = "row" =>
       \E j \in i .. k :
         /\ lines[j].kind = "row" /\ lines[j].id = lines[i].id
         /\ lines[i].id \in DOMAIN rows
         /\ rows[lines[i].id] = lines[j].payload
         /\ \A m \in j + 1 .. k : lines[m].kind = "row" => lines[m].id # lines[i].id
  /\ \A id \in DOMAIN rows : \E i \in 1 .. k : lines[i].kind = "row" /\ lines[i].id = id

LEMMA LineAdded ==
  ASSUME NEW lines, NEW k \in Nat, NEW rows, HasRows(rows, lines, k)
  PROVE  HasRows(AddRow(rows, lines[k + 1]), lines, k + 1)
<1> DEFINE line == lines[k + 1]
<1>0. \A i \in 1 .. (k + 1) : i = k + 1 \/ i \in 1 .. k
  OBVIOUS
<1>1. CASE line.kind # "row"
  <2>1. AddRow(rows, line) = rows
    BY <1>1 DEF AddRow
  <2>2. ASSUME NEW i \in 1 .. (k + 1), lines[i].kind = "row"
        PROVE  \E j \in i .. (k + 1) :
                 /\ lines[j].kind = "row" /\ lines[j].id = lines[i].id
                 /\ lines[i].id \in DOMAIN rows
                 /\ rows[lines[i].id] = lines[j].payload
                 /\ \A m \in j + 1 .. (k + 1) : lines[m].kind = "row" => lines[m].id # lines[i].id
    <3>1. i \in 1 .. k
      BY <1>0, <1>1, <2>2
    <3>2. PICK j \in i .. k :
            /\ lines[j].kind = "row" /\ lines[j].id = lines[i].id
            /\ lines[i].id \in DOMAIN rows
            /\ rows[lines[i].id] = lines[j].payload
            /\ \A m \in j + 1 .. k : lines[m].kind = "row" => lines[m].id # lines[i].id
      BY <2>2, <3>1 DEF HasRows
    <3>3. j \in i .. (k + 1) /\ \A m \in j + 1 .. (k + 1) : m = k + 1 \/ m \in j + 1 .. k
      BY <3>1, <3>2
    <3>4. QED
      BY <1>1, <3>2, <3>3
  <2>3. \A id \in DOMAIN rows : \E i \in 1 .. (k + 1) : lines[i].kind = "row" /\ lines[i].id = id
    <3>1. 1 .. k \subseteq 1 .. (k + 1)
      OBVIOUS
    <3>2. QED
      BY <3>1 DEF HasRows
  <2> HIDE DEF line
  <2>4. HasRows(rows, lines, k + 1)
    BY <2>2, <2>3 DEF HasRows
  <2>5. QED
    BY <2>1, <2>4 DEF line
<1>2. CASE line.kind = "row"
  <2> DEFINE w == AddRow(rows, line)
  <2>1. w = [id \in DOMAIN rows \cup {line.id} |->
               IF id = line.id THEN line.payload ELSE rows[id]]
    BY <1>2 DEF AddRow
  <2>2. /\ DOMAIN w = DOMAIN rows \cup {line.id} /\ w[line.id] = line.payload
        /\ \A id \in DOMAIN rows : id # line.id => w[id] = rows[id]
    BY <2>1
  <2> HIDE DEF w
  <2>3. ASSUME NEW i \in 1 .. (k + 1), lines[i].kind = "row"
        PROVE  \E j \in i .. (k + 1) :
                 /\ lines[j].kind = "row" /\ lines[j].id = lines[i].id
                 /\ lines[i].id \in DOMAIN w
                 /\ w[lines[i].id] = lines[j].payload
                 /\ \A m \in j + 1 .. (k + 1) : lines[m].kind = "row" => lines[m].id # lines[i].id
    <3>1. CASE lines[i].id = line.id
      <4>1. k + 1 \in i .. (k + 1) /\ (k + 1) + 1 .. (k + 1) = {}
        OBVIOUS
      <4>2. QED
        BY <1>2, <2>2, <3>1, <4>1
    <3>2. CASE lines[i].id # line.id
      <4>1. i \in 1 .. k
        BY <1>0, <3>2
      <4>2. PICK j \in i .. k :
              /\ lines[j].kind = "row" /\ lines[j].id = lines[i].id
              /\ lines[i].id \in DOMAIN rows
              /\ rows[lines[i].id] = lines[j].payload
              /\ \A m \in j + 1 .. k : lines[m].kind = "row" => lines[m].id # lines[i].id
        BY <2>3, <4>1 DEF HasRows
      <4>3. j \in i .. (k + 1) /\ \A m \in j + 1 .. (k + 1) : m = k + 1 \/ m \in j + 1 .. k
        BY <4>1, <4>2
      <4>4. lines[i].id \in DOMAIN w /\ w[lines[i].id] = lines[j].payload
        BY <2>2, <3>2, <4>2
      <4>5. \A m \in j + 1 .. (k + 1) : lines[m].kind = "row" => lines[m].id # lines[i].id
        BY <3>2, <4>2, <4>3
      <4>6. QED
        BY <4>2, <4>3, <4>4, <4>5
    <3>3. QED
      BY <3>1, <3>2
  <2>4. ASSUME NEW id \in DOMAIN w
        PROVE  \E i \in 1 .. (k + 1) : lines[i].kind = "row" /\ lines[i].id = id
    <3>1. CASE id = line.id
      <4>1. k + 1 \in 1 .. (k + 1)
        OBVIOUS
      <4>2. QED
        BY <1>2, <3>1, <4>1
    <3>2. CASE id # line.id
      <4>1. PICK i \in 1 .. k : lines[i].kind = "row" /\ lines[i].id = id
        BY <2>2, <3>2 DEF HasRows
      <4>2. i \in 1 .. (k + 1)
        OBVIOUS
      <4>3. QED
        BY <4>1, <4>2
    <3>3. QED
      BY <3>1, <3>2
  <2>5. HasRows(w, lines, k + 1)
    BY <2>3, <2>4 DEF HasRows
  <2>6. QED
    BY <2>5 DEF w
<1>3. QED
  BY <1>1, <1>2

\* A store that was loaded has all of its file.
LEMMA LoadIsWhole ==
  ASSUME NEW lines, IsList(lines), NEW skipped, NEW valid, valid \subseteq Rows(lines)
  PROVE  LET store == Load(lines, skipped, valid) IN
         store.loaded =>
           /\ HasRows(store.rows, lines, Len(lines))
           /\ \A i \in DOMAIN lines : lines[i].kind \in skipped \/ lines[i].kind = "row"
<1>1. CASE ~\A i \in DOMAIN lines : lines[i].kind \in skipped \/ lines[i] \in valid
  <2>1. Load(lines, skipped, valid) = NoStore
    BY <1>1 DEF Load
  <2>2. QED
    BY <2>1 DEF NoStore
<1>2. CASE \A i \in DOMAIN lines : lines[i].kind \in skipped \/ lines[i] \in valid
  <2>1. PICK rows : rows = FoldLeft(AddRow, <<>>, lines)
    OBVIOUS
  <2>2. Load(lines, skipped, valid) = Loaded(rows)
    BY <1>2, <2>1 DEF Load
  <2>3. PICK g : RowsAfter(g, lines) /\ rows = g[Len(lines)]
    BY <2>1, RowsStepByStep
  <2>4. PICK n \in Nat : n = Len(lines)
    BY DEF IsList
  <2> DEFINE T == {k \in 0 .. n : HasRows(g[k], lines, k)}
  <2>5. 0 \in T
    <3>1. 0 \in 0 .. n /\ 1 .. 0 = {}
      BY <2>4
    <3>2. HasRows(g[0], lines, 0)
      BY <2>3, <3>1 DEF HasRows, RowsAfter
    <3>3. QED
      BY <3>1, <3>2
  <2>6. ASSUME NEW k \in 0 .. (n - 1), k \in T PROVE k + 1 \in T
    <3>1. k \in Nat /\ k + 1 \in 0 .. n /\ k + 1 \in 1 .. n /\ (k + 1) - 1 = k
      BY <2>4
    <3>2. g[k + 1] = AddRow(g[k], lines[k + 1])
      BY <2>3, <2>4, <3>1 DEF RowsAfter
    <3>3. HasRows(g[k], lines, k)
      BY <2>6
    <3>4. HasRows(g[k + 1], lines, k + 1)
      BY <3>1, <3>2, <3>3, LineAdded
    <3>5. QED
      BY <3>1, <3>4
  <2>7. HasRows(rows, lines, Len(lines))
    <3> HIDE DEF T
    <3>1. 0 .. n \subseteq T
      BY <2>4, <2>5, <2>6, UpTo
    <3>2. n \in T
      BY <2>4, <3>1
    <3>3. QED
      BY <2>3, <2>4, <3>2 DEF T
  <2>8. \A l \in valid : l.kind = "row"
    BY DEF Rows
  <2>9. QED
    BY <1>2, <2>2, <2>7, <2>8 DEF Loaded
<1>3. QED
  BY <1>1, <1>2

\* A store of what is on disk at the path of a text.
StoreOf(store, t, disk) ==
  LET at == ResolveWorkspaceRelativePath(t) IN
  /\ at \in DOMAIN disk
  /\ \E skipped \in SUBSET Blank, valid \in SUBSET Rows(disk[at].data.lines) :
       store = Load(disk[at].data.lines, skipped, valid)

\* What a Create function returns: the store of the file, if any.
Creates(made, t, disk) ==
  \E ok, backend, store :
    /\ made = [ok |-> ok, backend |-> backend, store |-> store]
    /\ store.loaded => StoreOf(store, t, disk)

LEMMA RefusedCreates ==
  ASSUME NEW t, NEW disk
  PROVE  Creates(Refused, t, disk)
<1>1. Refused = [ok |-> FALSE, backend |-> "none", store |-> NoStore]
  BY DEF Refused
<1>2. ~NoStore.loaded
  BY DEF NoStore
<1>3. QED
  BY <1>1, <1>2, Zenon DEF Creates

LEMMA MadeCreates ==
  ASSUME NEW t, NEW disk, NEW backend, NEW store, store.loaded => StoreOf(store, t, disk)
  PROVE  Creates(Made(backend, store), t, disk)
<1>1. Made(backend, store) = [ok |-> TRUE, backend |-> backend, store |-> store]
  BY DEF Made
<1>2. QED
  BY <1>1, Zenon DEF Creates

LEMMA CreatesWithoutStore ==
  ASSUME NEW t, NEW disk, NEW backend, NEW condition
  PROVE  Creates(MadeIf(condition, Made(backend, NoStore)), t, disk)
<1>1. Creates(Made(backend, NoStore), t, disk)
  BY MadeCreates DEF NoStore
<1>2. QED
  BY <1>1, RefusedCreates DEF MadeIf

LEMMA CreatesIf ==
  ASSUME NEW made, NEW t, NEW disk, Creates(made, t, disk), NEW condition
  PROVE  Creates(MadeIf(condition, made), t, disk)
  BY RefusedCreates DEF MadeIf

LEMMA CreatesCached ==
  ASSUME NEW v, NEW made, NEW t, NEW disk, Creates(made, t, disk)
  PROVE  Creates(WrapWithLocalCacheIfConfigured(v, made), t, disk)
<1>1. PICK ok, backend, store :
        /\ made = [ok |-> ok, backend |-> backend, store |-> store]
        /\ store.loaded => StoreOf(store, t, disk)
  BY DEF Creates
<1>2. PICK cached : cached = "cached " \o made.backend
  OBVIOUS
<1>3. [made EXCEPT !.backend = cached] = [ok |-> ok, backend |-> cached, store |-> store]
  BY <1>1
<1>4. Creates([made EXCEPT !.backend = cached], t, disk)
  BY <1>1, <1>3 DEF Creates
<1>5. \/ WrapWithLocalCacheIfConfigured(v, made) = [made EXCEPT !.backend = cached]
      \/ WrapWithLocalCacheIfConfigured(v, made) = made
  BY <1>2 DEF WrapWithLocalCacheIfConfigured
<1>6. QED
  BY <1>4, <1>5

LEMMA CreatesFromFile ==
  ASSUME NEW t, NEW disk, NEW store,
         OpenFile(t, disk).found /\ store.loaded => StoreOf(store, t, disk)
  PROVE  Creates(LocalStore(OpenFile(t, disk), store), t, disk)
<1>1. OpenFile(t, disk).found /\ store.loaded => Creates(Made("local", store), t, disk)
  BY MadeCreates
<1>2. QED
  BY <1>1, RefusedCreates DEF LocalStore, MadeIf

LEMMA OpenedFile ==
  ASSUME NEW t, NEW disk, OpenFile(t, disk).found
  PROVE  /\ ResolveWorkspaceRelativePath(t) \in DOMAIN disk
         /\ OpenFile(t, disk).file = disk[ResolveWorkspaceRelativePath(t)].data
  BY DEF OpenFile

LEMMA LocalStoresCreate ==
  ASSUME NEW v, NEW disk
  PROVE  /\ Creates(LocalFileProfileStore(v, disk), v["profile_store.data_path"], disk)
         /\ Creates(LocalFileItemIndexStore(v, disk), v["item_index_store.data_path"], disk)
         /\ Creates(LocalFileSimilarityStore(v, disk), v["similarity_store.data_path"], disk)
<1>0. ~NoStore.loaded
  BY DEF NoStore
<1>1. Creates(LocalFileProfileStore(v, disk), v["profile_store.data_path"], disk)
  <2> DEFINE t == v["profile_store.data_path"]
             file == OpenFile(t, disk).file
             store == LoadProfilesFromJsonlFile(file)
  <2>1. ASSUME OpenFile(t, disk).found, store.loaded PROVE StoreOf(store, t, disk)
    <3>1. store = Load(file.lines, Blank, Rows(file.lines))
      BY <1>0, <2>1 DEF LoadProfilesFromJsonlFile
    <3>2. QED
      BY <2>1, <3>1, OpenedFile DEF StoreOf
  <2> HIDE DEF store
  <2>2. Creates(LocalStore(OpenFile(t, disk), store), t, disk)
    BY <2>1, CreatesFromFile
  <2>3. QED
    BY <2>2 DEF LocalFileProfileStore, store
<1>2. Creates(LocalFileItemIndexStore(v, disk), v["item_index_store.data_path"], disk)
  <2> DEFINE t == v["item_index_store.data_path"]
             file == OpenFile(t, disk).file
             store == LoadItemIndexFromFile(file)
             skipped == IF file.array THEN {} ELSE Blank
             valid == {l \in Rows(file.lines) : ParsesAsEntry(l)}
  <2>1. ASSUME OpenFile(t, disk).found, store.loaded PROVE StoreOf(store, t, disk)
    <3>1. store = Load(file.lines, skipped, valid)
      BY DEF LoadItemIndexFromFile
    <3>2. skipped \in SUBSET Blank /\ valid \in SUBSET Rows(file.lines)
      OBVIOUS
    <3> HIDE DEF skipped, valid
    <3>3. QED
      BY <2>1, <3>1, <3>2, OpenedFile DEF StoreOf
  <2> HIDE DEF store
  <2>2. Creates(LocalStore(OpenFile(t, disk), store), t, disk)
    BY <2>1, CreatesFromFile
  <2>3. QED
    BY <2>2 DEF LocalFileItemIndexStore, store
<1>3. Creates(LocalFileSimilarityStore(v, disk), v["similarity_store.data_path"], disk)
  <2> DEFINE t == v["similarity_store.data_path"]
             file == OpenFile(t, disk).file
             store == LoadSimilarityFromJsonlFile(file)
             valid == {l \in Rows(file.lines) : ParsesAsSimilarity(l)}
  <2>1. ASSUME OpenFile(t, disk).found, store.loaded PROVE StoreOf(store, t, disk)
    <3>1. store = Load(file.lines, {"empty"}, valid)
      BY <1>0, <2>1 DEF LoadSimilarityFromJsonlFile
    <3>2. {"empty"} \in SUBSET Blank /\ valid \in SUBSET Rows(file.lines)
      BY DEF Blank
    <3> HIDE DEF valid
    <3>3. QED
      BY <2>1, <3>1, <3>2, OpenedFile DEF StoreOf
  <2> HIDE DEF store
  <2>2. Creates(LocalStore(OpenFile(t, disk), store), t, disk)
    BY <2>1, CreatesFromFile
  <2>3. QED
    BY <2>2 DEF LocalFileSimilarityStore, store
<1>4. QED
  BY <1>1, <1>2, <1>3

\* The setting that has the path of the file a service may load.
DataKey(service) ==
  CASE service = "profile" -> "profile_store.data_path"
    [] service = "ranking" -> "item_index_store.data_path"
    [] OTHER -> "similarity_store.data_path"

LEMMA ServiceCreates ==
  ASSUME NEW service \in Services, NEW v, NEW disk
  PROVE  Creates(CreateGrpcServer(service, v, disk), v[DataKey(service)], disk)
<1>1. \A t : Creates(Refused, t, disk)
  BY RefusedCreates
<1>2. \A t : Creates(ElasticsearchStore(v), t, disk) /\ Creates(RedisSimilarityStore(v), t, disk)
  BY CreatesWithoutStore DEF ElasticsearchStore, RedisSimilarityStore
<1>3. CASE service = "profile"
  <2> DEFINE t == v["profile_store.data_path"]
  <2>1. Creates(CreateUncachedProfileStore(v, disk), t, disk)
    BY <1>1, <1>2, LocalStoresCreate DEF CreateUncachedProfileStore
  <2>2. Creates(ProfileServiceCreate(v, disk), t, disk)
    BY <2>1, CreatesCached DEF ProfileServiceCreate
  <2>3. CreateGrpcServer(service, v, disk) = ProfileServiceCreate(v, disk)
        /\ DataKey(service) = "profile_store.data_path"
    BY <1>3 DEF CreateGrpcServer, DataKey
  <2>4. QED
    BY <2>2, <2>3
<1>4. CASE service = "ranking"
  <2> DEFINE t == v["item_index_store.data_path"]
  <2>1. Creates(CreateUncachedItemIndexStore(v, disk), t, disk)
    BY <1>1, <1>2, LocalStoresCreate DEF CreateUncachedItemIndexStore
  <2>2. Creates(WrapWithLocalCacheIfConfigured(v, CreateUncachedItemIndexStore(v, disk)), t, disk)
    BY <2>1, CreatesCached
  <2>3. Creates(RankingServiceCreate(v, disk), t, disk)
    BY <2>2, CreatesIf DEF RankingServiceCreate
  <2>4. CreateGrpcServer(service, v, disk) = RankingServiceCreate(v, disk)
        /\ DataKey(service) = "item_index_store.data_path"
    BY <1>4 DEF CreateGrpcServer, DataKey
  <2>5. QED
    BY <2>3, <2>4
<1>5. CASE service \in {"retriever_item_cf", "retriever_user_cf"}
  <2> DEFINE t == v["similarity_store.data_path"]
  <2>1. Creates(CreateSimilarityStore(v, disk), t, disk)
    BY <1>1, <1>2, LocalStoresCreate DEF CreateSimilarityStore
  <2>2. Creates(RetrieverItemCfCreate(v, disk), t, disk)
    BY <2>1, CreatesIf DEF RetrieverItemCfCreate
  <2>3. Creates(RetrieverUserCfCreate(v, disk), t, disk)
    BY <2>1, CreatesIf DEF RetrieverUserCfCreate
  <2>4. CreateGrpcServer(service, v, disk)
            \in {RetrieverItemCfCreate(v, disk), RetrieverUserCfCreate(v, disk)}
        /\ DataKey(service) = "similarity_store.data_path"
    BY <1>5 DEF CreateGrpcServer, DataKey
  <2>5. QED
    BY <2>2, <2>3, <2>4
<1>6. CASE service \in {"retrieval_orchestrator", "gateway", "fetcher"}
  <2>1. \A t : /\ Creates(RetrievalOrchestratorCreate(v), t, disk)
               /\ Creates(GatewayServiceCreate(v), t, disk)
               /\ Creates(Made("none", NoStore), t, disk)
    BY CreatesWithoutStore, Zenon
    DEF RetrievalOrchestratorCreate, GatewayServiceCreate, MadeIf
  <2>2. CreateGrpcServer(service, v, disk)
          \in {RetrievalOrchestratorCreate(v), GatewayServiceCreate(v), Made("none", NoStore)}
    BY <1>6 DEF CreateGrpcServer
  <2>3. QED
    BY <2>1, <2>2
<1>7. QED
  BY <1>3, <1>4, <1>5, <1>6 DEF Services

\* For every file and all settings: a service that runs on a local file has
\* every row of it, and a file with one bad line is no file (the loaders of
\* profiles, items and similarities).
THEOREM FilesAreLoadedWhole == Spec => []LoadedFilesAreWhole
<1>1. ConfigInv /\ OutcomeInv => LoadedFilesAreWhole
  <2> SUFFICES ASSUME ConfigInv, OutcomeInv, created.store.loaded
               PROVE  LET lines == DataFile.lines
                          rows == created.store.rows IN
                      /\ \A i \in DOMAIN lines :
                           lines[i].kind \notin {"empty", "blank"} =>
                             \E j \in i .. Len(lines) :
                               /\ lines[j].kind = "row" /\ lines[j].id = lines[i].id
                               /\ lines[i].id \in DOMAIN rows
                               /\ rows[lines[i].id] = lines[j].payload
                               /\ \A n \in j + 1 .. Len(lines) :
                                    lines[n].kind = "row" => lines[n].id # lines[i].id
                      /\ \A id \in DOMAIN rows :
                           \E i \in DOMAIN lines : lines[i].kind = "row" /\ lines[i].id = id
    BY DEF LoadedFilesAreWhole
  <2> DEFINE t == values[DataKey(start.service)]
             at == ResolveWorkspaceRelativePath(t)
  <2>1. start \in Start /\ start.service \in Services
    BY StartAssumption DEF ConfigInv
  <2>2. Creates(created, t, Disk)
    <3>1. created = Refused \/ created = CreateGrpcServer(start.service, values, Disk)
      BY DEF OutcomeInv
    <3>2. QED
      BY <2>1, <3>1, ServiceCreates, RefusedCreates
  <2>3. StoreOf(created.store, t, Disk)
    BY <2>2 DEF Creates
  <2>4. PICK lines : lines = Disk[at].data.lines
    OBVIOUS
  <2>5. IsList(lines)
    BY <2>1, <2>3, <2>4, StartAssumption DEF StoreOf, Disk
  <2>6. PICK skipped \in SUBSET Blank, valid \in SUBSET Rows(lines) :
          created.store = Load(lines, skipped, valid)
    BY <2>3, <2>4 DEF StoreOf
  <2>7. /\ HasRows(created.store.rows, lines, Len(lines))
        /\ \A i \in DOMAIN lines : lines[i].kind \in skipped \/ lines[i].kind = "row"
    BY <2>5, <2>6, LoadIsWhole
  <2>8. DataFile.lines = lines
    BY <2>4 DEF DataFile, DataKey
  <2>9. /\ DOMAIN lines = 1 .. Len(lines)
        /\ \A i \in DOMAIN lines : lines[i].kind \notin {"empty", "blank"} =>
             lines[i].kind = "row"
    BY <2>5, <2>6, <2>7 DEF IsList, Blank
  <2>10. PICK rows : rows = created.store.rows
    OBVIOUS
  <2>11. HasRows(rows, lines, Len(lines))
    BY <2>7, <2>10
  <2>12. ASSUME NEW i \in DOMAIN lines, lines[i].kind \notin {"empty", "blank"}
         PROVE  \E j \in i .. Len(lines) :
                  /\ lines[j].kind = "row" /\ lines[j].id = lines[i].id
                  /\ lines[i].id \in DOMAIN rows
                  /\ rows[lines[i].id] = lines[j].payload
                  /\ \A n \in j + 1 .. Len(lines) :
                       lines[n].kind = "row" => lines[n].id # lines[i].id
    <3>1. i \in 1 .. Len(lines) /\ lines[i].kind = "row"
      BY <2>9, <2>12
    <3>2. QED
      BY <2>11, <3>1, Zenon DEF HasRows
  <2>13. \A id \in DOMAIN rows :
           \E i \in DOMAIN lines : lines[i].kind = "row" /\ lines[i].id = id
    BY <2>9, <2>11 DEF HasRows
  <2>14. QED
    BY <2>8, <2>10, <2>12, <2>13
<1>2. QED
  BY <1>1, ConfigurationInvariant, OutcomeInvariant, PTL
=============================================================================
