--------------------------- MODULE CurlHttpClient ---------------------------
(***************************************************************************)
(* utilities/http_client: CurlHttpClient::Execute on top of the pool of    *)
(* curl handles (CurlHandlePool, of which only the promise of HandlePool   *)
(* is used).  Threads execute requests concurrently; each request acquires *)
(* a handle, performs one transfer, gives the handle back and, depending   *)
(* on what went wrong and where, sleeps and starts over, within separate   *)
(* budgets of connect and request attempts and a deadline for the whole.   *)
(*                                                                         *)
(* Time is counted per request: remaining[t] is what is left until the     *)
(* deadline, wait[t] what is left of the blocking call t is in.            *)
(***************************************************************************)
EXTENDS Integers, FiniteSets, HandlePool

CONSTANTS
  AcquireTimeout,      \* Config::acquire_timeout
  RequestTimeout,      \* Config::request_timeout
  AcquireMaxAttempts,  \* Config::acquire_retry.max_attempts
  ConnectMaxAttempts,  \* Config::connect_retry.max_attempts
  RequestMaxAttempts,  \* Config::request_retry.max_attempts
  AcquireDelay,        \* Config::acquire_retry.delay
  ConnectDelay,        \* Config::connect_retry.delay
  RequestDelay,        \* Config::request_retry.delay
  Timeouts,            \* the values of HttpRequest::timeout
  NoDeadline           \* HttpRequest::timeout is nullopt

(***************************************************************************)
(* The constructor rejects the attempts and delays excluded here.  It does *)
(* not check the timeouts; the configuration and the defaults give         *)
(* positive ones.  A thread has two lease objects: the variable lease of   *)
(* Execute and the parameter of PerformOnceWithLease.                      *)
(***************************************************************************)
ASSUME ClientAssumption ==
  /\ Lease = Thread \X {"execute", "perform"}
  /\ {AcquireTimeout, RequestTimeout} \subseteq Nat \ {0}
  /\ {AcquireMaxAttempts, ConnectMaxAttempts, RequestMaxAttempts}
       \subseteq Nat \ {0}
  /\ {AcquireDelay, ConnectDelay, RequestDelay} \subseteq Nat
  /\ Timeouts \subseteq Nat \cup {NoDeadline}
  /\ NoDeadline \notin Nat

VARIABLES
  pc,                \* where each thread is, see State
  remaining,         \* time left until the deadline, or NoDeadline
  wait,              \* time left of the current blocking call
  acquire_attempt,   \* the loop variable of the acquire loop
  connect_attempts,  \* failed attempts of stage kConnect
  request_attempts,  \* failed attempts of stage kRequest
  result,            \* how the last Execute of the thread ended
  performed          \* transfers started by this Execute (history)

request == <<remaining, acquire_attempt, connect_attempts, request_attempts,
             result, performed>>
vars == <<owner, pc, wait, request>>

(***************************************************************************)
(* loop: the head of the while loop.  acquire: the head of the acquire     *)
(* loop.  acquiring: in pool_->Acquire.  acquire_sleep: between two        *)
(* acquire attempts.  leased: lease holds a handle.  performing: in        *)
(* curl_easy_perform.  sleeping: SleepBeforeRetry of the while loop.       *)
(***************************************************************************)
Blocked == {"acquiring", "acquire_sleep", "performing", "sleeping"}
State == {"idle", "loop", "acquire", "leased"} \cup Blocked

(***************************************************************************)
(* How a transfer ends: a status that is not an error, one that is, one    *)
(* worth retrying (429, 5xx), one outside 100..599, failure to connect, a  *)
(* timeout before or after a status was received, a broken transfer, any   *)
(* other curl error, and no memory for the header list.                    *)
(***************************************************************************)
Outcome ==
  {"ok", "http_error", "http_retryable", "bad_status", "connect_error",
   "timeout_no_status", "timeout_with_status", "io_error", "curl_error",
   "alloc_error"}

RetryStage(outcome) ==
  CASE outcome \in {"connect_error", "timeout_no_status"} -> "connect"
    [] outcome \in {"timeout_with_status", "io_error", "http_retryable"} -> "request"
    [] OTHER -> "none"

Result == Outcome \cup {"none", "deadline_exceeded", "pool_acquire_timeout",
                        "invalid_argument"}

TypeOK ==
  /\ owner \in [Resource -> Lease \cup {NoLease}]
  /\ pc \in [Thread -> State]
  /\ remaining \in [Thread -> Nat \cup {NoDeadline}]
  /\ wait \in [Thread -> Nat]
  /\ acquire_attempt \in [Thread -> 0..AcquireMaxAttempts]
  /\ connect_attempts \in [Thread -> 0..ConnectMaxAttempts]
  /\ request_attempts \in [Thread -> 0..RequestMaxAttempts]
  /\ result \in [Thread -> Result]
  /\ performed \in [Thread -> Nat]

Init ==
  /\ HInit
  /\ pc = [t \in Thread |-> "idle"]
  /\ remaining = [t \in Thread |-> NoDeadline]
  /\ wait = [t \in Thread |-> 0]
  /\ acquire_attempt = [t \in Thread |-> 0]
  /\ connect_attempts = [t \in Thread |-> 0]
  /\ request_attempts = [t \in Thread |-> 0]
  /\ result = [t \in Thread |-> "none"]
  /\ performed = [t \in Thread |-> 0]

-----------------------------------------------------------------------------
lease(t) == <<t, "execute">>
parameter(t) == <<t, "perform">>

Least(x, y) == IF x <= y THEN x ELSE y

BoundByDeadline(timeout, t) ==
  IF remaining[t] = NoDeadline THEN timeout ELSE Least(timeout, remaining[t])

HasTimeRemaining(t) == remaining[t] = NoDeadline \/ remaining[t] > 0

Goto(t, state) == pc' = [pc EXCEPT ![t] = state]

Block(t, state, time) ==
  /\ Goto(t, state)
  /\ wait' = [wait EXCEPT ![t] = time]

\* return from Execute.
Finish(t, r) ==
  /\ Goto(t, "idle")
  /\ wait' = [wait EXCEPT ![t] = 0]
  /\ result' = [result EXCEPT ![t] = r]

\* Mutant of SleepBeforeRetry: the deadline is not considered.
SleepInFull(t, state, delay) == Block(t, state, delay)

\* The sleep between two attempts ends with the deadline.
SleepBeforeRetry(t, state, delay) == Block(t, state, BoundByDeadline(delay, t))

-----------------------------------------------------------------------------
\* Execute is called; an empty URL is rejected at once.
Execute(t, timeout, url_empty) ==
  /\ pc[t] = "idle"
  /\ connect_attempts' = [connect_attempts EXCEPT ![t] = 0]
  /\ request_attempts' = [request_attempts EXCEPT ![t] = 0]
  /\ performed' = [performed EXCEPT ![t] = 0]
  /\ acquire_attempt' = [acquire_attempt EXCEPT ![t] = 0]
  /\ remaining' = [remaining EXCEPT ![t] = timeout]
  /\ IF url_empty
     THEN Finish(t, "invalid_argument")
     ELSE /\ Goto(t, "loop")
          /\ result' = [result EXCEPT ![t] = "none"]
          /\ UNCHANGED wait
  /\ UNCHANGED owner

\* The head of the while loop.
Loop(t) ==
  /\ pc[t] = "loop"
  /\ IF HasTimeRemaining(t)
     THEN /\ Goto(t, "acquire")
          /\ acquire_attempt' = [acquire_attempt EXCEPT ![t] = 1]
          /\ UNCHANGED <<wait, result>>
     ELSE /\ Finish(t, "deadline_exceeded")
          /\ UNCHANGED acquire_attempt
  /\ UNCHANGED <<owner, remaining, connect_attempts, request_attempts, performed>>

\* The head of the acquire loop: how long the pool may take.
BeginAcquire(t) ==
  /\ pc[t] = "acquire"
  /\ LET acquire_timeout == BoundByDeadline(AcquireTimeout, t) IN
     IF acquire_timeout <= 0
     THEN Finish(t, "deadline_exceeded")
     ELSE Block(t, "acquiring", acquire_timeout) /\ UNCHANGED result
  /\ UNCHANGED <<owner, remaining, acquire_attempt, connect_attempts,
                 request_attempts, performed>>

\* The pool grants a handle.
Acquired(t, h) ==
  /\ pc[t] = "acquiring"
  /\ Grant(h, lease(t))
  /\ Block(t, "leased", 0)
  /\ UNCHANGED request

\* Mutant of AcquireTimedOut: off by one, a sleep after the last attempt, too.
AcquireSleepsInVain(t) ==
  /\ pc[t] = "acquiring"
  /\ wait[t] = 0
  /\ Free = {}
  /\ IF acquire_attempt[t] <= AcquireMaxAttempts
     THEN SleepBeforeRetry(t, "acquire_sleep", AcquireDelay) /\ UNCHANGED result
     ELSE Finish(t, "pool_acquire_timeout")
  /\ UNCHANGED <<owner, remaining, acquire_attempt, connect_attempts,
                 request_attempts, performed>>

\* The pool returns nullopt: its timeout is over and no handle is free.
AcquireTimedOut(t) ==
  /\ pc[t] = "acquiring"
  /\ wait[t] = 0
  /\ Free = {}
  /\ IF acquire_attempt[t] < AcquireMaxAttempts
     THEN SleepBeforeRetry(t, "acquire_sleep", AcquireDelay) /\ UNCHANGED result
     ELSE Finish(t, "pool_acquire_timeout")
  /\ UNCHANGED <<owner, remaining, acquire_attempt, connect_attempts,
                 request_attempts, performed>>

\* Mutant of WakeUp: the attempt is not counted.
WakeUpUncounted(t) ==
  /\ pc[t] \in {"acquire_sleep", "sleeping"}
  /\ wait[t] = 0
  /\ Goto(t, IF pc[t] = "sleeping" THEN "loop" ELSE "acquire")
  /\ UNCHANGED <<owner, wait, request>>

\* A sleep is over; the acquire loop counts the attempt that failed before it.
WakeUp(t) ==
  /\ wait[t] = 0
  /\ \/ /\ pc[t] = "acquire_sleep"
        /\ Goto(t, "acquire")
        /\ acquire_attempt' = [acquire_attempt EXCEPT ![t] = @ + 1]
     \/ /\ pc[t] = "sleeping"
        /\ Goto(t, "loop")
        /\ UNCHANGED acquire_attempt
  /\ UNCHANGED <<owner, wait, remaining, connect_attempts, request_attempts,
                 result, performed>>

\* Mutant of BeginPerform: the handle stays leased when the deadline passed.
BeginPerformLeaking(t, h) ==
  /\ pc[t] = "leased"
  /\ owner[h] = lease(t)
  /\ LET request_timeout == BoundByDeadline(RequestTimeout, t) IN
     IF request_timeout <= 0
     THEN /\ Finish(t, "deadline_exceeded")
          /\ UNCHANGED <<owner, performed>>
     ELSE /\ Block(t, "performing", request_timeout)
          /\ Move(h, parameter(t))
          /\ performed' = [performed EXCEPT ![t] = @ + 1]
          /\ UNCHANGED result
  /\ UNCHANGED <<remaining, acquire_attempt, connect_attempts, request_attempts>>

\* Mutant of BeginPerform: the deadline is not checked after the acquire.
BeginPerformLate(t, h) ==
  /\ pc[t] = "leased"
  /\ owner[h] = lease(t)
  /\ Block(t, "performing", BoundByDeadline(RequestTimeout, t))
  /\ Move(h, parameter(t))
  /\ performed' = [performed EXCEPT ![t] = @ + 1]
  /\ UNCHANGED <<result, remaining, acquire_attempt, connect_attempts,
                 request_attempts>>

(***************************************************************************)
(* With a handle: the transfer starts with the lease moved into            *)
(* PerformOnceWithLease, unless the deadline passed during the acquire; in *)
(* that case returning from Execute destroys the lease.                    *)
(***************************************************************************)
BeginPerform(t, h) ==
  /\ pc[t] = "leased"
  /\ owner[h] = lease(t)
  /\ LET request_timeout == BoundByDeadline(RequestTimeout, t) IN
     IF request_timeout <= 0
     THEN /\ Finish(t, "deadline_exceeded")
          /\ Return(h)
          /\ UNCHANGED performed
     ELSE /\ Block(t, "performing", request_timeout)
          /\ Move(h, parameter(t))
          /\ performed' = [performed EXCEPT ![t] = @ + 1]
          /\ UNCHANGED result
  /\ UNCHANGED <<remaining, acquire_attempt, connect_attempts, request_attempts>>

\* Mutant of RetryConnect: off by one.
RetryConnectOnceMore(t, outcome) ==
  /\ connect_attempts' = [connect_attempts EXCEPT ![t] = @ + 1]
  /\ UNCHANGED request_attempts
  /\ IF connect_attempts'[t] > ConnectMaxAttempts
     THEN Finish(t, outcome)
     ELSE SleepBeforeRetry(t, "sleeping", ConnectDelay) /\ UNCHANGED result

\* Mutant of RetryRequest: failures to connect are charged to this budget, too.
RetryRequestShared(t, outcome) ==
  /\ request_attempts' = [request_attempts EXCEPT ![t] = @ + 1]
  /\ UNCHANGED connect_attempts
  /\ IF request_attempts'[t] + connect_attempts[t] >= RequestMaxAttempts
     THEN Finish(t, outcome)
     ELSE SleepBeforeRetry(t, "sleeping", RequestDelay) /\ UNCHANGED result

\* After a failed attempt of a stage: one attempt less, then sleep or give up.
RetryConnect(t, outcome) ==
  /\ connect_attempts' = [connect_attempts EXCEPT ![t] = @ + 1]
  /\ UNCHANGED request_attempts
  /\ IF connect_attempts'[t] >= ConnectMaxAttempts
     THEN Finish(t, outcome)
     ELSE SleepBeforeRetry(t, "sleeping", ConnectDelay) /\ UNCHANGED result

RetryRequest(t, outcome) ==
  /\ request_attempts' = [request_attempts EXCEPT ![t] = @ + 1]
  /\ UNCHANGED connect_attempts
  /\ IF request_attempts'[t] >= RequestMaxAttempts
     THEN Finish(t, outcome)
     ELSE SleepBeforeRetry(t, "sleeping", RequestDelay) /\ UNCHANGED result

NoRetry(t, outcome) ==
  /\ Finish(t, outcome)
  /\ UNCHANGED <<connect_attempts, request_attempts>>

(***************************************************************************)
(* The transfer ends, PerformOnceWithLease returns, which destroys its     *)
(* parameter, and Execute decides what to do with the outcome.             *)
(***************************************************************************)
EndPerform(t, h, outcome) ==
  /\ pc[t] = "performing"
  /\ owner[h] = parameter(t)
  /\ Return(h)
  /\ \/ RetryStage(outcome) = "none" /\ NoRetry(t, outcome)
     \/ RetryStage(outcome) = "connect" /\ RetryConnect(t, outcome)
     \/ RetryStage(outcome) = "request" /\ RetryRequest(t, outcome)
  /\ UNCHANGED <<remaining, acquire_attempt, performed>>

\* Time passes for t, in a blocking call or on the way to the next one.
Elapse(t) ==
  /\ pc[t] # "idle"
  /\ \/ wait[t] > 0
     \/ remaining[t] # NoDeadline /\ remaining[t] > 0
  /\ wait' = [wait EXCEPT ![t] = IF @ > 0 THEN @ - 1 ELSE 0]
  /\ remaining' = [remaining EXCEPT
                     ![t] = IF @ # NoDeadline /\ @ > 0 THEN @ - 1 ELSE @]
  /\ UNCHANGED <<owner, pc, acquire_attempt, connect_attempts,
                 request_attempts, result, performed>>

-----------------------------------------------------------------------------
Step(t) ==
  \/ Loop(t)
  \/ BeginAcquire(t)
  \/ \E h \in Resource : Acquired(t, h)
  \/ AcquireTimedOut(t)
  \/ WakeUp(t)
  \/ \E h \in Resource : BeginPerform(t, h)
  \/ \E h \in Resource, outcome \in Outcome : EndPerform(t, h, outcome)

Next ==
  \E t \in Thread :
    \/ \E timeout \in Timeouts, url_empty \in BOOLEAN :
         Execute(t, timeout, url_empty)
    \/ Step(t)
    \/ Elapse(t)

Spec == Init /\ [][Next]_vars

(***************************************************************************)
(* Fairness: a thread runs; time passes in a blocking call; and curl, whose*)
(* CURLOPT_TIMEOUT_MS is request_timeout, ends a transfer (any outcome).   *)
(* Nothing is assumed of who gets a handle, nor that Execute is called.    *)
(***************************************************************************)
FairSpec ==
  /\ Spec
  /\ \A t \in Thread : WF_vars(Step(t)) /\ WF_vars(wait[t] > 0 /\ Elapse(t))

-----------------------------------------------------------------------------
HandlesOf(t) == {h \in Resource : owner[h] \in {lease(t), parameter(t)}}

(***************************************************************************)
(* A request holds exactly one handle while it has one to use and none     *)
(* otherwise: not while it sleeps before a retry, not while it waits for   *)
(* another handle, and not after Execute returned, whichever of its many   *)
(* returns it took.                                                        *)
(***************************************************************************)
HandleOnlyWhileInUse ==
  /\ TypeOK
  /\ \A t \in Thread :
       IF pc[t] \in {"leased", "performing"}
       THEN Cardinality(HandlesOf(t)) = 1
       ELSE HandlesOf(t) = {}

(***************************************************************************)
(* No blocking call is ever started that may outlast the deadline (the     *)
(* acquire, the transfer and the sleeps between attempts are all bounded), *)
(* and nobody sleeps in vain: an attempt of the loop is left for whoever   *)
(* sleeps in it, so there is no sleep after the last one.                  *)
(***************************************************************************)
DeadlineBoundsBlocking ==
  \A t \in Thread :
    /\ pc[t] \in Blocked /\ remaining[t] # NoDeadline => wait[t] <= remaining[t]
    /\ pc[t] = "acquire_sleep" => acquire_attempt[t] < AcquireMaxAttempts
    /\ pc[t] = "sleeping" => /\ connect_attempts[t] < ConnectMaxAttempts
                             /\ request_attempts[t] < RequestMaxAttempts

(***************************************************************************)
(* The two budgets bound the transfers of one Execute together: every      *)
(* failed transfer is charged to exactly one budget, and one that exhausts *)
(* its budget is the last.                                                 *)
(***************************************************************************)
TransfersAreBounded ==
  \A t \in Thread :
    /\ performed[t] <= ConnectMaxAttempts + RequestMaxAttempts - 1
    /\ pc[t] \in {"loop", "acquire", "acquiring", "acquire_sleep", "leased",
                  "sleeping"} =>
         performed[t] = connect_attempts[t] + request_attempts[t]

(***************************************************************************)
(* What Execute reports is true: "timed out" only when the deadline has    *)
(* passed, a pool timeout only after the last acquire attempt, and a       *)
(* retryable error only when its budget is spent.                          *)
(***************************************************************************)
ResultIsJustified ==
  \A t \in Thread : pc[t] = "idle" =>
    /\ result[t] = "deadline_exceeded" => remaining[t] = 0
    /\ result[t] = "pool_acquire_timeout" =>
         acquire_attempt[t] = AcquireMaxAttempts
    /\ result[t] \in Outcome /\ RetryStage(result[t]) = "connect" =>
         connect_attempts[t] = ConnectMaxAttempts
    /\ result[t] \in Outcome /\ RetryStage(result[t]) = "request" =>
         request_attempts[t] = RequestMaxAttempts

(***************************************************************************)
(* A request never starts a transfer once its deadline has passed, however *)
(* long the acquires and the sleeps before it took.                        *)
(***************************************************************************)
NoTransferAfterDeadline ==
  [][\A t \in Thread :
       performed'[t] > performed[t] => remaining[t] # 0]_vars

\* Every Execute returns, even if other requests keep taking the handles.
ExecuteReturns == \A t \in Thread : pc[t] # "idle" ~> pc[t] = "idle"
=============================================================================
