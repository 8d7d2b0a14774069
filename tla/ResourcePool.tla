---------------------------- MODULE ResourcePool ----------------------------
(***************************************************************************)
(* utilities/resource_pool/resource_pool.h: a fixed set of resources, a    *)
(* LIFO stack of the available ones under a mutex, a condition variable,   *)
(* and movable leases whose destructor gives the resource back.            *)
(*                                                                         *)
(* A critical section contains no blocking call other than the wait on the *)
(* condition variable, so each one is a single action.  What the mutex     *)
(* does not cover is kept apart: the notify_one that follows the critical  *)
(* section of Release, the write of nullptr to the lease that follows      *)
(* that, and the steps of a waiter (asleep, awake but without the mutex,   *)
(* re-evaluating the predicate).  A waiter may wake without having been    *)
(* notified, and a thread that never waited may take a resource that was   *)
(* released for a waiter.                                                  *)
(***************************************************************************)
EXTENDS Leases, Integers, Sequences, FiniteSets, SequencesExt

CONSTANTS
  NoResource,   \* nullptr in Lease::resource_
  Owner         \* Owner[l]: the thread whose stack or members hold l

ASSUME PoolAssumption ==
  /\ IsFiniteSet(Thread)
  /\ IsFiniteSet(Resource)
  /\ Resource # {}
  /\ NoResource \notin Resource
  /\ Owner \in [Lease -> Thread]

VARIABLES
  available_resources,  \* the stack, its top is the last element
  resource,             \* resource[l]: Lease::resource_ of l
  at,                   \* where each thread is, see PoolState
  call,                 \* the lease its call is to fill or to empty
  source,               \* the lease a move assignment will steal from
  expired               \* has the timeout of its wait_for elapsed

pool == <<available_resources, resource, at, call, source, expired>>

(***************************************************************************)
(* run: outside the pool.  waiting: asleep in wait_for.  awake: has left   *)
(* the queue of the condition variable and contends for the mutex.         *)
(* notify: has pushed the resource of the lease call[t] in Release and     *)
(* released the mutex, has not called notify_one yet.                      *)
(***************************************************************************)
PoolState == {"run", "waiting", "awake", "notify"}

PoolTypeOK ==
  /\ available_resources \in Seq(Resource)
  /\ resource \in [Lease -> Resource \cup {NoResource}]
  /\ at \in [Thread -> PoolState]
  /\ call \in [Thread -> Lease \cup {NoLease}]
  /\ source \in [Thread -> Lease \cup {NoLease}]
  /\ expired \in [Thread -> BOOLEAN]

PoolInit ==
  /\ available_resources \in [1..Cardinality(Resource) -> Resource]
  /\ ToSet(available_resources) = Resource
  /\ IsInjective(available_resources)
  /\ resource = [l \in Lease |-> NoResource]
  /\ at = [t \in Thread |-> "run"]
  /\ call = [t \in Thread |-> NoLease]
  /\ source = [t \in Thread |-> NoLease]
  /\ expired = [t \in Thread |-> FALSE]

-----------------------------------------------------------------------------
In(state) == {t \in Thread : at[t] = state}

Idle(t, l) == at[t] = "run" /\ Owner[l] = t

\* The tail of Acquire, in the critical section: pop the stack into l.
Take(t, l) ==
  /\ available_resources # <<>>
  /\ resource' = [resource EXCEPT ![l] = Last(available_resources)]
  /\ available_resources' = Front(available_resources)
  /\ at' = [at EXCEPT ![t] = "run"]
  /\ call' = [call EXCEPT ![t] = NoLease]
  /\ expired' = [expired EXCEPT ![t] = FALSE]
  /\ UNCHANGED source

\* Acquire finds a resource, without waiting.
AcquireAtOnce(t, l) ==
  /\ Idle(t, l)
  /\ resource[l] = NoResource
  /\ Take(t, l)

\* Acquire finds none: wait_for releases the mutex and sleeps.
AcquireWait(t, l) ==
  /\ Idle(t, l)
  /\ resource[l] = NoResource
  /\ available_resources = <<>>
  /\ at' = [at EXCEPT ![t] = "waiting"]
  /\ call' = [call EXCEPT ![t] = l]
  /\ UNCHANGED <<available_resources, resource, source, expired>>

\* Time passes: the timeout of t's wait_for is over.
Expire(t) ==
  /\ at[t] \in {"waiting", "awake"}
  /\ ~expired[t]
  /\ expired' = [expired EXCEPT ![t] = TRUE]
  /\ UNCHANGED <<available_resources, resource, at, call, source>>

\* A waiter leaves the queue unnotified: spuriously, or because of its timeout.
Wake(t) ==
  /\ at[t] = "waiting"
  /\ at' = [at EXCEPT ![t] = "awake"]
  /\ UNCHANGED <<available_resources, resource, call, source, expired>>

\* With the mutex again, the predicate holds: wait_for returns true.
WakeTake(t) ==
  /\ at[t] = "awake"
  /\ Take(t, call[t])

\* Mutant of WakeWait: every wakeup starts the timeout again.
WakeWaitRestarted(t) ==
  /\ at[t] = "awake"
  /\ available_resources = <<>>
  /\ at' = [at EXCEPT ![t] = "waiting"]
  /\ expired' = [expired EXCEPT ![t] = FALSE]
  /\ UNCHANGED <<available_resources, resource, call, source>>

\* The predicate is false and there is time left: back to sleep.
WakeWait(t) ==
  /\ at[t] = "awake"
  /\ available_resources = <<>>
  /\ ~expired[t]
  /\ at' = [at EXCEPT ![t] = "waiting"]
  /\ UNCHANGED <<available_resources, resource, call, source, expired>>

\* Mutant of WakeGiveUp: the predicate is not evaluated after the timeout.
WakeGiveUpUnchecked(t) ==
  /\ at[t] = "awake"
  /\ expired[t]
  /\ at' = [at EXCEPT ![t] = "run"]
  /\ call' = [call EXCEPT ![t] = NoLease]
  /\ expired' = [expired EXCEPT ![t] = FALSE]
  /\ UNCHANGED <<available_resources, resource, source>>

\* The predicate is false after the timeout: Acquire returns nullopt.
WakeGiveUp(t) ==
  /\ at[t] = "awake"
  /\ available_resources = <<>>
  /\ expired[t]
  /\ at' = [at EXCEPT ![t] = "run"]
  /\ call' = [call EXCEPT ![t] = NoLease]
  /\ expired' = [expired EXCEPT ![t] = FALSE]
  /\ UNCHANGED <<available_resources, resource, source>>

-----------------------------------------------------------------------------
\* ResourcePool::Release up to the end of its critical section.
PushBack(t, l) ==
  /\ available_resources' =
       IF Contains(available_resources, resource[l])
       THEN available_resources
       ELSE Append(available_resources, resource[l])
  /\ at' = [at EXCEPT ![t] = "notify"]
  /\ call' = [call EXCEPT ![t] = l]
  /\ UNCHANGED <<resource, expired>>

\* The destructor of a lease.
Destroy(t, l) ==
  /\ Idle(t, l)
  /\ resource[l] # NoResource
  /\ PushBack(t, l)
  /\ UNCHANGED source

\* The rest of Lease::Release and, in a move assignment, of operator=.
Empty(t, from) ==
  IF from = NoLease
  THEN resource' = [resource EXCEPT ![call[t]] = NoResource]
  ELSE resource' = [resource EXCEPT ![call[t]] = resource[from],
                                    ![from] = NoResource]

\* Mutant of NotifyOne: notifies only if the stack was empty before the push.
NotifyIfWasEmpty(t) ==
  /\ at[t] = "notify"
  /\ \/ /\ In("waiting") = {} \/ Len(available_resources) # 1
        /\ at' = [at EXCEPT ![t] = "run"]
     \/ \E w \in In("waiting") :
          /\ Len(available_resources) = 1
          /\ at' = [at EXCEPT ![t] = "run", ![w] = "awake"]
  /\ Empty(t, source[t])
  /\ call' = [call EXCEPT ![t] = NoLease]
  /\ source' = [source EXCEPT ![t] = NoLease]
  /\ UNCHANGED <<available_resources, expired>>

\* notify_one wakes one of the waiters, if there are any.
NotifyOne(t) ==
  /\ at[t] = "notify"
  /\ \/ /\ In("waiting") = {}
        /\ at' = [at EXCEPT ![t] = "run"]
     \/ \E w \in In("waiting") :
          at' = [at EXCEPT ![t] = "run", ![w] = "awake"]
  /\ Empty(t, source[t])
  /\ call' = [call EXCEPT ![t] = NoLease]
  /\ source' = [source EXCEPT ![t] = NoLease]
  /\ UNCHANGED <<available_resources, expired>>

\* Mutant of MoveToEmpty: the moved-from lease keeps its pointer.
MoveByCopy(t, from, l) ==
  /\ Idle(t, l)
  /\ Idle(t, from)
  /\ from # l
  /\ resource[l] = NoResource
  /\ resource[from] # NoResource
  /\ resource' = [resource EXCEPT ![l] = resource[from]]
  /\ UNCHANGED <<available_resources, at, call, source, expired>>

\* Mutant of MoveToEmpty: a move assignment that does not release first.
MoveWithoutRelease(t, from, l) ==
  /\ Idle(t, l)
  /\ Idle(t, from)
  /\ from # l
  /\ resource[from] # NoResource
  /\ resource' = [resource EXCEPT ![l] = resource[from],
                                  ![from] = NoResource]
  /\ UNCHANGED <<available_resources, at, call, source, expired>>

\* Move construction of l from `from`, and move assignment to an empty lease.
MoveToEmpty(t, from, l) ==
  /\ Idle(t, l)
  /\ Idle(t, from)
  /\ from # l
  /\ resource[l] = NoResource
  /\ resource[from] # NoResource
  /\ resource' = [resource EXCEPT ![l] = resource[from],
                                  ![from] = NoResource]
  /\ UNCHANGED <<available_resources, at, call, source, expired>>

\* Move assignment to a lease that holds a resource: it is released first.
MoveOver(t, from, l) ==
  /\ Idle(t, l)
  /\ Idle(t, from)
  /\ from # l
  /\ resource[l] # NoResource
  /\ source' = [source EXCEPT ![t] = from]
  /\ PushBack(t, l)

-----------------------------------------------------------------------------
AcquireStep(t) ==
  \/ \E l \in Lease : AcquireAtOnce(t, l) \/ AcquireWait(t, l)
  \/ Expire(t)
  \/ Wake(t)
  \/ WakeTake(t)
  \/ WakeWait(t)
  \/ WakeGiveUp(t)

LeaseStep(t) ==
  \/ \E l \in Lease :
       \/ Destroy(t, l)
       \/ \E from \in Lease : MoveToEmpty(t, from, l) \/ MoveOver(t, from, l)
  \/ NotifyOne(t)

PoolNext == \E t \in Thread : AcquireStep(t) \/ LeaseStep(t)

PoolSpec == PoolInit /\ [][PoolNext]_pool

Recheck(t) == WakeTake(t) \/ WakeWait(t) \/ WakeGiveUp(t)

(***************************************************************************)
(* Fairness: a thread inside the pool runs (it gets the mutex and returns  *)
(* from notify_one), time passes, and a wait whose timeout is over ends.   *)
(* Nothing is assumed of when a client gives a lease back.                 *)
(***************************************************************************)
PoolFairSpec ==
  /\ PoolSpec
  /\ \A t \in Thread :
       /\ WF_pool(NotifyOne(t)) /\ WF_pool(Recheck(t))
       /\ WF_pool(Expire(t)) /\ WF_pool(expired[t] /\ Wake(t))

-----------------------------------------------------------------------------
Releasing(l) == \E t \in In("notify") : call[t] = l

\* A lease whose resource its owner may use.
Holds(l) == resource[l] # NoResource /\ ~Releasing(l)

(***************************************************************************)
(* A resource in use by one lease is not in use by another and is not on   *)
(* the stack, and the stack holds no resource twice: no two requests ever  *)
(* share a handle.  (Between push_back and the write of nullptr a lease    *)
(* still names a resource that a third thread may already be using.)       *)
(***************************************************************************)
ExclusiveUse ==
  /\ \A l, m \in Lease :
       Holds(l) /\ Holds(m) /\ resource[l] = resource[m] => l = m
  /\ \A l \in Lease :
       Holds(l) => ~Contains(available_resources, resource[l])
  /\ IsInjective(available_resources)

(***************************************************************************)
(* Every resource is on the stack or in use: whatever moves, destructions, *)
(* timeouts and wakeups happen, the pool never loses capacity.             *)
(***************************************************************************)
NoLeak ==
  \A r \in Resource :
    \/ Contains(available_resources, r)
    \/ \E l \in Lease : Holds(l) /\ resource[l] = r

(***************************************************************************)
(* Calling notify_one after unlocking loses no wakeup: when every thread   *)
(* still inside the pool is asleep, no resource is available.              *)
(***************************************************************************)
NoLostWakeup ==
  (In("waiting") # {} /\ In("awake") = {} /\ In("notify") = {})
    => available_resources = <<>>

(***************************************************************************)
(* The counting form of NoLostWakeup: for every available resource that a  *)
(* sleeping thread could use, a thread is awake or about to wake one.      *)
(***************************************************************************)
WakersCoverAvailable ==
  In("waiting") # {} =>
    Len(available_resources) <= Cardinality(In("awake")) + Cardinality(In("notify"))

(***************************************************************************)
(* A call works on leases of its own thread: an acquire fills an empty     *)
(* one, a release empties one and, if it is the first half of a move       *)
(* assignment, refills it from another.                                    *)
(***************************************************************************)
CallOK ==
  \A t \in Thread :
    /\ at[t] # "run" => call[t] \in Lease /\ Owner[call[t]] = t
    /\ at[t] \in {"waiting", "awake"} => resource[call[t]] = NoResource
    /\ at[t] # "notify" => source[t] = NoLease
    /\ source[t] # NoLease => Owner[source[t]] = t /\ source[t] # call[t]

\* The inductive invariant from which the safety properties follow.
InductiveInv ==
  /\ PoolTypeOK
  /\ CallOK
  /\ ExclusiveUse
  /\ NoLeak
  /\ WakersCoverAvailable

\* The owner of each resource, as HandlePool sees it.
OwnerOf(r) ==
  IF \E l \in Lease : Holds(l) /\ resource[l] = r
  THEN CHOOSE l \in Lease : Holds(l) /\ resource[l] = r
  ELSE NoLease

Handles == INSTANCE HandlePool WITH owner <- [r \in Resource |-> OwnerOf(r)]

(***************************************************************************)
(* The pool with its mutex, stack, condition variable and movable leases   *)
(* implements HandlePool: grants only free handles, takes a handle back    *)
(* only from its owner, and moves it only to an empty lease.               *)
(***************************************************************************)
ImplementsHandlePool == Handles!HSpec

\* Every Acquire returns, with a lease or with nullopt.
AcquireReturns ==
  \A t \in Thread : at[t] \in {"waiting", "awake"} ~> at[t] = "run"
=============================================================================
