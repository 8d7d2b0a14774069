------------------------ MODULE CurlHttpClientProofs ------------------------
(***************************************************************************)
(* Proofs about ResourcePool and CurlHttpClient for every number of        *)
(* threads and resources, every number of attempts, and all timeouts and   *)
(* delays.  The pool comes first: resources are used exclusively, none is  *)
(* lost, no wakeup is lost although notify_one is called without the       *)
(* mutex, and the pool implements HandlePool.  Then the client on the      *)
(* promise of HandlePool: handles are held only while they are used,       *)
(* blocking calls and transfers are bounded by the deadline and the        *)
(* budgets, and the reported result is justified.                          *)
(***************************************************************************)
EXTENDS ResourcePool, CurlHttpClient, SequenceTheorems, DataInduction

-----------------------------------------------------------------------------
(* The stack.                                                              *)

\* pop_back removes exactly the top of a stack without duplicates.
LEMMA PopFacts ==
  ASSUME NEW S, NEW s \in Seq(S), s # <<>>
  PROVE  /\ Front(s) \in Seq(S)
         /\ Len(Front(s)) = Len(s) - 1
         /\ Last(s) \in S
         /\ Contains(s, Last(s))
         /\ IsInjective(s) =>
              /\ IsInjective(Front(s))
              /\ \A r : Contains(Front(s), r) <=> Contains(s, r) /\ r # Last(s)
<1>1. Len(s) \in Nat /\ Len(s) > 0 /\ DOMAIN s = 1..Len(s)
  OBVIOUS
<1>2. /\ Front(s) \in Seq(S)
      /\ Len(Front(s)) = Len(s) - 1
      /\ \A i \in 1..(Len(s) - 1) : Front(s)[i] = s[i]
  <2>1. \A i \in 1..(Len(s) - 1) : s[i] \in S
    BY <1>1
  <2>2. /\ SubSeq(s, 1, Len(s) - 1) \in Seq(S)
        /\ Len(SubSeq(s, 1, Len(s) - 1)) =
             IF 1 <= Len(s) - 1 THEN (Len(s) - 1) - 1 + 1 ELSE 0
        /\ \A i \in 1..((Len(s) - 1) - 1 + 1) :
             SubSeq(s, 1, Len(s) - 1)[i] = s[1 + i - 1]
    BY <1>1, <2>1, SubSeqProperties
  <2>3. QED
    BY <1>1, <2>2 DEF Front
<1>3. Last(s) \in S /\ Contains(s, Last(s))
  BY <1>1 DEF Last, Contains
<1>4. ASSUME IsInjective(s)
      PROVE  IsInjective(Front(s))
  <2>1. DOMAIN Front(s) = 1..(Len(s) - 1)
    BY <1>1, <1>2
  <2>2. QED
    BY <1>1, <1>2, <1>4, <2>1 DEF IsInjective
<1>5. ASSUME IsInjective(s), NEW r
      PROVE  Contains(Front(s), r) <=> Contains(s, r) /\ r # Last(s)
  <2>1. ASSUME Contains(Front(s), r) PROVE Contains(s, r) /\ r # Last(s)
    <3>1. PICK i \in 1..(Len(s) - 1) : s[i] = r
      BY <1>1, <1>2, <2>1 DEF Contains
    <3>2. i \in DOMAIN s /\ Len(s) \in DOMAIN s /\ i # Len(s)
      <4>1. \A n \in Nat : \A j \in 1..(n - 1) : j \in 1..n /\ n \in 1..n /\ j # n
        OBVIOUS
      <4>2. QED
        BY <1>1, <4>1, Zenon
    <3>3. QED
      BY <1>5, <3>1, <3>2 DEF Contains, Last, IsInjective
  <2>2. Contains(s, r) /\ r # Last(s) => Contains(Front(s), r)
    BY <1>1, <1>2 DEF Contains, Last
  <2>3. QED
    BY <2>1, <2>2
<1>6. QED
  BY <1>2, <1>3, <1>4, <1>5

\* push_back of an element that is not on the stack adds exactly that element.
LEMMA PushFacts ==
  ASSUME NEW S, NEW s \in Seq(S), NEW e \in S, ~Contains(s, e)
  PROVE  /\ Append(s, e) \in Seq(S)
         /\ Len(Append(s, e)) = Len(s) + 1
         /\ IsInjective(s) => IsInjective(Append(s, e))
         /\ \A r : Contains(Append(s, e), r) <=> Contains(s, r) \/ r = e
<1>1. /\ Append(s, e) \in Seq(S)
      /\ Len(Append(s, e)) = Len(s) + 1
      /\ DOMAIN s = 1..Len(s)
      /\ DOMAIN Append(s, e) = 1..(Len(s) + 1)
      /\ Append(s, e)[Len(s) + 1] = e
      /\ \A i \in 1..Len(s) : Append(s, e)[i] = s[i]
      /\ Len(s) \in Nat
  OBVIOUS
<1>2. ASSUME IsInjective(s)
      PROVE  IsInjective(Append(s, e))
  BY <1>1, <1>2 DEF IsInjective, Contains
<1>3. ASSUME NEW r
      PROVE  Contains(Append(s, e), r) <=> Contains(s, r) \/ r = e
  BY <1>1 DEF Contains
<1>4. QED
  BY <1>1, <1>2, <1>3

-----------------------------------------------------------------------------
(* Type correctness, and where a call stands.                              *)

\* Every operation of the pool (Acquire, Release, the moves of a lease) keeps
\* the types: the stack holds resources, a lease a resource or nullptr.
THEOREM TypeCorrect == PoolSpec => []PoolTypeOK
<1>1. PoolInit => PoolTypeOK
  BY PoolAssumption, FS_CardinalityType DEF PoolInit, PoolTypeOK, PoolState
<1>2. PoolTypeOK /\ [PoolNext]_pool => PoolTypeOK'
  <2> SUFFICES ASSUME PoolTypeOK, [PoolNext]_pool
               PROVE  PoolTypeOK'
    OBVIOUS
  <2> USE DEF PoolTypeOK, PoolState
  <2>1. ASSUME NEW t \in Thread, NEW l, Take(t, l)
        PROVE  PoolTypeOK'
    BY <2>1, PopFacts DEF Take
  <2>2. ASSUME NEW t \in Thread, NEW l \in Lease, resource[l] # NoResource,
               PushBack(t, l), source' \in [Thread -> Lease \cup {NoLease}]
        PROVE  PoolTypeOK'
    BY <2>2, PushFacts DEF PushBack
  <2>3. ASSUME NEW t \in Thread, AcquireStep(t)
        PROVE  PoolTypeOK'
    <3>1. CASE \E l \in Lease : AcquireAtOnce(t, l)
      BY <3>1, <2>1 DEF AcquireAtOnce
    <3>2. CASE \E l \in Lease : AcquireWait(t, l)
      BY <3>2 DEF AcquireWait
    <3>3. CASE WakeTake(t)
      BY <3>3, <2>1 DEF WakeTake, Take
    <3>4. CASE Expire(t) \/ Wake(t) \/ WakeWait(t) \/ WakeGiveUp(t)
      BY <3>4 DEF Expire, Wake, WakeWait, WakeGiveUp
    <3>5. QED
      BY <2>3, <3>1, <3>2, <3>3, <3>4 DEF AcquireStep
  <2>4. ASSUME NEW t \in Thread, LeaseStep(t)
        PROVE  PoolTypeOK'
    <3>1. CASE \E l \in Lease : Destroy(t, l)
      BY <3>1, <2>2 DEF Destroy
    <3>2. CASE \E l, from \in Lease : MoveOver(t, from, l)
      BY <3>2, <2>2 DEF MoveOver
    <3>3. CASE \E l, from \in Lease : MoveToEmpty(t, from, l)
      BY <3>3 DEF MoveToEmpty
    <3>4. CASE NotifyOne(t)
      BY <3>4, PoolAssumption DEF NotifyOne, Empty, In
    <3>5. QED
      BY <2>4, <3>1, <3>2, <3>3, <3>4 DEF LeaseStep
  <2>5. CASE UNCHANGED pool
    BY <2>5 DEF pool
  <2>6. QED
    BY <2>3, <2>4, <2>5 DEF PoolNext
<1>3. QED
  BY <1>1, <1>2, PTL DEF PoolSpec

-----------------------------------------------------------------------------
(* How each kind of step changes the set of leases in use.                 *)

\* The pop at the end of Acquire makes l a lease in use and no other.
LEMMA TakeHolds ==
  ASSUME PoolTypeOK, CallOK, NEW t \in Thread, NEW l \in Lease,
         Owner[l] = t, resource[l] = NoResource, at[t] \in {"run", "awake"},
         Take(t, l)
  PROVE  \A m \in Lease :
           /\ Holds(m)' <=> Holds(m) \/ m = l
           /\ resource'[m] = IF m = l THEN Last(available_resources)
                                      ELSE resource[m]
<1>1. Last(available_resources) \in Resource
  BY PopFacts DEF PoolTypeOK, Take
<1>2. ASSUME NEW m \in Lease
      PROVE  Releasing(m)' <=> Releasing(m)
  BY DEF Take, Releasing, In, PoolTypeOK
<1>3. ~Releasing(l)
  BY DEF Releasing, In, CallOK
<1>4. \A m \in Lease : resource'[m] = IF m = l THEN Last(available_resources)
                                               ELSE resource[m]
  BY DEF Take, PoolTypeOK
<1>5. QED
  BY <1>1, <1>2, <1>3, <1>4, PoolAssumption DEF Holds

\* From its push_back on, Release has given up the resource of the lease.
LEMMA PushBackHolds ==
  ASSUME PoolTypeOK, CallOK, NEW t \in Thread, NEW l \in Lease, Idle(t, l),
         resource[l] # NoResource, PushBack(t, l)
  PROVE  /\ Holds(l)
         /\ \A m \in Lease : Holds(m)' <=> Holds(m) /\ m # l
<1>1. ~Releasing(l)
  BY DEF Releasing, In, CallOK, Idle
<1>2. ASSUME NEW m \in Lease
      PROVE  Releasing(m)' <=> Releasing(m) \/ m = l
  BY DEF PushBack, Releasing, In, PoolTypeOK, Idle
<1>3. QED
  BY <1>1, <1>2 DEF Holds, PushBack

\* What follows notify_one empties the lease of the call and, in a move
\* assignment, refills it from the source; other leases do not change.
LEMMA NotifyHolds ==
  ASSUME PoolTypeOK, CallOK, NEW t \in Thread, NotifyOne(t)
  PROVE  \A m \in Lease :
           /\ Releasing(m)' <=> Releasing(m) /\ m # call[t]
           /\ source[t] = NoLease =>
                /\ Holds(m)' <=> Holds(m)
                /\ Holds(m) => resource'[m] = resource[m]
           /\ source[t] # NoLease =>
                /\ Holds(m)' <=> \/ Holds(m) /\ m # source[t]
                                 \/ m = call[t] /\ Holds(source[t])
                /\ resource'[m] = IF m = source[t] THEN NoResource
                                  ELSE IF m = call[t] THEN resource[source[t]]
                                  ELSE resource[m]
<1>1. /\ at[t] = "notify"
      /\ call[t] \in Lease
      /\ Owner[call[t]] = t
      /\ Releasing(call[t])
      /\ ~Holds(call[t])
  BY DEF NotifyOne, CallOK, Releasing, In, Holds
<1>2. ASSUME NEW m \in Lease
      PROVE  Releasing(m)' <=> Releasing(m) /\ m # call[t]
  <2>1. \A u \in Thread : /\ at'[u] = "notify" <=> at[u] = "notify" /\ u # t
                          /\ u # t => call'[u] = call[u]
    BY DEF NotifyOne, In, PoolTypeOK, PoolState
  <2>2. \A u \in Thread : at[u] = "notify" /\ u # t => call[u] # call[t]
    BY <1>1 DEF CallOK
  <2>3. QED
    BY <1>1, <2>1, <2>2 DEF Releasing, In
<1>3. CASE source[t] = NoLease
  <2>1. resource' = [resource EXCEPT ![call[t]] = NoResource]
    BY <1>3 DEF NotifyOne, Empty
  <2>2. QED
    BY <1>1, <1>2, <1>3, <2>1, PoolAssumption DEF Holds, PoolTypeOK
<1>4. CASE source[t] # NoLease
  <2>1. /\ source[t] \in Lease
        /\ source[t] # call[t]
        /\ ~Releasing(source[t])
    BY <1>1, <1>4 DEF CallOK, PoolTypeOK, Releasing, In
  <2>2. resource' = [resource EXCEPT ![call[t]] = resource[source[t]],
                                     ![source[t]] = NoResource]
    BY <1>4 DEF NotifyOne, Empty
  <2>3. \A m \in Lease :
          resource'[m] = IF m = source[t] THEN NoResource
                         ELSE IF m = call[t] THEN resource[source[t]]
                         ELSE resource[m]
    BY <1>1, <2>1, <2>2 DEF PoolTypeOK
  <2>4. QED
    BY <1>1, <1>2, <1>4, <2>1, <2>3, PoolAssumption DEF Holds
<1>5. QED
  BY <1>2, <1>3, <1>4

\* A move hands the use of a resource from one lease to the other.
LEMMA MoveHolds ==
  ASSUME PoolTypeOK, CallOK, NEW t \in Thread, NEW l \in Lease, NEW from \in Lease,
         MoveToEmpty(t, from, l)
  PROVE  \A m \in Lease :
           /\ Holds(m)' <=> (Holds(m) /\ m # from) \/ m = l
           /\ Holds(from)
           /\ resource'[m] = IF m = from THEN NoResource
                             ELSE IF m = l THEN resource[from]
                             ELSE resource[m]
<1>1. ~Releasing(l) /\ ~Releasing(from)
  BY DEF MoveToEmpty, Idle, Releasing, In, CallOK
<1>2. \A m \in Lease : Releasing(m)' <=> Releasing(m)
  BY DEF MoveToEmpty, Releasing, In
<1>3. \A m \in Lease : resource'[m] = IF m = from THEN NoResource
                                      ELSE IF m = l THEN resource[from]
                                      ELSE resource[m]
  BY DEF MoveToEmpty, PoolTypeOK
<1>4. /\ Holds(from)
      /\ from # l
      /\ resource[l] = NoResource
      /\ resource[from] # NoResource
  BY <1>1 DEF Holds, MoveToEmpty
<1>5. ASSUME NEW m \in Lease
      PROVE  Holds(m)' <=> (Holds(m) /\ m # from) \/ m = l
  <2>1. CASE m = from
    BY <1>3, <1>4, <2>1 DEF Holds
  <2>2. CASE m = l
    BY <1>1, <1>2, <1>3, <1>4, <2>2 DEF Holds
  <2>3. CASE m # from /\ m # l
    BY <1>2, <1>3, <2>3 DEF Holds
  <2>4. QED
    BY <2>1, <2>2, <2>3
<1>6. QED
  BY <1>3, <1>4, <1>5

\* A step of wait_for that takes nothing changes no lease.
LEMMA OtherHolds ==
  ASSUME PoolTypeOK, NEW t \in Thread, UNCHANGED <<available_resources, resource>>,
         \A u \in Thread : at'[u] = "notify" <=> at[u] = "notify",
         \A u \in Thread : at[u] = "notify" => call'[u] = call[u]
  PROVE  \A m \in Lease : /\ Holds(m)' <=> Holds(m)
                          /\ resource'[m] = resource[m]
BY DEF Holds, Releasing, In

-----------------------------------------------------------------------------
(* The conjuncts of the inductive invariant, one lemma each.               *)

\* A call works on a lease of its own thread, from its start to its return.
LEMMA CallStep ==
  ASSUME PoolTypeOK, CallOK, [PoolNext]_pool
  PROVE  CallOK'
<1> USE PoolAssumption DEF PoolTypeOK, PoolState
<1>1. ASSUME NEW t \in Thread, NEW l \in Lease, Owner[l] = t,
             at[t] \in {"run", "awake"}, Take(t, l)
      PROVE  CallOK'
  <2>1. \A u \in Thread : u # t /\ at[u] # "run" => call[u] # l
    BY <1>1 DEF CallOK
  <2>2. \A m \in Lease : m # l => resource'[m] = resource[m]
    BY <1>1 DEF Take
  <2>3. \A u \in Thread : u # t => /\ at'[u] = at[u]
                                   /\ call'[u] = call[u]
                                   /\ source'[u] = source[u]
    BY <1>1 DEF Take
  <2>4. at'[t] = "run" /\ source'[t] = NoLease
    BY <1>1 DEF Take, CallOK
  <2>5. QED
    BY <2>1, <2>2, <2>3, <2>4 DEF CallOK
<1>2. ASSUME NEW t \in Thread, NEW l \in Lease, Idle(t, l), PushBack(t, l),
             \/ UNCHANGED source
             \/ \E from \in Lease : /\ Owner[from] = t
                                    /\ from # l
                                    /\ source' = [source EXCEPT ![t] = from]
      PROVE  CallOK'
  BY <1>2 DEF PushBack, CallOK, Idle
<1>3. ASSUME NEW t \in Thread, AcquireStep(t)
      PROVE  CallOK'
  <2>1. CASE \E l \in Lease : AcquireAtOnce(t, l)
    BY <2>1, <1>1 DEF AcquireAtOnce, Idle
  <2>2. CASE \E l \in Lease : AcquireWait(t, l)
    BY <2>2 DEF AcquireWait, Idle, CallOK
  <2>3. CASE WakeTake(t)
    BY <2>3, <1>1 DEF WakeTake, CallOK
  <2>4. CASE Expire(t)
    BY <2>4 DEF Expire, CallOK
  <2>5. CASE Wake(t)
    BY <2>5 DEF Wake, CallOK
  <2>6. CASE WakeWait(t)
    BY <2>6 DEF WakeWait, CallOK
  <2>7. CASE WakeGiveUp(t)
    BY <2>7 DEF WakeGiveUp, CallOK
  <2>8. QED
    BY <1>3, <2>1, <2>2, <2>3, <2>4, <2>5, <2>6, <2>7 DEF AcquireStep
<1>4. ASSUME NEW t \in Thread, NotifyOne(t)
      PROVE  CallOK'
  <2>1. at[t] = "notify" /\ call[t] \in Lease /\ Owner[call[t]] = t
    BY <1>4 DEF NotifyOne, CallOK
  <2>2. at'[t] = "run" /\ source'[t] = NoLease
    BY <1>4 DEF NotifyOne, In
  <2>3. ASSUME NEW u \in Thread, u # t
        PROVE  /\ call'[u] = call[u]
               /\ source'[u] = source[u]
               /\ at'[u] = at[u] \/ (at[u] = "waiting" /\ at'[u] = "awake")
    BY <1>4, <2>3 DEF NotifyOne, In
  <2>4. ASSUME NEW m \in Lease, Owner[m] # t
        PROVE  resource'[m] = resource[m]
    BY <1>4, <2>1, <2>4 DEF NotifyOne, Empty, CallOK
  <2>5. QED
    BY <2>2, <2>3, <2>4 DEF CallOK
<1>5. ASSUME NEW t \in Thread, LeaseStep(t)
      PROVE  CallOK'
  <2>1. CASE \E l \in Lease : Destroy(t, l)
    BY <2>1, <1>2 DEF Destroy
  <2>2. CASE \E l, from \in Lease : MoveOver(t, from, l)
    BY <2>2, <1>2 DEF MoveOver, Idle
  <2>3. CASE \E l, from \in Lease : MoveToEmpty(t, from, l)
    <3>1. PICK l \in Lease, from \in Lease : MoveToEmpty(t, from, l)
      BY <2>3
    <3>2. \A u \in Thread : at[u] # "run" => call[u] # l /\ call[u] # from
      BY <3>1 DEF MoveToEmpty, Idle, CallOK
    <3>3. QED
      BY <3>1, <3>2 DEF MoveToEmpty, CallOK
  <2>4. QED
    BY <1>4, <1>5, <2>1, <2>2, <2>3 DEF LeaseStep
<1>6. CASE UNCHANGED pool
  BY <1>6 DEF pool, CallOK
<1>7. QED
  BY <1>3, <1>5, <1>6 DEF PoolNext

\* No step shares a resource between two users, and none loses one.
LEMMA UseStep ==
  ASSUME PoolTypeOK, CallOK, ExclusiveUse, NoLeak, [PoolNext]_pool
  PROVE  ExclusiveUse' /\ NoLeak'
<1> USE PoolAssumption DEF ExclusiveUse, NoLeak
<1>1. ASSUME NEW t \in Thread, NEW l \in Lease, Owner[l] = t,
             resource[l] = NoResource, at[t] \in {"run", "awake"}, Take(t, l)
      PROVE  ExclusiveUse' /\ NoLeak'
  <2>1. /\ IsInjective(available_resources')
        /\ \A r : Contains(available_resources', r) <=>
                    /\ Contains(available_resources, r)
                    /\ r # Last(available_resources)
        /\ Contains(available_resources, Last(available_resources))
    BY <1>1, PopFacts DEF Take, PoolTypeOK
  <2>2. \A m \in Lease :
          /\ Holds(m)' <=> Holds(m) \/ m = l
          /\ resource'[m] = IF m = l THEN Last(available_resources)
                                     ELSE resource[m]
    BY <1>1, TakeHolds
  <2>3. ~Holds(l)
    BY <1>1 DEF Holds
  <2>4. QED
    BY <2>1, <2>2, <2>3
<1>2. ASSUME NEW t \in Thread, NEW l \in Lease, Idle(t, l),
             resource[l] # NoResource, PushBack(t, l)
      PROVE  ExclusiveUse' /\ NoLeak'
  <2>1. /\ Holds(l)
        /\ \A m \in Lease : Holds(m)' <=> Holds(m) /\ m # l
    BY <1>2, PushBackHolds
  <2>2. resource[l] \in Resource /\ ~Contains(available_resources, resource[l])
    BY <1>2, <2>1 DEF PoolTypeOK
  <2>3. /\ IsInjective(available_resources')
        /\ \A r : Contains(available_resources', r) <=>
                    Contains(available_resources, r) \/ r = resource[l]
    BY <1>2, <2>2, PushFacts DEF PushBack, PoolTypeOK
  <2>4. resource' = resource
    BY <1>2 DEF PushBack
  <2>5. QED
    BY <2>1, <2>3, <2>4
<1>3. ASSUME UNCHANGED available_resources,
             \A m \in Lease : /\ Holds(m)' <=> Holds(m)
                              /\ Holds(m) => resource'[m] = resource[m]
      PROVE  ExclusiveUse' /\ NoLeak'
  BY <1>3
<1>4. ASSUME NEW t \in Thread, AcquireStep(t)
      PROVE  ExclusiveUse' /\ NoLeak'
  <2>1. CASE \E l \in Lease : AcquireAtOnce(t, l)
    BY <2>1, <1>1 DEF AcquireAtOnce, Idle
  <2>2. CASE WakeTake(t)
    BY <2>2, <1>1 DEF WakeTake, CallOK
  <2>3. CASE \/ \E l \in Lease : AcquireWait(t, l)
             \/ Expire(t) \/ Wake(t) \/ WakeWait(t) \/ WakeGiveUp(t)
    <3>1. /\ UNCHANGED <<available_resources, resource>>
          /\ \A u \in Thread : at'[u] = "notify" <=> at[u] = "notify"
          /\ \A u \in Thread : at[u] = "notify" => call'[u] = call[u]
      BY <2>3 DEF AcquireWait, Idle, Expire, Wake, WakeWait, WakeGiveUp,
                  PoolTypeOK, PoolState
    <3>2. \A m \in Lease : /\ Holds(m)' <=> Holds(m)
                           /\ resource'[m] = resource[m]
      BY <3>1, OtherHolds
    <3>3. QED
      BY <3>1, <3>2, <1>3
  <2>4. QED
    BY <1>4, <2>1, <2>2, <2>3 DEF AcquireStep
<1>5. ASSUME NEW t \in Thread, NotifyOne(t)
      PROVE  ExclusiveUse' /\ NoLeak'
  <2>1. UNCHANGED available_resources
    BY <1>5 DEF NotifyOne
  <2>2. CASE source[t] = NoLease
    BY <1>5, <1>3, <2>1, <2>2, NotifyHolds
  <2>3. CASE source[t] # NoLease
    <3>1. /\ source[t] \in Lease
          /\ call[t] \in Lease
          /\ source[t] # call[t]
          /\ ~Holds(call[t])
      BY <1>5, <2>3 DEF NotifyOne, CallOK, PoolTypeOK, Holds, Releasing, In
    <3>2. \A m \in Lease :
            /\ Holds(m)' <=> \/ Holds(m) /\ m # source[t]
                             \/ m = call[t] /\ Holds(source[t])
            /\ resource'[m] = IF m = source[t] THEN NoResource
                              ELSE IF m = call[t] THEN resource[source[t]]
                              ELSE resource[m]
      BY <1>5, <2>3, NotifyHolds
    <3>3. ExclusiveUse'
      BY <2>1, <3>1, <3>2
    <3>4. NoLeak'
      BY <2>1, <3>1, <3>2
    <3>5. QED
      BY <3>3, <3>4
  <2>4. QED
    BY <2>2, <2>3
<1>6. ASSUME NEW t \in Thread, LeaseStep(t)
      PROVE  ExclusiveUse' /\ NoLeak'
  <2>1. CASE \E l \in Lease : Destroy(t, l)
    BY <2>1, <1>2 DEF Destroy
  <2>2. CASE \E l, from \in Lease : MoveOver(t, from, l)
    BY <2>2, <1>2 DEF MoveOver
  <2>3. CASE \E l, from \in Lease : MoveToEmpty(t, from, l)
    <3>1. PICK l \in Lease, from \in Lease : MoveToEmpty(t, from, l)
      BY <2>3
    <3>2. /\ UNCHANGED available_resources
          /\ from # l
          /\ ~Holds(l)
      BY <3>1 DEF MoveToEmpty, Holds
    <3>3. \A m \in Lease :
            /\ Holds(m)' <=> (Holds(m) /\ m # from) \/ m = l
            /\ Holds(from)
            /\ resource'[m] = IF m = from THEN NoResource
                              ELSE IF m = l THEN resource[from]
                              ELSE resource[m]
      BY <3>1, MoveHolds
    <3>4. ExclusiveUse'
      BY <3>2, <3>3
    <3>5. NoLeak'
      BY <3>2, <3>3
    <3>6. QED
      BY <3>4, <3>5
  <2>4. QED
    BY <1>5, <1>6, <2>1, <2>2, <2>3 DEF LeaseStep
<1>7. CASE UNCHANGED pool
  BY <1>7 DEF pool, Holds, Releasing, In
<1>8. QED
  BY <1>4, <1>6, <1>7 DEF PoolNext

\* The sets of threads in each state are finite.
LEMMA InFinite ==
  ASSUME PoolTypeOK, NEW x
  PROVE  /\ IsFiniteSet(In(x))
         /\ Cardinality(In(x)) \in Nat
BY PoolAssumption, FS_Subset, FS_CardinalityType DEF In

\* notify_one after unlocking is enough: no step leaves more resources on the
\* stack than threads that are awake or about to notify, while one sleeps.
LEMMA WakersStep ==
  ASSUME PoolTypeOK, PoolTypeOK', WakersCoverAvailable, [PoolNext]_pool
  PROVE  WakersCoverAvailable'
<1> DEFINE W == In("waiting")
           A == In("awake")
           N == In("notify")
           L == Len(available_resources)
<1>1. /\ Cardinality(A) \in Nat /\ Cardinality(N) \in Nat
      /\ Cardinality(A') \in Nat /\ Cardinality(N') \in Nat
      /\ IsFiniteSet(A) /\ IsFiniteSet(N)
      /\ L \in Nat /\ L' \in Nat
  <2>1. /\ IsFiniteSet(In("awake")') /\ IsFiniteSet(In("notify")')
    BY PoolAssumption, FS_Subset DEF In
  <2>2. QED
    BY <2>1, InFinite, FS_CardinalityType DEF PoolTypeOK
<1>2. ASSUME A' = A, N' = N, W' = W, L' <= L
      PROVE  WakersCoverAvailable'
  BY <1>1, <1>2 DEF WakersCoverAvailable
<1>3. ASSUME available_resources' = <<>>
      PROVE  WakersCoverAvailable'
  <2>1. L' = 0
    BY <1>3
  <2>2. QED
    BY <1>1, <2>1 DEF WakersCoverAvailable
<1>4. ASSUME NEW t \in Thread, NEW l, at[t] \in {"run", "awake"}, Take(t, l)
      PROVE  WakersCoverAvailable'
  <2>1. L' = L - 1
    BY <1>4, PopFacts DEF Take, PoolTypeOK
  <2>2. W' = W /\ N' = N
    BY <1>4 DEF Take, In, PoolTypeOK
  <2>3. CASE at[t] = "run"
    <3>1. A' = A
      BY <1>4, <2>3 DEF Take, In, PoolTypeOK
    <3>2. QED
      BY <1>1, <1>2, <2>1, <2>2, <3>1
  <2>4. CASE at[t] = "awake"
    <3>1. A' = A \ {t} /\ t \in A
      BY <1>4, <2>4 DEF Take, In, PoolTypeOK
    <3>2. Cardinality(A') = Cardinality(A) - 1
      BY <1>1, <3>1, FS_RemoveElement
    <3>3. QED
      BY <1>1, <2>1, <2>2, <3>2 DEF WakersCoverAvailable
  <2>5. QED
    BY <1>4, <2>3, <2>4
<1>5. ASSUME NEW t \in Thread, Wake(t)
      PROVE  WakersCoverAvailable'
  <2>1. A' = A \cup {t} /\ t \notin A /\ N' = N /\ t \in W
    BY <1>5 DEF Wake, In, PoolTypeOK
  <2>2. Cardinality(A') = Cardinality(A) + 1
    BY <1>1, <2>1, FS_AddElement
  <2>3. L' = L
    BY <1>5 DEF Wake
  <2>4. QED
    BY <1>1, <2>1, <2>2, <2>3 DEF WakersCoverAvailable
<1>6. ASSUME NEW t \in Thread, NEW l \in Lease, Idle(t, l),
             resource[l] # NoResource, PushBack(t, l)
      PROVE  WakersCoverAvailable'
  <2>1. L' <= L + 1
    BY <1>6, PushFacts DEF PushBack, PoolTypeOK
  <2>2. N' = N \cup {t} /\ t \notin N /\ A' = A /\ W' = W
    BY <1>6 DEF PushBack, Idle, In, PoolTypeOK
  <2>3. Cardinality(N') = Cardinality(N) + 1
    BY <1>1, <2>2, FS_AddElement
  <2>4. QED
    BY <1>1, <2>1, <2>2, <2>3 DEF WakersCoverAvailable
<1>7. ASSUME NEW t \in Thread, NotifyOne(t)
      PROVE  WakersCoverAvailable'
  <2>1. L' = L
    BY <1>7 DEF NotifyOne
  <2>2. CASE W = {} /\ at' = [at EXCEPT ![t] = "run"]
    <3>1. W' = {}
      BY <2>2 DEF In, PoolTypeOK
    <3>2. QED
      BY <3>1 DEF WakersCoverAvailable
  <2>3. ASSUME NEW w \in W, at' = [at EXCEPT ![t] = "run", ![w] = "awake"]
        PROVE  WakersCoverAvailable'
    <3>1. /\ A' = A \cup {w} /\ w \notin A
          /\ N' = N \ {t} /\ t \in N
      BY <1>7, <2>3 DEF NotifyOne, In, PoolTypeOK
    <3>2. /\ Cardinality(A') = Cardinality(A) + 1
          /\ Cardinality(N') = Cardinality(N) - 1
      BY <1>1, <3>1, FS_AddElement, FS_RemoveElement
    <3>3. W # {}
      BY <2>3
    <3>4. QED
      BY <1>1, <2>1, <3>2, <3>3 DEF WakersCoverAvailable
  <2>4. QED
    BY <1>7, <2>2, <2>3 DEF NotifyOne
<1>8. ASSUME NEW t \in Thread, AcquireStep(t)
      PROVE  WakersCoverAvailable'
  <2>1. CASE \E l \in Lease : AcquireAtOnce(t, l)
    BY <2>1, <1>4 DEF AcquireAtOnce, Idle
  <2>2. CASE WakeTake(t)
    BY <2>2, <1>4 DEF WakeTake
  <2>3. CASE Expire(t)
    BY <2>3, <1>1, <1>2 DEF Expire, In
  <2>4. CASE Wake(t)
    BY <2>4, <1>5
  <2>5. CASE \/ \E l \in Lease : AcquireWait(t, l)
             \/ WakeWait(t) \/ WakeGiveUp(t)
    BY <2>5, <1>3 DEF AcquireWait, WakeWait, WakeGiveUp
  <2>6. QED
    BY <1>8, <2>1, <2>2, <2>3, <2>4, <2>5 DEF AcquireStep
<1>9. ASSUME NEW t \in Thread, LeaseStep(t)
      PROVE  WakersCoverAvailable'
  <2>1. CASE \E l, from \in Lease : MoveToEmpty(t, from, l)
    BY <2>1, <1>1, <1>2 DEF MoveToEmpty, In
  <2>2. CASE \/ \E l \in Lease : Destroy(t, l)
             \/ \E l, from \in Lease : MoveOver(t, from, l)
    BY <2>2, <1>6 DEF Destroy, MoveOver
  <2>3. QED
    BY <1>7, <1>9, <2>1, <2>2 DEF LeaseStep
<1>10. CASE UNCHANGED pool
  BY <1>10, <1>1, <1>2 DEF pool, In
<1>11. QED
  BY <1>8, <1>9, <1>10 DEF PoolNext

-----------------------------------------------------------------------------
(* The theorems.                                                           *)

(***************************************************************************)
(* Every step of every thread preserves the inductive invariant.           *)
(***************************************************************************)
THEOREM InductiveInvariant == PoolSpec => []InductiveInv
<1>1. PoolInit /\ PoolTypeOK => InductiveInv
  <2> SUFFICES ASSUME PoolInit, PoolTypeOK
               PROVE  CallOK /\ ExclusiveUse /\ NoLeak /\ WakersCoverAvailable
    BY DEF InductiveInv
  <2>1. CallOK
    BY DEF PoolInit, CallOK
  <2>2. ExclusiveUse
    BY DEF PoolInit, ExclusiveUse, Holds
  <2>3. NoLeak
    <3>1. DOMAIN available_resources = 1..Len(available_resources)
      BY DEF PoolTypeOK
    <3>2. QED
      BY <3>1 DEF PoolInit, NoLeak, ToSet, Contains
  <2>4. WakersCoverAvailable
    BY DEF PoolInit, WakersCoverAvailable, In
  <2>5. QED
    BY <2>1, <2>2, <2>3, <2>4
<1>2. PoolTypeOK /\ PoolTypeOK' /\ InductiveInv /\ [PoolNext]_pool => InductiveInv'
  BY CallStep, UseStep, WakersStep DEF InductiveInv
<1>3. QED
  BY <1>1, <1>2, TypeCorrect, PTL DEF PoolSpec

(***************************************************************************)
(* For any number of threads, leases and handles, whatever they acquire,   *)
(* move, overwrite and destroy: no two leases use the same resource, and   *)
(* every resource is on the stack or in use.                               *)
(***************************************************************************)
THEOREM ExclusiveAndComplete == PoolSpec => [](ExclusiveUse /\ NoLeak)
<1>1. InductiveInv => ExclusiveUse /\ NoLeak
  BY DEF InductiveInv
<1>2. QED
  BY <1>1, InductiveInvariant, PTL

(***************************************************************************)
(* Although notify_one is called after unlocking, and waiters can be       *)
(* overtaken, wake spuriously or time out: once every thread inside the    *)
(* pool is asleep, no resource is available.                               *)
(***************************************************************************)
THEOREM WakeupsAreNotLost == PoolSpec => []NoLostWakeup
<1>1. InductiveInv => NoLostWakeup
  <2> SUFFICES ASSUME InductiveInv, In("waiting") # {},
                      In("awake") = {}, In("notify") = {}
               PROVE  available_resources = <<>>
    BY DEF NoLostWakeup
  <2>1. Cardinality(In("awake")) = 0 /\ Cardinality(In("notify")) = 0
    BY FS_EmptySet
  <2>2. Len(available_resources) <= 0
    BY <2>1 DEF InductiveInv, WakersCoverAvailable
  <2>3. QED
    BY <2>2 DEF InductiveInv, PoolTypeOK
<1>2. QED
  BY <1>1, InductiveInvariant, PTL

-----------------------------------------------------------------------------
(* The pool implements HandlePool.                                         *)

\* The abstract owner of a resource is the lease that uses it.
LEMMA OwnerDef ==
  ASSUME ExclusiveUse, NEW r \in Resource
  PROVE  /\ OwnerOf(r) \in Lease \cup {NoLease}
         /\ \A l \in Lease : OwnerOf(r) = l <=> Holds(l) /\ resource[l] = r
<1>1. CASE \E l \in Lease : Holds(l) /\ resource[l] = r
  BY <1>1 DEF OwnerOf, ExclusiveUse
<1>2. CASE ~(\E l \in Lease : Holds(l) /\ resource[l] = r)
  BY <1>2, PoolAssumption, NoLeaseAssumption DEF OwnerOf
<1>3. QED
  BY <1>1, <1>2

\* The same after a step.
LEMMA OwnerDefPrime ==
  ASSUME ExclusiveUse', NEW r \in Resource
  PROVE  /\ OwnerOf(r)' \in Lease \cup {NoLease}
         /\ \A l \in Lease : OwnerOf(r)' = l <=> Holds(l)' /\ resource'[l] = r
<1>1. CASE \E l \in Lease : Holds(l)' /\ resource'[l] = r
  BY <1>1 DEF OwnerOf, ExclusiveUse
<1>2. CASE ~(\E l \in Lease : Holds(l)' /\ resource'[l] = r)
  BY <1>2, PoolAssumption, NoLeaseAssumption DEF OwnerOf
<1>3. QED
  BY <1>1, <1>2

\* A resource whose users do not change keeps its abstract owner.
LEMMA SameOwner ==
  ASSUME ExclusiveUse, ExclusiveUse', NEW r \in Resource,
         \A l \in Lease : (Holds(l)' /\ resource'[l] = r)
                            <=> (Holds(l) /\ resource[l] = r)
  PROVE  OwnerOf(r)' = OwnerOf(r)
BY OwnerDef, OwnerDefPrime, PoolAssumption, NoLeaseAssumption

\* The abstract effect of filling l with x, from the stack or from a lease.
LEMMA FillStep ==
  ASSUME ExclusiveUse, ExclusiveUse', NEW l \in Lease, NEW x \in Resource,
         ~Holds(l),
         \A m \in Lease : Holds(m) /\ resource[m] # x =>
                            m # l /\ Holds(m)' /\ resource'[m] = resource[m],
         \A m \in Lease : Holds(m)' => \/ m = l
                                       \/ Holds(m) /\ resource'[m] = resource[m],
         Holds(l)', resource'[l] = x
  PROVE  Handles!Grant(x, l) \/ Handles!Move(x, l)
<1>1. ~(\E r \in Resource : OwnerOf(r) = l)
  BY OwnerDef
<1>2. OwnerOf(x)' = l
  BY OwnerDefPrime
<1>3. ASSUME NEW r \in Resource, r # x
      PROVE  OwnerOf(r)' = OwnerOf(r)
  BY <1>3, SameOwner
<1>4. [r \in Resource |-> OwnerOf(r)'] =
        [[r \in Resource |-> OwnerOf(r)] EXCEPT ![x] = l]
  BY <1>2, <1>3
<1>5. QED
  BY <1>1, <1>4 DEF Handles!Grant, Handles!Move, Handles!Owns

\* The abstract effect of pushing back the resource of l.
LEMMA ReturnStep ==
  ASSUME ExclusiveUse, ExclusiveUse', NEW l \in Lease,
         resource[l] \in Resource, Holds(l), resource' = resource,
         \A m \in Lease : Holds(m)' <=> Holds(m) /\ m # l
  PROVE  Handles!Return(resource[l])
<1>1. OwnerOf(resource[l]) = l
  BY OwnerDef
<1>2. OwnerOf(resource[l])' = NoLease
  BY OwnerDefPrime DEF ExclusiveUse
<1>3. ASSUME NEW r \in Resource, r # resource[l]
      PROVE  OwnerOf(r)' = OwnerOf(r)
  BY <1>3, SameOwner
<1>4. [r \in Resource |-> OwnerOf(r)'] =
        [[r \in Resource |-> OwnerOf(r)] EXCEPT ![resource[l]] = NoLease]
  BY <1>2, <1>3
<1>5. QED
  BY <1>1, <1>4, PoolAssumption, NoLeaseAssumption DEF Handles!Return

\* What a step of the pool does to the abstract owners.
LEMMA AbstractStep ==
  ASSUME PoolTypeOK, CallOK, ExclusiveUse, ExclusiveUse', [PoolNext]_pool
  PROVE  \/ Handles!HNext
         \/ \A r \in Resource : OwnerOf(r)' = OwnerOf(r)
<1>1. ASSUME NEW t \in Thread, NEW l \in Lease, Owner[l] = t,
             resource[l] = NoResource, at[t] \in {"run", "awake"}, Take(t, l)
      PROVE  Handles!HNext
  <2> DEFINE x == Last(available_resources)
  <2>1. /\ x \in Resource
        /\ Contains(available_resources, x)
    BY <1>1, PopFacts DEF Take, PoolTypeOK
  <2>2. \A m \in Lease :
          /\ Holds(m)' <=> Holds(m) \/ m = l
          /\ resource'[m] = IF m = l THEN x ELSE resource[m]
    BY <1>1, TakeHolds
  <2>3. ~Holds(l)
    BY <1>1 DEF Holds
  <2> HIDE DEF x
  <2>4. Handles!Grant(x, l) \/ Handles!Move(x, l)
    BY <2>1, <2>2, <2>3, FillStep
  <2>5. QED
    BY <2>1, <2>4 DEF Handles!HNext
<1>2. ASSUME NEW t \in Thread, NEW l \in Lease, Idle(t, l),
             resource[l] # NoResource, PushBack(t, l)
      PROVE  Handles!HNext
  <2>1. Holds(l) /\ \A m \in Lease : Holds(m)' <=> Holds(m) /\ m # l
    BY <1>2, PushBackHolds
  <2>2. resource' = resource /\ resource[l] \in Resource
    BY <1>2 DEF PushBack, PoolTypeOK
  <2>3. Handles!Return(resource[l])
    BY <2>1, <2>2, ReturnStep
  <2>4. QED
    BY <2>2, <2>3 DEF Handles!HNext
<1>3. ASSUME \A m \in Lease : /\ Holds(m)' <=> Holds(m)
                              /\ Holds(m) => resource'[m] = resource[m]
      PROVE  \A r \in Resource : OwnerOf(r)' = OwnerOf(r)
  BY <1>3, SameOwner
<1>4. ASSUME NEW from \in Lease, NEW l \in Lease, from # l,
             Holds(from), ~Holds(l),
             \A m \in Lease :
               /\ Holds(m)' <=> (Holds(m) /\ m # from) \/ m = l
               /\ resource'[m] = IF m = from THEN NoResource
                                 ELSE IF m = l THEN resource[from]
                                 ELSE resource[m]
      PROVE  Handles!HNext
  <2>1. resource[from] \in Resource
    BY <1>4 DEF Holds, PoolTypeOK
  <2>2. \A m \in Lease : Holds(m) /\ resource[m] # resource[from] =>
                           m # l /\ Holds(m)' /\ resource'[m] = resource[m]
    BY <1>4
  <2>3. Handles!Grant(resource[from], l) \/ Handles!Move(resource[from], l)
    BY <1>4, <2>1, <2>2, FillStep
  <2>4. QED
    BY <2>1, <2>3 DEF Handles!HNext
<1>5. ASSUME NEW t \in Thread, AcquireStep(t)
      PROVE  Handles!HNext \/ \A r \in Resource : OwnerOf(r)' = OwnerOf(r)
  <2>1. CASE \E l \in Lease : AcquireAtOnce(t, l)
    BY <2>1, <1>1 DEF AcquireAtOnce, Idle
  <2>2. CASE WakeTake(t)
    BY <2>2, <1>1 DEF WakeTake, CallOK
  <2>3. CASE \/ \E l \in Lease : AcquireWait(t, l)
             \/ Expire(t) \/ Wake(t) \/ WakeWait(t) \/ WakeGiveUp(t)
    <3>1. /\ UNCHANGED <<available_resources, resource>>
          /\ \A u \in Thread : at'[u] = "notify" <=> at[u] = "notify"
          /\ \A u \in Thread : at[u] = "notify" => call'[u] = call[u]
      BY <2>3 DEF AcquireWait, Idle, Expire, Wake, WakeWait, WakeGiveUp,
                  PoolTypeOK, PoolState
    <3>2. \A m \in Lease : /\ Holds(m)' <=> Holds(m)
                           /\ resource'[m] = resource[m]
      BY <3>1, OtherHolds
    <3>3. QED
      BY <3>2, <1>3
  <2>4. QED
    BY <1>5, <2>1, <2>2, <2>3 DEF AcquireStep
<1>6. ASSUME NEW t \in Thread, NotifyOne(t)
      PROVE  Handles!HNext \/ \A r \in Resource : OwnerOf(r)' = OwnerOf(r)
  <2>1. CASE source[t] = NoLease
    BY <1>6, <1>3, <2>1, NotifyHolds
  <2>2. CASE source[t] # NoLease
    <3>1. /\ source[t] \in Lease
          /\ call[t] \in Lease
          /\ source[t] # call[t]
          /\ ~Holds(call[t])
      BY <1>6, <2>2 DEF NotifyOne, CallOK, PoolTypeOK, Holds, Releasing, In
    <3>2. \A m \in Lease :
            /\ Holds(m)' <=> \/ Holds(m) /\ m # source[t]
                             \/ m = call[t] /\ Holds(source[t])
            /\ resource'[m] = IF m = source[t] THEN NoResource
                              ELSE IF m = call[t] THEN resource[source[t]]
                              ELSE resource[m]
      BY <1>6, <2>2, NotifyHolds
    <3>3. CASE Holds(source[t])
      BY <1>4, <3>1, <3>2, <3>3
    <3>4. CASE ~Holds(source[t])
      BY <1>3, <3>1, <3>2, <3>4
    <3>5. QED
      BY <3>3, <3>4
  <2>3. QED
    BY <2>1, <2>2
<1>7. ASSUME NEW t \in Thread, LeaseStep(t)
      PROVE  Handles!HNext \/ \A r \in Resource : OwnerOf(r)' = OwnerOf(r)
  <2>1. CASE \E l \in Lease : Destroy(t, l)
    BY <2>1, <1>2 DEF Destroy
  <2>2. CASE \E l, from \in Lease : MoveOver(t, from, l)
    BY <2>2, <1>2 DEF MoveOver
  <2>3. CASE \E l, from \in Lease : MoveToEmpty(t, from, l)
    <3>1. PICK l \in Lease, from \in Lease : MoveToEmpty(t, from, l)
      BY <2>3
    <3>2. from # l /\ ~Holds(l)
      BY <3>1 DEF MoveToEmpty, Holds
    <3>3. QED
      BY <3>1, <3>2, <1>4, MoveHolds
  <2>4. QED
    BY <1>6, <1>7, <2>1, <2>2, <2>3 DEF LeaseStep
<1>8. CASE UNCHANGED pool
  BY <1>8, <1>3 DEF pool, Holds, Releasing, In
<1>9. QED
  BY <1>5, <1>7, <1>8 DEF PoolNext

(***************************************************************************)
(* The resource pool implements HandlePool: initially every handle is      *)
(* free, and every step grants a free handle to an empty lease, returns a  *)
(* handle from its owner, moves one to an empty lease, or changes no       *)
(* owner.                                                                  *)
(***************************************************************************)
THEOREM PoolImplementsHandlePool == PoolSpec => ImplementsHandlePool
<1>1. PoolInit => Handles!HInit
  <2> SUFFICES ASSUME PoolInit
               PROVE  \A r \in Resource : OwnerOf(r) = NoLease
    BY DEF Handles!HInit
  <2>1. \A l \in Lease : ~Holds(l)
    BY DEF PoolInit, Holds
  <2>2. QED
    BY <2>1 DEF OwnerOf
<1>2. /\ InductiveInv /\ InductiveInv' /\ [PoolNext]_pool
      => [Handles!HNext]_([r \in Resource |-> OwnerOf(r)])
  BY AbstractStep DEF InductiveInv
<1>3. QED
  BY <1>1, <1>2, InductiveInvariant, PTL
     DEF PoolSpec, ImplementsHandlePool, Handles!HSpec

-----------------------------------------------------------------------------
(***************************************************************************)
(* Who owns what: a handle has the lease that the control flow of its      *)
(* thread says, and no lease has two handles.                              *)
(***************************************************************************)
LeasesMatchControl ==
  /\ \A g, h \in Resource : owner[g] = owner[h] /\ owner[g] # NoLease => g = h
  /\ \A t \in Thread : Owns(lease(t)) <=> pc[t] = "leased"
  /\ \A t \in Thread : Owns(parameter(t)) <=> pc[t] = "performing"

(***************************************************************************)
(* A request that goes on has attempts left in both budgets, and each of   *)
(* its transfers is charged to one of them when it ends.                   *)
(***************************************************************************)
Charged(t) ==
  IF pc[t] = "idle"
  THEN performed[t] <= ConnectMaxAttempts + RequestMaxAttempts - 1
  ELSE /\ connect_attempts[t] < ConnectMaxAttempts
       /\ request_attempts[t] < RequestMaxAttempts
       /\ performed[t] = connect_attempts[t] + request_attempts[t]
                           + (IF pc[t] = "performing" THEN 1 ELSE 0)

BudgetsCharge == \A t \in Thread : Charged(t)

IInv ==
  /\ TypeOK
  /\ LeasesMatchControl
  /\ BudgetsCharge
  /\ DeadlineBoundsBlocking
  /\ ResultIsJustified

-----------------------------------------------------------------------------
(* Constants and time.                                                     *)

\* What the constructor of CurlHttpClient and the clock guarantee.
LEMMA ConstantFacts ==
  /\ AcquireTimeout \in Nat /\ AcquireTimeout > 0
  /\ RequestTimeout \in Nat /\ RequestTimeout > 0
  /\ AcquireMaxAttempts \in Nat /\ AcquireMaxAttempts > 0
  /\ ConnectMaxAttempts \in Nat /\ ConnectMaxAttempts > 0
  /\ RequestMaxAttempts \in Nat /\ RequestMaxAttempts > 0
  /\ AcquireDelay \in Nat /\ ConnectDelay \in Nat /\ RequestDelay \in Nat
  /\ Timeouts \subseteq Nat \cup {NoDeadline}
  /\ NoDeadline \notin Nat
BY ClientAssumption

\* The two lease objects of every thread are objects of their own.
LEMMA LeaseFacts ==
  ASSUME NEW t \in Thread
  PROVE  /\ lease(t) \in Lease /\ lease(t) # NoLease
         /\ parameter(t) \in Lease /\ parameter(t) # NoLease
         /\ \A u \in Thread :
              /\ lease(u) # parameter(t) /\ parameter(u) # lease(t)
              /\ lease(u) = lease(t) <=> u = t
              /\ parameter(u) = parameter(t) <=> u = t
BY ClientAssumption, NoLeaseAssumption DEF lease, parameter

\* What is left of the deadline bounds every blocking call, and only a passed
\* deadline makes a positive timeout 0.
LEMMA DeadlineFacts ==
  ASSUME TypeOK, NEW t \in Thread, NEW timeout \in Nat
  PROVE  /\ BoundByDeadline(timeout, t) \in Nat
         /\ remaining[t] # NoDeadline => BoundByDeadline(timeout, t) <= remaining[t]
         /\ BoundByDeadline(timeout, t) <= 0 /\ timeout > 0 => remaining[t] = 0
         /\ BoundByDeadline(timeout, t) > 0 => remaining[t] # 0
         /\ ~HasTimeRemaining(t) => remaining[t] = 0
BY ConstantFacts DEF TypeOK, BoundByDeadline, HasTimeRemaining, Least

-----------------------------------------------------------------------------
(* The steps.                                                              *)

\* Whoever has no lease before and after a step that moves none changes nothing.
LEMMA LeasesStay ==
  ASSUME LeasesMatchControl, NEW t \in Thread, owner' = owner,
         pc[t] \notin {"leased", "performing"}, pc'[t] \notin {"leased", "performing"},
         \A u \in Thread \ {t} : pc'[u] = pc[u]
  PROVE  LeasesMatchControl'
<1>1. \A u \in Thread : /\ pc'[u] = "leased" <=> pc[u] = "leased"
                        /\ pc'[u] = "performing" <=> pc[u] = "performing"
  OBVIOUS
<1>2. \A l : Owns(l)' <=> Owns(l)
  BY DEF Owns
<1>3. QED
  BY <1>1, <1>2 DEF LeasesMatchControl, lease, parameter

\* An Execute that starts, or is rejected at once, keeps the invariant.
LEMMA ExecuteKeeps ==
  ASSUME IInv, NEW t \in Thread, NEW timeout \in Timeouts, NEW url_empty \in BOOLEAN, Execute(t, timeout, url_empty)
  PROVE  IInv'
<1> USE ConstantFacts DEF IInv
<1>1. TypeOK'
  BY DEF Execute, TypeOK, Finish, Goto, State, Blocked, Result, BudgetsCharge, Charged
<1>2. LeasesMatchControl'
  <2>1. /\ owner' = owner /\ pc[t] = "idle" /\ pc'[t] \notin {"leased", "performing"}
        /\ \A u \in Thread \ {t} : pc'[u] = pc[u]
    BY DEF Execute, Finish, Goto, TypeOK
  <2>2. QED
    BY <2>1, LeasesStay
<1>3. BudgetsCharge'
  BY DEF Execute, TypeOK, BudgetsCharge, Charged, Finish, Goto
<1>4. DeadlineBoundsBlocking'
  BY DEF Execute, TypeOK, DeadlineBoundsBlocking, Blocked, Finish, Goto
<1>5. ResultIsJustified'
  BY DEF Execute, TypeOK, ResultIsJustified, Outcome, RetryStage, Finish, Goto
<1>6. QED
  BY <1>1, <1>2, <1>3, <1>4, <1>5

\* The head of the while loop keeps the invariant.
LEMMA LoopKeeps ==
  ASSUME IInv, NEW t \in Thread, Loop(t)
  PROVE  IInv'
<1> USE ConstantFacts DEF IInv
<1>b. ~HasTimeRemaining(t) => remaining[t] = 0
  BY DeadlineFacts
<1>1. TypeOK'
  BY <1>b DEF Loop, TypeOK, Finish, Goto, State, Blocked, Result, BudgetsCharge, Charged
<1>2. LeasesMatchControl'
  <2>1. /\ owner' = owner /\ pc[t] = "loop" /\ pc'[t] \notin {"leased", "performing"}
        /\ \A u \in Thread \ {t} : pc'[u] = pc[u]
    BY DEF Loop, Finish, Goto, TypeOK
  <2>2. QED
    BY <2>1, LeasesStay
<1>3. BudgetsCharge'
  BY <1>b DEF Loop, TypeOK, BudgetsCharge, Charged, Finish, Goto
<1>4. DeadlineBoundsBlocking'
  BY <1>b DEF Loop, TypeOK, DeadlineBoundsBlocking, Blocked, Finish, Goto
<1>5. ResultIsJustified'
  BY <1>b DEF Loop, TypeOK, ResultIsJustified, Outcome, RetryStage, Finish, Goto
<1>6. QED
  BY <1>1, <1>2, <1>3, <1>4, <1>5

\* So does the start of an acquire.
LEMMA BeginAcquireKeeps ==
  ASSUME IInv, NEW t \in Thread, BeginAcquire(t)
  PROVE  IInv'
<1> USE ConstantFacts DEF IInv
<1>b. /\ BoundByDeadline(AcquireTimeout, t) \in Nat
      /\ remaining[t] # NoDeadline => BoundByDeadline(AcquireTimeout, t) <= remaining[t]
      /\ BoundByDeadline(AcquireTimeout, t) <= 0 => remaining[t] = 0
      /\ BoundByDeadline(AcquireTimeout, t) > 0 => remaining[t] # 0
  BY DeadlineFacts
<1>1. TypeOK'
  BY <1>b DEF BeginAcquire, Block, TypeOK, Finish, Goto, State, Blocked, Result, BudgetsCharge, Charged
<1>2. LeasesMatchControl'
  <2>1. /\ owner' = owner /\ pc[t] = "acquire" /\ pc'[t] \notin {"leased", "performing"}
        /\ \A u \in Thread \ {t} : pc'[u] = pc[u]
    BY DEF BeginAcquire, Block, Finish, Goto, TypeOK
  <2>2. QED
    BY <2>1, LeasesStay
<1>3. BudgetsCharge'
  BY <1>b DEF BeginAcquire, Block, TypeOK, BudgetsCharge, Charged, Finish, Goto
<1>4. DeadlineBoundsBlocking'
  BY <1>b DEF BeginAcquire, Block, TypeOK, DeadlineBoundsBlocking, Blocked, Finish, Goto
<1>5. ResultIsJustified'
  BY <1>b DEF BeginAcquire, Block, TypeOK, ResultIsJustified, Outcome, RetryStage, Finish, Goto
<1>6. QED
  BY <1>1, <1>2, <1>3, <1>4, <1>5

\* So does a handle that is granted: its new lease was empty.
LEMMA AcquiredKeeps ==
  ASSUME IInv, NEW t \in Thread, NEW h \in Resource, Acquired(t, h)
  PROVE  IInv'
<1> USE ConstantFacts DEF IInv
<1>l. lease(t) \in Lease
  BY LeaseFacts
<1>1. TypeOK'
  BY <1>l DEF Acquired, Grant, Block, request, TypeOK, Finish, Goto, State, Blocked, Result, BudgetsCharge, Charged
<1>2. LeasesMatchControl'
  <2>1. /\ owner' = [owner EXCEPT ![h] = lease(t)]
        /\ owner[h] = NoLease
        /\ ~Owns(lease(t))
        /\ pc' = [pc EXCEPT ![t] = "leased"]
        /\ pc[t] = "acquiring"
    BY DEF Acquired, Grant, Block, Goto
  <2>2. \A g \in Resource : owner'[g] = IF g = h THEN lease(t) ELSE owner[g]
    BY <2>1 DEF TypeOK
  <2>3. \A u \in Thread : pc'[u] = IF u = t THEN "leased" ELSE pc[u]
    BY <2>1 DEF TypeOK
  <2>4. QED
    BY <2>1, <2>2, <2>3, LeaseFacts DEF LeasesMatchControl, Owns
<1>3. BudgetsCharge'
  BY DEF Acquired, Grant, Block, request, TypeOK, BudgetsCharge, Charged, Finish, Goto
<1>4. DeadlineBoundsBlocking'
  BY DEF Acquired, Grant, Block, request, TypeOK, DeadlineBoundsBlocking, Blocked, Finish, Goto
<1>5. ResultIsJustified'
  BY DEF Acquired, Grant, Block, request, TypeOK, ResultIsJustified, Outcome, RetryStage, Finish, Goto
<1>6. QED
  BY <1>1, <1>2, <1>3, <1>4, <1>5

\* So does an acquire without success, with or without another attempt.
LEMMA AcquireTimedOutKeeps ==
  ASSUME IInv, NEW t \in Thread, AcquireTimedOut(t)
  PROVE  IInv'
<1> USE ConstantFacts DEF IInv
<1>b. /\ BoundByDeadline(AcquireDelay, t) \in Nat
      /\ remaining[t] # NoDeadline => BoundByDeadline(AcquireDelay, t) <= remaining[t]
  BY DeadlineFacts
<1>1. TypeOK'
  BY <1>b DEF AcquireTimedOut, SleepBeforeRetry, Block, TypeOK, Finish, Goto, State, Blocked, Result, BudgetsCharge, Charged
<1>2. LeasesMatchControl'
  <2>1. /\ owner' = owner /\ pc[t] = "acquiring" /\ pc'[t] \notin {"leased", "performing"}
        /\ \A u \in Thread \ {t} : pc'[u] = pc[u]
    BY DEF AcquireTimedOut, SleepBeforeRetry, Block, Finish, Goto, TypeOK
  <2>2. QED
    BY <2>1, LeasesStay
<1>3. BudgetsCharge'
  BY <1>b DEF AcquireTimedOut, SleepBeforeRetry, Block, TypeOK, BudgetsCharge, Charged, Finish, Goto
<1>4. DeadlineBoundsBlocking'
  BY <1>b DEF AcquireTimedOut, SleepBeforeRetry, Block, TypeOK, DeadlineBoundsBlocking, Blocked, Finish, Goto
<1>5. ResultIsJustified'
  BY <1>b DEF AcquireTimedOut, SleepBeforeRetry, Block, TypeOK, ResultIsJustified, Outcome, RetryStage, Finish, Goto
<1>6. QED
  BY <1>1, <1>2, <1>3, <1>4, <1>5

\* So does the end of a sleep.
LEMMA WakeUpKeeps ==
  ASSUME IInv, NEW t \in Thread, WakeUp(t)
  PROVE  IInv'
<1> USE ConstantFacts DEF IInv
<1>1. TypeOK'
  BY DEF WakeUp, TypeOK, Goto, State, DeadlineBoundsBlocking
<1>2. LeasesMatchControl'
  <2>1. /\ owner' = owner /\ pc[t] \in {"acquire_sleep", "sleeping"} /\ pc'[t] \notin {"leased", "performing"}
        /\ \A u \in Thread \ {t} : pc'[u] = pc[u]
    BY DEF WakeUp, Goto, TypeOK
  <2>2. QED
    BY <2>1, LeasesStay
<1>3. BudgetsCharge'
  BY DEF WakeUp, TypeOK, BudgetsCharge, Charged, Goto
<1>4. DeadlineBoundsBlocking'
  BY DEF WakeUp, TypeOK, DeadlineBoundsBlocking, Blocked, Goto
<1>5. ResultIsJustified'
  BY DEF WakeUp, TypeOK, ResultIsJustified, Outcome, RetryStage, Goto
<1>6. QED
  BY <1>1, <1>2, <1>3, <1>4, <1>5

\* So does the start of a transfer, or its refusal after the deadline.
LEMMA BeginPerformKeeps ==
  ASSUME IInv, NEW t \in Thread, NEW h \in Resource, BeginPerform(t, h)
  PROVE  IInv'
<1> USE ConstantFacts DEF IInv
<1>b. /\ BoundByDeadline(RequestTimeout, t) \in Nat
      /\ remaining[t] # NoDeadline => BoundByDeadline(RequestTimeout, t) <= remaining[t]
      /\ BoundByDeadline(RequestTimeout, t) <= 0 => remaining[t] = 0
      /\ BoundByDeadline(RequestTimeout, t) > 0 => remaining[t] # 0
  BY DeadlineFacts
<1>c. ASSUME BoundByDeadline(RequestTimeout, t) <= 0
      PROVE  TypeOK' /\ LeasesMatchControl'
  <2>1. /\ owner' = [owner EXCEPT ![h] = NoLease]
        /\ pc' = [pc EXCEPT ![t] = "idle"]
        /\ wait' = [wait EXCEPT ![t] = 0]
        /\ result' = [result EXCEPT ![t] = "deadline_exceeded"]
        /\ performed' = performed
    BY <1>b, <1>c DEF BeginPerform, Return, Finish, Goto
  <2>2. /\ owner[h] = lease(t) /\ pc[t] = "leased"
        /\ UNCHANGED <<remaining, acquire_attempt, connect_attempts, request_attempts>>
    BY DEF BeginPerform
  <2>3. TypeOK'
    BY <2>1, <2>2 DEF TypeOK, State, Result
  <2>4. \A g \in Resource : owner'[g] = IF g = h THEN NoLease ELSE owner[g]
    BY <2>1 DEF TypeOK
  <2>5. \A u \in Thread : pc'[u] = IF u = t THEN "idle" ELSE pc[u]
    BY <2>1 DEF TypeOK
  <2>6. LeasesMatchControl'
    <3>1. \A l : l # NoLease =>
            ((\E g \in Resource : owner'[g] = l) <=> Owns(l) /\ l # lease(t))
      BY <2>2, <2>4 DEF LeasesMatchControl, Owns
    <3>2. \A u \in Thread :
            /\ lease(u) # NoLease /\ parameter(u) # NoLease
            /\ parameter(u) # lease(t) /\ (lease(u) = lease(t) <=> u = t)
      BY LeaseFacts
    <3>3. \A f, g \in Resource : owner'[f] = owner'[g] /\ owner'[f] # NoLease => f = g
      BY <2>4 DEF LeasesMatchControl
    <3>4. \A u \in Thread :
            /\ (\E g \in Resource : owner'[g] = lease(u)) <=> pc'[u] = "leased"
            /\ (\E g \in Resource : owner'[g] = parameter(u)) <=> pc'[u] = "performing"
      BY <2>2, <2>5, <3>1, <3>2 DEF LeasesMatchControl
    <3>5. QED
      BY <3>3, <3>4 DEF LeasesMatchControl, Owns, lease, parameter
  <2>7. QED
    BY <2>3, <2>6
<1>d. ASSUME ~(BoundByDeadline(RequestTimeout, t) <= 0)
      PROVE  TypeOK' /\ LeasesMatchControl'
  <2>1. /\ owner' = [owner EXCEPT ![h] = parameter(t)]
        /\ pc' = [pc EXCEPT ![t] = "performing"]
        /\ wait' = [wait EXCEPT ![t] = BoundByDeadline(RequestTimeout, t)]
        /\ performed' = [performed EXCEPT ![t] = @ + 1]
        /\ result' = result
        /\ ~Owns(parameter(t))
    BY <1>b, <1>d DEF BeginPerform, Move, Block, Goto
  <2>2. /\ owner[h] = lease(t) /\ pc[t] = "leased"
        /\ UNCHANGED <<remaining, acquire_attempt, connect_attempts, request_attempts>>
    BY DEF BeginPerform
  <2>3. parameter(t) \in Lease
    BY LeaseFacts
  <2>4. TypeOK'
    BY <1>b, <2>1, <2>2, <2>3 DEF TypeOK, State, Blocked
  <2>5. \A g \in Resource : owner'[g] = IF g = h THEN parameter(t) ELSE owner[g]
    BY <2>1 DEF TypeOK
  <2>6. \A u \in Thread : pc'[u] = IF u = t THEN "performing" ELSE pc[u]
    BY <2>1 DEF TypeOK
  <2>7. LeasesMatchControl'
    <3>1. \A l : l # NoLease =>
            ((\E g \in Resource : owner'[g] = l)
               <=> (l = parameter(t) \/ (Owns(l) /\ l # lease(t))))
      BY <2>2, <2>5 DEF LeasesMatchControl, Owns
    <3>2. \A u \in Thread :
            /\ lease(u) # NoLease /\ parameter(u) # NoLease
            /\ lease(u) # parameter(t) /\ parameter(u) # lease(t)
            /\ lease(u) = lease(t) <=> u = t
            /\ parameter(u) = parameter(t) <=> u = t
      BY LeaseFacts
    <3>3. \A f, g \in Resource : owner'[f] = owner'[g] /\ owner'[f] # NoLease => f = g
      BY <2>1, <2>5 DEF LeasesMatchControl, Owns
    <3>4. \A u \in Thread :
            /\ (\E g \in Resource : owner'[g] = lease(u)) <=> pc'[u] = "leased"
            /\ (\E g \in Resource : owner'[g] = parameter(u)) <=> pc'[u] = "performing"
      BY <2>2, <2>6, <3>1, <3>2 DEF LeasesMatchControl
    <3>5. QED
      BY <3>3, <3>4 DEF LeasesMatchControl, Owns, lease, parameter
  <2>8. QED
    BY <2>4, <2>7
<1>1. TypeOK' /\ LeasesMatchControl'
  BY <1>c, <1>d
<1>3. BudgetsCharge'
  BY <1>b DEF BeginPerform, Block, Move, Return, TypeOK, BudgetsCharge, Charged, Finish, Goto
<1>4. DeadlineBoundsBlocking'
  BY <1>b DEF BeginPerform, Block, Move, Return, TypeOK, DeadlineBoundsBlocking, Blocked, Finish, Goto
<1>5. ResultIsJustified'
  BY <1>b DEF BeginPerform, Block, Move, Return, TypeOK, ResultIsJustified, Outcome, RetryStage, Finish, Goto
<1>6. QED
  BY <1>1, <1>3, <1>4, <1>5

\* So does the end of a transfer: the handle goes back, and the attempt is
\* charged to the budget of the stage it failed in, or is the last one.
LEMMA EndPerformKeeps ==
  ASSUME IInv, NEW t \in Thread, NEW h \in Resource, NEW outcome \in Outcome,
         EndPerform(t, h, outcome)
  PROVE  IInv'
<1> USE ConstantFacts DEF IInv
<1>1. /\ pc[t] = "performing"
      /\ owner[h] = parameter(t)
      /\ owner' = [owner EXCEPT ![h] = NoLease]
      /\ UNCHANGED <<remaining, acquire_attempt, performed>>
  BY DEF EndPerform, Return
<1>2. \/ /\ RetryStage(outcome) = "none"
         /\ NoRetry(t, outcome)
      \/ RetryStage(outcome) = "connect" /\ RetryConnect(t, outcome)
      \/ RetryStage(outcome) = "request" /\ RetryRequest(t, outcome)
  BY DEF EndPerform
<1>3. /\ connect_attempts[t] \in Nat /\ connect_attempts[t] < ConnectMaxAttempts
      /\ request_attempts[t] \in Nat /\ request_attempts[t] < RequestMaxAttempts
      /\ performed[t] = connect_attempts[t] + request_attempts[t] + 1
  BY <1>1 DEF BudgetsCharge, Charged, TypeOK
<1>4. /\ BoundByDeadline(ConnectDelay, t) \in Nat
      /\ remaining[t] # NoDeadline => BoundByDeadline(ConnectDelay, t) <= remaining[t]
      /\ BoundByDeadline(RequestDelay, t) \in Nat
      /\ remaining[t] # NoDeadline => BoundByDeadline(RequestDelay, t) <= remaining[t]
  BY DeadlineFacts
\* How the thread goes on, the same for all outcomes.
<1> DEFINE Ends ==
      /\ pc' = [pc EXCEPT ![t] = "idle"]
      /\ wait' = [wait EXCEPT ![t] = 0]
      /\ result' = [result EXCEPT ![t] = outcome]
    Sleeps(delay) ==
      /\ pc' = [pc EXCEPT ![t] = "sleeping"]
      /\ wait' = [wait EXCEPT ![t] = BoundByDeadline(delay, t)]
      /\ result' = result
    Goes ==
      /\ Ends \/ Sleeps(ConnectDelay) \/ Sleeps(RequestDelay)
      /\ TypeOK' /\ BudgetsCharge' /\ DeadlineBoundsBlocking' /\ ResultIsJustified'
<1>5. ASSUME RetryStage(outcome) = "none" /\ NoRetry(t, outcome)
      PROVE  Goes
  <2>1. Ends /\ UNCHANGED <<connect_attempts, request_attempts>>
    BY <1>5 DEF NoRetry, Finish, Goto
  <2>2. TypeOK'
    BY <1>1, <2>1 DEF TypeOK, State, Result
  <2>3. BudgetsCharge'
    BY <1>1, <1>3, <2>1 DEF TypeOK, BudgetsCharge, Charged
  <2>4. DeadlineBoundsBlocking'
    BY <1>1, <2>1 DEF TypeOK, DeadlineBoundsBlocking, Blocked
  <2>5. ResultIsJustified'
    BY <1>1, <1>5, <2>1 DEF TypeOK, ResultIsJustified, Outcome
  <2>6. QED
    BY <2>1, <2>2, <2>3, <2>4, <2>5
<1>6. ASSUME RetryStage(outcome) = "connect" /\ RetryConnect(t, outcome)
      PROVE  Goes
  <2>1. /\ connect_attempts' = [connect_attempts EXCEPT ![t] = @ + 1]
        /\ connect_attempts'[t] = connect_attempts[t] + 1
        /\ UNCHANGED request_attempts
    BY <1>6 DEF RetryConnect, TypeOK
  <2>2. CASE connect_attempts[t] + 1 >= ConnectMaxAttempts
    <3>1. Ends
      BY <1>6, <2>1, <2>2 DEF RetryConnect, Finish, Goto
    <3>2. TypeOK'
      BY <1>1, <1>3, <2>1, <3>1 DEF TypeOK, State, Result
    <3>3. BudgetsCharge'
      BY <1>1, <1>3, <2>1, <3>1 DEF TypeOK, BudgetsCharge, Charged
    <3>4. DeadlineBoundsBlocking'
      BY <1>1, <2>1, <3>1 DEF TypeOK, DeadlineBoundsBlocking, Blocked
    <3>5. ResultIsJustified'
      BY <1>1, <1>3, <1>6, <2>1, <2>2, <3>1 DEF TypeOK, ResultIsJustified, Outcome
    <3>6. QED
      BY <3>1, <3>2, <3>3, <3>4, <3>5
  <2>3. CASE ~(connect_attempts[t] + 1 >= ConnectMaxAttempts)
    <3>1. Sleeps(ConnectDelay)
      BY <1>6, <2>1, <2>3 DEF RetryConnect, SleepBeforeRetry, Block, Goto
    <3>2. TypeOK'
      BY <1>1, <1>3, <1>4, <2>1, <3>1 DEF TypeOK, State, Blocked
    <3>3. BudgetsCharge'
      BY <1>1, <1>3, <2>1, <2>3, <3>1 DEF TypeOK, BudgetsCharge, Charged
    <3>4. DeadlineBoundsBlocking'
      BY <1>1, <1>3, <1>4, <2>1, <2>3, <3>1 DEF TypeOK, DeadlineBoundsBlocking, Blocked
    <3>5. ResultIsJustified'
      BY <1>1, <2>1, <3>1 DEF TypeOK, ResultIsJustified
    <3>6. QED
      BY <3>1, <3>2, <3>3, <3>4, <3>5
  <2>4. QED
    BY <2>2, <2>3
<1>7. ASSUME RetryStage(outcome) = "request" /\ RetryRequest(t, outcome)
      PROVE  Goes
  <2>1. /\ request_attempts' = [request_attempts EXCEPT ![t] = @ + 1]
        /\ request_attempts'[t] = request_attempts[t] + 1
        /\ UNCHANGED connect_attempts
    BY <1>7 DEF RetryRequest, TypeOK
  <2>2. CASE request_attempts[t] + 1 >= RequestMaxAttempts
    <3>1. Ends
      BY <1>7, <2>1, <2>2 DEF RetryRequest, Finish, Goto
    <3>2. TypeOK'
      BY <1>1, <1>3, <2>1, <3>1 DEF TypeOK, State, Result
    <3>3. BudgetsCharge'
      BY <1>1, <1>3, <2>1, <3>1 DEF TypeOK, BudgetsCharge, Charged
    <3>4. DeadlineBoundsBlocking'
      BY <1>1, <2>1, <3>1 DEF TypeOK, DeadlineBoundsBlocking, Blocked
    <3>5. ResultIsJustified'
      BY <1>1, <1>3, <1>7, <2>1, <2>2, <3>1 DEF TypeOK, ResultIsJustified, Outcome
    <3>6. QED
      BY <3>1, <3>2, <3>3, <3>4, <3>5
  <2>3. CASE ~(request_attempts[t] + 1 >= RequestMaxAttempts)
    <3>1. Sleeps(RequestDelay)
      BY <1>7, <2>1, <2>3 DEF RetryRequest, SleepBeforeRetry, Block, Goto
    <3>2. TypeOK'
      BY <1>1, <1>3, <1>4, <2>1, <3>1 DEF TypeOK, State, Blocked
    <3>3. BudgetsCharge'
      BY <1>1, <1>3, <2>1, <2>3, <3>1 DEF TypeOK, BudgetsCharge, Charged
    <3>4. DeadlineBoundsBlocking'
      BY <1>1, <1>3, <1>4, <2>1, <2>3, <3>1 DEF TypeOK, DeadlineBoundsBlocking, Blocked
    <3>5. ResultIsJustified'
      BY <1>1, <2>1, <3>1 DEF TypeOK, ResultIsJustified
    <3>6. QED
      BY <3>1, <3>2, <3>3, <3>4, <3>5
  <2>4. QED
    BY <2>2, <2>3
<1>8. Goes
  BY <1>2, <1>5, <1>6, <1>7
<1>9. LeasesMatchControl'
  <2>1. \A g \in Resource : owner'[g] = IF g = h THEN NoLease ELSE owner[g]
    BY <1>1 DEF TypeOK
  <2>2. \A u \in Thread \ {t} : pc'[u] = pc[u]
    BY <1>8 DEF TypeOK
  <2>3. pc'[t] \in {"idle", "sleeping"}
    BY <1>8 DEF TypeOK
  <2>4. QED
    BY <1>1, <2>1, <2>2, <2>3, LeaseFacts DEF LeasesMatchControl, Owns
<1>10. QED
  BY <1>8, <1>9

\* So does the passing of time.
LEMMA ElapseKeeps ==
  ASSUME IInv, NEW t \in Thread, Elapse(t)
  PROVE  IInv'
<1> USE ConstantFacts DEF IInv
<1>1. TypeOK'
  BY DEF Elapse, TypeOK, Finish, Goto, State, Blocked, Result, BudgetsCharge, Charged
<1>2. LeasesMatchControl'
  BY NoLeaseAssumption DEF Elapse, TypeOK, LeasesMatchControl, Owns, Finish, Goto, lease, parameter
<1>3. BudgetsCharge'
  BY DEF Elapse, TypeOK, BudgetsCharge, Charged, Finish, Goto
<1>4. DeadlineBoundsBlocking'
  BY DEF Elapse, TypeOK, DeadlineBoundsBlocking, Blocked, Finish, Goto
<1>5. ResultIsJustified'
  BY DEF Elapse, TypeOK, ResultIsJustified, Outcome, RetryStage, Finish, Goto
<1>6. QED
  BY <1>1, <1>2, <1>3, <1>4, <1>5

-----------------------------------------------------------------------------
(* The theorems.                                                           *)

\* The strengthening is an invariant of the client.
THEOREM ClientInvariant == Spec => []IInv
<1>1. Init => IInv
  BY ConstantFacts, LeaseFacts
     DEF Init, HInit, IInv, TypeOK, State, Result, LeasesMatchControl, Owns,
         BudgetsCharge, Charged, DeadlineBoundsBlocking, Blocked,
         ResultIsJustified, Outcome
<1>2. IInv /\ [Next]_vars => IInv'
  <2> SUFFICES ASSUME IInv, [Next]_vars
               PROVE  IInv'
    OBVIOUS
  <2>1. ASSUME NEW t \in Thread, Step(t)
        PROVE  IInv'
    BY <2>1, LoopKeeps, BeginAcquireKeeps, AcquiredKeeps, AcquireTimedOutKeeps,
       WakeUpKeeps, BeginPerformKeeps, EndPerformKeeps DEF Step
  <2>2. CASE UNCHANGED vars
    BY <2>2 DEF vars, request, IInv, TypeOK, LeasesMatchControl, Owns, BudgetsCharge,
                Charged, DeadlineBoundsBlocking, ResultIsJustified
  <2>3. QED
    BY <2>1, <2>2, ExecuteKeeps, ElapseKeeps DEF Next
<1>3. QED
  BY <1>1, <1>2, PTL DEF Spec

(***************************************************************************)
(* Whichever of its returns Execute takes, and however often it retries,   *)
(* it holds one handle while it uses it and none otherwise.                *)
(***************************************************************************)
THEOREM HandlesAreGivenBack == Spec => []HandleOnlyWhileInUse
<1>1. IInv => HandleOnlyWhileInUse
  <2> SUFFICES ASSUME IInv, NEW t \in Thread
               PROVE  IF pc[t] \in {"leased", "performing"}
                      THEN Cardinality(HandlesOf(t)) = 1
                      ELSE HandlesOf(t) = {}
    BY DEF HandleOnlyWhileInUse, IInv
  <2>1. CASE pc[t] \in {"leased", "performing"}
    <3>1. PICK h \in Resource :
            \/ pc[t] = "leased" /\ owner[h] = lease(t)
            \/ pc[t] = "performing" /\ owner[h] = parameter(t)
      BY <2>1 DEF IInv, LeasesMatchControl, Owns
    <3>2. HandlesOf(t) = {h}
      BY <3>1, LeaseFacts DEF IInv, LeasesMatchControl, Owns, HandlesOf
    <3>3. QED
      BY <2>1, <3>2, FS_Singleton
  <2>2. CASE pc[t] \notin {"leased", "performing"}
    BY <2>2 DEF IInv, LeasesMatchControl, Owns, HandlesOf
  <2>3. QED
    BY <2>1, <2>2
<1>2. QED
  BY <1>1, ClientInvariant, PTL

\* No blocking call is started that may outlast the deadline of the request,
\* and no sleep that no further attempt follows.
THEOREM BlockingIsBounded == Spec => []DeadlineBoundsBlocking
BY ClientInvariant, PTL DEF IInv

\* The two budgets bound the number of transfers of one Execute together.
THEOREM TransfersAreBoundedByBudgets == Spec => []TransfersAreBounded
<1>1. IInv => TransfersAreBounded
  <2> SUFFICES ASSUME IInv, NEW t \in Thread
               PROVE  /\ performed[t] <= ConnectMaxAttempts + RequestMaxAttempts - 1
                      /\ pc[t] \in {"loop", "acquire", "acquiring", "acquire_sleep",
                                   "leased", "sleeping"} =>
                           performed[t] = connect_attempts[t] + request_attempts[t]
    BY DEF TransfersAreBounded
  <2>1. /\ connect_attempts[t] \in Nat /\ request_attempts[t] \in Nat
        /\ performed[t] \in Nat
    BY ConstantFacts DEF IInv, TypeOK
  <2>2. Charged(t)
    BY DEF IInv, BudgetsCharge
  <2>3. QED
    BY <2>1, <2>2, ConstantFacts DEF Charged
<1>2. QED
  BY <1>1, ClientInvariant, PTL

\* A timeout is reported only after the deadline, an error that is worth a
\* retry only when its budget is spent.
THEOREM ReportsAreJustified == Spec => []ResultIsJustified
BY ClientInvariant, PTL DEF IInv

\* A request whose deadline has passed does not start another transfer.
THEOREM NoLateTransfer == Spec => NoTransferAfterDeadline
<1>1. IInv /\ [Next]_vars =>
        [\A t \in Thread : performed'[t] > performed[t] => remaining[t] # 0]_vars
  <2> SUFFICES ASSUME IInv, Next, NEW u \in Thread, performed'[u] > performed[u]
               PROVE  remaining[u] # 0
    OBVIOUS
  <2> USE ConstantFacts DEF IInv, TypeOK
  <2>1. PICK t \in Thread :
          \/ \E timeout \in Timeouts, url_empty \in BOOLEAN : Execute(t, timeout, url_empty)
          \/ Step(t)
          \/ Elapse(t)
    BY DEF Next
  <2>2. CASE \E h \in Resource : BeginPerform(t, h)
    <3>1. BoundByDeadline(RequestTimeout, t) > 0 => remaining[t] # 0
      BY DeadlineFacts
    <3>2. BoundByDeadline(RequestTimeout, t) \in Nat
      BY DeadlineFacts
    <3>3. u = t /\ ~(BoundByDeadline(RequestTimeout, t) <= 0)
      BY <2>2 DEF BeginPerform
    <3>4. QED
      BY <3>1, <3>2, <3>3
  <2>3. QED
    BY <2>1, <2>2
       DEF Execute, Step, Elapse, Loop, BeginAcquire, Acquired, AcquireTimedOut, WakeUp,
           EndPerform, request
<1>2. QED
  BY <1>1, ClientInvariant, PTL DEF Spec, NoTransferAfterDeadline

-----------------------------------------------------------------------------
(***************************************************************************)
(* Why Execute ends: what is ahead of a request, in five numbers of which  *)
(* an earlier one outweighs all later ones.  The transfers that its two    *)
(* budgets allow; how far it is from the next transfer; the acquires that  *)
(* are left for it; how far it is from the next acquire; and the time that *)
(* the call it is in, and its deadline, leave.                             *)
(***************************************************************************)
TransfersLeft(t) ==
  (ConnectMaxAttempts - connect_attempts[t]) + (RequestMaxAttempts - request_attempts[t])

ToTransfer(t) ==
  CASE pc[t] = "sleeping" -> 4
    [] pc[t] = "loop" -> 3
    [] pc[t] \in {"acquire", "acquiring", "acquire_sleep"} -> 2
    [] pc[t] = "leased" -> 1
    [] OTHER -> 0

AcquiresLeft(t) == AcquireMaxAttempts - acquire_attempt[t]

ToAcquire(t) ==
  CASE pc[t] = "acquire" -> 2
    [] pc[t] = "acquiring" -> 1
    [] OTHER -> 0

TimeLeft(t) == wait[t] + (IF remaining[t] = NoDeadline THEN 0 ELSE remaining[t])

AheadOf(t) == <<TransfersLeft(t), ToTransfer(t), AcquiresLeft(t), ToAcquire(t), TimeLeft(t)>>

\* Five natural numbers, before and after a step.
LEMMA Descends ==
  ASSUME TypeOK, TypeOK', NEW t \in Thread,
         \/ TransfersLeft(t)' < TransfersLeft(t)
         \/ /\ TransfersLeft(t)' = TransfersLeft(t)
            /\ ToTransfer(t)' < ToTransfer(t)
         \/ /\ TransfersLeft(t)' = TransfersLeft(t) /\ ToTransfer(t)' = ToTransfer(t)
            /\ AcquiresLeft(t)' < AcquiresLeft(t)
         \/ /\ TransfersLeft(t)' = TransfersLeft(t) /\ ToTransfer(t)' = ToTransfer(t)
            /\ AcquiresLeft(t)' = AcquiresLeft(t)
            /\ ToAcquire(t)' < ToAcquire(t)
         \/ /\ TransfersLeft(t)' = TransfersLeft(t) /\ ToTransfer(t)' = ToTransfer(t)
            /\ AcquiresLeft(t)' = AcquiresLeft(t) /\ ToAcquire(t)' = ToAcquire(t)
            /\ TimeLeft(t)' < TimeLeft(t)
  PROVE  <<AheadOf(t)', AheadOf(t)>> \in Below(5)
<1>1. /\ TransfersLeft(t) \in Nat /\ AcquiresLeft(t) \in Nat
      /\ TransfersLeft(t)' \in Nat /\ AcquiresLeft(t)' \in Nat
  BY ConstantFacts DEF TypeOK, TransfersLeft, AcquiresLeft
<1>2. /\ ToTransfer(t) \in Nat /\ ToAcquire(t) \in Nat
      /\ ToTransfer(t)' \in Nat /\ ToAcquire(t)' \in Nat
  BY DEF ToTransfer, ToAcquire
<1>3. TimeLeft(t) \in Nat /\ TimeLeft(t)' \in Nat
  BY ConstantFacts DEF TypeOK, TimeLeft
<1>4. PICK now, later :
        /\ now = <<TransfersLeft(t), ToTransfer(t), AcquiresLeft(t), ToAcquire(t), TimeLeft(t)>>
        /\ later = <<TransfersLeft(t)', ToTransfer(t)', AcquiresLeft(t)', ToAcquire(t)',
                    TimeLeft(t)'>>
  OBVIOUS
<1>5. now \in [1 .. 5 -> Nat] /\ later \in [1 .. 5 -> Nat]
  BY <1>1, <1>2, <1>3, <1>4, FiveNumbers, Zenon
<1>6. \/ later[1] < now[1]
      \/ later[1] = now[1] /\ later[2] < now[2]
      \/ later[1] = now[1] /\ later[2] = now[2] /\ later[3] < now[3]
      \/ later[1] = now[1] /\ later[2] = now[2] /\ later[3] = now[3] /\ later[4] < now[4]
      \/ later[1] = now[1] /\ later[2] = now[2] /\ later[3] = now[3] /\ later[4] = now[4]
           /\ later[5] < now[5]
  BY <1>4
<1>7. <<later, now>> \in Below(5)
  BY <1>5, <1>6, FiveNumbersDescend
<1>8. QED
  BY <1>4, <1>7 DEF AheadOf

\* A step of t inside Execute, except its last, brings down one of the numbers.
LEMMA StepDescends ==
  ASSUME TypeOK, TypeOK', NEW t \in Thread, Step(t), pc'[t] # "idle"
  PROVE  <<AheadOf(t)', AheadOf(t)>> \in Below(5)
<1> USE ConstantFacts DEF TypeOK
<1>1. CASE Loop(t)
  <2>1. TransfersLeft(t)' = TransfersLeft(t)
    BY <1>1 DEF Loop, TransfersLeft
  <2>2. pc[t] = "loop" /\ pc'[t] = "acquire"
    BY <1>1 DEF Loop, Goto, Finish
  <2>3. ToTransfer(t)' < ToTransfer(t)
    BY <2>2 DEF ToTransfer
  <2>4. QED
    BY <2>1, <2>3, Descends
<1>2. CASE BeginAcquire(t)
  <2>1. TransfersLeft(t)' = TransfersLeft(t) /\ AcquiresLeft(t)' = AcquiresLeft(t)
    BY <1>2 DEF BeginAcquire, TransfersLeft, AcquiresLeft
  <2>2. pc[t] = "acquire" /\ pc'[t] = "acquiring"
    BY <1>2 DEF BeginAcquire, Block, Goto, Finish
  <2>3. ToTransfer(t)' = ToTransfer(t) /\ ToAcquire(t)' < ToAcquire(t)
    BY <2>2 DEF ToTransfer, ToAcquire
  <2>4. QED
    BY <2>1, <2>3, Descends
<1>3. CASE \E h \in Resource : Acquired(t, h)
  <2>1. TransfersLeft(t)' = TransfersLeft(t)
    BY <1>3 DEF Acquired, request, TransfersLeft
  <2>2. pc[t] = "acquiring" /\ pc'[t] = "leased"
    BY <1>3 DEF Acquired, Block, Goto
  <2>3. ToTransfer(t)' < ToTransfer(t)
    BY <2>2 DEF ToTransfer
  <2>4. QED
    BY <2>1, <2>3, Descends
<1>4. CASE AcquireTimedOut(t)
  <2>1. TransfersLeft(t)' = TransfersLeft(t) /\ AcquiresLeft(t)' = AcquiresLeft(t)
    BY <1>4 DEF AcquireTimedOut, TransfersLeft, AcquiresLeft
  <2>2. pc[t] = "acquiring" /\ pc'[t] = "acquire_sleep"
    BY <1>4 DEF AcquireTimedOut, SleepBeforeRetry, Block, Goto, Finish
  <2>3. ToTransfer(t)' = ToTransfer(t) /\ ToAcquire(t)' < ToAcquire(t)
    BY <2>2 DEF ToTransfer, ToAcquire
  <2>4. QED
    BY <2>1, <2>3, Descends
<1>5. CASE WakeUp(t)
  <2>1. TransfersLeft(t)' = TransfersLeft(t)
    BY <1>5 DEF WakeUp, TransfersLeft
  <2>2. \/ pc[t] = "sleeping" /\ pc'[t] = "loop"
        \/ /\ pc[t] = "acquire_sleep" /\ pc'[t] = "acquire"
           /\ acquire_attempt'[t] = acquire_attempt[t] + 1
    BY <1>5 DEF WakeUp, Goto
  <2>3. \/ ToTransfer(t)' < ToTransfer(t)
        \/ ToTransfer(t)' = ToTransfer(t) /\ AcquiresLeft(t)' < AcquiresLeft(t)
    BY <2>2 DEF ToTransfer, AcquiresLeft
  <2>4. QED
    BY <2>1, <2>3, Descends
<1>6. CASE \E h \in Resource : BeginPerform(t, h)
  <2>1. TransfersLeft(t)' = TransfersLeft(t)
    BY <1>6 DEF BeginPerform, TransfersLeft
  <2>2. pc[t] = "leased" /\ pc'[t] = "performing"
    BY <1>6 DEF BeginPerform, Block, Goto, Finish
  <2>3. ToTransfer(t)' < ToTransfer(t)
    BY <2>2 DEF ToTransfer
  <2>4. QED
    BY <2>1, <2>3, Descends
<1>7. CASE \E h \in Resource, outcome \in Outcome : EndPerform(t, h, outcome)
  <2>1. PICK h \in Resource, outcome \in Outcome : EndPerform(t, h, outcome)
    BY <1>7
  <2>2. ~NoRetry(t, outcome)
    BY DEF NoRetry, Finish, Goto
  <2>3. RetryConnect(t, outcome) \/ RetryRequest(t, outcome)
    BY <2>1, <2>2, Zenon DEF EndPerform
  <2>4. \/ /\ connect_attempts'[t] = connect_attempts[t] + 1
           /\ request_attempts' = request_attempts
        \/ /\ request_attempts'[t] = request_attempts[t] + 1
           /\ connect_attempts' = connect_attempts
    BY <2>3 DEF RetryConnect, RetryRequest
  <2>5. TransfersLeft(t)' < TransfersLeft(t)
    BY <2>4 DEF TransfersLeft
  <2>6. QED
    BY <2>5, Descends
<1>8. QED
  BY <1>1, <1>2, <1>3, <1>4, <1>5, <1>6, <1>7 DEF Step

\* Neither does what is ahead of t change while others act.
LEMMA OthersLeaveAhead ==
  ASSUME TypeOK, NEW t \in Thread, NEW u \in Thread \ {t},
         \/ \E timeout \in Timeouts, url_empty \in BOOLEAN : Execute(u, timeout, url_empty)
         \/ Step(u)
         \/ Elapse(u)
  PROVE  AheadOf(t)' = AheadOf(t)
<1>1. /\ pc'[t] = pc[t] /\ wait'[t] = wait[t] /\ remaining'[t] = remaining[t]
      /\ acquire_attempt'[t] = acquire_attempt[t]
      /\ connect_attempts'[t] = connect_attempts[t]
      /\ request_attempts'[t] = request_attempts[t]
  BY DEF TypeOK, Execute, Step, Elapse, Loop, BeginAcquire, Acquired, AcquireTimedOut, WakeUp,
         BeginPerform, EndPerform, NoRetry, RetryConnect, RetryRequest, SleepBeforeRetry,
         Block, Finish, Goto, request
<1>2. QED
  BY <1>1 DEF AheadOf, TransfersLeft, ToTransfer, AcquiresLeft, ToAcquire, TimeLeft

\* Every step of a request, and every tick of its time, brings down what is
\* ahead of it or returns; other requests, who may take all the handles again
\* and again, never add to it.
ExecuteRunsDown ==
  [][\A t \in Thread : pc[t] # "idle" /\ pc'[t] # "idle" =>
       IF Step(t) \/ Elapse(t)
       THEN <<AheadOf(t)', AheadOf(t)>> \in Below(5)
       ELSE AheadOf(t)' = AheadOf(t)]_vars

(***************************************************************************)
(* No Execute goes on for ever as long as its thread runs and its time     *)
(* passes, however its attempts fail and are retried, with any budgets,    *)
(* timeouts and deadline.                                                  *)
(***************************************************************************)
THEOREM EveryExecuteRunsDown ==
  /\ IsWellFoundedOn(Below(5), [1 .. 5 -> Nat])
  /\ Spec => ExecuteRunsDown
<1>1. TypeOK /\ TypeOK' /\ [Next]_vars =>
        [\A t \in Thread : pc[t] # "idle" /\ pc'[t] # "idle" =>
           IF Step(t) \/ Elapse(t)
           THEN <<AheadOf(t)', AheadOf(t)>> \in Below(5)
           ELSE AheadOf(t)' = AheadOf(t)]_vars
  <2> SUFFICES ASSUME TypeOK, TypeOK', Next, NEW t \in Thread, pc[t] # "idle", pc'[t] # "idle"
               PROVE  IF Step(t) \/ Elapse(t)
                      THEN <<AheadOf(t)', AheadOf(t)>> \in Below(5)
                      ELSE AheadOf(t)' = AheadOf(t)
    BY DEF ExecuteRunsDown
  <2>1. ASSUME Elapse(t)
        PROVE  <<AheadOf(t)', AheadOf(t)>> \in Below(5)
    <3>1. /\ TransfersLeft(t)' = TransfersLeft(t) /\ AcquiresLeft(t)' = AcquiresLeft(t)
          /\ ToTransfer(t)' = ToTransfer(t) /\ ToAcquire(t)' = ToAcquire(t)
      BY <2>1 DEF Elapse, TransfersLeft, AcquiresLeft, ToTransfer, ToAcquire
    <3>2. TimeLeft(t)' < TimeLeft(t)
      BY <2>1, ConstantFacts DEF TypeOK, Elapse, TimeLeft
    <3>3. QED
      BY <3>1, <3>2, Descends
  <2>2. CASE Step(t) \/ Elapse(t)
    BY <2>1, <2>2, StepDescends
  <2>3. CASE ~(Step(t) \/ Elapse(t))
    <3>1. PICK u \in Thread :
            \/ \E timeout \in Timeouts, url_empty \in BOOLEAN : Execute(u, timeout, url_empty)
            \/ Step(u)
            \/ Elapse(u)
      BY DEF Next
    <3>2. u # t
      BY <2>3, <3>1 DEF Execute
    <3>3. QED
      BY <2>3, <3>1, <3>2, OthersLeaveAhead
  <2>4. QED
    BY <2>2, <2>3
<1>2. IInv => TypeOK
  BY DEF IInv
<1>3. IsWellFoundedOn(Below(5), [1 .. 5 -> Nat])
  BY NothingDescendsForever
<1>4. Spec => ExecuteRunsDown
  BY <1>1, <1>2, ClientInvariant, PTL DEF Spec, ExecuteRunsDown
<1>5. QED
  BY <1>3, <1>4
=============================================================================
