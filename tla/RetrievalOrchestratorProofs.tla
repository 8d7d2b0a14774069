-------------------- MODULE RetrievalOrchestratorProofs --------------------
(***************************************************************************)
(* Proofs about RetrievalOrchestrator, for any retrievers and replies, any *)
(* expansion ratio and any width of int: a request fails only if all its   *)
(* retrievers did, the retrievers are asked for enough, and what they      *)
(* reply is merged in turns, without losing a path.                        *)
(***************************************************************************)
EXTENDS RetrievalOrchestrator, SequenceTheorems, DataInduction

AllFailed == \A r \in Retriever : reply[r] = Failed

Typed ==
  /\ pc \in {"idle", "dispatch", "merge"}
  /\ called \in Nat
  /\ reply = [r \in Retriever |-> reply[r]]
  /\ responses \in Seq(Retriever)
  /\ max \in Int

\* retriever_responses and the replies agree; merging begins with a response.
SuccessesAreCounted ==
  /\ responses = <<>> <=> AllFailed
  /\ pc = "merge" => responses # <<>>

IInv == Typed /\ SuccessesAreCounted /\ FailsOnlyIfAllFail /\ AsksForEnough

LEMMA AskedEnough ==
  ASSUME NEW n \in Int, n > 0, n <= MaxInt, NEW m \in ComputeRetrieverMaxCandidateCount(n)
  PROVE  m \in n .. MaxInt
<1> DEFINE x == Ceiling(n * RatioNum, RatioDen)
<1>1. {RatioNum, RatioDen, MaxInt} \subseteq Nat \ {0}
  BY OrchestratorAssumption
<1>2. x \in Int
  <2>1. n * RatioNum \in Int
    BY <1>1
  <2>2. n * RatioNum + RatioDen - 1 \in Int /\ RatioDen \in Nat \ {0}
    BY <1>1, <2>1
  <2>3. QED
    BY <2>2 DEF Ceiling
<1> HIDE DEF x
<1>3. PICK y \in CastToInt(x) : m = Larger(n, y)
  <2>1. m \in {Larger(n, y) : y \in CastToInt(x)}
    BY DEF ComputeRetrieverMaxCandidateCount, x
  <2>2. QED
    BY <2>1
<1>4. y \in Int /\ y <= MaxInt
  BY <1>1, <1>2, <1>3 DEF CastToInt
<1>5. QED
  BY <1>1, <1>3, <1>4 DEF Larger

LEMMA InitHolds == Init => IInv
BY DEF Init, IInv, Typed, SuccessesAreCounted, AllFailed, FailsOnlyIfAllFail, AsksForEnough, Done

LEMMA RetrieveKeeps ==
  ASSUME IInv, NEW n \in Requested, NEW valid \in BOOLEAN, Retrieve(n, valid)
  PROVE  IInv'
<1>1. n \in Int /\ n <= MaxInt
  BY OrchestratorAssumption
<1>2. Typed' /\ SuccessesAreCounted' /\ AllFailed'
  BY <1>1 DEF Retrieve, Fresh, IInv, Typed, SuccessesAreCounted, AllFailed
<1>3. FailsOnlyIfAllFail'
  BY DEF Retrieve, FailsOnlyIfAllFail, Done
<1>4. AsksForEnough'
  BY <1>1, AskedEnough DEF Retrieve, AsksForEnough, IInv, Typed
<1>5. QED
  BY <1>2, <1>3, <1>4 DEF IInv

LEMMA ReplyKeeps ==
  ASSUME IInv, Reply
  PROVE  IInv'
<1>1. AsksForEnough' /\ FailsOnlyIfAllFail'
  BY DEF Reply, Accepted, NotAccepted, IInv, AsksForEnough, FailsOnlyIfAllFail, Done
<1>2. CASE NotAccepted
  BY <1>1, <1>2 DEF NotAccepted, IInv, Typed, SuccessesAreCounted, AllFailed
<1>3. ASSUME NEW items \in Replies, Accepted(items)
      PROVE  Typed' /\ SuccessesAreCounted'
  <2> DEFINE r == Stubs[called + 1]
  <2>1. r \in Retriever
    <3>1. Stubs \in Seq(Retriever) /\ called \in Nat /\ called < Len(Stubs)
      BY <1>3, OrchestratorAssumption DEF IInv, Typed, Accepted
    <3>2. called + 1 \in 1 .. Len(Stubs)
      BY <3>1
    <3>3. QED
      BY <3>1, <3>2
  <2>2. /\ reply' = [reply EXCEPT ![r] = items]
        /\ responses' = Append(responses, r)
        /\ pc' = pc /\ max' = max /\ called' = called + 1
    BY <1>3 DEF Accepted, merge
  <2> HIDE DEF r
  <2>3. responses' \in Seq(Retriever) /\ responses' # <<>>
    <3>1. responses \in Seq(Retriever)
      BY DEF IInv, Typed
    <3>2. QED
      BY <2>1, <2>2, <3>1
  <2>4. reply' = [q \in Retriever |-> reply'[q]] /\ reply'[r] = items
    BY <2>1, <2>2 DEF IInv, Typed
  <2>5. items # Failed
    BY OrchestratorAssumption
  <2>6. ~AllFailed'
    BY <2>1, <2>4, <2>5 DEF AllFailed
  <2>7. QED
    BY <2>2, <2>3, <2>4, <2>6 DEF IInv, Typed, SuccessesAreCounted
<1>4. QED
  BY <1>1, <1>2, <1>3 DEF Reply, IInv

LEMMA ProceedKeeps ==
  ASSUME IInv, Proceed
  PROVE  IInv'
<1>1. Typed' /\ UNCHANGED dispatch
  BY DEF Proceed, Dispatched, Turn, SkipTurn, EndRound, dispatch, IInv, Typed
<1>2. AllFailed' = AllFailed /\ (responses # <<>> => ~AllFailed)
  BY <1>1 DEF dispatch, AllFailed, IInv, SuccessesAreCounted
<1>3. CASE Dispatched
  <2>1. SuccessesAreCounted'
    BY <1>1, <1>2, <1>3 DEF Dispatched, dispatch, IInv, SuccessesAreCounted
  <2>2. FailsOnlyIfAllFail'
    BY <1>1, <1>2, <1>3
    DEF Dispatched, dispatch, IInv, SuccessesAreCounted, AllFailed, FailsOnlyIfAllFail, Done
  <2>3. AsksForEnough'
    BY <1>1, <1>3 DEF Dispatched, dispatch, IInv, AsksForEnough
  <2>4. QED
    BY <1>1, <2>1, <2>2, <2>3 DEF IInv
<1>4. CASE Turn \/ SkipTurn \/ EndRound
  <2>1. pc = "merge" /\ pc' \in {"merge", "idle"} /\ (pc' = "idle" => status' = "success")
    BY <1>4 DEF Turn, SkipTurn, EndRound
  <2>2. SuccessesAreCounted'
    BY <1>1, <1>2, <2>1 DEF dispatch, IInv, SuccessesAreCounted
  <2>3. FailsOnlyIfAllFail'
    BY <1>1, <1>2, <2>1
    DEF dispatch, IInv, SuccessesAreCounted, AllFailed, FailsOnlyIfAllFail, Done
  <2>4. AsksForEnough'
    BY <1>1, <2>1 DEF dispatch, IInv, AsksForEnough
  <2>5. QED
    BY <1>1, <2>2, <2>3, <2>4 DEF IInv
<1>5. QED
  BY <1>3, <1>4 DEF Proceed

THEOREM OrchestratorInvariant == Spec => []IInv
<1>1. IInv /\ [Next]_vars => IInv'
  <2> SUFFICES ASSUME IInv, [Next]_vars PROVE IInv'
    OBVIOUS
  <2>1. CASE UNCHANGED vars
    BY <2>1 DEF vars, dispatch, IInv, Typed, SuccessesAreCounted, AllFailed,
                FailsOnlyIfAllFail, AsksForEnough, Done
  <2>2. QED
    BY <2>1, RetrieveKeeps, ReplyKeeps, ProceedKeeps DEF Next
<1>2. QED
  BY <1>1, InitHolds, PTL DEF Spec

\* Whatever the retrievers answer, one that succeeds saves the request.
THEOREM OneSuccessIsEnough == Spec => []FailsOnlyIfAllFail
<1>1. IInv => FailsOnlyIfAllFail
  BY DEF IInv
<1>2. QED
  BY <1>1, OrchestratorInvariant, PTL

\* Whatever the ratio and the width of int, the expanded count is at least the
\* requested one: the overflow of the cast cannot lower it.
THEOREM AsksForEnoughAlways == Spec => []AsksForEnough
<1>1. IInv => AsksForEnough
  BY DEF IInv
<1>2. QED
  BY <1>1, OrchestratorInvariant, PTL

-----------------------------------------------------------------------------
\* Stubs lists every retriever once.
LEMMA OrderIsPosition ==
  ASSUME NEW r \in Retriever
  PROVE  Order(r) \in 1 .. Len(Stubs) /\ Stubs[Order(r)] = r
<1>1. Stubs \in Seq(Retriever) /\ \E n \in DOMAIN Stubs : Stubs[n] = r
  BY OrchestratorAssumption DEF Retriever, ToSet
<1>2. QED
  BY <1>1 DEF Order

LEMMA OrderOfStub ==
  ASSUME NEW n \in 1 .. Len(Stubs)
  PROVE  Stubs[n] \in Retriever /\ Order(Stubs[n]) = n
<1>1. Stubs \in Seq(Retriever) /\ IsInjective(Stubs)
  BY OrchestratorAssumption
<1>2. DOMAIN Stubs = 1 .. Len(Stubs) /\ Stubs[n] \in Retriever
  BY <1>1
<1>3. QED
  BY <1>1, <1>2, OrderIsPosition DEF IsInjective

\* Signals of different retrievers, each with different occurrences of its own.
DistinctSignals(signals) ==
  /\ signals \in Seq(Signal)
  /\ \A s, t \in DOMAIN signals : s # t => signals[s].retriever # signals[t].retriever
  /\ \A s \in DOMAIN signals :
       /\ IsInjective(signals[s].reasons)
       /\ \A o \in ToSet(signals[s].reasons) : o[1] = signals[s].retriever

LEMMA Concatenation ==
  ASSUME NEW S, NEW a \in Seq(S), NEW b \in Seq(S)
  PROVE  /\ a \o b \in Seq(S)
         /\ ToSet(a \o b) = ToSet(a) \cup ToSet(b)
         /\ IsInjective(a) /\ IsInjective(b) /\ ToSet(a) \cap ToSet(b) = {} =>
              IsInjective(a \o b)
<1>1. /\ a \o b \in Seq(S) /\ Len(a \o b) = Len(a) + Len(b)
      /\ Len(a) \in Nat /\ Len(b) \in Nat
      /\ \A i \in 1 .. Len(a) : (a \o b)[i] = a[i]
      /\ \A i \in 1 .. Len(b) : (a \o b)[Len(a) + i] = b[i]
  OBVIOUS
<1>2. /\ DOMAIN (a \o b) = 1 .. (Len(a) + Len(b))
      /\ DOMAIN a = 1 .. Len(a) /\ DOMAIN b = 1 .. Len(b)
  BY <1>1
<1>3. \A i \in DOMAIN (a \o b) :
        \/ i \in DOMAIN a /\ (a \o b)[i] = a[i]
        \/ i - Len(a) \in DOMAIN b /\ (a \o b)[i] = b[i - Len(a)]
  <2>1. \A i \in DOMAIN (a \o b) : i \notin DOMAIN a =>
          i - Len(a) \in 1 .. Len(b) /\ Len(a) + (i - Len(a)) = i
    BY <1>1, <1>2
  <2>2. QED
    BY <1>1, <1>2, <2>1
<1>4. ToSet(a \o b) \subseteq ToSet(a) \cup ToSet(b)
  BY <1>3 DEF ToSet
<1>5. ToSet(a) \subseteq ToSet(a \o b)
  BY <1>1, <1>2 DEF ToSet
<1>6. ToSet(b) \subseteq ToSet(a \o b)
  <2>1. \A i \in DOMAIN b : Len(a) + i \in DOMAIN (a \o b)
    BY <1>1, <1>2
  <2>2. QED
    BY <1>1, <1>2, <2>1 DEF ToSet
<1>7. ASSUME IsInjective(a), IsInjective(b), ToSet(a) \cap ToSet(b) = {}
      PROVE  IsInjective(a \o b)
  <2> SUFFICES ASSUME NEW i \in DOMAIN (a \o b), NEW j \in DOMAIN (a \o b),
                      (a \o b)[i] = (a \o b)[j]
               PROVE  i = j
    BY DEF IsInjective
  <2>1. \A x \in DOMAIN a, y \in DOMAIN b : a[x] # b[y]
    BY <1>7 DEF ToSet
  <2>2. i \in Int /\ j \in Int /\ Len(a) \in Int
    BY <1>1, <1>2
  <2>3. CASE i \in DOMAIN a /\ (a \o b)[i] = a[i]
    <3>1. j \in DOMAIN a /\ (a \o b)[j] = a[j]
      BY <1>3, <2>1, <2>3
    <3>2. QED
      BY <1>7, <2>3, <3>1 DEF IsInjective
  <2>4. CASE i - Len(a) \in DOMAIN b /\ (a \o b)[i] = b[i - Len(a)]
    <3>1. j - Len(a) \in DOMAIN b /\ (a \o b)[j] = b[j - Len(a)]
      BY <1>3, <2>1, <2>4
    <3>2. i - Len(a) = j - Len(a)
      BY <1>7, <2>4, <3>1 DEF IsInjective
    <3>3. QED
      BY <2>2, <3>2
  <2>5. QED
    BY <1>3, <2>3, <2>4
<1>8. QED
  BY <1>1, <1>4, <1>5, <1>6, <1>7

\* The names of the rebuilt candidate are the retrievers of its signals.
LEMMA RebuiltNames ==
  ASSUME NEW c, DistinctSignals(c.retrieval_signals), "retriever" \in DOMAIN c, "reasons" \in DOMAIN c,
         c = [x \in DOMAIN c |-> c[x]]
  PROVE  RebuildLegacyCandidateFields(c).retriever =
           [s \in DOMAIN c.retrieval_signals |-> c.retrieval_signals[s].retriever]
<1> DEFINE signals == c.retrieval_signals
           n == Len(signals)
           F == [p \in Seq(Retriever) \X Signal |->
                   IF Contains(p[1], p[2].retriever) THEN p[1]
                   ELSE Append(p[1], p[2].retriever)]
           iter == CHOOSE f : f = [t \in SUBSET DOMAIN signals |->
                     IF t = {} THEN <<>>
                     ELSE IF Contains(f[t \ {Max(t)}], signals[Max(t)].retriever)
                          THEN f[t \ {Max(t)}]
                          ELSE Append(f[t \ {Max(t)}], signals[Max(t)].retriever)]
<1>1. signals \in Seq(Signal) /\ DOMAIN signals = 1 .. n /\ n \in Nat
      /\ \A s \in 1 .. n : signals[s] \in Signal /\ signals[s].retriever \in Retriever
  <2>1. signals \in Seq(Signal)
    BY DEF DistinctSignals
  <2>2. \A s \in 1 .. n : signals[s] \in Signal
    BY <2>1
  <2>3. QED
    BY <2>1, <2>2 DEF Signal
<1>2. RebuildLegacyCandidateFields(c).retriever = iter[DOMAIN signals]
  BY DEF RebuildLegacyCandidateFields, FoldLeft, MapThenFoldSet
<1>3. iter = [t \in SUBSET (1 .. n) |->
                IF t = {} THEN <<>>
                ELSE IF Contains(iter[t \ {Max(t)}], signals[Max(t)].retriever)
                     THEN iter[t \ {Max(t)}]
                     ELSE Append(iter[t \ {Max(t)}], signals[Max(t)].retriever)]
  <2>1. F \in [Seq(Retriever) \X Signal -> Seq(Retriever)]
    BY DEF Signal
  <2> HIDE DEF F, signals, n
  <2>2. PICK f : FoldsBy(f, Seq(Retriever), F, <<>>, signals, n)
    <3>1. <<>> \in Seq(Retriever)
      OBVIOUS
    <3>2. \A i \in 1 .. n : signals[i] \in Signal
      BY <1>1
    <3>3. n \in Nat
      BY <1>1
    <3> HIDE DEF iter
    <3>4. QED
      BY <2>1, <3>1, <3>2, <3>3, FoldExists
  <2>3. ASSUME NEW t \in SUBSET (1 .. n), t # {}
        PROVE  f[t] = IF Contains(f[t \ {Max(t)}], signals[Max(t)].retriever)
                      THEN f[t \ {Max(t)}]
                      ELSE Append(f[t \ {Max(t)}], signals[Max(t)].retriever)
    <3>1. Max(t) \in 1 .. n
      BY <1>1, <2>3, MaxIsIn
    <3>2. <<f[t \ {Max(t)}], signals[Max(t)]>> \in Seq(Retriever) \X Signal
      BY <1>1, <2>2, <3>1 DEF FoldsBy
    <3>3. QED
      BY <2>2, <2>3, <3>2 DEF F, FoldsBy
  <2>4. f = [t \in SUBSET (1 .. n) |->
               IF t = {} THEN <<>>
               ELSE IF Contains(f[t \ {Max(t)}], signals[Max(t)].retriever)
                    THEN f[t \ {Max(t)}]
                    ELSE Append(f[t \ {Max(t)}], signals[Max(t)].retriever)]
    BY <2>2, <2>3 DEF FoldsBy
  <2>5. QED
    BY <1>1, <2>4
<1> DEFINE T == {k \in 0 .. n : iter[1 .. k] = [s \in 1 .. k |-> signals[s].retriever]}
<1>4. 0 \in T
  <2>1. 1 .. 0 = {} /\ {} \in SUBSET (1 .. n)
    OBVIOUS
  <2> HIDE DEF iter
  <2>2. iter[{}] = <<>>
    BY <1>3, <2>1
  <2>3. QED
    BY <2>1, <2>2
<1>5. ASSUME NEW k \in 0 .. (n - 1), k \in T PROVE k + 1 \in T
  <2> DEFINE names == [s \in 1 .. k |-> signals[s].retriever]
  <2>1. /\ 1 .. (k + 1) \in SUBSET (1 .. n) /\ 1 .. (k + 1) # {}
        /\ Max(1 .. (k + 1)) = k + 1 /\ (1 .. (k + 1)) \ {k + 1} = 1 .. k
    <3>1. /\ 1 .. (k + 1) \in SUBSET (1 .. (k + 1)) /\ k + 1 \in 1 .. (k + 1) /\ k \in Nat
          /\ (1 .. (k + 1)) \ {k + 1} = 1 .. k /\ 1 .. (k + 1) \in SUBSET (1 .. n)
      OBVIOUS
    <3>2. Max(1 .. (k + 1)) = k + 1
      BY <3>1, MaxOfInterval
    <3>3. QED
      BY <3>1, <3>2
  <2>2. iter[1 .. k] = names
    BY <1>5
  <2>3. ~Contains(names, signals[k + 1].retriever)
    <3>1. \A s \in 1 .. k : s \in DOMAIN signals /\ s # k + 1 /\ k + 1 \in DOMAIN signals
      BY <1>1
    <3>2. \A s \in 1 .. k : signals[s].retriever # signals[k + 1].retriever
      BY <3>1 DEF DistinctSignals
    <3>3. names \in Seq(Retriever) /\ Len(names) = k
      BY <1>1
    <3> HIDE DEF signals
    <3>4. QED
      BY <3>2, <3>3 DEF Contains
  <2>4. iter[1 .. (k + 1)] = Append(names, signals[k + 1].retriever)
    <3> HIDE DEF iter, signals, names
    <3>1. QED
      BY <1>3, <2>1, <2>2, <2>3
  <2>5. Append(names, signals[k + 1].retriever) = [s \in 1 .. (k + 1) |-> signals[s].retriever]
    <3>1. names \in Seq(Retriever) /\ Len(names) = k /\ signals[k + 1].retriever \in Retriever
      BY <1>1
    <3>2. Append(names, signals[k + 1].retriever) \in Seq(Retriever)
          /\ Len(Append(names, signals[k + 1].retriever)) = k + 1
      BY <3>1
    <3>3. QED
      BY <3>1, <3>2
  <2>6. QED
    <3> HIDE DEF iter, names
    <3>1. QED
      BY <2>4, <2>5
<1>6. n \in T
  <2> HIDE DEF T
  <2>1. QED
    BY <1>1, <1>4, <1>5, UpTo
<1>7. QED
  BY <1>1, <1>2, <1>6

\* The reasons of the rebuilt candidate are those of its signals, each once.
LEMMA RebuiltReasons ==
  ASSUME NEW c, DistinctSignals(c.retrieval_signals), "reasons" \in DOMAIN c,
         c = [x \in DOMAIN c |-> c[x]],
         NEW R, R = RebuildLegacyCandidateFields(c).reasons
  PROVE  /\ R \in Seq(Occurrence)
         /\ \A o : o \in ToSet(R) <=>
                     \E s \in DOMAIN c.retrieval_signals : o \in ToSet(c.retrieval_signals[s].reasons)
         /\ IsInjective(R)
<1> DEFINE signals == c.retrieval_signals
           n == Len(signals)
           F == [p \in Seq(Occurrence) \X Signal |-> p[1] \o p[2].reasons]
           iter == CHOOSE f : f = [t \in SUBSET DOMAIN signals |->
                     IF t = {} THEN <<>> ELSE f[t \ {Max(t)}] \o signals[Max(t)].reasons]
<1>1. signals \in Seq(Signal) /\ DOMAIN signals = 1 .. n /\ n \in Nat
      /\ \A s \in 1 .. n : signals[s] \in Signal /\ signals[s].reasons \in Seq(Occurrence)
  <2>1. signals \in Seq(Signal)
    BY DEF DistinctSignals
  <2>2. \A s \in 1 .. n : signals[s] \in Signal
    BY <2>1
  <2>3. QED
    BY <2>1, <2>2 DEF Signal
<1>2. R = iter[DOMAIN signals]
  BY DEF RebuildLegacyCandidateFields, FoldLeft, MapThenFoldSet
<1>3. iter = [t \in SUBSET (1 .. n) |->
                IF t = {} THEN <<>> ELSE iter[t \ {Max(t)}] \o signals[Max(t)].reasons]
  <2>1. F \in [Seq(Occurrence) \X Signal -> Seq(Occurrence)]
    BY Concatenation DEF Signal
  <2> HIDE DEF F, signals, n
  <2>2. PICK f : FoldsBy(f, Seq(Occurrence), F, <<>>, signals, n)
    <3>1. <<>> \in Seq(Occurrence)
      OBVIOUS
    <3>2. \A i \in 1 .. n : signals[i] \in Signal
      BY <1>1
    <3>3. n \in Nat
      BY <1>1
    <3> HIDE DEF iter
    <3>4. QED
      BY <2>1, <3>1, <3>2, <3>3, FoldExists
  <2>3. ASSUME NEW t \in SUBSET (1 .. n), t # {}
        PROVE  f[t] = f[t \ {Max(t)}] \o signals[Max(t)].reasons
    <3>1. Max(t) \in 1 .. n
      BY <1>1, <2>3, MaxIsIn
    <3>2. <<f[t \ {Max(t)}], signals[Max(t)]>> \in Seq(Occurrence) \X Signal
      BY <1>1, <2>2, <3>1 DEF FoldsBy
    <3>3. QED
      BY <2>2, <2>3, <3>2 DEF F, FoldsBy
  <2>4. f = [t \in SUBSET (1 .. n) |->
               IF t = {} THEN <<>> ELSE f[t \ {Max(t)}] \o signals[Max(t)].reasons]
    BY <2>2, <2>3 DEF FoldsBy
  <2>5. QED
    BY <1>1, <2>4
<1> DEFINE Within(k) == {o \in Occurrence : \E s \in 1 .. k : o \in ToSet(signals[s].reasons)}
           T == {k \in 0 .. n : /\ iter[1 .. k] \in Seq(Occurrence)
                                /\ ToSet(iter[1 .. k]) = Within(k)
                                /\ IsInjective(iter[1 .. k])}
<1>4. 0 \in T
  <2>1. 1 .. 0 = {} /\ {} \in SUBSET (1 .. n)
    OBVIOUS
  <2> HIDE DEF iter
  <2>2. iter[{}] = <<>>
    BY <1>3, <2>1
  <2>3. ToSet(<<>>) = {} /\ IsInjective(<<>>) /\ <<>> \in Seq(Occurrence)
    BY DEF ToSet, IsInjective
  <2>4. Within(0) = {}
    BY <2>1
  <2>5. 0 \in 0 .. n
    BY <1>1
  <2> HIDE DEF Within
  <2>6. iter[1 .. 0] = <<>>
    BY <2>1, <2>2
  <2>7. QED
    BY <2>3, <2>4, <2>5, <2>6
<1>5. ASSUME NEW k \in 0 .. (n - 1), k \in T PROVE k + 1 \in T
  <2> DEFINE so_far == iter[1 .. k]
             more == signals[k + 1].reasons
  <2>1. /\ 1 .. (k + 1) \in SUBSET (1 .. n) /\ 1 .. (k + 1) # {}
        /\ Max(1 .. (k + 1)) = k + 1 /\ (1 .. (k + 1)) \ {k + 1} = 1 .. k
    <3>1. /\ 1 .. (k + 1) \in SUBSET (1 .. (k + 1)) /\ k + 1 \in 1 .. (k + 1) /\ k \in Nat
          /\ (1 .. (k + 1)) \ {k + 1} = 1 .. k /\ 1 .. (k + 1) \in SUBSET (1 .. n)
      OBVIOUS
    <3>2. Max(1 .. (k + 1)) = k + 1
      BY <3>1, MaxOfInterval
    <3>3. QED
      BY <3>1, <3>2
  <2>2. so_far \in Seq(Occurrence) /\ ToSet(so_far) = Within(k) /\ IsInjective(so_far)
    BY <1>5
  <2>3. more \in Seq(Occurrence) /\ IsInjective(more)
        /\ \A o \in ToSet(more) : o[1] = signals[k + 1].retriever
    <3>1. k + 1 \in 1 .. n
      OBVIOUS
    <3>2. QED
      BY <1>1, <3>1 DEF DistinctSignals
  <2>4. ToSet(so_far) \cap ToSet(more) = {}
    <3>1. \A s \in 1 .. k : s \in DOMAIN signals /\ s # k + 1 /\ k + 1 \in DOMAIN signals
      BY <1>1
    <3>2. \A s \in 1 .. k : \A o \in ToSet(signals[s].reasons) : o[1] # signals[k + 1].retriever
      BY <3>1 DEF DistinctSignals
    <3> HIDE DEF signals
    <3>3. QED
      BY <2>2, <2>3, <3>2
  <2>5. iter[1 .. (k + 1)] = so_far \o more
    <3> HIDE DEF iter, signals
    <3>1. QED
      BY <1>3, <2>1
  <2>6. Within(k + 1) = Within(k) \cup ToSet(more)
    <3>1. 1 .. (k + 1) = (1 .. k) \cup {k + 1}
      OBVIOUS
    <3>2. ToSet(more) \subseteq Occurrence
      BY <2>3 DEF ToSet
    <3> HIDE DEF signals
    <3>3. QED
      BY <3>1, <3>2
  <2>7. iter[1 .. (k + 1)] \in Seq(Occurrence)
    <3> HIDE DEF so_far, more, Within, iter, T
    <3>1. so_far \o more \in Seq(Occurrence)
      BY <2>2, <2>3, Concatenation
    <3>2. QED
      BY <2>5, <3>1
  <2>8. ToSet(iter[1 .. (k + 1)]) = Within(k + 1)
    <3> HIDE DEF so_far, more, Within, iter
    <3>1. ToSet(so_far \o more) = ToSet(so_far) \cup ToSet(more)
      BY <2>2, <2>3, Concatenation
    <3>2. QED
      BY <2>2, <2>5, <2>6, <3>1
  <2>9. IsInjective(iter[1 .. (k + 1)])
    <3> HIDE DEF so_far, more, Within, iter
    <3>1. QED
      BY <2>2, <2>3, <2>4, <2>5, Concatenation
  <2>10. k + 1 \in 0 .. n
    OBVIOUS
  <2>11. QED
    <3> HIDE DEF iter, Within
    <3>1. QED
      BY <2>7, <2>8, <2>9, <2>10
<1>6. n \in T
  <2> HIDE DEF T
  <2>1. QED
    BY <1>1, <1>4, <1>5, UpTo
<1>7. R \in Seq(Occurrence) /\ ToSet(R) = Within(n) /\ IsInjective(R)
  <2> HIDE DEF iter, Within
  <2>1. QED
    BY <1>1, <1>2, <1>6
<1>8. \A s \in DOMAIN signals : ToSet(signals[s].reasons) \subseteq Occurrence
  BY <1>1 DEF ToSet
<1>9. \A o : o \in Within(n) <=> \E s \in DOMAIN signals : o \in ToSet(signals[s].reasons)
  <2> DEFINE of(s) == ToSet(signals[s].reasons)
  <2>1. \A s \in 1 .. n : of(s) \subseteq Occurrence
    BY <1>1, <1>8
  <2> HIDE DEF of
  <2>2. \A o : (\E s \in 1 .. n : o \in of(s)) => o \in Occurrence
    BY <2>1
  <2>3. \A o : o \in {p \in Occurrence : \E s \in 1 .. n : p \in of(s)} <=>
                 \E s \in 1 .. n : o \in of(s)
    BY <2>2
  <2>4. QED
    BY <1>1, <2>3 DEF of
<1>10. QED
  <2> HIDE DEF Within
  <2>1. QED
    BY <1>7, <1>9

\* The signals of a candidate that has met the occurrences O of its item.
SignalsOf(signals, O) ==
  /\ signals \in Seq(Signal)
  /\ \A s, t \in DOMAIN signals : s # t => signals[s].retriever # signals[t].retriever
  /\ \A s \in DOMAIN signals :
       IsInOrder(signals[s].reasons, {o \in O : o[1] = signals[s].retriever})
  /\ \A o \in O : \E s \in DOMAIN signals : o[1] = signals[s].retriever

LEMMA InOrderIsInjective ==
  ASSUME NEW S, NEW seq \in Seq(S), NEW O \in SUBSET Occurrence, IsInOrder(seq, O)
  PROVE  IsInjective(seq)
<1> SUFFICES ASSUME NEW a \in DOMAIN seq, NEW b \in DOMAIN seq, seq[a] = seq[b], a < b
             PROVE  FALSE
  <2>1. DOMAIN seq \subseteq Int
    OBVIOUS
  <2>2. QED
    BY <2>1 DEF IsInjective
<1>1. Before(seq[a], seq[a])
  BY DEF IsInOrder
<1>2. seq[a] \in Occurrence
  BY DEF IsInOrder, ToSet
<1>3. seq[a][2] \in Nat /\ ~(seq[a][2] < seq[a][2])
  BY <1>2 DEF Occurrence
<1>4. Order(seq[a][1]) < Order(seq[a][1])
  BY <1>1, <1>3 DEF Before
<1>5. Order(seq[a][1]) \in Int
  BY <1>2, OrderIsPosition DEF Occurrence
<1>6. QED
  BY <1>4, <1>5

LEMMA SignalsAreDistinct ==
  ASSUME NEW signals, NEW O \in SUBSET Occurrence, SignalsOf(signals, O)
  PROVE  DistinctSignals(signals)
<1>1. ASSUME NEW s \in DOMAIN signals
      PROVE  /\ IsInjective(signals[s].reasons)
             /\ \A o \in ToSet(signals[s].reasons) : o[1] = signals[s].retriever
  <2> DEFINE Q == {o \in O : o[1] = signals[s].retriever}
  <2>0. signals \in Seq(Signal)
    BY DEF SignalsOf
  <2>1. IsInOrder(signals[s].reasons, Q)
    BY DEF SignalsOf
  <2>2. signals[s].reasons \in Seq(Occurrence) /\ Q \in SUBSET Occurrence
    <3>1. signals[s] \in Signal
      BY <2>0
    <3>2. QED
      BY <3>1 DEF Signal
  <2>3. QED
    BY <2>1, <2>2, InOrderIsInjective DEF IsInOrder
<1>2. QED
  BY <1>1 DEF SignalsOf, DistinctSignals

\* An occurrence that comes after those of its retriever joins their signal.
LEMMA MergeSignalKeeps ==
  ASSUME NEW signals, NEW O \in SUBSET Occurrence, SignalsOf(signals, O),
         NEW r \in Retriever, NEW p \in Nat \ {0}, \A o \in O : o[1] = r => o[2] < p,
         NEW signal, signal = [retriever |-> r, reasons |-> << <<r, p>> >>]
  PROVE  SignalsOf(MergeRetrievalSignal(signals, signal), O \cup {<<r, p>>})
<1> DEFINE o1 == <<r, p>>
           i == SelectInSeq(signals, LAMBDA s : s.retriever = r)
           P == O \cup {o1}
           Own(S, q) == {o \in S : o[1] = q}
<1>1. /\ signals \in Seq(Signal)
      /\ \A s, t \in DOMAIN signals : s # t => signals[s].retriever # signals[t].retriever
      /\ \A s \in DOMAIN signals :
           IsInOrder(signals[s].reasons, Own(O, signals[s].retriever))
      /\ \A o \in O : \E s \in DOMAIN signals : o[1] = signals[s].retriever
  BY DEF SignalsOf
<1>2. o1 \in Occurrence /\ o1[1] = r /\ o1[2] = p /\ signal \in Signal /\ P \in SUBSET Occurrence
  BY DEF Occurrence, Signal
<1>3. \A s \in DOMAIN signals : signals[s] \in Signal /\ signals[s].reasons \in Seq(Occurrence)
  <2>1. \A s \in DOMAIN signals : signals[s] \in Signal
    BY <1>1
  <2>2. QED
    BY <2>1 DEF Signal
<1>4. MergeRetrievalSignal(signals, signal) =
        IF i = 0 THEN Append(signals, signal)
        ELSE [signals EXCEPT ![i].reasons = @ \o << o1 >>]
  BY DEF MergeRetrievalSignal
<1>5. IF \E s \in DOMAIN signals : signals[s].retriever = r
      THEN i \in DOMAIN signals /\ signals[i].retriever = r
      ELSE i = 0
  <2> DEFINE I == {s \in 1 .. Len(signals) : signals[s].retriever = r}
  <2>1. I \subseteq Nat /\ DOMAIN signals = 1 .. Len(signals)
    BY <1>1
  <2>2. i = IF I # {} THEN Min(I) ELSE 0
    BY DEF SelectInSeq
  <2>3. I # {} => Min(I) \in I
    <3> HIDE DEF I
    <3>1. QED
      BY <2>1, MinIsIn
  <2> HIDE DEF i
  <2>4. QED
    BY <2>1, <2>2, <2>3
<1> DEFINE new == MergeRetrievalSignal(signals, signal)
<1> HIDE DEF i, o1, P, new
<1>6. \A q : q # r => Own(P, q) = Own(O, q)
  BY <1>2 DEF P
<1>7. CASE \E s \in DOMAIN signals : signals[s].retriever = r
  <2>1. i \in DOMAIN signals /\ signals[i].retriever = r /\ i # 0 /\ signals[i] \in Signal
    BY <1>1, <1>3, <1>5, <1>7
  <2> DEFINE old == signals[i].reasons
  <2>2. new = [signals EXCEPT ![i].reasons = @ \o << o1 >>]
    BY <1>4, <2>1 DEF new
  <2>3. /\ DOMAIN new = DOMAIN signals
        /\ \A s \in DOMAIN signals : s # i => new[s] = signals[s]
        /\ new[i] = [retriever |-> r, reasons |-> old \o << o1 >>]
    BY <2>1, <2>2 DEF Signal
  <2>4. old \in Seq(Occurrence) /\ IsInOrder(old, Own(O, r))
    BY <1>1, <1>3, <2>1
  <2>5. new[i] \in Signal
    BY <1>2, <2>3, <2>4 DEF Signal
  <2>6. new \in Seq(Signal)
    <3> DEFINE changed == new[i]
    <3>1. new = [signals EXCEPT ![i] = changed]
      <4>1. new = [s \in DOMAIN signals |-> IF s = i THEN changed ELSE signals[s]]
        BY <2>2, <2>3
      <4> HIDE DEF changed
      <4>2. QED
        BY <1>1, <4>1
    <3>2. changed \in Signal
      BY <2>5
    <3> HIDE DEF changed
    <3>3. QED
      BY <1>1, <2>1, <3>1, <3>2
  <2>7. IsInOrder(old \o << o1 >>, Own(P, r))
    <3>1. /\ Len(old \o << o1 >>) = Len(old) + 1 /\ Len(old) \in Nat
          /\ (old \o << o1 >>)[Len(old) + 1] = o1
          /\ \A a \in 1 .. Len(old) : (old \o << o1 >>)[a] = old[a]
          /\ DOMAIN (old \o << o1 >>) = 1 .. (Len(old) + 1) /\ DOMAIN old = 1 .. Len(old)
      BY <1>2, <2>4
    <3>2. \A a \in 1 .. Len(old) : Before(old[a], o1)
      <4>1. \A a \in 1 .. Len(old) : old[a] \in Own(O, r)
        BY <2>4, <3>1 DEF IsInOrder, ToSet
      <4>2. \A o \in Own(O, r) : o[2] < p
        OBVIOUS
      <4>3. QED
        BY <1>2, <4>1, <4>2 DEF Before
    <3>3. ToSet(old \o << o1 >>) = Own(P, r)
      <4>1. ToSet(<< o1 >>) = {o1} /\ << o1 >> \in Seq(Occurrence)
        BY <1>2 DEF ToSet
      <4>2. ToSet(old \o << o1 >>) = ToSet(old) \cup ToSet(<< o1 >>)
        BY <2>4, <4>1, Concatenation
      <4>3. Own(P, r) = Own(O, r) \cup {o1}
        BY <1>2 DEF P
      <4>4. QED
        BY <2>4, <4>1, <4>2, <4>3 DEF IsInOrder
    <3>4. ASSUME NEW a \in 1 .. (Len(old) + 1), NEW b \in 1 .. (Len(old) + 1), a < b
          PROVE  Before((old \o << o1 >>)[a], (old \o << o1 >>)[b])
      <4>1. a \in 1 .. Len(old)
        BY <3>1, <3>4
      <4>2. CASE b \in 1 .. Len(old)
        <5>1. Before(old[a], old[b])
          BY <2>4, <3>1, <3>4, <4>1, <4>2 DEF IsInOrder
        <5>2. QED
          BY <3>1, <4>1, <4>2, <5>1
      <4>3. CASE b = Len(old) + 1
        BY <3>1, <3>2, <4>1, <4>3
      <4>4. Len(old) \in Nat
        BY <3>1
      <4>5. b \in 1 .. Len(old) \/ b = Len(old) + 1
        BY <3>4, <4>4
      <4>6. QED
        BY <4>2, <4>3, <4>5
    <3>5. QED
      BY <3>1, <3>3, <3>4 DEF IsInOrder
  <2>8. \A s \in DOMAIN new : new[s].retriever = signals[s].retriever
    BY <2>1, <2>3
  <2>9. \A s, t \in DOMAIN new : s # t => new[s].retriever # new[t].retriever
    BY <1>1, <2>3, <2>8
  <2>10. ASSUME NEW s \in DOMAIN new
         PROVE  IsInOrder(new[s].reasons, Own(P, new[s].retriever))
    <3> HIDE DEF Own
    <3>1. CASE s = i
      <4>1. new[i].retriever = r /\ new[i].reasons = old \o << o1 >>
        BY <2>3
      <4>2. QED
        BY <2>7, <3>1, <4>1
    <3>2. CASE s # i
      <4>1. new[s] = signals[s] /\ s \in DOMAIN signals /\ signals[s].retriever # r
        BY <1>1, <2>1, <2>3, <3>2
      <4>2. QED
        BY <1>1, <1>6, <4>1
    <3>3. QED
      BY <3>1, <3>2
  <2>11. \A o \in P : \E s \in DOMAIN new : o[1] = new[s].retriever
    BY <1>1, <1>2, <2>1, <2>3, <2>8 DEF P
  <2>12. QED
    BY <2>6, <2>9, <2>10, <2>11 DEF SignalsOf, new, P, o1
<1>8. CASE ~ \E s \in DOMAIN signals : signals[s].retriever = r
  <2>1. new = Append(signals, signal)
    BY <1>4, <1>5, <1>8 DEF new
  <2>2. /\ new \in Seq(Signal) /\ Len(signals) \in Nat
        /\ DOMAIN new = 1 .. (Len(signals) + 1) /\ DOMAIN signals = 1 .. Len(signals)
        /\ \A s \in DOMAIN signals : new[s] = signals[s]
        /\ new[Len(signals) + 1] = signal
    BY <1>1, <1>2, <2>1
  <2>3. \A s \in DOMAIN new :
          \/ s \in DOMAIN signals /\ new[s] = signals[s] /\ new[s].retriever # r
          \/ s = Len(signals) + 1 /\ s \notin DOMAIN signals /\ new[s] = signal
    BY <1>8, <2>2
  <2>4. signal.retriever = r /\ signal.reasons = << o1 >>
    BY DEF o1
  <2>5. \A s, t \in DOMAIN new : s # t => new[s].retriever # new[t].retriever
    BY <1>1, <2>3, <2>4
  <2>6. IsInOrder(<< o1 >>, Own(P, r))
    <3>1. Own(O, r) = {}
      BY <1>1, <1>8
    <3>2. Own(P, r) = {o1}
      BY <1>2, <3>1 DEF P
    <3>3. ToSet(<< o1 >>) = {o1} /\ DOMAIN << o1 >> = {1}
      BY DEF ToSet
    <3>4. QED
      BY <3>2, <3>3 DEF IsInOrder
  <2>7. ASSUME NEW s \in DOMAIN new
        PROVE  IsInOrder(new[s].reasons, Own(P, new[s].retriever))
    <3>1. CASE s \in DOMAIN signals /\ new[s] = signals[s] /\ new[s].retriever # r
      <4> HIDE DEF Own, new
      <4>1. IsInOrder(signals[s].reasons, Own(O, signals[s].retriever))
        BY <1>1, <3>1
      <4>2. Own(P, signals[s].retriever) = Own(O, signals[s].retriever)
        BY <1>6, <3>1
      <4>3. QED
        BY <3>1, <4>1, <4>2
    <3>2. QED
      BY <2>3, <2>4, <2>6, <3>1
  <2>8. \A o \in P : \E s \in DOMAIN new : o[1] = new[s].retriever
    <3>1. Len(signals) + 1 \in DOMAIN new
      BY <2>2
    <3>2. \A s \in DOMAIN signals : s \in DOMAIN new
      BY <2>2
    <3>3. QED
      BY <1>1, <1>2, <2>2, <2>4, <3>1, <3>2 DEF P
  <2>9. QED
    BY <2>2, <2>5, <2>7, <2>8 DEF SignalsOf, new, P, o1
<1>9. QED
  BY <1>7, <1>8

\* What a candidate that has met the occurrences O of its item holds.
Whole(c, O) ==
  /\ c \in Candidate
  /\ SignalsOf(c.retrieval_signals, O)
  /\ c.retriever = [s \in DOMAIN c.retrieval_signals |-> c.retrieval_signals[s].retriever]
  /\ ToSet(c.reasons) = O
  /\ IsInjective(c.reasons)
  /\ c.author = Unknown <=> \A o \in O : o[1] \notin Knows

\* Rebuilding the fields for old clients leaves the others alone.
LEMMA RebuiltIsWhole ==
  ASSUME NEW i \in Item, NEW a \in Retriever \cup {Unknown}, NEW names, NEW reasons,
         NEW signals, NEW O \in SUBSET Occurrence, SignalsOf(signals, O),
         a = Unknown <=> \A o \in O : o[1] \notin Knows,
         NEW c, c = [item |-> i, author |-> a, retriever |-> names, reasons |-> reasons,
                     retrieval_signals |-> signals]
  PROVE  Whole(RebuildLegacyCandidateFields(c), O) /\ RebuildLegacyCandidateFields(c).item = i
<1> DEFINE new == RebuildLegacyCandidateFields(c)
           N == [s \in DOMAIN signals |-> signals[s].retriever]
           R == new.reasons
<1>1. /\ c.retrieval_signals = signals /\ c = [x \in DOMAIN c |-> c[x]]
      /\ "retriever" \in DOMAIN c /\ "reasons" \in DOMAIN c
  OBVIOUS
<1>2. new = [item |-> i, author |-> a, retriever |-> new.retriever, reasons |-> new.reasons,
             retrieval_signals |-> signals]
  <2>1. \E x, y : new = [c EXCEPT !.retriever = x, !.reasons = y]
    BY Zenon DEF RebuildLegacyCandidateFields
  <2> HIDE DEF new
  <2>2. PICK x, y : new = [c EXCEPT !.retriever = x, !.reasons = y]
    BY <2>1
  <2>3. QED
    BY <2>2
<1>3. DistinctSignals(signals)
  BY SignalsAreDistinct
<1>4. new.retriever = N
  BY <1>1, <1>3, RebuiltNames
<1>5. /\ R \in Seq(Occurrence) /\ IsInjective(R)
      /\ \A o : o \in ToSet(R) <=> \E s \in DOMAIN signals : o \in ToSet(signals[s].reasons)
  BY <1>1, <1>3, RebuiltReasons
<1> HIDE DEF new
<1>6. /\ new.item = i /\ new.author = a /\ new.retriever = N /\ new.reasons = R
      /\ new.retrieval_signals = signals
  BY <1>2, <1>4
<1>7. signals \in Seq(Signal)
  BY DEF SignalsOf
<1>8. N \in Seq(Retriever)
  <2>1. \A s \in DOMAIN signals : signals[s] \in Signal
    BY <1>7
  <2>2. \A s \in DOMAIN signals : signals[s].retriever \in Retriever
    BY <2>1 DEF Signal
  <2>3. DOMAIN signals = 1 .. Len(signals) /\ Len(signals) \in Nat
    BY <1>7
  <2>4. QED
    BY <2>2, <2>3
<1>9. new \in Candidate
  BY <1>2, <1>4, <1>5, <1>7, <1>8 DEF Candidate
<1>10. ToSet(R) = O
  <2>1. \A s \in DOMAIN signals :
          ToSet(signals[s].reasons) = {o \in O : o[1] = signals[s].retriever}
    BY DEF SignalsOf, IsInOrder
  <2>2. \A o \in O : \E s \in DOMAIN signals : o[1] = signals[s].retriever
    BY DEF SignalsOf
  <2>3. ASSUME NEW o \in ToSet(R) PROVE o \in O
    <3>1. PICK s \in DOMAIN signals : o \in ToSet(signals[s].reasons)
      BY <1>5
    <3>2. QED
      BY <2>1, <3>1
  <2>4. ASSUME NEW o \in O PROVE o \in ToSet(R)
    <3>1. PICK s \in DOMAIN signals : o[1] = signals[s].retriever
      BY <2>2
    <3>2. o \in ToSet(signals[s].reasons)
      BY <2>1, <3>1
    <3>3. QED
      BY <1>5, <3>2
  <2>5. QED
    BY <2>3, <2>4
<1>11. QED
  BY <1>5, <1>6, <1>9, <1>10 DEF Whole, new

\* A candidate that is received becomes whole when it is normalised ...
LEMMA NormalizedIsWhole ==
  ASSUME NEW r \in Retriever, NEW p \in Nat \ {0}, Received(r, p).item \in Item
  PROVE  /\ Whole(NormalizeCandidate(Received(r, p)), {<<r, p>>})
         /\ NormalizeCandidate(Received(r, p)).item = Received(r, p).item
<1> DEFINE o1 == <<r, p>>
           c == Received(r, p)
           signals == <<[retriever |-> r, reasons |-> << o1 >>]>>
<1>1. EnsureRetrievalSignals(c) =
        [item |-> c.item, author |-> c.author, retriever |-> c.retriever,
         reasons |-> c.reasons, retrieval_signals |-> signals]
  BY DEF EnsureRetrievalSignals, Received
<1>2. o1 \in Occurrence /\ o1[1] = r
  BY DEF Occurrence
<1>3. SignalsOf(signals, {o1})
  <2>1. signals \in Seq(Signal)
    BY <1>2 DEF Signal
  <2>2. DOMAIN signals = {1} /\ signals[1].retriever = r /\ signals[1].reasons = << o1 >>
    OBVIOUS
  <2>3. IsInOrder(<< o1 >>, {o1})
    BY DEF IsInOrder, ToSet
  <2>4. {o \in {o1} : o[1] = r} = {o1}
    BY <1>2
  <2> HIDE DEF signals, o1
  <2>5. QED
    BY <1>2, <2>1, <2>2, <2>3, <2>4 DEF SignalsOf
<1>4. /\ c.author \in Retriever \cup {Unknown}
      /\ c.author = Unknown <=> \A o \in {o1} : o[1] \notin Knows
  BY <1>2, OrchestratorAssumption DEF Received
<1>5. {o1} \in SUBSET Occurrence
  BY <1>2
<1>6. c.item \in Item
  OBVIOUS
<1>7. PICK ensured : ensured = EnsureRetrievalSignals(c)
  OBVIOUS
<1> HIDE DEF signals, o1, c
<1>8. ensured = [item |-> c.item, author |-> c.author, retriever |-> c.retriever,
                 reasons |-> c.reasons, retrieval_signals |-> signals]
  BY <1>1, <1>7
<1>9. /\ Whole(RebuildLegacyCandidateFields(ensured), {o1})
      /\ RebuildLegacyCandidateFields(ensured).item = c.item
  BY <1>3, <1>4, <1>5, <1>6, <1>8, RebuiltIsWhole
<1>10. NormalizeCandidate(c) = RebuildLegacyCandidateFields(ensured)
  BY <1>7 DEF NormalizeCandidate
<1>11. QED
  BY <1>9, <1>10 DEF c, o1

\* ... or when it is merged into one that is.
LEMMA MergedIsWhole ==
  ASSUME NEW r \in Retriever, NEW p \in Nat \ {0}, Received(r, p).item \in Item,
         NEW O \in SUBSET Occurrence, \A o \in O : o[1] = r => o[2] < p,
         NEW target, Whole(target, O)
  PROVE  /\ Whole(MergeCandidate(Received(r, p), target), O \cup {<<r, p>>})
         /\ MergeCandidate(Received(r, p), target).item = target.item
<1> DEFINE c == Received(r, p)
           signal == [retriever |-> r, reasons |-> << <<r, p>> >>]
           source_signals == NormalizeCandidate(c).retrieval_signals
           author == IF target.author = Unknown THEN c.author ELSE target.author
           merged == FoldLeft(MergeRetrievalSignal, target.retrieval_signals, source_signals)
<1>1. source_signals = << signal >>
  <2>1. EnsureRetrievalSignals(c).retrieval_signals = << signal >>
    BY DEF EnsureRetrievalSignals, Received
  <2>2. QED
    BY <2>1 DEF NormalizeCandidate, RebuildLegacyCandidateFields, FoldLeft, MapThenFoldSet
<1>2. merged = MergeRetrievalSignal(target.retrieval_signals, signal)
  <2> DEFINE base == target.retrieval_signals
             one == MergeRetrievalSignal(base, signal)
             iter == CHOOSE f : f = [t \in SUBSET DOMAIN source_signals |->
                       IF t = {} THEN base
                       ELSE MergeRetrievalSignal(f[t \ {Max(t)}], source_signals[Max(t)])]
  <2>1. merged = iter[DOMAIN source_signals]
    BY DEF FoldLeft, MapThenFoldSet
  <2> HIDE DEF source_signals, signal
  <2>2. DOMAIN source_signals = {1} /\ source_signals[1] = signal
    BY <1>1
  <2>3. SUBSET {1} = {{}, {1}} /\ {1} \ {1} = {} /\ {1} # {}
    OBVIOUS
  <2>4. Max({1}) = 1
    <3>1. {1} \in SUBSET (1 .. 1)
      OBVIOUS
    <3>2. Max({1}) \in {1}
      BY <2>3, <3>1, MaxIsIn
    <3>3. QED
      BY <3>2
  <2> DEFINE f == [t \in SUBSET {1} |-> IF t = {} THEN base ELSE one]
  <2> HIDE DEF one
  <2>5. f[{}] = base /\ f[{1}] = one
    BY <2>3
  <2>6. \A t \in SUBSET {1} : t # {} =>
          f[t] = MergeRetrievalSignal(f[t \ {Max(t)}], source_signals[Max(t)])
    <3> HIDE DEF f, base
    <3>1. \A t \in SUBSET {1} : t # {} => t = {1}
      OBVIOUS
    <3>2. f[{1}] = MergeRetrievalSignal(f[{1} \ {Max({1})}], source_signals[Max({1})])
      BY <2>2, <2>3, <2>4, <2>5 DEF one
    <3>3. QED
      BY <3>1, <3>2
  <2>7. f = [t \in SUBSET DOMAIN source_signals |->
               IF t = {} THEN base
               ELSE MergeRetrievalSignal(f[t \ {Max(t)}], source_signals[Max(t)])]
    BY <2>2, <2>6
  <2>8. iter = [t \in SUBSET DOMAIN source_signals |->
                  IF t = {} THEN base
                  ELSE MergeRetrievalSignal(iter[t \ {Max(t)}], source_signals[Max(t)])]
    <3> HIDE DEF f
    <3>1. QED
      BY <2>7
  <2> HIDE DEF iter, base
  <2>9. iter[{}] = base /\ iter[{1}] = MergeRetrievalSignal(iter[{}], signal)
    BY <2>2, <2>3, <2>4, <2>8
  <2>10. QED
    BY <2>1, <2>2, <2>9 DEF base
<1>3. SignalsOf(merged, O \cup {<<r, p>>})
  BY <1>2, MergeSignalKeeps DEF Whole
<1> DEFINE next_target == [item |-> target.item, author |-> author, retriever |-> target.retriever,
                           reasons |-> target.reasons, retrieval_signals |-> merged]
<1>4. MergeCandidate(c, target) = RebuildLegacyCandidateFields(next_target)
  <2>1. target \in Candidate
    BY DEF Whole
  <2>2. target = [item |-> target.item, author |-> target.author,
                  retriever |-> target.retriever, reasons |-> target.reasons,
                  retrieval_signals |-> target.retrieval_signals]
    BY <2>1 DEF Candidate
  <2>3. ASSUME NEW x, NEW y, NEW z, z = [target EXCEPT !.author = x, !.retrieval_signals = y]
        PROVE  z = [item |-> target.item, author |-> x, retriever |-> target.retriever,
                    reasons |-> target.reasons, retrieval_signals |-> y]
    BY <2>2, <2>3
  <2>4. MergeCandidate(c, target) =
          RebuildLegacyCandidateFields(
            [target EXCEPT !.author = author, !.retrieval_signals = merged])
    BY Zenon DEF MergeCandidate
  <2> HIDE DEF merged, author
  <2>5. QED
    BY <2>3, <2>4
<1>5. /\ target.item \in Item /\ author \in Retriever \cup {Unknown}
      /\ author = Unknown <=> \A o \in O \cup {<<r, p>>} : o[1] \notin Knows
  <2>1. /\ target.item \in Item /\ target.author \in Retriever \cup {Unknown}
        /\ target.author = Unknown <=> \A o \in O : o[1] \notin Knows
    BY DEF Whole, Candidate
  <2>2. /\ c.author \in Retriever \cup {Unknown}
        /\ c.author = Unknown <=> r \notin Knows
    BY OrchestratorAssumption DEF Received
  <2>3. (\A o \in O \cup {<<r, p>>} : o[1] \notin Knows) <=>
          ((\A o \in O : o[1] \notin Knows) /\ r \notin Knows)
    <3>1. <<r, p>>[1] = r
      OBVIOUS
    <3> DEFINE o1 == <<r, p>>
    <3> HIDE DEF o1
    <3>2. QED
      BY <3>1 DEF o1
  <2> HIDE DEF c
  <2>4. CASE target.author = Unknown
    BY <2>1, <2>2, <2>3, <2>4
  <2>5. CASE target.author # Unknown
    BY <2>1, <2>2, <2>3, <2>5
  <2>6. QED
    BY <2>4, <2>5
<1>6. O \cup {<<r, p>>} \in SUBSET Occurrence
  BY DEF Occurrence
<1>7. PICK P : P = O \cup {<<r, p>>}
  OBVIOUS
<1>8. PICK next_c : next_c = next_target
  OBVIOUS
<1> HIDE DEF merged, author, c
<1>9. /\ Whole(RebuildLegacyCandidateFields(next_c), P)
      /\ RebuildLegacyCandidateFields(next_c).item = target.item
  <2>1. /\ P \in SUBSET Occurrence /\ SignalsOf(merged, P)
        /\ author = Unknown <=> \A o \in P : o[1] \notin Knows
    BY <1>3, <1>5, <1>6, <1>7
  <2>2. next_c = [item |-> target.item, author |-> author, retriever |-> target.retriever,
                  reasons |-> target.reasons, retrieval_signals |-> merged]
    BY <1>8
  <2>3. target.item \in Item /\ author \in Retriever \cup {Unknown}
    BY <1>5
  <2> HIDE DEF next_target
  <2>4. QED
    BY <2>1, <2>2, <2>3, RebuiltIsWhole
<1>10. QED
  BY <1>4, <1>7, <1>8, <1>9 DEF c

\* The occurrences of an item that have been taken.
MetOf(i) == {o \in Occurrences(i) : o[2] <= next[o[1]]}

\* The retrievers are called in their order, and those that succeeded answer.
Calls ==
  /\ called \in 0 .. Len(Stubs)
  /\ responses \in Seq(Retriever)
  /\ Len(responses) <= called
  /\ \A k \in DOMAIN responses : Order(responses[k]) <= called
  /\ \A j, k \in DOMAIN responses : j < k => Order(responses[j]) < Order(responses[k])
  /\ reply = [r \in Retriever |-> reply[r]]
  /\ \A r \in Retriever : reply[r] # Failed <=> r \in ToSet(responses)
  /\ \A r \in Retriever : reply[r] = Failed \/ reply[r] \in Seq(Item \cup {NoItem})

Scalars ==
  /\ pc \in {"idle", "dispatch", "merge"}
  /\ max \in Int
  /\ asked \in Int
  /\ advanced \in BOOLEAN
  /\ status \in Status
  /\ next \in [Retriever -> Nat]
  /\ turn \in 1 .. (Len(responses) + 1)

\* Nothing has been taken.
Blank ==
  /\ next = [r \in Retriever |-> 0]
  /\ turn = 1
  /\ advanced = FALSE
  /\ candidates = <<>>
  /\ index = [i \in {} |-> 0]

\* In round m + 1 the responses before the turn have been taken up to m + 1, the
\* others up to m, as far as they go; only a round that found them all at their
\* end has not advanced.
Round(m) ==
  /\ \A k \in DOMAIN responses :
       next[responses[k]] =
         Smaller(Len(reply[responses[k]]), IF k < turn THEN m + 1 ELSE m)
  /\ ~advanced => \A k \in DOMAIN responses : k < turn => Len(reply[responses[k]]) <= m

Rounds ==
  /\ pc = "dispatch" => Blank
  /\ pc = "merge" => \E m \in Nat : Round(m)
  /\ Done /\ status = "success" =>
       \A r \in Retriever : reply[r] # Failed => next[r] = Len(reply[r])

\* The index and the candidates agree, and each candidate is what its item has met.
Built ==
  /\ candidates \in Seq(Candidate)
  /\ Len(candidates) <= Larger(0, max)
  /\ DOMAIN index \subseteq Item
  /\ \A n \in DOMAIN candidates :
       /\ candidates[n].item \in DOMAIN index
       /\ index[candidates[n].item] = n
       /\ Whole(candidates[n], MetOf(candidates[n].item))
       /\ MetOf(candidates[n].item) # {}
  /\ \A i \in DOMAIN index :
       index[i] \in DOMAIN candidates /\ candidates[index[i]].item = i

\* Candidates are in the order in which their items are met, and before every item
\* that was met when there was no room for it.
Ordered ==
  /\ \A m, n \in DOMAIN candidates :
       m < n => MetBefore(candidates[m].item, candidates[n].item)
  /\ \A i \in Item \ DOMAIN index :
       MetOf(i) # {} =>
         /\ Len(candidates) = Larger(0, max)
         /\ \A n \in DOMAIN candidates : MetBefore(candidates[n].item, i)

OInv == Calls /\ Scalars /\ Rounds /\ Built /\ Ordered

LEMMA OccurrenceIs ==
  ASSUME Calls, NEW i, NEW o
  PROVE  o \in Occurrences(i) <=>
           /\ o = <<o[1], o[2]>>
           /\ o[1] \in Retriever /\ reply[o[1]] # Failed
           /\ o[2] \in 1 .. Len(reply[o[1]]) /\ reply[o[1]][o[2]] = i
<1>1. o \in Occurrences(i) <=>
        \E r \in Retriever : reply[r] # Failed /\ \E p \in DOMAIN reply[r] :
          o = <<r, p>> /\ reply[r][p] = i
  BY DEF Occurrences
<1>2. \A r \in Retriever : reply[r] # Failed => DOMAIN reply[r] = 1 .. Len(reply[r])
  BY DEF Calls
<1>3. QED
  BY <1>1, <1>2

LEMMA OccurrencesAreTyped ==
  ASSUME Calls, NEW i
  PROVE  Occurrences(i) \subseteq Occurrence
<1>1. \A r \in Retriever : reply[r] # Failed => Len(reply[r]) \in Nat
  BY DEF Calls
<1>2. ASSUME NEW o \in Occurrences(i) PROVE o \in Occurrence
  BY <1>1, OccurrenceIs DEF Occurrence
<1>3. QED
  BY <1>2

LEMMA BlankIsBuilt ==
  ASSUME Calls, Scalars, Blank
  PROVE  Built /\ Ordered
<1>1. ASSUME NEW i PROVE MetOf(i) = {}
  <2> SUFFICES ASSUME NEW o \in Occurrences(i), o[2] <= next[o[1]] PROVE FALSE
    BY DEF MetOf
  <2>1. o[1] \in Retriever /\ reply[o[1]] # Failed /\ o[2] \in 1 .. Len(reply[o[1]])
    BY OccurrenceIs
  <2>2. next[o[1]] = 0
    BY <2>1 DEF Blank
  <2>3. QED
    BY <2>1, <2>2
<1>2. /\ candidates = <<>> /\ DOMAIN candidates = {} /\ Len(candidates) = 0
      /\ DOMAIN index = {} /\ candidates \in Seq(Candidate)
  BY DEF Blank
<1>3. 0 <= Larger(0, max)
  BY DEF Scalars, Larger
<1>4. QED
  BY <1>1, <1>2, <1>3 DEF Built, Ordered

\* What has been taken is met before what has not.
LEMMA Frontier ==
  ASSUME Calls, Scalars, NEW m \in Nat, Round(m), NEW i, NEW j,
         NEW o \in Occurrences(i), o[2] <= next[o[1]],
         NEW p \in Occurrences(j), next[p[1]] < p[2]
  PROVE  Before(o, p)
<1>1. /\ o[1] \in Retriever /\ reply[o[1]] # Failed /\ o[2] \in 1 .. Len(reply[o[1]])
      /\ p[1] \in Retriever /\ reply[p[1]] # Failed /\ p[2] \in 1 .. Len(reply[p[1]])
  BY OccurrenceIs
<1>2. PICK a \in DOMAIN responses, b \in DOMAIN responses :
        o[1] = responses[a] /\ p[1] = responses[b]
  BY <1>1 DEF Calls, ToSet
<1>3. /\ next[o[1]] = Smaller(Len(reply[o[1]]), IF a < turn THEN m + 1 ELSE m)
      /\ next[p[1]] = Smaller(Len(reply[p[1]]), IF b < turn THEN m + 1 ELSE m)
  BY <1>2 DEF Round
<1>4. a \in Int /\ b \in Int /\ turn \in Int
  BY DEF Calls, Scalars
<1>5. Len(reply[o[1]]) \in Nat /\ Len(reply[p[1]]) \in Nat
  BY <1>1 DEF Calls
<1>6. o[2] \in Int /\ p[2] \in Int
  BY <1>1
<1>7. o[2] <= IF a < turn THEN m + 1 ELSE m
  BY <1>3, <1>4, <1>5, <1>6 DEF Smaller
<1>8. p[2] > IF b < turn THEN m + 1 ELSE m
  BY <1>1, <1>3, <1>4, <1>5, <1>6 DEF Smaller
<1>9. o[2] < p[2] \/ (o[2] = p[2] /\ a < b)
  BY <1>4, <1>6, <1>7, <1>8
<1>10. a < b => Order(o[1]) < Order(p[1])
  BY <1>2 DEF Calls
<1>11. QED
  BY <1>9, <1>10 DEF Before

LEMMA RetrieveStartsBlank ==
  ASSUME Calls, Scalars, NEW n \in Requested, NEW valid \in BOOLEAN, Retrieve(n, valid)
  PROVE  Calls' /\ Scalars' /\ Rounds' /\ Blank'
<1>1. n \in Int /\ n <= MaxInt /\ Len(Stubs) \in Nat
  BY OrchestratorAssumption
<1>2. /\ pc = "idle" /\ called' = 0 /\ reply' = [r \in Retriever |-> Failed]
      /\ responses' = <<>> /\ max' = n /\ Blank'
  BY DEF Retrieve, Fresh, Blank
<1>3. Calls'
  <2>1. DOMAIN responses' = {} /\ responses' \in Seq(Retriever) /\ Len(responses') = 0
    BY <1>2
  <2>2. ToSet(responses') = {}
    BY <2>1 DEF ToSet
  <2>3. QED
    BY <1>1, <1>2, <2>1, <2>2 DEF Calls
<1>4. asked' \in Int
  <2>1. CASE ~valid
    BY <2>1 DEF Retrieve, Scalars
  <2>2. CASE valid
    <3>1. asked' \in ComputeRetrieverMaxCandidateCount(n)
      BY <2>2 DEF Retrieve
    <3>2. CASE n <= 0
      BY <1>1, <3>1, <3>2 DEF ComputeRetrieverMaxCandidateCount
    <3>3. CASE n > 0
      <4>1. asked' \in n .. MaxInt
        BY <1>1, <3>1, <3>3, AskedEnough
      <4>2. QED
        BY <1>1, <4>1
    <3>4. QED
      BY <1>1, <3>2, <3>3
  <2>3. QED
    BY <2>1, <2>2
<1>5. Scalars'
  <2>1. pc' \in {"idle", "dispatch"} /\ status' \in Status
    BY DEF Retrieve, Status
  <2>2. /\ next' \in [Retriever -> Nat] /\ turn' = 1 /\ advanced' \in BOOLEAN
        /\ Len(responses') = 0
    BY <1>2 DEF Blank
  <2>3. QED
    BY <1>1, <1>2, <1>4, <2>1, <2>2 DEF Scalars
<1>6. Rounds'
  <2>1. pc' = "dispatch" \/ (pc' = "idle" /\ status' = "invalid_request")
    BY <1>2 DEF Retrieve
  <2>2. QED
    BY <1>2, <2>1 DEF Rounds, Done
<1>7. QED
  BY <1>2, <1>3, <1>5, <1>6

LEMMA ReplyStaysBlank ==
  ASSUME Calls, Scalars, Rounds, Reply
  PROVE  Calls' /\ Scalars' /\ Rounds' /\ Blank'
<1>1. /\ pc = "dispatch" /\ called < Len(Stubs) /\ called' = called + 1
      /\ UNCHANGED <<pc, max, asked, merge, status>>
  BY DEF Reply, Accepted, NotAccepted
<1>2. Blank
  BY <1>1 DEF Rounds
<1>3. Blank' /\ Rounds'
  BY <1>1, <1>2 DEF Blank, Rounds, Done, merge
<1>4. Len(Stubs) \in Nat /\ called \in Nat /\ called' \in 0 .. Len(Stubs)
      /\ called' \in 1 .. Len(Stubs)
  BY <1>1, OrchestratorAssumption DEF Calls
<1>5. CASE NotAccepted
  <2>1. reply' = reply /\ responses' = responses
    BY <1>5 DEF NotAccepted
  <2>2. \A r \in Retriever : Order(r) \in Int
    BY OrderIsPosition
  <2>3. \A k \in DOMAIN responses : responses[k] \in Retriever
    BY DEF Calls
  <2>4. Calls'
    BY <1>1, <1>4, <2>1, <2>2, <2>3 DEF Calls
  <2>5. Scalars'
    BY <1>1, <2>1 DEF Scalars, merge
  <2>6. QED
    BY <1>3, <2>4, <2>5
<1>6. ASSUME NEW items \in Replies, Accepted(items)
      PROVE  Calls' /\ Scalars'
  <2> DEFINE r == Stubs[called']
             K == Len(responses)
  <2>1. r \in Retriever /\ Order(r) = called'
    BY <1>4, OrderOfStub
  <2>2. reply' = [reply EXCEPT ![r] = items] /\ responses' = Append(responses, r)
    BY <1>1, <1>6 DEF Accepted
  <2> HIDE DEF r
  <2>3. items \in Seq(Item \cup {NoItem}) /\ items # Failed
    BY OrchestratorAssumption
  <2>4. /\ responses \in Seq(Retriever) /\ K \in Nat /\ DOMAIN responses = 1 .. K
        /\ \A k \in DOMAIN responses : responses[k] \in Retriever /\ Order(responses[k]) \in Int
    <3>1. responses \in Seq(Retriever)
      BY DEF Calls
    <3>2. QED
      BY <3>1, OrderIsPosition
  <2>5. /\ responses' \in Seq(Retriever) /\ Len(responses') = K + 1
        /\ DOMAIN responses' = 1 .. (K + 1)
        /\ \A k \in 1 .. K : responses'[k] = responses[k]
        /\ responses'[K + 1] = r
    BY <2>1, <2>2, <2>4
  <2>6. \A k \in DOMAIN responses' :
          \/ k \in DOMAIN responses /\ k < K + 1 /\ responses'[k] = responses[k]
          \/ k = K + 1 /\ responses'[k] = r
    BY <2>4, <2>5
  <2>7. \A k \in DOMAIN responses : Order(responses[k]) <= called
    BY DEF Calls
  <2>8. \A k \in DOMAIN responses' : Order(responses'[k]) <= called'
    BY <1>1, <1>4, <2>1, <2>4, <2>6, <2>7
  <2>9. ASSUME NEW j \in DOMAIN responses', NEW k \in DOMAIN responses', j < k
        PROVE  Order(responses'[j]) < Order(responses'[k])
    <3>1. j \in DOMAIN responses /\ responses'[j] = responses[j]
      BY <2>4, <2>5, <2>6, <2>9
    <3>2. CASE k \in DOMAIN responses /\ responses'[k] = responses[k]
      BY <2>9, <3>1, <3>2 DEF Calls
    <3>3. CASE responses'[k] = r
      BY <1>1, <1>4, <2>1, <2>4, <2>7, <3>1, <3>3
    <3>4. QED
      BY <2>6, <3>2, <3>3
  <2>10. ToSet(responses') = ToSet(responses) \cup {r}
    <3>1. \A k \in DOMAIN responses : k \in DOMAIN responses'
      BY <2>4, <2>5
    <3>2. K + 1 \in DOMAIN responses'
      BY <2>4, <2>5
    <3>3. QED
      BY <2>4, <2>5, <2>6, <3>1, <3>2 DEF ToSet
  <2>11. /\ reply' = [q \in Retriever |-> reply'[q]] /\ reply'[r] = items
         /\ \A q \in Retriever : q # r => reply'[q] = reply[q]
    BY <2>1, <2>2 DEF Calls
  <2>12. \A q \in Retriever : reply'[q] # Failed <=> q \in ToSet(responses')
    BY <2>3, <2>10, <2>11 DEF Calls
  <2>13. \A q \in Retriever : reply'[q] = Failed \/ reply'[q] \in Seq(Item \cup {NoItem})
    BY <2>3, <2>11 DEF Calls
  <2>14. Len(responses') <= called'
    BY <1>1, <1>4, <2>4, <2>5 DEF Calls
  <2>15. Calls'
    BY <1>4, <2>5, <2>8, <2>9, <2>11, <2>12, <2>13, <2>14 DEF Calls
  <2>16. Scalars'
    BY <1>1, <1>2, <2>4, <2>5 DEF Scalars, merge, Blank
  <2>17. QED
    BY <2>15, <2>16
<1>7. QED
  BY <1>3, <1>5, <1>6 DEF Reply

\* A step that leaves the replies alone changes no occurrence.
LEMMA SameReplies ==
  ASSUME reply' = reply
  PROVE  /\ \A i : Occurrences(i)' = Occurrences(i)
         /\ \A i, j : MetBefore(i, j)' = MetBefore(i, j)
<1>1. \A i : Occurrences(i)' = Occurrences(i)
  BY DEF Occurrences
<1>2. QED
  BY <1>1 DEF MetBefore, Before

\* The state of a turn that takes occurrence <<r, p>> of item i.
Takes(r, p, i, m) ==
  /\ pc = "merge" /\ m \in Nat /\ Round(m)
  /\ turn \in DOMAIN responses
  /\ r = responses[turn] /\ r \in Retriever /\ reply[r] # Failed
  /\ Len(reply[r]) \in Nat
  /\ p = next[r] + 1 /\ p \in 1 .. Len(reply[r])
  /\ i = reply[r][p] /\ i \in Item \cup {NoItem}
  /\ next' = [next EXCEPT ![r] = p]
  /\ turn' = turn + 1
  /\ advanced' = TRUE
  /\ UNCHANGED <<pc, dispatch, status>>

LEMMA TurnTakes ==
  ASSUME Calls, Scalars, Rounds, Turn
  PROVE  \E r, p, i, m :
           /\ Takes(r, p, i, m)
           /\ LET c == Received(r, p) IN
              \/ c.item = NoItem /\ UNCHANGED <<candidates, index>>
              \/ MergeInto(c)
              \/ AddNew(c)
<1> DEFINE r == responses[turn]
           p == next[r] + 1
           i == reply[r][p]
<1>1. /\ pc = "merge" /\ turn <= Len(responses) /\ next[r] < Len(reply[r])
      /\ next' = [next EXCEPT ![r] = @ + 1]
      /\ advanced' = TRUE /\ turn' = turn + 1
      /\ UNCHANGED <<pc, dispatch, status>>
  BY DEF Turn, Source
<1>2. PICK m \in Nat : Round(m)
  BY <1>1 DEF Rounds
<1>3. turn \in DOMAIN responses /\ r \in Retriever
  <2>1. responses \in Seq(Retriever) /\ turn \in 1 .. Len(responses)
    BY <1>1 DEF Calls, Scalars
  <2>2. QED
    BY <2>1
<1>4. reply[r] # Failed /\ reply[r] \in Seq(Item \cup {NoItem})
  BY <1>3 DEF Calls, ToSet
<1>5. next \in [Retriever -> Nat] /\ next[r] \in Nat
  BY <1>3 DEF Scalars
<1>6. next' = [next EXCEPT ![r] = p] /\ next'[r] = p
  BY <1>1, <1>3, <1>5
<1>7. Len(reply[r]) \in Nat /\ p \in 1 .. Len(reply[r])
  BY <1>1, <1>4, <1>5
<1>8. i \in Item \cup {NoItem}
  BY <1>4, <1>7
<1>9. LET c == Received(r, p) IN
      \/ c.item = NoItem /\ UNCHANGED <<candidates, index>>
      \/ MergeInto(c)
      \/ AddNew(c)
  BY <1>6 DEF Turn, Source
<1> HIDE DEF r, p, i
<1>10. Takes(r, p, i, m)
  BY <1>1, <1>2, <1>3, <1>4, <1>5, <1>6, <1>7, <1>8 DEF Takes, r, p, i
<1>11. QED
  BY <1>9, <1>10

LEMMA TakesFacts ==
  ASSUME Calls, Scalars, NEW r, NEW p, NEW i, NEW m, Takes(r, p, i, m)
  PROVE  /\ Calls' /\ Scalars' /\ Rounds'
         /\ \A j, k : MetBefore(j, k)' = MetBefore(j, k)
         /\ \A j : MetOf(j)' = IF j = i THEN MetOf(j) \cup {<<r, p>>} ELSE MetOf(j)
         /\ \A j : \A o \in MetOf(j) : o[1] = r => o[2] < p
<1>1. /\ pc = "merge" /\ m \in Nat /\ Round(m)
      /\ turn \in DOMAIN responses
      /\ r = responses[turn] /\ r \in Retriever /\ reply[r] # Failed
      /\ Len(reply[r]) \in Nat
      /\ p = next[r] + 1 /\ p \in 1 .. Len(reply[r])
      /\ i = reply[r][p] /\ i \in Item \cup {NoItem}
      /\ next' = [next EXCEPT ![r] = p]
      /\ turn' = turn + 1 /\ advanced' = TRUE /\ pc' = pc /\ status' = status
      /\ max' = max /\ asked' = asked /\ called' = called
      /\ reply' = reply /\ responses' = responses
  BY DEF Takes, dispatch
<1>2. next \in [Retriever -> Nat] /\ next[r] \in Nat /\ p \in Nat
  BY <1>1 DEF Scalars
<1>3. next' \in [Retriever -> Nat] /\ next'[r] = p
      /\ \A q \in Retriever : q # r => next'[q] = next[q]
  BY <1>1, <1>2
<1>4. Calls'
  BY <1>1 DEF Calls
<1>5. DOMAIN responses = 1 .. Len(responses) /\ Len(responses) \in Nat
      /\ \A k \in DOMAIN responses : responses[k] \in Retriever
  BY DEF Calls
<1>6. Scalars'
  BY <1>1, <1>3, <1>5 DEF Scalars
<1>7. Rounds'
  <2>1. ASSUME NEW k \in DOMAIN responses
        PROVE  next'[responses[k]] =
                 Smaller(Len(reply[responses[k]]), IF k < turn' THEN m + 1 ELSE m)
    <3>1. next[responses[k]] =
            Smaller(Len(reply[responses[k]]), IF k < turn THEN m + 1 ELSE m)
      BY <1>1 DEF Round
    <3>2. CASE k = turn
      <4>1. next[r] = Smaller(Len(reply[r]), m)
        BY <1>1, <1>5, <3>1, <3>2
      <4>2. p = Smaller(Len(reply[r]), m + 1)
        BY <1>1, <1>2, <4>1 DEF Smaller
      <4>3. QED
        BY <1>1, <1>3, <1>5, <3>2, <4>2
    <3>3. CASE k # turn
      <4>1. responses[k] # r
        <5>1. Order(responses[k]) # Order(responses[turn])
          <6>1. k < turn \/ turn < k
            BY <1>1, <1>5, <3>3
          <6>2. Order(responses[k]) \in Int /\ Order(responses[turn]) \in Int
            BY <1>1, <1>5, OrderIsPosition
          <6>3. QED
            BY <1>1, <6>1, <6>2 DEF Calls
        <5>2. QED
          BY <1>1, <5>1
      <4>2. next'[responses[k]] = next[responses[k]]
        BY <1>3, <1>5, <4>1
      <4>3. k < turn' <=> k < turn
        BY <1>1, <1>5, <3>3
      <4>4. QED
        BY <3>1, <4>2, <4>3
    <3>4. QED
      BY <3>2, <3>3
  <2>2. Round(m)'
    BY <1>1, <2>1 DEF Round
  <2>3. QED
    BY <1>1, <2>2 DEF Rounds, Done
<1>8. \A j, k : MetBefore(j, k)' = MetBefore(j, k)
  BY <1>1, SameReplies
<1>9. ASSUME NEW j
      PROVE  /\ MetOf(j)' = IF j = i THEN MetOf(j) \cup {<<r, p>>} ELSE MetOf(j)
             /\ \A o \in MetOf(j) : o[1] = r => o[2] < p
  <2>1. MetOf(j)' = {o \in Occurrences(j) : o[2] <= next'[o[1]]}
    BY <1>1, SameReplies DEF MetOf
  <2>2. \A o \in Occurrences(j) :
          o[2] <= next'[o[1]] <=> (o[2] <= next[o[1]] \/ o = <<r, p>>)
    <3> SUFFICES ASSUME NEW o \in Occurrences(j)
                 PROVE  o[2] <= next'[o[1]] <=> (o[2] <= next[o[1]] \/ o = <<r, p>>)
      OBVIOUS
    <3>1. o = <<o[1], o[2]>> /\ o[1] \in Retriever /\ o[2] \in Nat
      <4>1. o = <<o[1], o[2]>> /\ o[1] \in Retriever /\ o[2] \in 1 .. Len(reply[o[1]])
        BY OccurrenceIs
      <4>2. QED
        BY <4>1
    <3>2. CASE o[1] # r
      <4>1. next'[o[1]] = next[o[1]] /\ o # <<r, p>>
        BY <1>3, <3>1, <3>2
      <4>2. QED
        BY <4>1
    <3>3. CASE o[1] = r
      <4>1. o = <<r, p>> <=> o[2] = p
        BY <3>1, <3>3
      <4>2. QED
        BY <1>1, <1>2, <1>3, <3>1, <3>3, <4>1
    <3>4. QED
      BY <3>2, <3>3
  <2>3. <<r, p>> \in Occurrences(j) <=> j = i
    <3> DEFINE o == <<r, p>>
    <3>1. o[1] = r /\ o[2] = p /\ o = <<o[1], o[2]>>
      OBVIOUS
    <3> HIDE DEF o
    <3>2. QED
      BY <1>1, <3>1, OccurrenceIs DEF o
  <2>4. \A o \in MetOf(j) : o[1] = r => o[2] < p
    <3>1. \A o \in MetOf(j) : o[2] <= next[o[1]] /\ o[2] \in Int
      <4>1. \A o \in Occurrences(j) : o[2] \in 1 .. Len(reply[o[1]])
        BY OccurrenceIs
      <4>2. QED
        BY <4>1 DEF MetOf
    <3>2. QED
      BY <1>1, <1>2, <3>1
  <2>5. CASE j = i
    BY <2>1, <2>2, <2>3, <2>4, <2>5 DEF MetOf
  <2>6. CASE j # i
    BY <2>1, <2>2, <2>3, <2>4, <2>6 DEF MetOf
  <2>7. QED
    BY <2>5, <2>6
<1>10. QED
  BY <1>4, <1>6, <1>7, <1>8, <1>9

\* An item that is met for the first time is met after every candidate.
LEMMA CandidatesCameFirst ==
  ASSUME Calls, Scalars, Built, NEW m \in Nat, Round(m),
         NEW i, MetOf(i) = {}, NEW n \in DOMAIN candidates
  PROVE  MetBefore(candidates[n].item, i)
<1>1. PICK o \in MetOf(candidates[n].item) : TRUE
  BY DEF Built
<1>2. o \in Occurrences(candidates[n].item) /\ o[2] <= next[o[1]]
  BY <1>1 DEF MetOf
<1>3. ASSUME NEW q \in Occurrences(i) PROVE next[q[1]] < q[2]
  <2>1. q[1] \in Retriever /\ q[2] \in Int /\ next[q[1]] \in Int
    <3>1. q[1] \in Retriever /\ q[2] \in 1 .. Len(reply[q[1]])
      BY OccurrenceIs
    <3>2. QED
      BY <3>1 DEF Scalars
  <2>2. ~(q[2] <= next[q[1]])
    BY DEF MetOf
  <2>3. QED
    BY <2>1, <2>2
<1>4. \A q \in Occurrences(i) : Before(o, q)
  BY <1>2, <1>3, Frontier
<1>5. QED
  BY <1>2, <1>4 DEF MetBefore

\* The candidates do not change: item i has no id, or there is no room for it.
LEMMA TurnLeavesOut ==
  ASSUME OInv, NEW r, NEW p, NEW i, NEW m, Takes(r, p, i, m),
         UNCHANGED <<candidates, index>>,
         i = NoItem \/ (i \notin DOMAIN index /\ ~(Len(candidates) < max))
  PROVE  Built' /\ Ordered'
<1>1. /\ Calls /\ Scalars /\ Built /\ Ordered /\ candidates' = candidates /\ index' = index
      /\ max' = max /\ m \in Nat /\ Round(m)
  BY DEF OInv, Takes, dispatch
<1>2. /\ \A j, k : MetBefore(j, k)' = MetBefore(j, k)
      /\ \A j : j # i => MetOf(j)' = MetOf(j)
  BY <1>1, TakesFacts
<1>3. i \notin DOMAIN index
  BY <1>1, OrchestratorAssumption DEF Built
<1>4. Built'
  <2>1. \A n \in DOMAIN candidates : candidates[n].item # i
    BY <1>1, <1>3 DEF Built
  <2>2. \A n \in DOMAIN candidates : MetOf(candidates[n].item)' = MetOf(candidates[n].item)
    BY <1>1, <1>2, <2>1
  <2>3. QED
    BY <1>1, <2>2 DEF Built
<1>5. Ordered'
  <2>1. ASSUME NEW a \in DOMAIN candidates', NEW b \in DOMAIN candidates', a < b
        PROVE  MetBefore(candidates[a].item, candidates[b].item)'
    BY <1>1, <1>2, <2>1 DEF Ordered
  <2>2. ASSUME NEW j \in Item \ DOMAIN index', MetOf(j)' # {}
        PROVE  /\ Len(candidates') = Larger(0, max')
               /\ \A n \in DOMAIN candidates' : MetBefore(candidates[n].item, j)'
    <3>1. CASE MetOf(j) # {}
      BY <1>1, <1>2, <3>1 DEF Ordered
    <3>2. CASE MetOf(j) = {}
      <4>1. j = i /\ i # NoItem
        BY <1>2, <2>2, <3>2, OrchestratorAssumption
      <4>2. Len(candidates) = Larger(0, max)
        <5>1. Len(candidates) \in Nat /\ max \in Int /\ Len(candidates) <= Larger(0, max)
          BY <1>1 DEF Built, Scalars
        <5>2. QED
          BY <4>1, <5>1 DEF Larger
      <4>3. \A n \in DOMAIN candidates : MetBefore(candidates[n].item, j)
        BY <1>1, <3>2, CandidatesCameFirst
      <4>4. QED
        BY <1>1, <1>2, <4>2, <4>3
    <3>3. QED
      BY <3>1, <3>2
  <2>3. QED
    BY <2>1, <2>2 DEF Ordered
<1>6. QED
  BY <1>4, <1>5

\* Item i has a candidate: the occurrence is merged into it.
LEMMA TurnMerges ==
  ASSUME OInv, NEW r, NEW p, NEW i, NEW m, Takes(r, p, i, m), MergeInto(Received(r, p))
  PROVE  Built' /\ Ordered'
<1> DEFINE c == Received(r, p)
           x == index[i]
           merged == MergeCandidate(c, candidates[x])
<1>1. /\ Calls /\ Scalars /\ Built /\ Ordered /\ index' = index /\ max' = max
      /\ r \in Retriever /\ p \in Nat \ {0} /\ c.item = i /\ i \in DOMAIN index
      /\ candidates' = [candidates EXCEPT ![x] = merged]
  <2>1. c.item = i
    BY DEF Takes, Received
  <2>2. r \in Retriever /\ p \in 1 .. Len(reply[r]) /\ max' = max
    BY DEF Takes, dispatch
  <2>3. i \in DOMAIN index /\ index' = index /\ candidates' = [candidates EXCEPT ![x] = merged]
    BY <2>1, Zenon DEF MergeInto
  <2>4. QED
    BY <2>1, <2>2, <2>3 DEF OInv
<1>2. /\ \A j, k : MetBefore(j, k)' = MetBefore(j, k)
      /\ \A j : MetOf(j)' = IF j = i THEN MetOf(j) \cup {<<r, p>>} ELSE MetOf(j)
      /\ \A j : \A o \in MetOf(j) : o[1] = r => o[2] < p
  BY <1>1, TakesFacts
<1>3. /\ candidates \in Seq(Candidate) /\ DOMAIN index \subseteq Item /\ i \in Item
      /\ x \in DOMAIN candidates /\ candidates[x].item = i /\ Whole(candidates[x], MetOf(i))
      /\ \A n \in DOMAIN candidates :
           /\ candidates[n].item \in DOMAIN index /\ index[candidates[n].item] = n
           /\ Whole(candidates[n], MetOf(candidates[n].item))
           /\ MetOf(candidates[n].item) # {}
  BY <1>1 DEF Built
<1>4. Whole(merged, MetOf(i) \cup {<<r, p>>}) /\ merged.item = i
  <2>1. MetOf(i) \in SUBSET Occurrence
    BY <1>1, OccurrencesAreTyped DEF MetOf
  <2>2. r \in Retriever /\ p \in Nat \ {0} /\ Received(r, p).item \in Item
    BY <1>1, <1>3
  <2>3. \A o \in MetOf(i) : o[1] = r => o[2] < p
    BY <1>2
  <2>4. Whole(candidates[x], MetOf(i))
    BY <1>3
  <2>5. PICK O, target : O = MetOf(i) /\ target = candidates[x]
    OBVIOUS
  <2> HIDE DEF x, merged, c
  <2>6. /\ O \in SUBSET Occurrence /\ Whole(target, O)
        /\ \A o \in O : o[1] = r => o[2] < p
    BY <2>1, <2>3, <2>4, <2>5
  <2>7. /\ Whole(MergeCandidate(Received(r, p), target), O \cup {<<r, p>>})
        /\ MergeCandidate(Received(r, p), target).item = target.item
    BY <2>2, <2>6, MergedIsWhole
  <2>8. QED
    BY <1>3, <2>5, <2>7 DEF merged, c
<1> HIDE DEF merged, c, x
<1>5. merged \in Candidate
  BY <1>4 DEF Whole
<1>6. /\ candidates' \in Seq(Candidate) /\ Len(candidates') = Len(candidates)
      /\ DOMAIN candidates' = DOMAIN candidates /\ candidates'[x] = merged
      /\ \A n \in DOMAIN candidates : n # x => candidates'[n] = candidates[n]
  BY <1>1, <1>3, <1>5
<1>7. \A n \in DOMAIN candidates : candidates'[n].item = candidates[n].item
  BY <1>3, <1>4, <1>6
<1>8. ASSUME NEW n \in DOMAIN candidates
      PROVE  /\ Whole(candidates'[n], MetOf(candidates[n].item)')
             /\ MetOf(candidates[n].item)' # {}
  <2>1. CASE n = x
    BY <1>2, <1>3, <1>4, <1>6, <2>1
  <2>2. CASE n # x
    <3>1. candidates[n].item # i
      BY <1>3, <2>2 DEF x
    <3>2. QED
      BY <1>2, <1>3, <1>6, <2>2, <3>1
  <2>3. QED
    BY <2>1, <2>2
<1>9. Built'
  <2>1. Len(candidates') <= Larger(0, max')
    BY <1>1, <1>6 DEF Built
  <2>2. \A j \in DOMAIN index' : index'[j] \in DOMAIN candidates' /\ candidates'[index'[j]].item = j
    BY <1>1, <1>6, <1>7 DEF Built
  <2>3. \A n \in DOMAIN candidates' :
          /\ candidates'[n].item \in DOMAIN index' /\ index'[candidates'[n].item] = n
          /\ Whole(candidates'[n], MetOf(candidates[n].item)')
          /\ MetOf(candidates[n].item)' # {}
    BY <1>1, <1>3, <1>6, <1>7, <1>8
  <2>4. QED
    BY <1>1, <1>3, <1>6, <2>1, <2>2, <2>3 DEF Built
<1>10. Ordered'
  <2>1. ASSUME NEW a \in DOMAIN candidates', NEW b \in DOMAIN candidates', a < b
        PROVE  MetBefore(candidates[a].item, candidates[b].item)'
    BY <1>1, <1>2, <1>6, <1>7, <2>1 DEF Ordered
  <2>2. ASSUME NEW j \in Item \ DOMAIN index', MetOf(j)' # {}
        PROVE  /\ Len(candidates') = Larger(0, max')
               /\ \A n \in DOMAIN candidates' : MetBefore(candidates[n].item, j)'
    <3>1. j # i /\ MetOf(j) # {}
      BY <1>1, <1>2, <2>2
    <3>2. QED
      BY <1>1, <1>2, <1>6, <1>7, <3>1 DEF Ordered
  <2>3. QED
    BY <2>1, <2>2 DEF Ordered
<1>11. QED
  BY <1>9, <1>10

\* Item i has none and there is room: the occurrence begins one.
LEMMA TurnAdds ==
  ASSUME OInv, NEW r, NEW p, NEW i, NEW m, Takes(r, p, i, m), AddNew(Received(r, p)),
         Len(candidates) < max
  PROVE  Built' /\ Ordered'
<1> DEFINE c == Received(r, p)
           added == NormalizeCandidate(c)
           K == Len(candidates)
<1>1. /\ Calls /\ Scalars /\ Built /\ Ordered /\ max' = max /\ m \in Nat /\ Round(m)
      /\ r \in Retriever /\ p \in Nat \ {0} /\ c.item = i /\ i \in Item
      /\ i \notin DOMAIN index
      /\ candidates' = Append(candidates, added)
      /\ index' = [j \in DOMAIN index \cup {i} |-> IF j = i THEN Len(candidates') ELSE index[j]]
  <2>1. c.item = i
    BY DEF Takes, Received
  <2>2. /\ r \in Retriever /\ p \in 1 .. Len(reply[r]) /\ max' = max /\ m \in Nat /\ Round(m)
        /\ i \in Item \cup {NoItem}
    BY DEF Takes, dispatch
  <2> HIDE DEF c
  <2>3. /\ i \notin DOMAIN index \cup {NoItem}
        /\ candidates' = Append(candidates, added)
        /\ index' = [j \in DOMAIN index \cup {i} |->
                       IF j = i THEN Len(candidates') ELSE index[j]]
    BY <2>1 DEF AddNew, c
  <2>4. QED
    BY <2>1, <2>2, <2>3 DEF OInv
<1>2. /\ \A j, k : MetBefore(j, k)' = MetBefore(j, k)
      /\ \A j : MetOf(j)' = IF j = i THEN MetOf(j) \cup {<<r, p>>} ELSE MetOf(j)
  BY <1>1, TakesFacts
<1>3. Whole(added, {<<r, p>>}) /\ added.item = i /\ added \in Candidate
  <2>1. Received(r, p).item \in Item
    BY <1>1
  <2>2. /\ Whole(NormalizeCandidate(Received(r, p)), {<<r, p>>})
        /\ NormalizeCandidate(Received(r, p)).item = Received(r, p).item
    BY <1>1, <2>1, NormalizedIsWhole
  <2>3. QED
    BY <1>1, <2>2 DEF Whole
<1> HIDE DEF added, c
<1>4. /\ candidates \in Seq(Candidate) /\ DOMAIN index \subseteq Item
      /\ \A n \in DOMAIN candidates :
           /\ candidates[n].item \in DOMAIN index /\ index[candidates[n].item] = n
           /\ Whole(candidates[n], MetOf(candidates[n].item))
           /\ MetOf(candidates[n].item) # {}
      /\ \A j \in DOMAIN index : index[j] \in DOMAIN candidates /\ candidates[index[j]].item = j
  BY <1>1 DEF Built
<1>5. /\ candidates' \in Seq(Candidate) /\ K \in Nat /\ Len(candidates') = K + 1
      /\ DOMAIN candidates = 1 .. K /\ DOMAIN candidates' = 1 .. (K + 1)
      /\ candidates'[K + 1] = added
      /\ \A n \in DOMAIN candidates : candidates'[n] = candidates[n]
  BY <1>1, <1>3, <1>4
<1>6. \A n \in DOMAIN candidates' :
        \/ n \in DOMAIN candidates /\ candidates'[n] = candidates[n] /\ candidates[n].item # i
        \/ n = K + 1 /\ candidates'[n] = added /\ candidates'[n].item = i
  BY <1>1, <1>3, <1>4, <1>5
<1>7. MetOf(i) = {}
  <2>1. K # Larger(0, max)
    <3>1. max \in Int /\ K \in Int /\ K < max
      BY <1>1, <1>5 DEF Scalars
    <3> HIDE DEF K
    <3>2. QED
      BY <3>1 DEF Larger
  <2>2. QED
    BY <1>1, <2>1 DEF Ordered
<1>8. MetOf(i)' = {<<r, p>>}
  BY <1>2, <1>7
<1>9. Built'
  <2>1. Len(candidates') <= Larger(0, max')
    BY <1>1, <1>5 DEF Larger, Scalars
  <2>2. /\ DOMAIN index' = DOMAIN index \cup {i} /\ index'[i] = K + 1
        /\ \A j \in DOMAIN index : index'[j] = index[j] /\ j # i
    BY <1>1, <1>5
  <2>3. ASSUME NEW j \in DOMAIN index'
        PROVE  index'[j] \in DOMAIN candidates' /\ candidates'[index'[j]].item = j
    <3>1. CASE j = i
      BY <1>3, <1>5, <2>2, <3>1
    <3>2. CASE j \in DOMAIN index
      <4>1. index[j] \in 1 .. K /\ candidates[index[j]].item = j /\ index'[j] = index[j]
        BY <1>4, <1>5, <2>2, <3>2
      <4>2. QED
        BY <1>5, <4>1
    <3>3. QED
      BY <2>2, <3>1, <3>2
  <2>4. ASSUME NEW n \in DOMAIN candidates'
        PROVE  /\ candidates'[n].item \in DOMAIN index' /\ index'[candidates'[n].item] = n
               /\ Whole(candidates'[n], MetOf(candidates[n].item)')
               /\ MetOf(candidates[n].item)' # {}
    <3>1. CASE n \in DOMAIN candidates /\ candidates'[n] = candidates[n] /\ candidates[n].item # i
      BY <1>2, <1>4, <2>2, <3>1
    <3>2. CASE n = K + 1 /\ candidates'[n] = added /\ candidates'[n].item = i
      BY <1>3, <1>8, <2>2, <3>2
    <3>3. QED
      BY <1>6, <3>1, <3>2
  <2>5. DOMAIN index' \subseteq Item
    BY <1>1, <1>4, <2>2
  <2>6. QED
    BY <1>5, <2>1, <2>3, <2>4, <2>5 DEF Built
<1>10. \A n \in DOMAIN candidates : MetBefore(candidates[n].item, i)
  BY <1>1, <1>7, CandidatesCameFirst
<1>11. Ordered'
  <2>1. ASSUME NEW a \in DOMAIN candidates', NEW b \in DOMAIN candidates', a < b
        PROVE  MetBefore(candidates[a].item, candidates[b].item)'
    <3>1. a \in DOMAIN candidates /\ candidates'[a] = candidates[a]
      BY <1>5, <2>1
    <3>2. CASE b \in DOMAIN candidates /\ candidates'[b] = candidates[b]
      BY <1>1, <1>2, <2>1, <3>1, <3>2 DEF Ordered
    <3>3. CASE candidates'[b].item = i
      BY <1>2, <1>10, <3>1, <3>3
    <3>4. QED
      BY <1>6, <3>2, <3>3
  <2>2. ASSUME NEW j \in Item \ DOMAIN index', MetOf(j)' # {}
        PROVE  FALSE
    <3>1. j # i /\ j \notin DOMAIN index
      BY <1>1
    <3>2. MetOf(j) # {}
      BY <1>2, <2>2, <3>1
    <3>3. K = Larger(0, max)
      BY <1>1, <3>1, <3>2 DEF Ordered
    <3>4. QED
      BY <1>1, <1>5, <3>3 DEF Larger, Scalars
  <2>3. QED
    BY <2>1, <2>2 DEF Ordered
<1>12. QED
  BY <1>9, <1>11

LEMMA TurnKeeps ==
  ASSUME OInv, Turn
  PROVE  OInv'
<1>1. PICK r, p, i, m :
        /\ Takes(r, p, i, m)
        /\ LET c == Received(r, p) IN
           \/ c.item = NoItem /\ UNCHANGED <<candidates, index>>
           \/ MergeInto(c)
           \/ AddNew(c)
  BY TurnTakes DEF OInv
<1>2. Calls' /\ Scalars' /\ Rounds'
  BY <1>1, TakesFacts DEF OInv
<1>3. Received(r, p).item = i
  BY <1>1 DEF Takes, Received
<1>4. CASE i = NoItem /\ UNCHANGED <<candidates, index>>
  BY <1>1, <1>2, <1>4, TurnLeavesOut DEF OInv
<1>5. CASE MergeInto(Received(r, p))
  BY <1>1, <1>2, <1>5, TurnMerges DEF OInv
<1>6. CASE AddNew(Received(r, p))
  <2>1. CASE Len(candidates) < max
    BY <1>1, <1>2, <1>6, <2>1, TurnAdds DEF OInv
  <2>2. CASE ~(Len(candidates) < max)
    <3>1. i \notin DOMAIN index /\ UNCHANGED <<candidates, index>>
      BY <1>3, <1>6, <2>2 DEF AddNew
    <3>2. QED
      BY <1>1, <1>2, <2>2, <3>1, TurnLeavesOut DEF OInv
  <2>3. QED
    BY <2>1, <2>2
<1>7. QED
  BY <1>1, <1>3, <1>4, <1>5, <1>6

\* A step that takes nothing and changes no candidate keeps what is built.
LEMMA NothingTaken ==
  ASSUME Built, Ordered, UNCHANGED <<reply, next, max, candidates, index>>
  PROVE  Built' /\ Ordered'
<1>1. \A j : MetOf(j)' = MetOf(j)
  BY SameReplies DEF MetOf
<1>2. \A j, k : MetBefore(j, k)' = MetBefore(j, k)
  BY SameReplies
<1>3. QED
  BY <1>1, <1>2 DEF Built, Ordered

LEMMA OtherStepsKeep ==
  ASSUME OInv, Dispatched \/ SkipTurn \/ EndRound
  PROVE  OInv'
<1>1. /\ UNCHANGED <<max, asked, called, reply, responses, next, candidates, index>>
      /\ Calls /\ Scalars /\ Rounds /\ Built /\ Ordered
  BY DEF Dispatched, SkipTurn, EndRound, dispatch, merge, OInv
<1>2. Built' /\ Ordered' /\ Calls'
  BY <1>1, NothingTaken DEF Calls
<1>3. /\ responses \in Seq(Retriever) /\ Len(responses) \in Nat /\ turn \in Nat
      /\ DOMAIN responses = 1 .. Len(responses)
      /\ \A k \in DOMAIN responses : k \in Nat /\ responses[k] \in Retriever
  BY <1>1 DEF Calls, Scalars
<1>4. \A k \in DOMAIN responses : Len(reply[responses[k]]) \in Nat
  <2>1. \A k \in DOMAIN responses : reply[responses[k]] # Failed
    BY <1>1, <1>3 DEF Calls, ToSet
  <2>2. QED
    BY <1>1, <1>3, <2>1 DEF Calls
<1>5. CASE Dispatched
  <2>1. Blank /\ Blank' /\ pc' \in {"idle", "merge"} /\ status' \in Status
        /\ (pc' = "idle" => status' = "system_error")
    BY <1>1, <1>5 DEF Dispatched, Rounds, Blank, merge, Scalars, Status
  <2>2. Scalars'
    BY <1>1, <2>1 DEF Scalars, Blank
  <2>3. Round(0)'
    <3>1. ASSUME NEW k \in DOMAIN responses'
          PROVE  next'[responses'[k]] =
                   Smaller(Len(reply'[responses'[k]]), IF k < turn' THEN 0 + 1 ELSE 0)
      <4>1. ~(k < turn') /\ next'[responses'[k]] = 0
        BY <1>1, <1>3, <2>1 DEF Blank
      <4>2. Len(reply'[responses'[k]]) \in Nat
        BY <1>1, <1>4
      <4>3. QED
        BY <4>1, <4>2 DEF Smaller
    <3>2. \A k \in DOMAIN responses' : ~(k < turn')
      BY <1>1, <1>3, <2>1 DEF Blank
    <3>3. QED
      BY <3>1, <3>2 DEF Round
  <2>4. Rounds'
    <3>1. 0 \in Nat
      OBVIOUS
    <3>2. pc' = "merge" => \E m \in Nat : Round(m)'
      BY <2>3, <3>1
    <3>3. QED
      BY <2>1, <3>2 DEF Rounds, Done
  <2>5. QED
    BY <1>2, <2>2, <2>4 DEF OInv
<1>6. CASE SkipTurn
  <2>1. /\ pc = "merge" /\ pc' = pc /\ status' = status /\ advanced' = advanced
        /\ turn <= Len(responses) /\ turn' = turn + 1
        /\ next[responses[turn]] >= Len(reply[responses[turn]])
    BY <1>6 DEF SkipTurn, Source
  <2>2. PICK m \in Nat : Round(m)
    BY <1>1, <2>1 DEF Rounds
  <2>3. Scalars'
    BY <1>1, <1>3, <2>1 DEF Scalars
  <2>4. turn \in DOMAIN responses
    BY <1>1, <2>1 DEF Scalars, Calls
  <2>5. /\ Len(reply[responses[turn]]) <= m
        /\ next[responses[turn]] = Smaller(Len(reply[responses[turn]]), m + 1)
    <3>1. next[responses[turn]] = Smaller(Len(reply[responses[turn]]), m)
      BY <1>3, <2>2, <2>4 DEF Round
    <3>2. QED
      BY <1>4, <2>1, <2>4, <3>1 DEF Smaller
  <2>6. ASSUME NEW k \in DOMAIN responses
        PROVE  /\ next[responses[k]] =
                    Smaller(Len(reply[responses[k]]), IF k < turn' THEN m + 1 ELSE m)
               /\ ~advanced /\ k < turn' => Len(reply[responses[k]]) <= m
    <3>1. CASE k = turn
      BY <1>3, <2>1, <2>5, <3>1
    <3>2. CASE k # turn
      <4>1. k < turn' <=> k < turn
        BY <1>3, <2>1, <3>2
      <4>2. QED
        BY <2>2, <4>1 DEF Round
    <3>3. QED
      BY <3>1, <3>2
  <2>7. Round(m)'
    BY <1>1, <2>1, <2>6 DEF Round
  <2>8. Rounds'
    BY <1>1, <2>1, <2>7 DEF Rounds, Done
  <2>9. QED
    BY <1>2, <2>3, <2>8 DEF OInv
<1>7. CASE EndRound
  <2>1. pc = "merge" /\ turn > Len(responses) /\ turn' = 1 /\ advanced' = FALSE
        /\ IF advanced THEN pc' = pc /\ status' = status
           ELSE pc' = "idle" /\ status' = "success"
    BY <1>7 DEF EndRound
  <2>2. PICK m \in Nat : Round(m)
    BY <1>1, <2>1 DEF Rounds
  <2>3. Scalars'
    <3>1. pc' \in {"idle", "dispatch", "merge"} /\ status' \in Status
      BY <1>1, <2>1 DEF Scalars, Status
    <3>2. turn' \in 1 .. (Len(responses') + 1) /\ advanced' \in BOOLEAN
      <4>1. 1 \in 1 .. (Len(responses) + 1) /\ responses' = responses
        BY <1>1, <1>3
      <4>2. QED
        BY <2>1, <4>1
    <3>3. max' \in Int /\ asked' \in Int /\ next' \in [Retriever -> Nat]
      BY <1>1 DEF Scalars
    <3>4. QED
      BY <3>1, <3>2, <3>3 DEF Scalars
  <2>4. \A k \in DOMAIN responses : k < turn /\ ~(k < 1)
    BY <1>1, <1>3, <2>1 DEF Scalars
  <2>5. \A k \in DOMAIN responses : next[responses[k]] = Smaller(Len(reply[responses[k]]), m + 1)
    BY <2>2, <2>4 DEF Round
  <2>6. CASE advanced
    <3>1. Round(m + 1)'
      BY <1>1, <2>1, <2>4, <2>5 DEF Round
    <3>2. m + 1 \in Nat
      OBVIOUS
    <3>3. Rounds'
      BY <2>1, <2>6, <3>1, <3>2 DEF Rounds, Done
    <3>4. QED
      BY <1>2, <2>3, <3>3 DEF OInv
  <2>7. CASE ~advanced
    <3>1. \A k \in DOMAIN responses : Len(reply[responses[k]]) <= m
      BY <2>2, <2>4, <2>7 DEF Round
    <3>2. \A k \in DOMAIN responses : next[responses[k]] = Len(reply[responses[k]])
      BY <1>4, <2>5, <3>1 DEF Smaller
    <3>3. \A r \in Retriever : reply[r] # Failed => next[r] = Len(reply[r])
      BY <1>1, <3>2 DEF Calls, ToSet
    <3>4. Rounds'
      BY <1>1, <2>1, <2>7, <3>3 DEF Rounds, Done
    <3>5. QED
      BY <1>2, <2>3, <3>4 DEF OInv
  <2>8. QED
    BY <2>6, <2>7
<1>8. QED
  BY <1>5, <1>6, <1>7

LEMMA OInitHolds == Init => OInv
<1> SUFFICES ASSUME Init PROVE OInv
  OBVIOUS
<1>1. /\ pc = "idle" /\ called = 0 /\ reply = [r \in Retriever |-> Failed]
      /\ responses = <<>> /\ max = 0 /\ asked = 0 /\ status = "none" /\ Blank
  BY DEF Init, Blank
<1>2. Calls
  <2>1. DOMAIN responses = {} /\ responses \in Seq(Retriever) /\ Len(responses) = 0
    BY <1>1
  <2>2. ToSet(responses) = {} /\ Len(Stubs) \in Nat
    BY <2>1, OrchestratorAssumption DEF ToSet
  <2>3. QED
    BY <1>1, <2>1, <2>2 DEF Calls
<1>3. Scalars
  <2>1. next \in [Retriever -> Nat] /\ turn = 1 /\ advanced \in BOOLEAN /\ Len(responses) = 0
    BY <1>1 DEF Blank
  <2>2. QED
    BY <1>1, <2>1 DEF Scalars, Status
<1>4. Rounds
  BY <1>1 DEF Rounds, Done
<1>5. QED
  BY <1>1, <1>2, <1>3, <1>4, BlankIsBuilt DEF OInv

THEOREM TakingTurns == Spec => []OInv
<1>1. OInv /\ [Next]_vars => OInv'
  <2> SUFFICES ASSUME OInv, [Next]_vars PROVE OInv'
    OBVIOUS
  <2>1. (Calls /\ Scalars /\ Blank => Built /\ Ordered)'
    BY BlankIsBuilt, PTL
  <2>2. ASSUME NEW n \in Requested, NEW valid \in BOOLEAN, Retrieve(n, valid) PROVE OInv'
    BY <2>1, <2>2, RetrieveStartsBlank DEF OInv
  <2>3. CASE Reply
    BY <2>1, <2>3, ReplyStaysBlank DEF OInv
  <2>4. CASE Proceed
    BY <2>4, TurnKeeps, OtherStepsKeep DEF Proceed
  <2>5. CASE UNCHANGED vars
    <3>1. /\ UNCHANGED <<pc, max, asked, called, reply, responses>>
          /\ UNCHANGED <<next, turn, advanced, candidates, index, status>>
      BY <2>5 DEF vars, dispatch, merge
    <3>2. Built' /\ Ordered'
      BY <3>1, NothingTaken DEF OInv
    <3>3. QED
      BY <3>1, <3>2 DEF OInv, Calls, Scalars, Rounds, Round, Blank, Done
  <2>6. QED
    BY <2>2, <2>3, <2>4, <2>5 DEF Next
<1>2. QED
  BY <1>1, OInitHolds, PTL DEF Spec

\* While the response is built, the index finds every candidate in it.
THEOREM IndexAlwaysFindsCandidates == Spec => []IndexFindsCandidates
<1>1. OInv => IndexFindsCandidates
  <2> SUFFICES ASSUME OInv PROVE IndexFindsCandidates
    OBVIOUS
  <2>1. Calls /\ Scalars /\ Built
    BY DEF OInv
  <2>2. turn \in 1 .. (Len(Stubs) + 1)
    <3>1. Len(responses) \in Nat /\ called \in Nat /\ Len(Stubs) \in Nat
      BY <2>1, OrchestratorAssumption DEF Calls
    <3>2. Len(responses) <= Len(Stubs)
      BY <2>1, <3>1 DEF Calls
    <3>3. QED
      BY <2>1, <3>1, <3>2 DEF Scalars
  <2>3. \A i \in DOMAIN index : index[i] \in DOMAIN candidates /\ candidates[index[i]].item = i
    BY <2>1 DEF Built
  <2>4. TypeOK
    BY <2>1, <2>2, <2>3 DEF TypeOK, Calls, Scalars, Built
  <2>5. DOMAIN index = {candidates[n].item : n \in DOMAIN candidates}
    BY <2>1, <2>3 DEF Built
  <2>6. QED
    BY <2>1, <2>3, <2>4, <2>5 DEF IndexFindsCandidates, Built
<1>2. QED
  BY <1>1, TakingTurns, PTL

\* When the request succeeds, every occurrence has been taken.
LEMMA AllIsMet ==
  ASSUME OInv, Done, status = "success", NEW i
  PROVE  MetOf(i) = Occurrences(i)
<1>1. \A r \in Retriever : reply[r] # Failed => next[r] = Len(reply[r])
  BY DEF OInv, Rounds
<1>2. \A o \in Occurrences(i) : o[2] <= next[o[1]]
  <2>1. \A o \in Occurrences(i) :
          o[1] \in Retriever /\ reply[o[1]] # Failed /\ o[2] \in 1 .. Len(reply[o[1]])
    BY OccurrenceIs DEF OInv
  <2>2. \A r \in Retriever : reply[r] # Failed => Len(reply[r]) \in Nat
    BY DEF OInv, Calls
  <2>3. QED
    BY <1>1, <2>1, <2>2
<1>3. QED
  BY <1>2 DEF MetOf

\* Whatever the retrievers return and in which order, a candidate combines every
\* occurrence of its item, those too that are met when the response is full.
THEOREM NoPathIsDropped == Spec => []NoPathDropped
<1>1. OInv => NoPathDropped
  <2> SUFFICES ASSUME OInv, Done, status = "success", NEW n \in DOMAIN candidates,
                      NEW c, c = candidates[n], NEW O, O = Occurrences(c.item)
               PROVE  /\ ToSet(c.reasons) = O
                      /\ IsInjective(c.reasons)
                      /\ IsInjective(c.retriever)
                      /\ c.retriever = [s \in DOMAIN c.retrieval_signals |->
                                          c.retrieval_signals[s].retriever]
                      /\ \A s \in DOMAIN c.retrieval_signals :
                           IsInOrder(c.retrieval_signals[s].reasons,
                                     {o \in O : o[1] = c.retrieval_signals[s].retriever})
                      /\ c.author = Unknown <=> \A o \in O : o[1] \notin Knows
    BY DEF NoPathDropped
  <2>1. Whole(c, O)
    <3>1. Whole(candidates[n], MetOf(candidates[n].item))
      BY DEF OInv, Built
    <3>2. QED
      BY <3>1, AllIsMet
  <2>2. IsInjective(c.retriever)
    BY <2>1 DEF Whole, SignalsOf, IsInjective
  <2>3. QED
    BY <2>1, <2>2 DEF Whole, SignalsOf
<1>2. QED
  BY <1>1, TakingTurns, PTL

\* Whatever the retrievers return, a response has the items that are met first.
THEOREM FirstComeFirstServedAlways == Spec => []FirstComeFirstServed
<1>1. OInv => FirstComeFirstServed
  <2> SUFFICES ASSUME OInv, Done, status = "success"
               PROVE  /\ \A i \in Shown : Occurrences(i) # {}
                      /\ Len(candidates) <= Larger(0, max)
                      /\ \A m, n \in DOMAIN candidates :
                           m < n => MetBefore(candidates[m].item, candidates[n].item)
                      /\ \A i \in Item \ Shown :
                           Occurrences(i) # {} =>
                             /\ Len(candidates) = Larger(0, max)
                             /\ \A n \in DOMAIN candidates : MetBefore(candidates[n].item, i)
    BY DEF FirstComeFirstServed
  <2>1. \A i : MetOf(i) = Occurrences(i)
    BY AllIsMet
  <2>2. Built /\ Ordered
    BY DEF OInv
  <2>3. Shown = DOMAIN index
    BY <2>2 DEF Shown, Built
  <2>4. \A i \in Shown : Occurrences(i) # {}
    BY <2>1, <2>2 DEF Shown, Built
  <2>5. QED
    BY <2>1, <2>2, <2>3, <2>4 DEF Built, Ordered
<1>2. QED
  BY <1>1, TakingTurns, PTL

-----------------------------------------------------------------------------
(***************************************************************************)
(* Why Retrieve ends: what is ahead of it, in five numbers of which an     *)
(* earlier one outweighs all later ones.  Whether the merge is still to    *)
(* come; the retrievers to call; the occurrences that no turn has taken;   *)
(* whether the round has taken one; and the turns left in the round.       *)
(***************************************************************************)
NotTaken ==
  {o \in Retriever \X (Nat \ {0}) :
     reply[o[1]] # Failed /\ next[o[1]] < o[2] /\ o[2] <= Len(reply[o[1]])}

AheadOfRetrieve ==
  <<IF pc = "dispatch" THEN 1 ELSE 0, Len(Stubs) - called, Cardinality(NotTaken),
    IF advanced THEN 1 ELSE 0, (Len(responses) + 1) - turn>>

LEMMA FiniteRetrievers == IsFiniteSet(Retriever)
<1>1. /\ Stubs \in Seq(Retriever) /\ DOMAIN Stubs = 1 .. Len(Stubs) /\ Len(Stubs) \in Nat
      /\ \A r \in Retriever : \E k \in DOMAIN Stubs : Stubs[k] = r
  BY OrchestratorAssumption DEF Retriever, ToSet
<1>2. Stubs \in Surjection(1 .. Len(Stubs), Retriever)
  BY <1>1 DEF Surjection
<1>3. IsFiniteSet(1 .. Len(Stubs))
  BY <1>1, FS_Interval
<1>4. QED
  BY <1>2, <1>3, FS_Surjection

\* The replies are as many lists as there are retrievers, so no more than a
\* finite number of occurrences is left.
LEMMA NotTakenIsFinite ==
  ASSUME Calls
  PROVE  IsFiniteSet(NotTaken) /\ Cardinality(NotTaken) \in Nat
<1> DEFINE length == [r \in Retriever |-> IF reply[r] = Failed THEN 0 ELSE Len(reply[r])]
           P == {o \in Retriever \X Nat : o[2] \in 1 .. length[o[1]]}
<1>1. length \in [Retriever -> Nat]
  BY DEF Calls
<1>2. NotTaken \subseteq P
  <2> SUFFICES ASSUME NEW o \in NotTaken PROVE o \in P
    OBVIOUS
  <2>1. /\ o \in Retriever \X Nat /\ o[1] \in Retriever /\ o[2] \in Nat \ {0}
        /\ reply[o[1]] # Failed /\ o[2] <= Len(reply[o[1]])
    BY DEF NotTaken
  <2>2. length[o[1]] = Len(reply[o[1]]) /\ Len(reply[o[1]]) \in Nat
    BY <1>1, <2>1
  <2> HIDE DEF length
  <2>3. QED
    BY <2>1, <2>2
<1> HIDE DEF length
<1>3. IsFiniteSet(P)
  BY <1>1, FiniteRetrievers, FinitelyManyPlaces
<1>4. QED
  BY <1>2, <1>3, FS_Subset, FS_CardinalityType

\* A turn takes one occurrence.
LEMMA TurnTakesOne ==
  ASSUME OInv, Turn
  PROVE  Cardinality(NotTaken)' < Cardinality(NotTaken) /\ pc' = pc /\ called' = called
<1>1. PICK r, p, i, m : Takes(r, p, i, m)
  BY TurnTakes DEF OInv
<1>2. /\ r \in Retriever /\ p \in Nat \ {0} /\ reply[r] # Failed /\ p = next[r] + 1
      /\ p <= Len(reply[r]) /\ Len(reply[r]) \in Nat /\ next' = [next EXCEPT ![r] = p]
      /\ reply' = reply /\ pc' = pc /\ called' = called /\ next \in [Retriever -> Nat]
  BY <1>1 DEF Takes, dispatch, OInv, Scalars
<1>3. <<r, p>> \in NotTaken
  BY <1>2 DEF NotTaken
<1>4. NotTaken' = NotTaken \ {<<r, p>>}
  <2>1. ASSUME NEW o \in Retriever \X (Nat \ {0})
        PROVE  o \in NotTaken' <=> o \in NotTaken /\ o # <<r, p>>
    <3>1. CASE o[1] = r
      <4>1. next'[o[1]] = p /\ next[o[1]] = p - 1
        BY <1>2, <3>1
      <4>2. next'[o[1]] < o[2] <=> next[o[1]] < o[2] /\ o[2] # p
        BY <1>2, <4>1
      <4>3. o # <<r, p>> <=> o[2] # p
        BY <3>1
      <4>4. QED
        BY <1>2, <4>2, <4>3 DEF NotTaken
    <3>2. CASE o[1] # r
      BY <1>2, <3>2 DEF NotTaken
    <3>3. QED
      BY <3>1, <3>2
  <2>2. NotTaken \subseteq Retriever \X (Nat \ {0})
    BY DEF NotTaken
  <2>3. NotTaken' \subseteq Retriever \X (Nat \ {0})
    BY DEF NotTaken
  <2>4. QED
    BY <2>1, <2>2, <2>3
<1>5. Cardinality(NotTaken \ {<<r, p>>}) = Cardinality(NotTaken) - 1
  BY <1>3, NotTakenIsFinite, FS_RemoveElement DEF OInv
<1>6. Cardinality(NotTaken) \in Nat
  BY NotTakenIsFinite DEF OInv
<1>7. QED
  BY <1>2, <1>4, <1>5, <1>6

\* Every step of Retrieve but its last brings down what is ahead.
RetrieveRunsDown ==
  [][pc # "idle" /\ pc' # "idle" => <<AheadOfRetrieve', AheadOfRetrieve>> \in Below(5)]_vars

(***************************************************************************)
(* No Retrieve goes on for ever as long as each retriever answers or       *)
(* fails: the merge takes turns until a whole round took nothing, and it   *)
(* comes to such a round, for any number of replies of any length.         *)
(***************************************************************************)
THEOREM EveryRetrieveRunsDown ==
  /\ IsWellFoundedOn(Below(5), [1 .. 5 -> Nat])
  /\ Spec => RetrieveRunsDown
<1>1. OInv /\ OInv' /\ [Next]_vars =>
        [pc # "idle" /\ pc' # "idle" =>
           <<AheadOfRetrieve', AheadOfRetrieve>> \in Below(5)]_vars
  <2> SUFFICES ASSUME OInv, OInv', Next, pc # "idle", pc' # "idle"
               PROVE  <<AheadOfRetrieve', AheadOfRetrieve>> \in Below(5)
    OBVIOUS
  <2>1. PICK now, later : now = AheadOfRetrieve /\ later = AheadOfRetrieve'
    OBVIOUS
  <2>2. /\ now[1] = (IF pc = "dispatch" THEN 1 ELSE 0) /\ now[2] = Len(Stubs) - called
        /\ now[3] = Cardinality(NotTaken) /\ now[4] = (IF advanced THEN 1 ELSE 0)
        /\ now[5] = (Len(responses) + 1) - turn
        /\ later[1] = (IF pc' = "dispatch" THEN 1 ELSE 0) /\ later[2] = Len(Stubs) - called'
        /\ later[3] = Cardinality(NotTaken)' /\ later[4] = (IF advanced' THEN 1 ELSE 0)
        /\ later[5] = (Len(responses') + 1) - turn'
    BY <2>1 DEF AheadOfRetrieve
  <2>3. /\ Len(Stubs) \in Nat /\ called \in 0 .. Len(Stubs) /\ called' \in 0 .. Len(Stubs)
        /\ Len(responses) \in Nat /\ Len(responses') \in Nat
        /\ turn \in 1 .. (Len(responses) + 1) /\ turn' \in 1 .. (Len(responses') + 1)
        /\ advanced \in BOOLEAN /\ advanced' \in BOOLEAN
    <3>1. /\ called \in 0 .. Len(Stubs) /\ called' \in 0 .. Len(Stubs)
          /\ responses \in Seq(Retriever) /\ responses' \in Seq(Retriever)
      BY DEF OInv, Calls
    <3>2. /\ turn \in 1 .. (Len(responses) + 1) /\ turn' \in 1 .. (Len(responses') + 1)
          /\ advanced \in BOOLEAN /\ advanced' \in BOOLEAN
      BY DEF OInv, Scalars
    <3>3. Len(Stubs) \in Nat
      BY OrchestratorAssumption
    <3>4. Len(responses) \in Nat /\ Len(responses') \in Nat
      BY <3>1
    <3>5. QED
      BY <3>1, <3>2, <3>3, <3>4
  <2>4. Cardinality(NotTaken) \in Nat
    BY NotTakenIsFinite DEF OInv
  <2>5. Cardinality(NotTaken)' \in Nat
    <3>1. (Calls => Cardinality(NotTaken) \in Nat)'
      BY NotTakenIsFinite, PTL
    <3>2. QED
      BY <3>1 DEF OInv
  <2>6. now \in [1 .. 5 -> Nat] /\ later \in [1 .. 5 -> Nat]
    <3>1. (IF pc = "dispatch" THEN 1 ELSE 0) \in Nat /\ (IF pc' = "dispatch" THEN 1 ELSE 0) \in Nat
      OBVIOUS
    <3>2. (IF advanced THEN 1 ELSE 0) \in Nat /\ (IF advanced' THEN 1 ELSE 0) \in Nat
      OBVIOUS
    <3>3. /\ Len(Stubs) - called \in Nat /\ Len(Stubs) - called' \in Nat
          /\ (Len(responses) + 1) - turn \in Nat /\ (Len(responses') + 1) - turn' \in Nat
      BY <2>3
    <3>4. QED
      BY <2>1, <2>4, <2>5, <3>1, <3>2, <3>3, FiveNumbers, Zenon DEF AheadOfRetrieve
  <2>7. \/ later[1] < now[1]
        \/ later[1] = now[1] /\ later[2] < now[2]
        \/ later[1] = now[1] /\ later[2] = now[2] /\ later[3] < now[3]
        \/ later[1] = now[1] /\ later[2] = now[2] /\ later[3] = now[3] /\ later[4] < now[4]
        \/ later[1] = now[1] /\ later[2] = now[2] /\ later[3] = now[3] /\ later[4] = now[4]
             /\ later[5] < now[5]
    <3>1. CASE Reply
      <4>1. called' = called + 1 /\ pc' = pc
        BY <3>1 DEF Reply, Accepted, NotAccepted
      <4>2. QED
        BY <2>2, <2>3, <4>1
    <3>2. CASE Dispatched
      <4>1. pc = "dispatch" /\ pc' = "merge"
        BY <3>2 DEF Dispatched
      <4>2. QED
        BY <2>2, <4>1
    <3>3. CASE Turn
      BY <2>2, <3>3, TurnTakesOne
    <3>4. CASE SkipTurn
      <4>1. /\ pc' = pc /\ called' = called /\ advanced' = advanced /\ turn' = turn + 1
            /\ responses' = responses /\ reply' = reply /\ next' = next
        BY <3>4 DEF SkipTurn, dispatch
      <4>2. Cardinality(NotTaken)' = Cardinality(NotTaken)
        BY <4>1 DEF NotTaken
      <4>3. later[5] < now[5]
        BY <2>2, <2>3, <4>1
      <4>4. QED
        BY <2>2, <4>1, <4>2, <4>3
    <3>5. CASE EndRound
      <4>1. /\ pc' = pc /\ called' = called /\ advanced /\ ~advanced'
            /\ reply' = reply /\ next' = next
        BY <3>5 DEF EndRound, dispatch
      <4>2. Cardinality(NotTaken)' = Cardinality(NotTaken)
        BY <4>1 DEF NotTaken
      <4>3. QED
        BY <2>2, <4>1, <4>2
    <3>6. QED
      BY <3>1, <3>2, <3>3, <3>4, <3>5 DEF Next, Proceed, Retrieve
  <2>8. <<later, now>> \in Below(5)
    BY <2>6, <2>7, FiveNumbersDescend
  <2>9. QED
    BY <2>1, <2>8
<1>2. Spec => RetrieveRunsDown
  BY <1>1, TakingTurns, PTL DEF Spec, RetrieveRunsDown
<1>3. IsWellFoundedOn(Below(5), [1 .. 5 -> Nat])
  BY NothingDescendsForever
<1>4. QED
  BY <1>2, <1>3
=============================================================================
