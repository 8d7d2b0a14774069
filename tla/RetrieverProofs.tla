--------------------------- MODULE RetrieverProofs ---------------------------
(***************************************************************************)
(* Proofs about the two retrievers: whatever the evidence (the lists found *)
(* for the seeds), the pool of candidates holds for each item the sum of   *)
(* its contributions and the strongest of them, and the response is the    *)
(* best of the pool.  The invariants of the two modules say that the pool  *)
(* is built from the evidence found so far.                                *)
(***************************************************************************)
EXTENDS RetrieverItemCf, RetrieverUserCf, DataInduction

Seed == [id : Nat \ {0}, score : Nat \ {0}]
Neighbor == [id : Nat, score : Int]
Finding == [seed : Seed, list : Seq(Neighbor)]

Candidate == [score : Int, trigger : Nat, reason_score : Int]
Pools == UNION {[items -> Candidate] : items \in {D \in SUBSET Nat : IsFiniteSet(D)}}

-----------------------------------------------------------------------------
(* Sums.                                                                   *)

LEMMA SumSteps ==
  ASSUME NEW numbers \in Seq(Int)
  PROVE  \E g \in [0 .. Len(numbers) -> Int] :
           /\ g[0] = 0
           /\ \A k \in 1 .. Len(numbers) : g[k] = g[k - 1] + numbers[k]
           /\ Sum(numbers) = g[Len(numbers)]
<1> DEFINE n == Len(numbers)
           F == [x \in Int \X Int |-> x[1] + x[2]]
           iter == CHOOSE iter :
                     iter = [t \in SUBSET DOMAIN numbers |->
                       IF t = {} THEN 0 ELSE iter[t \ {Max(t)}] + numbers[Max(t)]]
<1>1. DOMAIN numbers = 1 .. n /\ n \in Nat /\ \A k \in 1 .. n : numbers[k] \in Int
  OBVIOUS
<1>2. Sum(numbers) = iter[DOMAIN numbers]
  BY DEF Sum, FoldLeft, MapThenFoldSet
<1>3. F \in [Int \X Int -> Int] /\ 0 \in Int
  OBVIOUS
<1>4. \A x, y \in Int : F[<<x, y>>] = x + y
  OBVIOUS
<1> HIDE DEF F, n
<1>5. PICK f : FoldsBy(f, Int, F, 0, numbers, n)
  <2> HIDE DEF iter
  <2>1. QED
    BY <1>1, <1>3, FoldExists
<1>6. ASSUME NEW t \in SUBSET (1 .. n), t # {}
      PROVE  f[t] = f[t \ {Max(t)}] + numbers[Max(t)] /\ Max(t) \in 1 .. n
  <2>1. Max(t) \in 1 .. n
    BY <1>1, <1>6, MaxIsIn
  <2>2. f[t \ {Max(t)}] \in Int /\ numbers[Max(t)] \in Int
    BY <1>1, <1>5, <2>1 DEF FoldsBy
  <2>3. QED
    BY <1>4, <1>5, <1>6, <2>1, <2>2 DEF FoldsBy
<1>7. f = [t \in SUBSET (1 .. n) |->
             IF t = {} THEN 0 ELSE f[t \ {Max(t)}] + numbers[Max(t)]]
  BY <1>5, <1>6 DEF FoldsBy
<1>8. iter = [t \in SUBSET (1 .. n) |->
                IF t = {} THEN 0 ELSE iter[t \ {Max(t)}] + numbers[Max(t)]]
  BY <1>1, <1>7
<1> HIDE DEF iter
<1>9. FoldsLike(iter, Int, F, 0, numbers, n)
  <2>1. iter[{}] = 0
    BY <1>8, {} \in SUBSET (1 .. n)
  <2>2. ASSUME NEW t \in SUBSET (1 .. n), t # {}, iter[t \ {Max(t)}] \in Int
        PROVE  iter[t] = F[<<iter[t \ {Max(t)}], numbers[Max(t)]>>]
    <3>1. iter[t] = iter[t \ {Max(t)}] + numbers[Max(t)]
      BY <1>8, <2>2
    <3>2. numbers[Max(t)] \in Int
      BY <1>1, <1>6, <2>2
    <3>3. QED
      BY <1>4, <2>2, <3>1, <3>2
  <2>3. QED
    BY <2>1, <2>2 DEF FoldsLike
<1>10. PICK g : StepsBy(g, Int, F, 0, numbers, n) /\ iter[1 .. n] = g[n]
  BY <1>1, <1>5, <1>9, FoldReaches
<1>11. g \in [0 .. n -> Int] /\ g[0] = 0
  BY <1>10 DEF StepsBy
<1>12. ASSUME NEW k \in 1 .. n PROVE g[k] = g[k - 1] + numbers[k]
  <2>1. g[k - 1] \in Int /\ numbers[k] \in Int
    BY <1>1, <1>11
  <2>2. QED
    BY <1>4, <1>10, <2>1 DEF StepsBy
<1>13. QED
  BY <1>1, <1>2, <1>10, <1>11, <1>12 DEF n

LEMMA SumIs ==
  ASSUME NEW numbers \in Seq(Int), NEW g, g[0] = 0,
         \A k \in 1 .. Len(numbers) : g[k] = g[k - 1] + numbers[k]
  PROVE  Sum(numbers) = g[Len(numbers)] /\ Sum(numbers) \in Int
<1>1. PICK h \in [0 .. Len(numbers) -> Int] :
        /\ h[0] = 0
        /\ \A k \in 1 .. Len(numbers) : h[k] = h[k - 1] + numbers[k]
        /\ Sum(numbers) = h[Len(numbers)]
  BY SumSteps
<1> DEFINE n == Len(numbers)
           T == {k \in 0 .. n : h[k] = g[k]}
<1>2. n \in Nat
  OBVIOUS
<1>3. 0 \in T
  BY <1>1, <1>2
<1>4. ASSUME NEW k \in 0 .. (n - 1), k \in T PROVE k + 1 \in T
  <2>1. k + 1 \in 1 .. n /\ k + 1 \in 0 .. n /\ (k + 1) - 1 = k
    BY <1>2
  <2>2. h[k + 1] = h[k] + numbers[k + 1] /\ g[k + 1] = g[k] + numbers[k + 1]
    BY <1>1, <2>1
  <2>3. QED
    BY <1>4, <2>1, <2>2
<1>5. n \in T
  <2> HIDE DEF T, n
  <2>1. 0 .. n \subseteq T
    BY <1>2, <1>3, <1>4, UpTo
  <2>2. QED
    BY <1>2, <2>1
<1>6. QED
  BY <1>1, <1>2, <1>5

LEMMA SumAppend ==
  ASSUME NEW numbers \in Seq(Int), NEW x \in Int
  PROVE  /\ Sum(numbers) \in Int
         /\ Sum(Append(numbers, x)) = Sum(numbers) + x
<1> DEFINE n == Len(numbers)
           more == Append(numbers, x)
<1>1. /\ n \in Nat /\ more \in Seq(Int) /\ Len(more) = n + 1 /\ more[n + 1] = x
      /\ \A k \in 1 .. n : more[k] = numbers[k]
  OBVIOUS
<1> HIDE DEF more
<1>2. PICK g \in [0 .. Len(more) -> Int] :
        /\ g[0] = 0
        /\ \A k \in 1 .. Len(more) : g[k] = g[k - 1] + more[k]
        /\ Sum(more) = g[Len(more)]
  BY <1>1, SumSteps
<1>3. Sum(numbers) = g[n] /\ Sum(numbers) \in Int
  <2>1. \A k \in 1 .. Len(numbers) : g[k] = g[k - 1] + numbers[k]
    BY <1>1, <1>2
  <2>2. QED
    BY <1>2, <2>1, SumIs
<1>4. Sum(more) = g[n] + x
  <2>1. n + 1 \in 1 .. Len(more) /\ (n + 1) - 1 = n
    BY <1>1
  <2>2. QED
    BY <1>1, <1>2, <2>1
<1>5. QED
  BY <1>3, <1>4 DEF more

LEMMA SumOfNothing == Sum(<<>>) = 0
<1>1. <<>> \in Seq(Int) /\ Len(<<>>) = 0
  OBVIOUS
<1>2. PICK g \in [0 .. Len(<<>>) -> Int] : g[0] = 0 /\ Sum(<<>>) = g[Len(<<>>)]
  BY <1>1, SumSteps
<1>3. QED
  BY <1>1, <1>2

-----------------------------------------------------------------------------
(* What one more place of a list, and one more list, add to the evidence.  *)

\* The finding with the list instead.
Finds(seed, list) == [seed |-> seed, list |-> list]

\* What neighbour n is worth to the seed, if it counts.
Gain(seed, n, filter) ==
  IF seed.score * n.score > 0 /\ n.id \notin filter \cup {0} THEN seed.score * n.score ELSE 0

LEMMA GainIs ==
  ASSUME NEW seed \in Seed, NEW n \in Neighbor, NEW filter
  PROVE  /\ seed.score * n.score \in Int
         /\ Gain(seed, n, filter) \in Nat
         /\ Gain(seed, n, filter) > 0 =>
              /\ n.id \notin filter /\ n.id # 0 /\ n.score > 0
              /\ Gain(seed, n, filter) = seed.score * n.score
         /\ Gain(seed, n, filter) = 0 =>
              n.id \in filter \/ n.id = 0 \/ seed.score * n.score <= 0
<1>1. seed.score \in Nat /\ seed.score > 0 /\ n.score \in Int /\ n.id \in Nat
  BY DEF Seed, Neighbor
<1>2. \A a \in Nat, b \in Int : a * b \in Int /\ (a > 0 /\ a * b > 0 => b > 0)
  OBVIOUS
<1>3. seed.score * n.score \in Int /\ (seed.score * n.score > 0 => n.score > 0)
  BY <1>1, <1>2
<1>4. PICK amount \in Int : amount = seed.score * n.score
  BY <1>3
<1>5. QED
  BY <1>1, <1>3, <1>4 DEF Gain

LEMMA WorthOfNext ==
  ASSUME NEW seed \in Seed, NEW list \in Seq(Neighbor), NEW n \in Neighbor,
         NEW item, NEW filter
  PROVE  /\ Worth(Finds(seed, list), item, filter) \in Int
         /\ Worth(Finds(seed, Append(list, n)), item, filter)
              = Worth(Finds(seed, list), item, filter)
                  + (IF n.id = item THEN Gain(seed, n, filter) ELSE 0)
<1> DEFINE gain(m) == IF m.id = item THEN Gain(seed, m, filter) ELSE 0
           gains(l) == [j \in DOMAIN l |-> gain(l[j])]
           more == Append(list, n)
<1>1. ASSUME NEW l PROVE Worth(Finds(seed, l), item, filter) = Sum(gains(l))
  <2>1. Finds(seed, l).seed = seed /\ Finds(seed, l).list = l
    BY DEF Finds
  <2>2. \A j \in DOMAIN l :
          (IF Finds(seed, l).list[j].id = item /\ Counts(Finds(seed, l), j, filter)
           THEN Amount(Finds(seed, l), j) ELSE 0) = gain(l[j])
    BY <2>1 DEF Counts, Amount, Gain
  <2>3. [j \in DOMAIN Finds(seed, l).list |->
           IF Finds(seed, l).list[j].id = item /\ Counts(Finds(seed, l), j, filter)
           THEN Amount(Finds(seed, l), j) ELSE 0] = gains(l)
    <3> HIDE DEF gain
    <3>1. QED
      BY <2>1, <2>2, Zenon
  <2>4. QED
    BY <2>3 DEF Worth
<1>2. \A m \in Neighbor : gain(m) \in Int
  <2> SUFFICES ASSUME NEW m \in Neighbor PROVE gain(m) \in Int
    OBVIOUS
  <2>1. Gain(seed, m, filter) \in Nat
    BY GainIs
  <2>2. QED
    BY <2>1
<1> HIDE DEF gain
<1>3. Len(list) \in Nat /\ DOMAIN list = 1 .. Len(list) /\ \A j \in DOMAIN list : list[j] \in Neighbor
  OBVIOUS
<1>4. gains(list) \in Seq(Int) /\ DOMAIN gains(list) = DOMAIN list /\ Len(gains(list)) = Len(list)
  BY <1>2, <1>3
<1>5. gains(more) = Append(gains(list), gain(n))
  <2>1. /\ DOMAIN more = 1 .. (Len(list) + 1) /\ more[Len(list) + 1] = n
        /\ \A j \in 1 .. Len(list) : more[j] = list[j]
    BY <1>3
  <2>2. PICK g : g = gains(list)
    OBVIOUS
  <2>3. /\ DOMAIN Append(g, gain(n)) = 1 .. (Len(list) + 1)
        /\ Append(g, gain(n))[Len(list) + 1] = gain(n)
        /\ \A j \in 1 .. Len(list) : Append(g, gain(n))[j] = g[j]
    BY <1>2, <1>3, <1>4, <2>2
  <2>4. \A j \in 1 .. Len(list) : g[j] = gain(list[j])
    BY <1>3, <2>2
  <2>5. \A j \in 1 .. (Len(list) + 1) : Append(g, gain(n))[j] = gain(more[j])
    <3> SUFFICES ASSUME NEW j \in 1 .. (Len(list) + 1)
                 PROVE  Append(g, gain(n))[j] = gain(more[j])
      OBVIOUS
    <3>1. j = Len(list) + 1 \/ j \in 1 .. Len(list)
      BY <1>3
    <3> HIDE DEF more
    <3>2. QED
      BY <2>1, <2>3, <2>4, <3>1
  <2>6. Append(g, gain(n)) = [j \in 1 .. (Len(list) + 1) |-> Append(g, gain(n))[j]]
    BY <1>2, <1>3, <1>4, <2>2
  <2>7. QED
    <3> HIDE DEF more
    <3>1. QED
      BY <2>1, <2>2, <2>5, <2>6
<1>6. gain(n) \in Int
  BY <1>2
<1>7. Sum(gains(list)) \in Int /\ Sum(gains(more)) = Sum(gains(list)) + gain(n)
  <2> HIDE DEF gains
  <2>1. QED
    BY <1>4, <1>5, <1>6, SumAppend
<1> HIDE DEF gains
<1>8. QED
  BY <1>1, <1>7 DEF gain

LEMMA WorthIs ==
  ASSUME NEW e \in Finding, NEW item, NEW filter
  PROVE  /\ e = Finds(e.seed, e.list) /\ e.seed \in Seed /\ e.list \in Seq(Neighbor)
         /\ Worth(e, item, filter) \in Int
<1>1. e = Finds(e.seed, e.list) /\ e.seed \in Seed /\ e.list \in Seq(Neighbor)
  BY DEF Finding, Finds
<1>2. [id |-> 0, score |-> 0] \in Neighbor
  BY DEF Neighbor
<1>3. QED
  BY <1>1, <1>2, WorthOfNext

LEMMA ScoreOfNext ==
  ASSUME NEW E \in Seq(Finding), NEW e \in Finding, NEW item, NEW filter
  PROVE  /\ ScoreOf(E, item, filter) \in Int
         /\ ScoreOf(Append(E, e), item, filter)
              = ScoreOf(E, item, filter) + Worth(e, item, filter)
<1> DEFINE worth(f) == Worth(f, item, filter)
           worths(D) == [i \in DOMAIN D |-> worth(D[i])]
           more == Append(E, e)
<1>1. \A D : ScoreOf(D, item, filter) = Sum(worths(D))
  BY DEF ScoreOf
<1>2. \A f \in Finding : worth(f) \in Int
  BY WorthIs
<1> HIDE DEF worth
<1>3. Len(E) \in Nat /\ DOMAIN E = 1 .. Len(E) /\ \A i \in DOMAIN E : E[i] \in Finding
  OBVIOUS
<1>4. PICK g : g = worths(E)
  OBVIOUS
<1>5. /\ g \in Seq(Int) /\ DOMAIN g = 1 .. Len(E) /\ Len(g) = Len(E)
      /\ \A i \in 1 .. Len(E) : g[i] = worth(E[i])
  BY <1>2, <1>3, <1>4
<1>6. worths(more) = Append(g, worth(e))
  <2>1. /\ DOMAIN more = 1 .. (Len(E) + 1) /\ more[Len(E) + 1] = e
        /\ \A i \in 1 .. Len(E) : more[i] = E[i]
    BY <1>3
  <2>2. /\ DOMAIN Append(g, worth(e)) = 1 .. (Len(E) + 1)
        /\ Append(g, worth(e))[Len(E) + 1] = worth(e)
        /\ \A i \in 1 .. Len(E) : Append(g, worth(e))[i] = g[i]
    BY <1>2, <1>3, <1>5
  <2>3. \A i \in 1 .. (Len(E) + 1) : Append(g, worth(e))[i] = worth(more[i])
    <3> SUFFICES ASSUME NEW i \in 1 .. (Len(E) + 1)
                 PROVE  Append(g, worth(e))[i] = worth(more[i])
      OBVIOUS
    <3>1. i = Len(E) + 1 \/ i \in 1 .. Len(E)
      BY <1>3
    <3> HIDE DEF more
    <3>2. QED
      BY <1>5, <2>1, <2>2, <3>1
  <2>4. Append(g, worth(e)) = [i \in 1 .. (Len(E) + 1) |-> Append(g, worth(e))[i]]
    <3>1. worth(e) \in Int
      BY <1>2
    <3>2. Append(g, worth(e)) \in Seq(Int)
      BY <1>5, <3>1
    <3>3. \A a \in Seq(Int) : a = [i \in DOMAIN a |-> a[i]]
      OBVIOUS
    <3>4. QED
      BY <2>2, <3>2, <3>3
  <2>5. QED
    <3> HIDE DEF more
    <3>1. QED
      BY <2>1, <2>3, <2>4
<1> HIDE DEF worths, more
<1>7. Sum(g) \in Int /\ Sum(Append(g, worth(e))) = Sum(g) + worth(e)
  BY <1>2, <1>5, SumAppend
<1>8. QED
  BY <1>1, <1>4, <1>6, <1>7 DEF worth, more

LEMMA ContributionsOfNext ==
  ASSUME NEW seed \in Seed, NEW list \in Seq(Neighbor), NEW n \in Neighbor, NEW filter
  PROVE  ContributionsOf(Finds(seed, Append(list, n)), filter)
           = ContributionsOf(Finds(seed, list), filter)
               \cup (IF Gain(seed, n, filter) > 0
                     THEN {[item |-> n.id, trigger |-> seed.id,
                            amount |-> Gain(seed, n, filter)]}
                     ELSE {})
<1> DEFINE more == Append(list, n)
           counts(m) == seed.score * m.score > 0 /\ m.id \notin filter \cup {0}
           entry(m) == [item |-> m.id, trigger |-> seed.id, amount |-> seed.score * m.score]
           of(l) == {entry(l[j]) : j \in {k \in DOMAIN l : counts(l[k])}}
<1>1. \A l : ContributionsOf(Finds(seed, l), filter) = of(l)
  BY DEF ContributionsOf, Finds, Counts, Amount
<1>2. counts(n) <=> Gain(seed, n, filter) > 0
  <2>1. seed.score * n.score \in Int
    BY GainIs
  <2>2. PICK amount \in Int : amount = seed.score * n.score
    BY <2>1
  <2>3. QED
    BY <2>2 DEF Gain
<1>3. counts(n) => Gain(seed, n, filter) = seed.score * n.score
  BY DEF Gain
<1> HIDE DEF counts
<1>4. Len(list) \in Nat /\ DOMAIN list = 1 .. Len(list)
  OBVIOUS
<1>5. /\ DOMAIN more = 1 .. (Len(list) + 1) /\ more[Len(list) + 1] = n
      /\ \A j \in 1 .. Len(list) : more[j] = list[j]
  OBVIOUS
<1>6. DOMAIN more = DOMAIN list \cup {Len(list) + 1}
  BY <1>4, <1>5
<1> HIDE DEF more, entry
<1>7. of(more) = of(list) \cup {entry(m) : m \in {k \in {n} : counts(k)}}
  BY <1>4, <1>5, <1>6
<1> HIDE DEF of
<1>8. QED
  BY <1>1, <1>2, <1>3, <1>7 DEF entry, more

LEMMA ContributionsOfMore ==
  ASSUME NEW E \in Seq(Finding), NEW e \in Finding, NEW filter
  PROVE  Contributions(Append(E, e), filter)
           = Contributions(E, filter) \cup ContributionsOf(e, filter)
<1> DEFINE more == Append(E, e)
<1>1. Len(E) \in Nat /\ DOMAIN E = 1 .. Len(E)
  OBVIOUS
<1>2. /\ DOMAIN more = 1 .. (Len(E) + 1) /\ more[Len(E) + 1] = e
      /\ \A j \in 1 .. Len(E) : more[j] = E[j]
  OBVIOUS
<1>3. DOMAIN more = DOMAIN E \cup {Len(E) + 1}
  BY <1>1, <1>2
<1> HIDE DEF more
<1>4. Contributions(more, filter) = Contributions(E, filter) \cup ContributionsOf(e, filter)
  BY <1>1, <1>2, <1>3 DEF Contributions
<1>5. QED
  BY <1>4 DEF more

-----------------------------------------------------------------------------
(* The pool of candidates.                                                 *)

Contribution == [item : Nat, trigger : Nat \ {0}, amount : Nat \ {0}]

\* Candidate c has what total says, and the strongest contribution to x explains it.
Explained(c, x, C, total) ==
  /\ c.score = total[x]
  /\ c.score >= c.reason_score
  /\ \E d \in C :
       /\ d.item = x /\ d.trigger = c.trigger /\ d.amount = c.reason_score
       /\ \A other \in C : other.item = x => other.amount <= d.amount

\* The pool has the items of the contributions C, each with what C says of it.
Pooled(pool, C, total) ==
  /\ pool \in Pools
  /\ C \in SUBSET Contribution
  /\ total \in [Nat -> Int]
  /\ DOMAIN pool = {c.item : c \in C}
  /\ \A x \in Nat \ DOMAIN pool : total[x] = 0
  /\ \A x \in DOMAIN pool : x > 0 /\ Explained(pool[x], x, C, total)

Totals(E, filter) == [x \in Nat |-> ScoreOf(E, x, filter)]

\* The pool is what the findings E make of it.
PoolOf(pool, E, filter) == Pooled(pool, Contributions(E, filter), Totals(E, filter))

\* One place of a list in the loop of AddNeighbors.
AddUnlessMet(pool, seed, n, filter) ==
  IF n.id \in filter THEN pool ELSE AddCandidateContribution(pool, seed, n)

LEMMA PoolsAre ==
  ASSUME NEW pool \in Pools
  PROVE  /\ DOMAIN pool \in SUBSET Nat /\ IsFiniteSet(DOMAIN pool)
         /\ pool \in [DOMAIN pool -> Candidate]
         /\ \A x \in DOMAIN pool : pool[x] \in Candidate
BY DEF Pools

\* after is the pool with what the seed gains from n.
Adds(after, pool, seed, n, gain) ==
  /\ after \in Pools
  /\ gain = 0 => after = pool
  /\ gain > 0 =>
       /\ DOMAIN after = DOMAIN pool \cup {n.id}
       /\ \A x \in DOMAIN pool \ {n.id} : after[x] = pool[x]
       /\ n.id \notin DOMAIN pool =>
            after[n.id] = [score |-> gain, trigger |-> seed.id, reason_score |-> gain]
       /\ n.id \in DOMAIN pool =>
            after[n.id] =
              [score |-> pool[n.id].score + gain,
               trigger |-> IF gain > pool[n.id].reason_score
                           THEN seed.id ELSE pool[n.id].trigger,
               reason_score |-> IF gain > pool[n.id].reason_score
                                THEN gain ELSE pool[n.id].reason_score]

LEMMA AddUnlessMetIs ==
  ASSUME NEW pool \in Pools, NEW seed \in Seed, NEW n \in Neighbor, NEW filter
  PROVE  Adds(AddUnlessMet(pool, seed, n, filter), pool, seed, n, Gain(seed, n, filter))
<1> DEFINE after == AddUnlessMet(pool, seed, n, filter)
           old == pool[n.id]
<1>1. PICK gain \in Nat : gain = Gain(seed, n, filter)
  BY GainIs
<1>2. /\ gain > 0 => n.id \notin filter /\ n.id # 0 /\ n.score > 0
                     /\ gain = seed.score * n.score
      /\ gain = 0 => n.id \in filter \/ n.id = 0 \/ seed.score * n.score <= 0
  BY <1>1, GainIs
<1>3. n.id \in Nat /\ seed.id \in Nat
  BY DEF Neighbor, Seed
<1>4. CASE gain = 0
  <2>1. after = pool
    BY <1>2, <1>4 DEF AddUnlessMet, AddCandidateContribution
  <2>2. QED
    BY <1>1, <1>4, <2>1 DEF Adds
<1>5. CASE gain > 0
  <2> DEFINE added == [score |-> IF n.id \notin DOMAIN pool THEN gain ELSE old.score + gain,
                       trigger |-> IF n.id \notin DOMAIN pool \/ gain > old.reason_score
                                   THEN seed.id ELSE old.trigger,
                       reason_score |-> IF n.id \notin DOMAIN pool \/ gain > old.reason_score
                                        THEN gain ELSE old.reason_score]
             items == DOMAIN pool \cup {n.id}
  <2>1. after = [x \in items |-> IF x = n.id THEN added ELSE pool[x]]
    <3>1. ~(n.id = 0 \/ n.score <= 0 \/ gain <= 0)
      <4>1. n.score \in Int
        BY DEF Neighbor
      <4>2. QED
        BY <1>2, <1>5, <4>1
    <3>2. AddCandidateContribution(pool, seed, n)
            = [x \in items |-> IF x = n.id THEN added ELSE pool[x]]
      BY <1>2, <1>5, <3>1 DEF AddCandidateContribution
    <3>3. QED
      BY <1>2, <1>5, <3>2 DEF AddUnlessMet
  <2>2. items \in SUBSET Nat /\ IsFiniteSet(items)
    BY <1>3, PoolsAre, FS_AddElement
  <2>3. added \in Candidate
    <3>1. CASE n.id \notin DOMAIN pool
      BY <1>3, <3>1 DEF Candidate
    <3>2. CASE n.id \in DOMAIN pool
      <4>1. old \in Candidate
        BY <3>2, PoolsAre
      <4>2. old.score \in Int /\ old.trigger \in Nat /\ old.reason_score \in Int
        BY <4>1 DEF Candidate
      <4> HIDE DEF old
      <4>3. QED
        BY <1>3, <3>2, <4>2 DEF Candidate
    <3>3. QED
      BY <3>1, <3>2
  <2> HIDE DEF added
  <2>4. after \in [items -> Candidate]
    BY <2>1, <2>3, PoolsAre
  <2> HIDE DEF after
  <2>5. after \in Pools
    BY <2>2, <2>4 DEF Pools
  <2>6. after[n.id] = added /\ \A x \in DOMAIN pool \ {n.id} : after[x] = pool[x]
    BY <2>1
  <2>7. DOMAIN after = DOMAIN pool \cup {n.id}
    BY <2>1
  <2>8. n.id \notin DOMAIN pool =>
          added = [score |-> gain, trigger |-> seed.id, reason_score |-> gain]
    BY DEF added
  <2>9. n.id \in DOMAIN pool =>
          added = [score |-> old.score + gain,
                   trigger |-> IF gain > old.reason_score THEN seed.id ELSE old.trigger,
                   reason_score |-> IF gain > old.reason_score THEN gain ELSE old.reason_score]
    BY DEF added
  <2>10. Adds(after, pool, seed, n, gain)
    BY <1>5, <2>5, <2>6, <2>7, <2>8, <2>9 DEF Adds
  <2>11. QED
    BY <1>1, <2>10 DEF after
<1>6. QED
  BY <1>4, <1>5

\* A contribution more: the item's total grows, and the reason follows.
LEMMA PooledKeeps ==
  ASSUME NEW pool, NEW C, NEW total, Pooled(pool, C, total),
         NEW seed \in Seed, NEW n \in Neighbor, NEW filter
  PROVE  Pooled(AddUnlessMet(pool, seed, n, filter),
                C \cup (IF Gain(seed, n, filter) > 0
                        THEN {[item |-> n.id, trigger |-> seed.id,
                               amount |-> Gain(seed, n, filter)]}
                        ELSE {}),
                [x \in Nat |-> total[x] + (IF n.id = x THEN Gain(seed, n, filter) ELSE 0)])
<1> DEFINE Next0 == [x \in Nat |-> total[x] + (IF n.id = x THEN Gain(seed, n, filter) ELSE 0)]
<1>1. PICK gain \in Nat : gain = Gain(seed, n, filter)
  BY GainIs
<1>2. PICK after : after = AddUnlessMet(pool, seed, n, filter)
  OBVIOUS
<1>3. PICK more : more = Next0
  OBVIOUS
<1>4. n.id \in Nat /\ seed.id \in Nat \ {0} /\ (gain > 0 => n.id > 0)
  <2>1. n.id \in Nat /\ seed.id \in Nat \ {0}
    BY DEF Neighbor, Seed
  <2>2. gain > 0 => n.id # 0
    BY <1>1, GainIs
  <2>3. QED
    BY <2>1, <2>2
<1>5. /\ more \in [Nat -> Int]
      /\ \A x \in Nat : x # n.id => more[x] = total[x]
      /\ more[n.id] = total[n.id] + gain
  <2>1. total \in [Nat -> Int]
    BY DEF Pooled
  <2>2. QED
    BY <1>1, <1>3, <1>4, <2>1
<1> HIDE DEF Next0
<1>6. pool \in Pools /\ Adds(after, pool, seed, n, gain)
  <2>1. pool \in Pools
    BY DEF Pooled
  <2>2. QED
    BY <1>1, <1>2, <2>1, AddUnlessMetIs
<1>7. CASE gain = 0
  <2>1. after = pool
    BY <1>6, <1>7 DEF Adds
  <2>2. more = total
    <3>1. \A x \in Nat : more[x] = total[x]
      BY <1>4, <1>5, <1>7 DEF Pooled
    <3>2. QED
      BY <1>5, <3>1 DEF Pooled
  <2>3. QED
    BY <1>1, <1>2, <1>3, <1>7, <2>1, <2>2 DEF Next0
<1>8. CASE gain > 0
  <2>1. PICK new : new = [item |-> n.id, trigger |-> seed.id, amount |-> gain]
    OBVIOUS
  <2>2. /\ new \in Contribution /\ new.item = n.id /\ new.trigger = seed.id
        /\ new.amount = gain
    BY <1>4, <1>8, <2>1 DEF Contribution
  <2>3. PICK C2 : C2 = C \cup {new}
    OBVIOUS
  <2>4. /\ after \in Pools /\ DOMAIN after = DOMAIN pool \cup {n.id}
        /\ \A x \in DOMAIN pool \ {n.id} : after[x] = pool[x]
    BY <1>6, <1>8 DEF Adds
  <2>5. /\ C2 \in SUBSET Contribution
        /\ DOMAIN after = {c.item : c \in C2}
    BY <2>2, <2>3, <2>4 DEF Pooled
  <2>6. \A x \in Nat \ DOMAIN after : more[x] = 0
    BY <1>5, <2>4 DEF Pooled
  <2>7. ASSUME NEW x \in DOMAIN pool \ {n.id}
        PROVE  x > 0 /\ Explained(after[x], x, C2, more)
    <3>1. x \in Nat /\ x > 0 /\ Explained(pool[x], x, C, total)
      BY <1>6, PoolsAre DEF Pooled
    <3>2. after[x] = pool[x] /\ more[x] = total[x]
      BY <1>5, <2>4, <2>7, <3>1
    <3>3. \A d \in C2 : d.item = x => d \in C
      BY <2>2, <2>3, <2>7
    <3>4. QED
      BY <2>3, <3>1, <3>2, <3>3 DEF Explained
  <2>8. Explained(after[n.id], n.id, C2, more)
    <3>1. CASE n.id \notin DOMAIN pool
      <4>1. after[n.id] = [score |-> gain, trigger |-> seed.id, reason_score |-> gain]
        BY <1>6, <1>8, <3>1 DEF Adds
      <4>2. more[n.id] = gain
        BY <1>1, <1>4, <1>5, <3>1 DEF Pooled
      <4>3. \A d \in C2 : d.item = n.id => d = new
        BY <2>3, <3>1 DEF Pooled
      <4>4. new \in C2
        BY <2>3
      <4>5. QED
        BY <1>1, <2>2, <4>1, <4>2, <4>3, <4>4 DEF Explained
    <3>2. CASE n.id \in DOMAIN pool
      <4>1. PICK old : old = pool[n.id]
        OBVIOUS
      <4>2. old.score \in Int /\ old.reason_score \in Int /\ Explained(old, n.id, C, total)
        BY <1>6, <3>2, <4>1, PoolsAre DEF Pooled, Candidate
      <4>3. PICK d \in C : /\ d.item = n.id /\ d.trigger = old.trigger
                           /\ d.amount = old.reason_score
                           /\ \A other \in C : other.item = n.id => other.amount <= d.amount
        BY <4>2 DEF Explained
      <4>4. \A other \in C2 : other.amount \in Nat /\ other.amount > 0
        BY <2>5 DEF Contribution
      <4>5. after[n.id] =
              [score |-> old.score + gain,
               trigger |-> IF gain > old.reason_score THEN seed.id ELSE old.trigger,
               reason_score |-> IF gain > old.reason_score THEN gain ELSE old.reason_score]
        BY <1>6, <1>8, <3>2, <4>1 DEF Adds
      <4>6. d \in C2 /\ d.amount > 0 /\ new \in C2
        BY <2>3, <4>3, <4>4
      <4>7. more[n.id] = old.score + gain /\ old.score >= old.reason_score
        BY <1>5, <4>2 DEF Explained
      <4>8. CASE gain > old.reason_score
        <5>1. after[n.id] = [score |-> old.score + gain, trigger |-> seed.id,
                             reason_score |-> gain]
          BY <4>5, <4>8
        <5>2. \A other \in C2 : other.item = n.id => other.amount <= new.amount
          <6> SUFFICES ASSUME NEW other \in C2, other.item = n.id
                       PROVE  other.amount <= new.amount
            OBVIOUS
          <6>1. CASE other = new
            BY <1>1, <2>2, <6>1
          <6>2. CASE other \in C
            <7>1. other.amount <= d.amount /\ other.amount \in Nat
              BY <4>3, <4>4, <6>2
            <7>2. QED
              BY <1>1, <2>2, <4>2, <4>3, <4>8, <7>1
          <6>3. QED
            BY <2>3, <6>1, <6>2
        <5>3. old.score + gain >= gain
          BY <1>1, <4>2, <4>3, <4>6, <4>7
        <5>4. QED
          BY <2>2, <4>6, <4>7, <5>1, <5>2, <5>3 DEF Explained
      <4>9. CASE ~(gain > old.reason_score)
        <5>1. after[n.id] = [score |-> old.score + gain, trigger |-> old.trigger,
                             reason_score |-> old.reason_score]
          BY <4>5, <4>9
        <5>2. \A other \in C2 : other.item = n.id => other.amount <= d.amount
          <6> SUFFICES ASSUME NEW other \in C2, other.item = n.id
                       PROVE  other.amount <= d.amount
            OBVIOUS
          <6>1. CASE other = new
            BY <1>1, <2>2, <4>2, <4>3, <4>9, <6>1
          <6>2. CASE other \in C
            BY <4>3, <6>2
          <6>3. QED
            BY <2>3, <6>1, <6>2
        <5>3. old.score + gain >= old.reason_score
          BY <1>1, <4>2, <4>7
        <5>4. QED
          BY <4>3, <4>6, <4>7, <5>1, <5>2, <5>3 DEF Explained
      <4>10. QED
        BY <4>8, <4>9
    <3>3. QED
      BY <3>1, <3>2
  <2>9. Pooled(after, C2, more)
    <3>1. \A x \in DOMAIN after : x > 0 /\ Explained(after[x], x, C2, more)
      BY <1>4, <1>8, <2>4, <2>7, <2>8
    <3>2. QED
      BY <1>5, <2>4, <2>5, <2>6, <3>1 DEF Pooled
  <2>10. QED
    BY <1>1, <1>2, <1>3, <1>8, <2>1, <2>3, <2>9 DEF Next0
<1>9. QED
  BY <1>7, <1>8

LEMMA FindsAreFindings ==
  ASSUME NEW seed \in Seed, NEW list \in Seq(Neighbor)
  PROVE  Finds(seed, list) \in Finding
BY DEF Finds, Finding

\* One place more in the last list.
LEMMA PlaceKeeps ==
  ASSUME NEW E \in Seq(Finding), NEW seed \in Seed, NEW list \in Seq(Neighbor),
         NEW n \in Neighbor, NEW filter, NEW pool,
         PoolOf(pool, Append(E, Finds(seed, list)), filter)
  PROVE  PoolOf(AddUnlessMet(pool, seed, n, filter),
                Append(E, Finds(seed, Append(list, n))), filter)
<1> DEFINE E1 == Append(E, Finds(seed, list))
           E2 == Append(E, Finds(seed, Append(list, n)))
           extra == IF Gain(seed, n, filter) > 0
                    THEN {[item |-> n.id, trigger |-> seed.id,
                           amount |-> Gain(seed, n, filter)]}
                    ELSE {}
           grown == [x \in Nat |-> Totals(E1, filter)[x]
                                     + (IF n.id = x THEN Gain(seed, n, filter) ELSE 0)]
<1>1. Append(list, n) \in Seq(Neighbor)
  OBVIOUS
<1>2. Finds(seed, list) \in Finding /\ Finds(seed, Append(list, n)) \in Finding
  BY <1>1, FindsAreFindings
<1>3. Contributions(E2, filter) = Contributions(E1, filter) \cup extra
  <2>1. Contributions(E2, filter)
          = Contributions(E, filter) \cup ContributionsOf(Finds(seed, Append(list, n)), filter)
    BY <1>2, ContributionsOfMore
  <2>2. Contributions(E1, filter)
          = Contributions(E, filter) \cup ContributionsOf(Finds(seed, list), filter)
    BY <1>2, ContributionsOfMore
  <2>3. ContributionsOf(Finds(seed, Append(list, n)), filter)
          = ContributionsOf(Finds(seed, list), filter) \cup extra
    BY ContributionsOfNext
  <2> HIDE DEF extra, E1, E2
  <2>4. QED
    BY <2>1, <2>2, <2>3
<1>4. ASSUME NEW x \in Nat
      PROVE  ScoreOf(E2, x, filter)
               = ScoreOf(E1, x, filter) + (IF n.id = x THEN Gain(seed, n, filter) ELSE 0)
  <2>1. /\ ScoreOf(E, x, filter) \in Int
        /\ ScoreOf(E2, x, filter)
             = ScoreOf(E, x, filter) + Worth(Finds(seed, Append(list, n)), x, filter)
    BY <1>2, ScoreOfNext
  <2>2. ScoreOf(E1, x, filter) = ScoreOf(E, x, filter) + Worth(Finds(seed, list), x, filter)
    BY <1>2, ScoreOfNext
  <2>3. /\ Worth(Finds(seed, list), x, filter) \in Int
        /\ Worth(Finds(seed, Append(list, n)), x, filter)
             = Worth(Finds(seed, list), x, filter)
                 + (IF n.id = x THEN Gain(seed, n, filter) ELSE 0)
    BY WorthOfNext
  <2>4. PICK gain \in Nat : gain = Gain(seed, n, filter)
    BY GainIs
  <2> HIDE DEF E1, E2
  <2>5. QED
    BY <2>1, <2>2, <2>3, <2>4
<1>5. Totals(E2, filter) = grown
  <2>1. \A x \in Nat : Totals(E1, filter)[x] = ScoreOf(E1, x, filter)
    BY DEF Totals
  <2> HIDE DEF E1, E2
  <2>2. QED
    BY <1>4, <2>1 DEF Totals
<1>6. Pooled(pool, Contributions(E1, filter), Totals(E1, filter))
  BY DEF PoolOf
<1> HIDE DEF E1, E2
<1>7. Pooled(AddUnlessMet(pool, seed, n, filter), Contributions(E1, filter) \cup extra, grown)
  BY <1>6, PooledKeeps
<1>8. QED
  BY <1>3, <1>5, <1>7 DEF PoolOf, E2

\* A list without a place.
LEMMA EmptyListKeeps ==
  ASSUME NEW E \in Seq(Finding), NEW seed \in Seed, NEW filter, NEW pool,
         PoolOf(pool, E, filter)
  PROVE  PoolOf(pool, Append(E, Finds(seed, <<>>)), filter)
<1> DEFINE E1 == Append(E, Finds(seed, <<>>))
<1>1. Finds(seed, <<>>) \in Finding
  <2>1. <<>> \in Seq(Neighbor)
    OBVIOUS
  <2>2. QED
    BY <2>1, FindsAreFindings
<1>2. Contributions(E1, filter) = Contributions(E, filter)
  <2>1. ContributionsOf(Finds(seed, <<>>), filter) = {}
    BY DEF ContributionsOf, Finds
  <2>2. Contributions(E1, filter)
          = Contributions(E, filter) \cup ContributionsOf(Finds(seed, <<>>), filter)
    BY <1>1, ContributionsOfMore
  <2>3. QED
    BY <2>1, <2>2
<1>3. \A x : ScoreOf(E1, x, filter) = ScoreOf(E, x, filter)
  <2> SUFFICES ASSUME NEW x PROVE ScoreOf(E1, x, filter) = ScoreOf(E, x, filter)
    OBVIOUS
  <2>1. Finds(seed, <<>>).list = <<>> /\ DOMAIN <<>> = {}
    BY DEF Finds
  <2>2. Worth(Finds(seed, <<>>), x, filter) = Sum(<<>>)
    <3> DEFINE e == Finds(seed, <<>>)
               f == [j \in DOMAIN e.list |->
                       IF e.list[j].id = x /\ Counts(e, j, filter) THEN Amount(e, j) ELSE 0]
    <3>1. f = <<>>
      BY <2>1
    <3>2. Worth(e, x, filter) = Sum(f)
      BY DEF Worth
    <3> HIDE DEF f
    <3>3. QED
      BY <3>1, <3>2
  <2>3. /\ ScoreOf(E, x, filter) \in Int
        /\ ScoreOf(E1, x, filter)
             = ScoreOf(E, x, filter) + Worth(Finds(seed, <<>>), x, filter)
    BY <1>1, ScoreOfNext
  <2> HIDE DEF E1
  <2>4. QED
    BY <2>2, <2>3, SumOfNothing
<1> HIDE DEF E1
<1>4. Totals(E1, filter) = Totals(E, filter)
  BY <1>3 DEF Totals
<1>5. QED
  BY <1>2, <1>4 DEF PoolOf, E1

LEMMA NothingFound ==
  ASSUME NEW filter
  PROVE  PoolOf(NoCandidates, <<>>, filter)
<1>1. Contributions(<<>>, filter) = {}
  BY DEF Contributions
<1>2. \A x \in Nat : Totals(<<>>, filter)[x] = 0
  <2> SUFFICES ASSUME NEW x \in Nat PROVE ScoreOf(<<>>, x, filter) = 0
    BY DEF Totals
  <2>1. [i \in DOMAIN <<>> |-> Worth(<<>>[i], x, filter)] = <<>>
    OBVIOUS
  <2>2. QED
    BY <2>1, SumOfNothing DEF ScoreOf
<1>3. Totals(<<>>, filter) \in [Nat -> Int]
  <2>1. Totals(<<>>, filter) = [x \in Nat |-> Totals(<<>>, filter)[x]]
    BY DEF Totals
  <2>2. QED
    BY <1>2, <2>1
<1>4. NoCandidates \in Pools /\ DOMAIN NoCandidates = {}
  <2>1. NoCandidates \in [{} -> Candidate] /\ DOMAIN NoCandidates = {}
    BY DEF NoCandidates
  <2>2. {} \in SUBSET Nat /\ IsFiniteSet({})
    BY FS_EmptySet
  <2>3. QED
    BY <2>1, <2>2 DEF Pools
<1>5. QED
  BY <1>1, <1>2, <1>3, <1>4 DEF PoolOf, Pooled

-----------------------------------------------------------------------------
(* The neighbours of one seed.                                             *)

LEMMA PrefixSteps ==
  ASSUME NEW S, NEW s \in Seq(S)
  PROVE  /\ SubSeq(s, 1, 0) = <<>>
         /\ SubSeq(s, 1, Len(s)) = s
         /\ \A k \in 1 .. Len(s) :
              /\ SubSeq(s, 1, k) \in Seq(S) /\ SubSeq(s, 1, k - 1) \in Seq(S)
              /\ SubSeq(s, 1, k) = Append(SubSeq(s, 1, k - 1), s[k])
<1>1. Len(s) \in Nat /\ DOMAIN s = 1 .. Len(s) /\ \A i \in 1 .. Len(s) : s[i] \in S
  OBVIOUS
<1>2. SubSeq(s, 1, 0) = <<>> /\ SubSeq(s, 1, Len(s)) = s
  BY <1>1
<1>3. ASSUME NEW k \in 1 .. Len(s)
      PROVE  /\ SubSeq(s, 1, k) \in Seq(S) /\ SubSeq(s, 1, k - 1) \in Seq(S)
             /\ SubSeq(s, 1, k) = Append(SubSeq(s, 1, k - 1), s[k])
  <2>1. PICK a : a = SubSeq(s, 1, k)
    OBVIOUS
  <2>2. PICK b : b = SubSeq(s, 1, k - 1)
    OBVIOUS
  <2>3. /\ a \in Seq(S) /\ Len(a) = k /\ DOMAIN a = 1 .. k
        /\ \A i \in 1 .. k : a[i] = s[i]
    BY <1>1, <2>1
  <2>4. /\ b \in Seq(S) /\ Len(b) = k - 1 /\ DOMAIN b = 1 .. (k - 1)
        /\ \A i \in 1 .. (k - 1) : b[i] = s[i]
    BY <1>1, <2>2
  <2>5. PICK c : c = Append(b, s[k])
    OBVIOUS
  <2>6. s[k] \in S
    BY <1>1
  <2>7. c \in Seq(S) /\ Len(c) = k /\ DOMAIN c = 1 .. k
    BY <2>4, <2>5, <2>6
  <2>8. c[k] = s[k] /\ \A i \in 1 .. (k - 1) : c[i] = s[i]
    BY <2>4, <2>5, <2>6
  <2>9. \A i \in 1 .. k : c[i] = a[i]
    <3>1. \A i \in 1 .. k : i = k \/ i \in 1 .. (k - 1)
      OBVIOUS
    <3>2. QED
      BY <2>3, <2>8, <3>1
  <2>10. \A t \in Seq(S) : t = [i \in 1 .. Len(t) |-> t[i]]
    OBVIOUS
  <2>11. c = a
    BY <2>3, <2>7, <2>9, <2>10
  <2>12. QED
    BY <2>1, <2>2, <2>3, <2>4, <2>5, <2>11
<1>4. QED
  BY <1>2, <1>3

AddsInTurn(g, pool, seed, list, filter) ==
  /\ g \in [0 .. Len(list) -> Pools] /\ g[0] = pool
  /\ \A k \in 1 .. Len(list) : g[k] = AddUnlessMet(g[k - 1], seed, list[k], filter)
  /\ AddNeighbors(pool, seed, list, filter) = g[Len(list)]

LEMMA AddNeighborsSteps ==
  ASSUME NEW pool \in Pools, NEW seed \in Seed, NEW list \in Seq(Neighbor), NEW filter
  PROVE  \E g : AddsInTurn(g, pool, seed, list, filter)
<1> DEFINE n == Len(list)
           step(acc, m) == AddUnlessMet(acc, seed, m, filter)
           F == [x \in Pools \X Neighbor |-> step(x[1], x[2])]
           iter == CHOOSE iter :
                     iter = [t \in SUBSET DOMAIN list |->
                       IF t = {} THEN pool ELSE step(iter[t \ {Max(t)}], list[Max(t)])]
<1>1. DOMAIN list = 1 .. n /\ n \in Nat /\ \A k \in 1 .. n : list[k] \in Neighbor
  OBVIOUS
<1>2. AddNeighbors(pool, seed, list, filter) = iter[DOMAIN list]
  BY DEF AddNeighbors, AddUnlessMet, FoldLeft, MapThenFoldSet
<1>3. \A acc \in Pools, m \in Neighbor : step(acc, m) \in Pools
  BY AddUnlessMetIs DEF Adds
<1> HIDE DEF step
<1>4. F \in [Pools \X Neighbor -> Pools]
  BY <1>3
<1>5. \A acc \in Pools, m \in Neighbor : F[<<acc, m>>] = step(acc, m)
  OBVIOUS
<1> HIDE DEF F, n, iter
<1>6. PICK f : FoldsBy(f, Pools, F, pool, list, n)
  BY <1>1, <1>4, FoldExists
<1>7. ASSUME NEW t \in SUBSET (1 .. n), t # {}
      PROVE  f[t] = step(f[t \ {Max(t)}], list[Max(t)]) /\ Max(t) \in 1 .. n
  <2>1. Max(t) \in 1 .. n
    BY <1>1, <1>7, MaxIsIn
  <2>2. f[t \ {Max(t)}] \in Pools /\ list[Max(t)] \in Neighbor
    BY <1>1, <1>6, <2>1 DEF FoldsBy
  <2>3. QED
    BY <1>5, <1>6, <1>7, <2>1, <2>2 DEF FoldsBy
<1>8. f = [t \in SUBSET (1 .. n) |->
             IF t = {} THEN pool ELSE step(f[t \ {Max(t)}], list[Max(t)])]
  BY <1>6, <1>7 DEF FoldsBy
<1>9. iter = [t \in SUBSET (1 .. n) |->
                IF t = {} THEN pool ELSE step(iter[t \ {Max(t)}], list[Max(t)])]
  BY <1>1, <1>8 DEF iter
<1>10. FoldsLike(iter, Pools, F, pool, list, n)
  <2>1. iter[{}] = pool
    BY <1>9, {} \in SUBSET (1 .. n)
  <2>2. ASSUME NEW t \in SUBSET (1 .. n), t # {}, iter[t \ {Max(t)}] \in Pools
        PROVE  iter[t] = F[<<iter[t \ {Max(t)}], list[Max(t)]>>]
    <3>1. iter[t] = step(iter[t \ {Max(t)}], list[Max(t)])
      BY <1>9, <2>2
    <3>2. list[Max(t)] \in Neighbor
      BY <1>1, <1>7, <2>2
    <3>3. QED
      BY <1>5, <2>2, <3>1, <3>2
  <2>3. QED
    BY <2>1, <2>2 DEF FoldsLike
<1>11. PICK g : StepsBy(g, Pools, F, pool, list, n) /\ iter[1 .. n] = g[n]
  BY <1>1, <1>6, <1>10, FoldReaches
<1>12. g \in [0 .. n -> Pools] /\ g[0] = pool
  BY <1>11 DEF StepsBy
<1>13. ASSUME NEW k \in 1 .. n PROVE g[k] = step(g[k - 1], list[k])
  <2>1. g[k - 1] \in Pools /\ list[k] \in Neighbor
    BY <1>1, <1>12
  <2>2. QED
    BY <1>5, <1>11, <2>1 DEF StepsBy
<1>14. QED
  BY <1>1, <1>2, <1>11, <1>12, <1>13 DEF n, step, AddsInTurn

LEMMA AddNeighborsKeeps ==
  ASSUME NEW E \in Seq(Finding), NEW seed \in Seed, NEW list \in Seq(Neighbor), NEW filter,
         NEW pool, PoolOf(pool, E, filter)
  PROVE  PoolOf(AddNeighbors(pool, seed, list, filter), Append(E, Finds(seed, list)), filter)
<1> DEFINE n == Len(list)
<1>0. pool \in Pools
  BY DEF PoolOf, Pooled
<1>1. PICK g : AddsInTurn(g, pool, seed, list, filter)
  BY <1>0, AddNeighborsSteps
<1>2. /\ g[0] = pool
      /\ \A k \in 1 .. n : g[k] = AddUnlessMet(g[k - 1], seed, list[k], filter)
      /\ AddNeighbors(pool, seed, list, filter) = g[n]
  BY <1>1 DEF AddsInTurn
<1>3. n \in Nat /\ \A k \in 1 .. n : list[k] \in Neighbor
  OBVIOUS
<1> HIDE DEF n
<1> DEFINE upTo(k) == Append(E, Finds(seed, SubSeq(list, 1, k)))
           T == {k \in 0 .. n : PoolOf(g[k], upTo(k), filter)}
<1>4. 0 \in T
  <2>1. PoolOf(pool, Append(E, Finds(seed, <<>>)), filter)
    BY EmptyListKeeps
  <2>2. SubSeq(list, 1, 0) = <<>>
    BY PrefixSteps
  <2>3. upTo(0) = Append(E, Finds(seed, <<>>))
    BY <2>2
  <2>4. 0 \in 0 .. n
    BY <1>3
  <2> HIDE DEF upTo
  <2>5. QED
    BY <1>2, <2>1, <2>3, <2>4
<1>5. ASSUME NEW k \in 0 .. (n - 1), k \in T PROVE k + 1 \in T
  <2>1. k + 1 \in 1 .. n /\ k + 1 \in 0 .. n /\ (k + 1) - 1 = k
    BY <1>3
  <2>2. PICK short \in Seq(Neighbor) : short = SubSeq(list, 1, k)
    BY <2>1, PrefixSteps DEF n
  <2>3. SubSeq(list, 1, k + 1) = Append(short, list[k + 1])
    BY <2>1, <2>2, PrefixSteps DEF n
  <2>4. PoolOf(g[k], Append(E, Finds(seed, short)), filter) /\ list[k + 1] \in Neighbor
    BY <1>3, <1>5, <2>1, <2>2
  <2>5. PoolOf(AddUnlessMet(g[k], seed, list[k + 1], filter),
               Append(E, Finds(seed, Append(short, list[k + 1]))), filter)
    BY <2>4, PlaceKeeps
  <2>6. g[k + 1] = AddUnlessMet(g[k], seed, list[k + 1], filter)
    BY <1>2, <2>1
  <2>7. QED
    BY <2>1, <2>3, <2>5, <2>6
<1>6. n \in T
  <2> HIDE DEF T
  <2>1. 0 .. n \subseteq T
    BY <1>3, <1>4, <1>5, UpTo
  <2>2. QED
    BY <1>3, <2>1
<1>7. upTo(n) = Append(E, Finds(seed, list))
  <2>1. SubSeq(list, 1, n) = list
    BY PrefixSteps DEF n
  <2>2. QED
    BY <2>1
<1> HIDE DEF upTo
<1>8. QED
  BY <1>2, <1>6, <1>7

-----------------------------------------------------------------------------
(* The candidates in order.                                                *)

\* No two elements of S have the same id.
Scored(S) ==
  /\ IsFiniteSet(S) /\ S \in SUBSET [id : Nat, score : Int]
  /\ \A x, y \in S : x.id = y.id => x = y

\* s is S in order.
InOrder(s, S) ==
  /\ s \in Seq(S) /\ Len(s) = Cardinality(S) /\ DOMAIN s = 1 .. Cardinality(S)
  /\ \A x \in S : \E n \in 1 .. Cardinality(S) : s[n] = x
  /\ \A i, j \in 1 .. Cardinality(S) : i < j => HigherScoreFirst(s[i], s[j])

LEMMA HigherScoreFirstIsAnOrder ==
  ASSUME NEW x \in [id : Nat, score : Int], NEW y \in [id : Nat, score : Int],
         NEW z \in [id : Nat, score : Int]
  PROVE  /\ ~ HigherScoreFirst(x, x)
         /\ HigherScoreFirst(x, y) /\ HigherScoreFirst(y, z) => HigherScoreFirst(x, z)
         /\ x.id # y.id => HigherScoreFirst(x, y) \/ HigherScoreFirst(y, x)
BY DEF HigherScoreFirst

LEMMA SortedIs ==
  ASSUME NEW S, Scored(S)
  PROVE  InOrder(Sorted(S), S)
<1> DEFINE R == {p \in S \X S : HigherScoreFirst(p[1], p[2])}
           n == Cardinality(S)
           ahead(x) == Cardinality({y \in S : HigherScoreFirst(y, x)})
           s == [k \in 1 .. n |-> CHOOSE x \in S : ahead(x) = k - 1]
<1>1. \A x, y \in S : <<x, y>> \in R <=> HigherScoreFirst(x, y)
  OBVIOUS
<1>2. Orders(R, S)
  <2>1. \A x \in S : x \in [id : Nat, score : Int]
    BY DEF Scored
  <2>2. \A x \in S : ~ HigherScoreFirst(x, x)
    BY <2>1, HigherScoreFirstIsAnOrder
  <2>3. \A x, y, z \in S :
          HigherScoreFirst(x, y) /\ HigherScoreFirst(y, z) => HigherScoreFirst(x, z)
    BY <2>1, HigherScoreFirstIsAnOrder
  <2>4. \A x, y \in S : x # y => HigherScoreFirst(x, y) \/ HigherScoreFirst(y, x)
    BY <2>1, HigherScoreFirstIsAnOrder DEF Scored
  <2> HIDE DEF R
  <2>5. QED
    BY <1>1, <2>2, <2>3, <2>4 DEF Orders
<1> HIDE DEF R
<1>3. \A x \in S : Cardinality(Ahead(R, S, x)) = ahead(x)
  BY <1>1 DEF Ahead
<1>4. IsFiniteSet(S) /\ n \in Nat
  BY FS_CardinalityType DEF Scored
<1>5. /\ \A x, y \in S : HigherScoreFirst(x, y) <=> ahead(x) < ahead(y)
      /\ \A k \in 0 .. (n - 1) : \E x \in S : ahead(x) = k
      /\ \A x \in S : ahead(x) \in 0 .. (n - 1)
      /\ \A x, y \in S : ahead(x) = ahead(y) => x = y
  <2>1. /\ \A x \in S : Cardinality(Ahead(R, S, x)) \in 0 .. (n - 1)
        /\ \A x, y \in S :
             <<x, y>> \in R <=> Cardinality(Ahead(R, S, x)) < Cardinality(Ahead(R, S, y))
        /\ \A x, y \in S :
             Cardinality(Ahead(R, S, x)) = Cardinality(Ahead(R, S, y)) => x = y
        /\ \A k \in 0 .. (n - 1) :
             \E x \in S : Cardinality(Ahead(R, S, x)) = k
    BY <1>2, <1>4, RanksAreUnique
  <2> HIDE DEF n, ahead
  <2>2. \A x, y \in S : HigherScoreFirst(x, y) <=> ahead(x) < ahead(y)
    <3> SUFFICES ASSUME NEW x \in S, NEW y \in S
                 PROVE  HigherScoreFirst(x, y) <=> ahead(x) < ahead(y)
      OBVIOUS
    <3>1. <<x, y>> \in R <=> HigherScoreFirst(x, y)
      BY <1>1
    <3>2. <<x, y>> \in R <=> Cardinality(Ahead(R, S, x)) < Cardinality(Ahead(R, S, y))
      BY <2>1
    <3>3. Cardinality(Ahead(R, S, x)) = ahead(x) /\ Cardinality(Ahead(R, S, y)) = ahead(y)
      BY <1>3
    <3>4. QED
      BY <3>1, <3>2, <3>3
  <2>3. /\ \A k \in 0 .. (n - 1) : \E x \in S : ahead(x) = k
        /\ \A x \in S : ahead(x) \in 0 .. (n - 1)
    BY <1>3, <2>1
  <2>4. \A x, y \in S : ahead(x) = ahead(y) => x = y
    BY <1>3, <2>1
  <2>5. QED
    BY <2>2, <2>3, <2>4
<1> HIDE DEF n, ahead
<1>6. \A k \in 1 .. n : s[k] \in S /\ ahead(s[k]) = k - 1
  <2> SUFFICES ASSUME NEW k \in 1 .. n PROVE s[k] \in S /\ ahead(s[k]) = k - 1
    OBVIOUS
  <2>1. k - 1 \in 0 .. (n - 1)
    BY <1>4
  <2>2. \E x \in S : ahead(x) = k - 1
    BY <1>5, <2>1
  <2>3. s[k] = CHOOSE x \in S : ahead(x) = k - 1
    OBVIOUS
  <2>4. QED
    BY <2>2, <2>3
<1>7. s = Sorted(S)
  BY DEF Sorted, n, ahead
<1>8. DOMAIN s = 1 .. n
  OBVIOUS
<1>9. s = [k \in 1 .. n |-> s[k]]
  OBVIOUS
<1> HIDE DEF s
<1>10. s \in Seq(S) /\ Len(s) = n
  BY <1>4, <1>6, <1>8, <1>9
<1>11. \A x \in S : \E k \in 1 .. n : s[k] = x
  <2> SUFFICES ASSUME NEW x \in S PROVE \E k \in 1 .. n : s[k] = x
    OBVIOUS
  <2>1. ahead(x) \in 0 .. (n - 1)
    BY <1>5
  <2>2. ahead(x) + 1 \in 1 .. n /\ (ahead(x) + 1) - 1 = ahead(x)
    BY <1>4, <2>1
  <2>3. s[ahead(x) + 1] = x
    BY <1>5, <1>6, <2>2
  <2>4. QED
    BY <2>2, <2>3
<1>12. \A i, j \in 1 .. n : i < j => HigherScoreFirst(s[i], s[j])
  <2> SUFFICES ASSUME NEW i \in 1 .. n, NEW j \in 1 .. n, i < j
               PROVE  HigherScoreFirst(s[i], s[j])
    OBVIOUS
  <2>1. ahead(s[i]) < ahead(s[j])
    BY <1>6
  <2>2. QED
    BY <1>5, <1>6, <2>1
<1>13. QED
  BY <1>7, <1>8, <1>10, <1>11, <1>12 DEF InOrder, n

LEMMA FirstNIs ==
  ASSUME NEW S, NEW s \in Seq(S), NEW n \in Nat
  PROVE  /\ FirstN(s, n) \in Seq(S)
         /\ Len(FirstN(s, n)) = (IF Len(s) < n THEN Len(s) ELSE n)
         /\ \A i \in 1 .. Len(FirstN(s, n)) : FirstN(s, n)[i] = s[i]
<1>1. Len(s) \in Nat /\ \A i \in 1 .. Len(s) : s[i] \in S
  OBVIOUS
<1>2. PICK m \in 0 .. Len(s) : m = IF Len(s) < n THEN Len(s) ELSE n
  BY <1>1
<1>3. PICK a : a = SubSeq(s, 1, m)
  OBVIOUS
<1>4. a \in Seq(S) /\ Len(a) = m /\ \A i \in 1 .. m : a[i] = s[i]
  BY <1>1, <1>2, <1>3
<1>5. FirstN(s, n) = a
  BY <1>2, <1>3 DEF FirstN
<1>6. QED
  BY <1>2, <1>4, <1>5

LEMMA SameSize ==
  ASSUME NEW S, IsFiniteSet(S), NEW T, NEW f \in [S -> T],
         \A x, y \in S : f[x] = f[y] => x = y,
         \A z \in T : \E x \in S : f[x] = z
  PROVE  IsFiniteSet(T) /\ Cardinality(T) = Cardinality(S)
<1>1. f \in Surjection(S, T) /\ f \in Injection(S, T)
  BY DEF Surjection, Injection, IsInjective
<1>2. QED
  BY <1>1, FS_Surjection

\* The candidates of the response are the first m of the pool in order.
Shows(shown, s, m, pool) ==
  /\ Len(shown) = m /\ DOMAIN shown = 1 .. m
  /\ \A i \in 1 .. m :
       shown[i] = [item_id |-> s[i].id,
                   score |-> pool[s[i].id].score * Multiplier,
                   trigger |-> pool[s[i].id].trigger,
                   reason_score |-> pool[s[i].id].reason_score * Multiplier]

\* s is the items of the pool in order, with their scores.
PoolInOrder(s, pool) ==
  LET n == Cardinality(DOMAIN pool) IN
  /\ n \in Nat /\ Len(s) = n /\ DOMAIN s = 1 .. n
  /\ \A i \in 1 .. n : s[i].id \in DOMAIN pool /\ s[i].score = pool[s[i].id].score
  /\ \A x \in DOMAIN pool : \E i \in 1 .. n : s[i].id = x
  /\ \A i, j \in 1 .. n : i < j => HigherScoreFirst(s[i], s[j])

LEMMA SortCandidatesIs ==
  ASSUME NEW pool \in Pools
  PROVE  /\ PoolInOrder(SortCandidates(pool), pool)
         /\ SortCandidates(pool) \in Seq([id : Nat, score : Int])
<1> DEFINE entry(x) == [id |-> x, score |-> pool[x].score]
           S == {entry(x) : x \in DOMAIN pool}
           f == [x \in DOMAIN pool |-> entry(x)]
<1>1. DOMAIN pool \in SUBSET Nat /\ IsFiniteSet(DOMAIN pool)
  BY PoolsAre
<1>2. \A x \in DOMAIN pool : entry(x) \in [id : Nat, score : Int] /\ entry(x).id = x
  BY <1>1, PoolsAre DEF Candidate
<1>3. IsFiniteSet(S) /\ Cardinality(S) = Cardinality(DOMAIN pool)
  <2>1. f \in [DOMAIN pool -> S]
    OBVIOUS
  <2>2. \A x, y \in DOMAIN pool : f[x] = f[y] => x = y
    OBVIOUS
  <2>3. \A z \in S : \E x \in DOMAIN pool : f[x] = z
    OBVIOUS
  <2> HIDE DEF f, S
  <2>4. QED
    BY <1>1, <2>1, <2>2, <2>3, SameSize
<1>4. Scored(S)
  <2>1. S \in SUBSET [id : Nat, score : Int]
    BY <1>2
  <2>2. \A x, y \in S : x.id = y.id => x = y
    OBVIOUS
  <2> HIDE DEF S
  <2>3. QED
    BY <1>3, <2>1, <2>2 DEF Scored
<1>5. PICK s : s = SortCandidates(pool)
  OBVIOUS
<1>6. InOrder(s, S)
  <2>1. s = Sorted(S)
    BY <1>5 DEF SortCandidates
  <2> HIDE DEF S
  <2>2. QED
    BY <1>4, <2>1, SortedIs
<1>7. PICK n : n = Cardinality(S)
  OBVIOUS
<1>8. n \in Nat /\ n = Cardinality(DOMAIN pool)
  BY <1>3, <1>7, FS_CardinalityType
<1>9. /\ s \in Seq(S) /\ Len(s) = n /\ DOMAIN s = 1 .. n
      /\ \A x \in S : \E i \in 1 .. n : s[i] = x
      /\ \A i, j \in 1 .. n : i < j => HigherScoreFirst(s[i], s[j])
  BY <1>6, <1>7 DEF InOrder
<1>10. \A i \in 1 .. n : s[i] \in S
  BY <1>8, <1>9
<1>11. \A z \in S : z.id \in DOMAIN pool /\ z.score = pool[z.id].score
  OBVIOUS
<1>12. \A x \in DOMAIN pool : \E z \in S : z.id = x
  <2>1. \A x \in DOMAIN pool : entry(x) \in S
    OBVIOUS
  <2> HIDE DEF S, entry
  <2>2. QED
    BY <1>2, <2>1
<1>13. S \in SUBSET [id : Nat, score : Int]
  BY <1>4 DEF Scored
<1> HIDE DEF S
<1>14. s \in Seq([id : Nat, score : Int])
  <2>1. PICK T : T = [id : Nat, score : Int]
    OBVIOUS
  <2>2. S \in SUBSET T
    BY <1>13, <2>1
  <2>3. s \in Seq(T)
    BY <1>9, <2>2
  <2>4. QED
    BY <2>1, <2>3
<1>15. \A x \in DOMAIN pool : \E i \in 1 .. n : s[i].id = x
  BY <1>9, <1>12
<1>16. PoolInOrder(s, pool)
  BY <1>8, <1>9, <1>10, <1>11, <1>15 DEF PoolInOrder
<1>17. QED
  BY <1>5, <1>14, <1>16

LEMMA FilledShows ==
  ASSUME NEW pool \in Pools, NEW max \in Nat
  PROVE  LET n == Cardinality(DOMAIN pool) IN
         Shows(Filled(pool, max).candidates, SortCandidates(pool),
               IF n < max THEN n ELSE max, pool)
<1>1. PICK s : s = SortCandidates(pool)
  OBVIOUS
<1>2. PICK n : n = Cardinality(DOMAIN pool)
  OBVIOUS
<1>3. /\ s \in Seq([id : Nat, score : Int]) /\ n \in Nat /\ Len(s) = n
      /\ \A i \in 1 .. n : s[i].score = pool[s[i].id].score
  BY <1>1, <1>2, SortCandidatesIs DEF PoolInOrder
<1>4. PICK t : t = FirstN(s, max)
  OBVIOUS
<1>5. PICK m \in 0 .. n : m = IF n < max THEN n ELSE max
  BY <1>3
<1>6. /\ t \in Seq([id : Nat, score : Int]) /\ Len(t) = m
      /\ \A i \in 1 .. m : t[i] = s[i]
  <2>1. PICK T : T = [id : Nat, score : Int]
    OBVIOUS
  <2>2. s \in Seq(T)
    BY <1>3, <2>1
  <2>3. /\ t \in Seq(T) /\ Len(t) = m
        /\ \A i \in 1 .. Len(t) : t[i] = s[i]
    BY <1>3, <1>4, <1>5, <2>2, FirstNIs
  <2>4. QED
    BY <2>1, <2>3
<1>7. DOMAIN t = 1 .. m
  BY <1>6
<1>8. PICK r : r = [i \in DOMAIN t |->
                      [item_id |-> t[i].id,
                       score |-> t[i].score * Multiplier,
                       trigger |-> pool[t[i].id].trigger,
                       reason_score |-> pool[t[i].id].reason_score * Multiplier]]
  OBVIOUS
<1>9. Filled(pool, max).candidates = r
  BY <1>1, <1>4, <1>8 DEF Filled, Response
<1>10. DOMAIN r = 1 .. m /\ Len(r) = m
  <2>1. DOMAIN r = 1 .. m
    BY <1>7, <1>8
  <2>2. m \in Nat
    BY <1>3, <1>5
  <2>3. QED
    BY <2>1, <2>2
<1>11. ASSUME NEW i \in 1 .. m
       PROVE  r[i] = [item_id |-> s[i].id,
                      score |-> pool[s[i].id].score * Multiplier,
                      trigger |-> pool[s[i].id].trigger,
                      reason_score |-> pool[s[i].id].reason_score * Multiplier]
  <2>1. i \in 1 .. n /\ t[i] = s[i]
    BY <1>3, <1>5, <1>6
  <2>2. s[i].score = pool[s[i].id].score
    BY <1>3, <2>1
  <2>3. QED
    BY <1>7, <1>8, <2>1, <2>2
<1>12. Shows(r, s, m, pool)
  BY <1>10, <1>11 DEF Shows
<1>13. QED
  BY <1>1, <1>2, <1>5, <1>9, <1>12

\* What is filled from the pool is the best of the evidence it is built from.
LEMMA FilledIsBest ==
  ASSUME NEW E \in Seq(Finding), NEW filter, NEW pool, PoolOf(pool, E, filter),
         NEW max \in Nat
  PROVE  /\ IsBestOf(Filled(pool, max).candidates, E, filter, max)
         /\ ReasonsAreStrongest(Filled(pool, max).candidates, E, filter)
<1>1. PICK items : items = DOMAIN pool
  OBVIOUS
<1>2. PICK C : C = Contributions(E, filter)
  OBVIOUS
<1>3. PICK r : r = Filled(pool, max).candidates
  OBVIOUS
<1>4. PICK s : s = SortCandidates(pool)
  OBVIOUS
<1>5. PICK n : n = Cardinality(items)
  OBVIOUS
<1>6. pool \in Pools /\ items \in SUBSET Nat /\ IsFiniteSet(items) /\ items = {c.item : c \in C}
  <2>1. pool \in Pools
    BY DEF PoolOf, Pooled
  <2>2. QED
    BY <1>1, <1>2, <2>1, PoolsAre DEF PoolOf, Pooled
<1>7. \A x \in items : /\ pool[x].score = ScoreOf(E, x, filter)
                       /\ pool[x].score \in Int /\ pool[x].reason_score \in Int
  <2> SUFFICES ASSUME NEW x \in items
               PROVE  /\ pool[x].score = ScoreOf(E, x, filter)
                      /\ pool[x].score \in Int /\ pool[x].reason_score \in Int
    OBVIOUS
  <2>1. pool[x] \in Candidate
    BY <1>1, <1>6, PoolsAre
  <2>2. pool[x].score = Totals(E, filter)[x] /\ x \in Nat
    BY <1>1, <1>6 DEF PoolOf, Pooled, Explained
  <2>3. QED
    BY <2>1, <2>2 DEF Totals, Candidate
<1>8. /\ n \in Nat
      /\ \A i \in 1 .. n : s[i].id \in items /\ s[i].score = pool[s[i].id].score
      /\ \A x \in items : \E i \in 1 .. n : s[i].id = x
      /\ \A i, j \in 1 .. n : i < j => HigherScoreFirst(s[i], s[j])
  <2>1. PoolInOrder(s, pool)
    BY <1>4, <1>6, SortCandidatesIs
  <2>2. n \in Nat
    BY <1>5, <1>6, FS_CardinalityType
  <2>3. QED
    BY <1>1, <1>5, <2>1, <2>2 DEF PoolInOrder
<1>9. PICK m \in 0 .. n : m = IF n < max THEN n ELSE max
  BY <1>8
<1>10. Shows(r, s, m, pool)
  BY <1>1, <1>3, <1>4, <1>5, <1>6, <1>9, FilledShows
<1>11. /\ Len(r) = m /\ DOMAIN r = 1 .. m
       /\ \A i \in 1 .. m :
            /\ i \in 1 .. n
            /\ r[i].item_id = s[i].id
            /\ r[i].score = pool[s[i].id].score * Multiplier
            /\ r[i].trigger = pool[s[i].id].trigger
            /\ r[i].reason_score = pool[s[i].id].reason_score * Multiplier
  <2>1. Len(r) = m /\ DOMAIN r = 1 .. m
    BY <1>10 DEF Shows
  <2>2. \A i \in 1 .. m : i \in 1 .. n
    BY <1>8, <1>9
  <2>3. ASSUME NEW i \in 1 .. m
        PROVE  /\ r[i].item_id = s[i].id
               /\ r[i].score = pool[s[i].id].score * Multiplier
               /\ r[i].trigger = pool[s[i].id].trigger
               /\ r[i].reason_score = pool[s[i].id].reason_score * Multiplier
    <3>1. r[i] = [item_id |-> s[i].id,
                  score |-> pool[s[i].id].score * Multiplier,
                  trigger |-> pool[s[i].id].trigger,
                  reason_score |-> pool[s[i].id].reason_score * Multiplier]
      BY <1>10 DEF Shows
    <3>2. QED
      BY <3>1
  <2>4. QED
    BY <2>1, <2>2, <2>3
<1> DEFINE total(x) == ScoreOf(E, x, filter)
           before(x, y) == total(x) > total(y) \/ (total(x) = total(y) /\ x < y)
           shown == Ids(r)
<1>12. \A x \in items : total(x) \in Int /\ total(x) = pool[x].score
  BY <1>7
<1> HIDE DEF total
<1>13. ASSUME NEW i \in 1 .. n, NEW j \in 1 .. n, i < j
       PROVE  before(s[i].id, s[j].id)
  <2>1. HigherScoreFirst(s[i], s[j]) /\ s[i].id \in items /\ s[j].id \in items
    BY <1>8, <1>13
  <2>2. total(s[i].id) = s[i].score /\ total(s[j].id) = s[j].score
    BY <1>8, <1>12
  <2>3. QED
    BY <2>1, <2>2 DEF HigherScoreFirst
<1>14. \A x \in items : ~ before(x, x)
  BY <1>6, <1>12
<1> HIDE DEF before
<1>15. shown = {s[i].id : i \in 1 .. m}
  BY <1>11 DEF Ids
<1>16. IsFiniteSet(shown) /\ Cardinality(shown) = m
  <2> DEFINE f == [i \in 1 .. m |-> s[i].id]
  <2>1. f \in [1 .. m -> shown] /\ \A z \in shown : \E i \in 1 .. m : f[i] = z
    BY <1>15
  <2>2. ASSUME NEW i \in 1 .. m, NEW j \in 1 .. m, f[i] = f[j]
        PROVE  i = j
    <3>1. i \in 1 .. n /\ j \in 1 .. n /\ s[i].id = s[j].id /\ s[i].id \in items
      BY <1>8, <1>11, <2>2
    <3>2. ~(i < j) /\ ~(j < i)
      BY <1>13, <1>14, <3>1
    <3>3. QED
      BY <3>1, <3>2
  <2>3. IsFiniteSet(1 .. m) /\ Cardinality(1 .. m) = m
    <3>1. m \in Nat
      BY <1>8
    <3>2. QED
      BY <3>1, FS_Interval
  <2> HIDE DEF f, shown
  <2>4. QED
    BY <2>1, <2>2, <2>3, SameSize
<1>17. shown \in SUBSET items
  BY <1>8, <1>11, <1>15
<1>18. \A i \in 1 .. m : r[i].score = total(r[i].item_id) * Multiplier
  BY <1>8, <1>11, <1>12
<1>19. \A i, j \in 1 .. m : i < j => before(r[i].item_id, r[j].item_id)
  BY <1>11, <1>13
<1>20. ASSUME NEW x \in shown, NEW y \in items \ shown
       PROVE  before(x, y)
  <2>1. PICK i \in 1 .. m : s[i].id = x
    BY <1>15
  <2>2. PICK j \in 1 .. n : s[j].id = y
    BY <1>8
  <2>3. j \notin 1 .. m
    BY <1>15, <2>2
  <2>4. i < j /\ i \in 1 .. n
    BY <1>8, <1>11, <2>3
  <2>5. QED
    BY <1>13, <2>1, <2>2, <2>4
<1>21. IsBestOf(r, E, filter, max)
  <2>1. \A i \in DOMAIN r : r[i].score = total(r[i].item_id) * Multiplier
    BY <1>11, <1>18
  <2>2. \A i, j \in DOMAIN r : i < j => before(r[i].item_id, r[j].item_id)
    BY <1>11, <1>19
  <2>3. Len(r) = Cardinality(shown) /\ Len(r) = IF n < max THEN n ELSE max
    BY <1>9, <1>11, <1>16
  <2> HIDE DEF shown
  <2>4. shown \subseteq items /\ \A x \in shown, y \in items \ shown : before(x, y)
    BY <1>17, <1>20
  <2>5. QED
    BY <1>2, <1>5, <1>6, <2>1, <2>2, <2>3, <2>4 DEF IsBestOf, before, total, shown
<1>22. ASSUME NEW i \in 1 .. m
       PROVE  \E c \in {d \in C : d.item = r[i].item_id} :
                /\ c.trigger = r[i].trigger
                /\ r[i].reason_score = c.amount * Multiplier
                /\ \A d \in {e \in C : e.item = r[i].item_id} : d.amount <= c.amount
  <2>1. PICK x \in items : x = s[i].id
    BY <1>8, <1>11
  <2>2. PICK total0 : Explained(pool[x], x, C, total0)
    BY <1>1, <1>2 DEF PoolOf, Pooled
  <2>3. PICK c \in C : /\ c.item = x /\ c.trigger = pool[x].trigger
                       /\ c.amount = pool[x].reason_score
                       /\ \A other \in C : other.item = x => other.amount <= c.amount
    BY <2>2 DEF Explained
  <2>4. /\ r[i].item_id = x /\ r[i].trigger = pool[x].trigger
        /\ r[i].reason_score = pool[x].reason_score * Multiplier
    BY <1>11, <2>1
  <2>5. QED
    BY <2>3, <2>4
<1>23. ReasonsAreStrongest(r, E, filter)
  BY <1>2, <1>11, <1>22 DEF ReasonsAreStrongest
<1>24. QED
  BY <1>3, <1>21, <1>23

-----------------------------------------------------------------------------
(* The channels of a profile.                                              *)

Distinct(list) == \A i, j \in DOMAIN list : list[i].id = list[j].id => i = j

\* Lists of seeds, each with an id of its own.
SeedLists == {list \in Seq(Seed) : Distinct(list)}

LEMMA SeedAppended ==
  ASSUME NEW list \in SeedLists, NEW seed \in Seed, ~ Has(list, seed.id)
  PROVE  Append(list, seed) \in SeedLists
<1>1. /\ list \in Seq(Seed) /\ Len(list) \in Nat /\ DOMAIN list = 1 .. Len(list)
      /\ Distinct(list)
  BY DEF SeedLists
<1>2. PICK n \in Nat : n = Len(list)
  BY <1>1
<1>3. PICK more : more = Append(list, seed)
  OBVIOUS
<1>4. /\ more \in Seq(Seed) /\ DOMAIN more = 1 .. (n + 1) /\ more[n + 1] = seed
      /\ \A i \in 1 .. n : more[i] = list[i]
  BY <1>1, <1>2, <1>3
<1>5. \A i \in 1 .. n : list[i].id # seed.id
  BY <1>1, <1>2 DEF Has
<1>6. ASSUME NEW i \in 1 .. (n + 1), NEW j \in 1 .. (n + 1), more[i].id = more[j].id
      PROVE  i = j
  <2>1. (i = n + 1 \/ i \in 1 .. n) /\ (j = n + 1 \/ j \in 1 .. n)
    BY <1>2
  <2>2. CASE i \in 1 .. n /\ j \in 1 .. n
    BY <1>1, <1>2, <1>4, <1>6, <2>2 DEF Distinct
  <2>3. CASE i = n + 1 /\ j \in 1 .. n
    BY <1>4, <1>5, <1>6, <2>3
  <2>4. CASE i \in 1 .. n /\ j = n + 1
    BY <1>4, <1>5, <1>6, <2>4
  <2>5. QED
    BY <2>1, <2>2, <2>3, <2>4
<1>7. QED
  BY <1>3, <1>4, <1>6 DEF SeedLists, Distinct

\* What a rank divides without a rest.
LEMMA Shared ==
  ASSUME NEW a \in Nat \ {0}, NEW rank \in Nat \ {0}, NEW p \in Nat \ {0},
         NEW q \in 1 .. p, p = q * rank
  PROVE  (a * p) \div rank \in Nat \ {0}
<1>1. a * p = (a * q) * rank
  OBVIOUS
<1>2. PICK x \in Nat \ {0} : x = a * q
  <2>1. \A y \in Nat \ {0} : a * y \in Nat \ {0}
    OBVIOUS
  <2>2. QED
    BY <2>1
<1>3. \A y \in Nat : (y * rank) \div rank = y
  OBVIOUS
<1>4. QED
  BY <1>1, <1>2, <1>3

LEMMA AppendChannelIs ==
  ASSUME NEW list \in SeedLists, NEW items, IsChannel(items), NEW base \in Nat \ {0}
  PROVE  AppendChannel(list, items, base) \in SeedLists
<1> DEFINE ranks == [rank \in DOMAIN items |-> rank]
           n == Len(items)
           seed(rank) == [id |-> items[rank].item_id,
                          score |-> (base * Weight(items[rank]) * Precision) \div rank]
           step(acc, rank) ==
             IF items[rank].item_id <= 0 \/ Has(acc, items[rank].item_id)
             THEN acc ELSE Append(acc, seed(rank))
           F == [x \in SeedLists \X (1 .. n) |-> step(x[1], x[2])]
           iter == CHOOSE iter :
                     iter = [t \in SUBSET DOMAIN ranks |->
                       IF t = {} THEN list ELSE step(iter[t \ {Max(t)}], ranks[Max(t)])]
<1>1. /\ items \in Seq([item_id : Int, weight : Int]) /\ n \in Nat /\ DOMAIN items = 1 .. n
      /\ \A rank \in 1 .. n : items[rank] \in [item_id : Int, weight : Int]
  <2>1. PICK T : T = [item_id : Int, weight : Int]
    OBVIOUS
  <2>2. items \in Seq(T)
    BY <2>1 DEF IsChannel, Behaviors
  <2>3. n \in Nat /\ DOMAIN items = 1 .. n /\ \A rank \in 1 .. n : items[rank] \in T
    BY <2>2
  <2>4. QED
    BY <2>1, <2>2, <2>3
<1>2. DOMAIN ranks = 1 .. n /\ \A k \in 1 .. n : ranks[k] = k
  BY <1>1
<1>3. AppendChannel(list, items, base) = iter[DOMAIN ranks]
  BY DEF AppendChannel, FoldLeft, MapThenFoldSet
<1>4. ASSUME NEW acc \in SeedLists, NEW rank \in 1 .. n
      PROVE  step(acc, rank) \in SeedLists
  <2>1. CASE items[rank].item_id <= 0 \/ Has(acc, items[rank].item_id)
    BY <2>1
  <2>2. CASE ~(items[rank].item_id <= 0 \/ Has(acc, items[rank].item_id))
    <3>1. items[rank].item_id \in Int /\ items[rank].weight \in Int
      BY <1>1
    <3>2. Weight(items[rank]) \in Nat \ {0}
      BY <3>1 DEF Weight
    <3>3. PICK a \in Nat \ {0} : a = base * Weight(items[rank])
      <4>1. \A w \in Nat \ {0} : base * w \in Nat \ {0}
        OBVIOUS
      <4>2. QED
        BY <3>2, <4>1
    <3>4. PICK q \in 1 .. Precision : Precision = q * rank
      BY <1>1 DEF IsChannel
    <3>5. Precision \in Nat \ {0} /\ rank \in Nat \ {0}
      <4>1. Precision \in Nat \ {0}
        BY RetrieverAssumption
      <4>2. rank \in Nat \ {0}
        BY <1>1
      <4>3. QED
        BY <4>1, <4>2
    <3>6. (a * Precision) \div rank \in Nat \ {0}
      BY <3>4, <3>5, Shared
    <3>7. seed(rank) \in Seed /\ seed(rank).id = items[rank].item_id
      BY <2>2, <3>1, <3>3, <3>6 DEF Seed
    <3> HIDE DEF seed
    <3>8. QED
      BY <2>2, <3>7, SeedAppended
  <2>3. QED
    BY <2>1, <2>2
<1> HIDE DEF step, n
<1>5. F \in [SeedLists \X (1 .. n) -> SeedLists]
  BY <1>4
<1>6. \A acc \in SeedLists, rank \in 1 .. n : F[<<acc, rank>>] = step(acc, rank)
  OBVIOUS
<1> HIDE DEF F, iter, ranks
<1>7. PICK f : FoldsBy(f, SeedLists, F, list, ranks, n)
  <2>1. PICK B : B = 1 .. n
    OBVIOUS
  <2>2. F \in [SeedLists \X B -> SeedLists] /\ \A k \in 1 .. n : ranks[k] \in B
    BY <1>2, <1>5, <2>1
  <2>3. QED
    BY <1>1, <2>2, FoldExists
<1>8. ASSUME NEW t \in SUBSET (1 .. n), t # {}
      PROVE  f[t] = step(f[t \ {Max(t)}], ranks[Max(t)]) /\ Max(t) \in 1 .. n
  <2>1. Max(t) \in 1 .. n
    BY <1>1, <1>8, MaxIsIn
  <2>2. f[t \ {Max(t)}] \in SeedLists /\ ranks[Max(t)] \in 1 .. n
    BY <1>2, <1>7, <2>1 DEF FoldsBy
  <2>3. QED
    BY <1>6, <1>7, <1>8, <2>1, <2>2 DEF FoldsBy
<1>9. f = [t \in SUBSET (1 .. n) |->
             IF t = {} THEN list ELSE step(f[t \ {Max(t)}], ranks[Max(t)])]
  BY <1>7, <1>8 DEF FoldsBy
<1>10. iter = [t \in SUBSET (1 .. n) |->
                 IF t = {} THEN list ELSE step(iter[t \ {Max(t)}], ranks[Max(t)])]
  BY <1>2, <1>9 DEF iter
<1>11. FoldsLike(iter, SeedLists, F, list, ranks, n)
  <2>1. iter[{}] = list
    BY <1>10, {} \in SUBSET (1 .. n)
  <2>2. ASSUME NEW t \in SUBSET (1 .. n), t # {}, iter[t \ {Max(t)}] \in SeedLists
        PROVE  iter[t] = F[<<iter[t \ {Max(t)}], ranks[Max(t)]>>]
    <3>1. ranks[Max(t)] \in 1 .. n
      BY <1>2, <1>8, <2>2
    <3>2. iter[t] = step(iter[t \ {Max(t)}], ranks[Max(t)])
      BY <1>10, <2>2
    <3>3. QED
      BY <1>6, <2>2, <3>1, <3>2
  <2>3. QED
    BY <2>1, <2>2 DEF FoldsLike
<1>12. PICK g : StepsBy(g, SeedLists, F, list, ranks, n) /\ iter[1 .. n] = g[n]
  BY <1>1, <1>7, <1>11, FoldReaches
<1>13. g[n] \in SeedLists
  BY <1>1, <1>12 DEF StepsBy
<1>14. QED
  BY <1>2, <1>3, <1>12, <1>13

LEMMA ChannelItemsAre ==
  ASSUME NEW profile, HasChannels(profile)
  PROVE  ChannelItems(profile, Base) \in SeedLists
<1>1. {Base[1], Base[2], Base[3]} \subseteq Nat \ {0}
  BY RetrieverAssumption
<1>2. <<>> \in SeedLists
  BY DEF SeedLists, Distinct
<1>3. QED
  BY <1>1, <1>2, AppendChannelIs DEF HasChannels, ChannelItems

LEMMA SeedListsAreLists ==
  ASSUME NEW list \in SeedLists
  PROVE  list \in Seq(Neighbor)
<1>1. Seed \in SUBSET Neighbor
  BY DEF Seed, Neighbor
<1>2. QED
  BY <1>1 DEF SeedLists

\* The similar users become seeds, other than the user that asks.
LEMMA CollectUserSeedsIs ==
  ASSUME NEW user_id, NEW neighbors \in Seq(Neighbor)
  PROVE  /\ CollectUserSeeds(user_id, neighbors) \in SeedLists
         /\ Len(CollectUserSeeds(user_id, neighbors)) <= Len(neighbors)
         /\ \A i \in DOMAIN CollectUserSeeds(user_id, neighbors) :
              CollectUserSeeds(user_id, neighbors)[i].id # user_id
<1> DEFINE n == Len(neighbors)
           Others == {list \in SeedLists : \A i \in DOMAIN list : list[i].id # user_id}
           step(acc, m) ==
             IF m.id = 0 \/ m.id = user_id \/ m.score <= 0 \/ Has(acc, m.id)
             THEN acc ELSE Append(acc, m)
           F == [x \in Others \X Neighbor |-> step(x[1], x[2])]
           iter == CHOOSE iter :
                     iter = [t \in SUBSET DOMAIN neighbors |->
                       IF t = {} THEN <<>> ELSE step(iter[t \ {Max(t)}], neighbors[Max(t)])]
<1>1. DOMAIN neighbors = 1 .. n /\ n \in Nat /\ \A k \in 1 .. n : neighbors[k] \in Neighbor
  OBVIOUS
<1>2. CollectUserSeeds(user_id, neighbors) = iter[DOMAIN neighbors]
  BY DEF CollectUserSeeds, FoldLeft, MapThenFoldSet
<1>3. \A acc \in Others :
        /\ acc \in SeedLists /\ acc \in Seq(Seed) /\ Len(acc) \in Nat
        /\ DOMAIN acc = 1 .. Len(acc)
        /\ \A i \in 1 .. Len(acc) : acc[i].id # user_id
  BY DEF SeedLists
<1>4. ASSUME NEW acc \in Others, NEW m \in Neighbor
      PROVE  step(acc, m) \in Others /\ Len(step(acc, m)) <= Len(acc) + 1
  <2>1. CASE m.id = 0 \/ m.id = user_id \/ m.score <= 0 \/ Has(acc, m.id)
    BY <1>3, <2>1
  <2>2. CASE ~(m.id = 0 \/ m.id = user_id \/ m.score <= 0 \/ Has(acc, m.id))
    <3>1. m \in Seed
      BY <2>2 DEF Neighbor, Seed
    <3>2. Append(acc, m) \in SeedLists
      BY <1>3, <2>2, <3>1, SeedAppended
    <3>3. PICK k \in Nat : k = Len(acc)
      BY <1>3
    <3>4. PICK more : more = Append(acc, m)
      OBVIOUS
    <3>5. /\ Len(more) = k + 1 /\ DOMAIN more = 1 .. (k + 1) /\ more[k + 1] = m
          /\ \A i \in 1 .. k : more[i] = acc[i]
      BY <1>3, <3>1, <3>3, <3>4
    <3>6. \A i \in 1 .. (k + 1) : more[i].id # user_id
      <4>1. \A i \in 1 .. (k + 1) : i = k + 1 \/ i \in 1 .. k
        OBVIOUS
      <4>2. QED
        BY <1>3, <2>2, <3>3, <3>5, <4>1
    <3>7. step(acc, m) = more
      BY <2>2, <3>4
    <3>8. more \in Others
      BY <3>2, <3>4, <3>5, <3>6
    <3> HIDE DEF step, Others
    <3>9. QED
      BY <3>3, <3>5, <3>7, <3>8
  <2>3. QED
    BY <2>1, <2>2
<1> HIDE DEF step, n
<1>5. F \in [Others \X Neighbor -> Others]
  BY <1>4
<1>6. \A acc \in Others, m \in Neighbor : F[<<acc, m>>] = step(acc, m)
  OBVIOUS
<1>7. <<>> \in Others
  BY DEF SeedLists, Distinct
<1> HIDE DEF F, iter, Others
<1>8. PICK f : FoldsBy(f, Others, F, <<>>, neighbors, n)
  BY <1>1, <1>5, <1>7, FoldExists
<1>9. ASSUME NEW t \in SUBSET (1 .. n), t # {}
      PROVE  f[t] = step(f[t \ {Max(t)}], neighbors[Max(t)]) /\ Max(t) \in 1 .. n
  <2>1. Max(t) \in 1 .. n
    BY <1>1, <1>9, MaxIsIn
  <2>2. f[t \ {Max(t)}] \in Others /\ neighbors[Max(t)] \in Neighbor
    BY <1>1, <1>8, <2>1 DEF FoldsBy
  <2>3. QED
    BY <1>6, <1>8, <1>9, <2>1, <2>2 DEF FoldsBy
<1>10. f = [t \in SUBSET (1 .. n) |->
              IF t = {} THEN <<>> ELSE step(f[t \ {Max(t)}], neighbors[Max(t)])]
  BY <1>8, <1>9 DEF FoldsBy
<1>11. iter = [t \in SUBSET (1 .. n) |->
                 IF t = {} THEN <<>> ELSE step(iter[t \ {Max(t)}], neighbors[Max(t)])]
  BY <1>1, <1>10 DEF iter
<1>12. FoldsLike(iter, Others, F, <<>>, neighbors, n)
  <2>1. iter[{}] = <<>>
    BY <1>11, {} \in SUBSET (1 .. n)
  <2>2. ASSUME NEW t \in SUBSET (1 .. n), t # {}, iter[t \ {Max(t)}] \in Others
        PROVE  iter[t] = F[<<iter[t \ {Max(t)}], neighbors[Max(t)]>>]
    <3>1. neighbors[Max(t)] \in Neighbor
      BY <1>1, <1>9, <2>2
    <3>2. iter[t] = step(iter[t \ {Max(t)}], neighbors[Max(t)])
      BY <1>11, <2>2
    <3>3. QED
      BY <1>6, <2>2, <3>1, <3>2
  <2>3. QED
    BY <2>1, <2>2 DEF FoldsLike
<1>13. PICK g : StepsBy(g, Others, F, <<>>, neighbors, n) /\ iter[1 .. n] = g[n]
  BY <1>1, <1>8, <1>12, FoldReaches
<1>14. /\ \A k \in 0 .. n : g[k] \in Others
       /\ g[0] = <<>> /\ \A k \in 1 .. n : g[k] = F[<<g[k - 1], neighbors[k]>>]
  BY <1>13 DEF StepsBy
<1> DEFINE T == {k \in 0 .. n : Len(g[k]) <= k}
<1>15. 0 \in T
  <2>1. 0 \in 0 .. n /\ Len(<<>>) = 0
    BY <1>1
  <2>2. QED
    BY <1>14, <2>1
<1>16. ASSUME NEW k \in 0 .. (n - 1), k \in T PROVE k + 1 \in T
  <2>1. k + 1 \in 0 .. n /\ k + 1 \in 1 .. n /\ (k + 1) - 1 = k /\ k \in 0 .. n
    BY <1>1
  <2>2. g[k] \in Others /\ neighbors[k + 1] \in Neighbor /\ g[k + 1] \in Others
    BY <1>1, <1>14, <2>1
  <2>3. g[k + 1] = step(g[k], neighbors[k + 1])
    BY <1>6, <1>14, <2>1, <2>2
  <2>4. Len(g[k + 1]) <= Len(g[k]) + 1 /\ Len(g[k]) \in Nat /\ Len(g[k + 1]) \in Nat
    BY <1>3, <1>4, <2>2, <2>3
  <2>5. Len(g[k]) <= k
    BY <1>16
  <2>6. QED
    BY <2>1, <2>4, <2>5
<1>17. n \in 0 .. n /\ Len(g[n]) <= n
  <2> HIDE DEF T
  <2>1. 0 .. n \subseteq T
    BY <1>1, <1>15, <1>16, UpTo
  <2>2. n \in T
    BY <1>1, <2>1
  <2>3. QED
    BY <2>2 DEF T
<1>18. PICK list : list = CollectUserSeeds(user_id, neighbors)
  OBVIOUS
<1>19. list \in Others /\ Len(list) <= n
  BY <1>1, <1>2, <1>13, <1>14, <1>17, <1>18
<1>20. QED
  BY <1>3, <1>18, <1>19 DEF n

-----------------------------------------------------------------------------
(* Seeds one after the other.                                              *)

\* From findings 1 .. b to findings 1 .. b + m.
LEMMA PoolFollows ==
  ASSUME NEW E \in Seq(Finding), NEW b \in Nat, NEW m \in Nat, b + m <= Len(E),
         NEW filter, NEW g, PoolOf(g[0], SubSeq(E, 1, b), filter),
         \A k \in 1 .. m :
           \/ g[k] = AddNeighbors(g[k - 1], E[b + k].seed, E[b + k].list, filter)
           \/ E[b + k].list = <<>> /\ g[k] = g[k - 1]
  PROVE  PoolOf(g[m], SubSeq(E, 1, b + m), filter)
<1> DEFINE T == {k \in 0 .. m : PoolOf(g[k], SubSeq(E, 1, b + k), filter)}
<1>1. 0 \in T
  <2>1. 0 \in 0 .. m /\ b + 0 = b
    OBVIOUS
  <2>2. QED
    BY <2>1
<1>2. ASSUME NEW k \in 0 .. (m - 1), k \in T PROVE k + 1 \in T
  <2>1. /\ k + 1 \in 0 .. m /\ k + 1 \in 1 .. m /\ (k + 1) - 1 = k
        /\ b + (k + 1) \in 1 .. Len(E) /\ (b + (k + 1)) - 1 = b + k
    OBVIOUS
  <2>2. PICK short \in Seq(Finding) : short = SubSeq(E, 1, b + k)
    BY <2>1, PrefixSteps
  <2>3. PICK e \in Finding : e = E[b + (k + 1)]
    BY <2>1
  <2>4. SubSeq(E, 1, b + (k + 1)) = Append(short, e)
    BY <2>1, <2>2, <2>3, PrefixSteps
  <2>5. PoolOf(g[k], short, filter)
    BY <1>2, <2>2
  <2>6. e = Finds(e.seed, e.list) /\ e.seed \in Seed /\ e.list \in Seq(Neighbor)
    BY WorthIs
  <2>7. PoolOf(g[k + 1], Append(short, e), filter)
    <3>1. CASE g[k + 1] = AddNeighbors(g[k], e.seed, e.list, filter)
      <4>1. PoolOf(AddNeighbors(g[k], e.seed, e.list, filter),
                   Append(short, Finds(e.seed, e.list)), filter)
        BY <2>5, <2>6, AddNeighborsKeeps
      <4>2. QED
        BY <2>6, <3>1, <4>1, Zenon
    <3>2. CASE e.list = <<>> /\ g[k + 1] = g[k]
      <4>1. PoolOf(g[k], Append(short, Finds(e.seed, <<>>)), filter)
        BY <2>5, <2>6, EmptyListKeeps
      <4>2. QED
        BY <2>6, <3>2, <4>1, Zenon
    <3>3. QED
      BY <2>1, <2>3, <3>1, <3>2
  <2>8. QED
    BY <2>1, <2>4, <2>7
<1>3. m \in T
  <2> HIDE DEF T
  <2>1. 0 .. m \subseteq T
    BY <1>1, <1>2, UpTo
  <2>2. QED
    BY <2>1
<1>4. QED
  BY <1>3

LEMMA AddNeighborsIsAPool ==
  ASSUME NEW pool \in Pools, NEW seed \in Seed, NEW list \in Seq(Neighbor), NEW filter
  PROVE  AddNeighbors(pool, seed, list, filter) \in Pools
<1>1. PICK g : AddsInTurn(g, pool, seed, list, filter)
  BY AddNeighborsSteps
<1>2. Len(list) \in 0 .. Len(list)
  OBVIOUS
<1>3. QED
  BY <1>1, <1>2 DEF AddsInTurn

\* g is the pool after each list of the batch.
InBatch(g, lists, m) ==
  /\ g[0] = candidates /\ AggregateSimilarityBatch(lists) = g[m]
  /\ \A k \in 1 .. m :
       g[k] = AddNeighbors(g[k - 1], trigger_seeds[batch_start + k], lists[k],
                           item_ids_to_filter_out)

\* One batch of Item-CF.
LEMMA BatchSteps ==
  ASSUME NEW m \in Nat, NEW lists, DOMAIN lists = 1 .. m,
         candidates \in Pools,
         \A i \in 1 .. m : lists[i] \in Seq(Neighbor) /\ trigger_seeds[batch_start + i] \in Seed
  PROVE  \E g : InBatch(g, lists, m)
<1> DEFINE step(acc, i) ==
             AddNeighbors(acc, trigger_seeds[batch_start + i], lists[i],
                          item_ids_to_filter_out)
           places == [i \in 1 .. m |-> i]
           F == [x \in Pools \X (1 .. m) |-> step(x[1], x[2])]
           iter == CHOOSE iter :
                     iter = [t \in SUBSET DOMAIN places |->
                       IF t = {} THEN candidates ELSE step(iter[t \ {Max(t)}], places[Max(t)])]
<1>1. DOMAIN places = 1 .. m /\ \A k \in 1 .. m : places[k] = k
  OBVIOUS
<1>2. AggregateSimilarityBatch(lists) = iter[DOMAIN places]
  BY DEF AggregateSimilarityBatch, FoldLeft, MapThenFoldSet
<1>3. ASSUME NEW acc \in Pools, NEW i \in 1 .. m
      PROVE  step(acc, i) \in Pools
  BY AddNeighborsIsAPool
<1> HIDE DEF step
<1>4. F \in [Pools \X (1 .. m) -> Pools]
  BY <1>3
<1>5. \A acc \in Pools, i \in 1 .. m : F[<<acc, i>>] = step(acc, i)
  OBVIOUS
<1>6. candidates \in Pools
  OBVIOUS
<1> HIDE DEF F, iter, places
<1>7. PICK f : FoldsBy(f, Pools, F, candidates, places, m)
  <2>1. PICK B : B = 1 .. m
    OBVIOUS
  <2>2. F \in [Pools \X B -> Pools] /\ \A k \in 1 .. m : places[k] \in B
    BY <1>1, <1>4, <2>1
  <2>3. QED
    BY <1>6, <2>2, FoldExists
<1>8. ASSUME NEW t \in SUBSET (1 .. m), t # {}
      PROVE  f[t] = step(f[t \ {Max(t)}], places[Max(t)]) /\ Max(t) \in 1 .. m
  <2>1. Max(t) \in 1 .. m
    BY <1>8, MaxIsIn
  <2>2. f[t \ {Max(t)}] \in Pools /\ places[Max(t)] \in 1 .. m
    BY <1>1, <1>7, <2>1 DEF FoldsBy
  <2>3. QED
    BY <1>5, <1>7, <1>8, <2>1, <2>2 DEF FoldsBy
<1>9. f = [t \in SUBSET (1 .. m) |->
             IF t = {} THEN candidates ELSE step(f[t \ {Max(t)}], places[Max(t)])]
  BY <1>7, <1>8 DEF FoldsBy
<1>10. iter = [t \in SUBSET (1 .. m) |->
                 IF t = {} THEN candidates ELSE step(iter[t \ {Max(t)}], places[Max(t)])]
  BY <1>1, <1>9 DEF iter
<1>11. FoldsLike(iter, Pools, F, candidates, places, m)
  <2>1. iter[{}] = candidates
    BY <1>10, {} \in SUBSET (1 .. m)
  <2>2. ASSUME NEW t \in SUBSET (1 .. m), t # {}, iter[t \ {Max(t)}] \in Pools
        PROVE  iter[t] = F[<<iter[t \ {Max(t)}], places[Max(t)]>>]
    <3>1. places[Max(t)] \in 1 .. m
      BY <1>1, <1>8, <2>2
    <3>2. iter[t] = step(iter[t \ {Max(t)}], places[Max(t)])
      BY <1>10, <2>2
    <3>3. QED
      BY <1>5, <2>2, <3>1, <3>2
  <2>3. QED
    BY <2>1, <2>2 DEF FoldsLike
<1>12. PICK g : StepsBy(g, Pools, F, candidates, places, m) /\ iter[1 .. m] = g[m]
  BY <1>7, <1>11, FoldReaches
<1>13. g \in [0 .. m -> Pools] /\ g[0] = candidates
  BY <1>12 DEF StepsBy
<1>14. ASSUME NEW k \in 1 .. m PROVE g[k] = step(g[k - 1], k)
  <2>1. g[k - 1] \in Pools /\ places[k] = k
    BY <1>1, <1>13
  <2>2. QED
    BY <1>5, <1>12, <2>1 DEF StepsBy
<1>15. AggregateSimilarityBatch(lists) = g[m]
  BY <1>1, <1>2, <1>12
<1>16. QED
  BY <1>13, <1>14, <1>15 DEF step, InBatch

\* g is the pool after each profile.
ByProfile(g, seeds, profiles, m) ==
  /\ g[0] = NoCandidates /\ AggregateCandidates(seeds, profiles) = g[m]
  /\ \A k \in 1 .. m :
       g[k] = IF profiles[k] = NoProfile
              THEN g[k - 1]
              ELSE AddNeighbors(g[k - 1], seeds[k], ChannelItems(profiles[k], Base),
                                Consumed(request.profile))

\* The profiles of User-CF.
LEMMA ProfileSteps ==
  ASSUME NEW m \in Nat, NEW seeds, DOMAIN seeds = 1 .. m, NEW profiles,
         \A i \in 1 .. m :
           seeds[i] \in Seed /\ (profiles[i] # NoProfile => HasChannels(profiles[i]))
  PROVE  \E g : ByProfile(g, seeds, profiles, m)
<1> DEFINE step(acc, i) ==
             IF profiles[i] = NoProfile
             THEN acc
             ELSE AddNeighbors(acc, seeds[i], ChannelItems(profiles[i], Base),
                               Consumed(request.profile))
           places == [i \in 1 .. m |-> i]
           F == [x \in Pools \X (1 .. m) |-> step(x[1], x[2])]
           iter == CHOOSE iter :
                     iter = [t \in SUBSET DOMAIN places |->
                       IF t = {} THEN NoCandidates ELSE step(iter[t \ {Max(t)}], places[Max(t)])]
<1>1. DOMAIN places = 1 .. m /\ \A k \in 1 .. m : places[k] = k
  OBVIOUS
<1>2. AggregateCandidates(seeds, profiles) = iter[DOMAIN places]
  BY DEF AggregateCandidates, FoldLeft, MapThenFoldSet
<1>3. ASSUME NEW acc \in Pools, NEW i \in 1 .. m
      PROVE  step(acc, i) \in Pools
  <2>1. CASE profiles[i] = NoProfile
    BY <2>1
  <2>2. CASE profiles[i] # NoProfile
    <3>1. ChannelItems(profiles[i], Base) \in Seq(Neighbor)
      BY <2>2, ChannelItemsAre, SeedListsAreLists
    <3>2. QED
      BY <2>2, <3>1, AddNeighborsIsAPool
  <2>3. QED
    BY <2>1, <2>2
<1> HIDE DEF step
<1>4. F \in [Pools \X (1 .. m) -> Pools]
  BY <1>3
<1>5. \A acc \in Pools, i \in 1 .. m : F[<<acc, i>>] = step(acc, i)
  OBVIOUS
<1>6. NoCandidates \in Pools
  BY NothingFound DEF PoolOf, Pooled
<1> HIDE DEF F, iter, places
<1>7. PICK f : FoldsBy(f, Pools, F, NoCandidates, places, m)
  <2>1. PICK B : B = 1 .. m
    OBVIOUS
  <2>2. F \in [Pools \X B -> Pools] /\ \A k \in 1 .. m : places[k] \in B
    BY <1>1, <1>4, <2>1
  <2>3. QED
    BY <1>6, <2>2, FoldExists
<1>8. ASSUME NEW t \in SUBSET (1 .. m), t # {}
      PROVE  f[t] = step(f[t \ {Max(t)}], places[Max(t)]) /\ Max(t) \in 1 .. m
  <2>1. Max(t) \in 1 .. m
    BY <1>8, MaxIsIn
  <2>2. f[t \ {Max(t)}] \in Pools /\ places[Max(t)] \in 1 .. m
    BY <1>1, <1>7, <2>1 DEF FoldsBy
  <2>3. QED
    BY <1>5, <1>7, <1>8, <2>1, <2>2 DEF FoldsBy
<1>9. f = [t \in SUBSET (1 .. m) |->
             IF t = {} THEN NoCandidates ELSE step(f[t \ {Max(t)}], places[Max(t)])]
  BY <1>7, <1>8 DEF FoldsBy
<1>10. iter = [t \in SUBSET (1 .. m) |->
                 IF t = {} THEN NoCandidates ELSE step(iter[t \ {Max(t)}], places[Max(t)])]
  BY <1>1, <1>9 DEF iter
<1>11. FoldsLike(iter, Pools, F, NoCandidates, places, m)
  <2>1. iter[{}] = NoCandidates
    BY <1>10, {} \in SUBSET (1 .. m)
  <2>2. ASSUME NEW t \in SUBSET (1 .. m), t # {}, iter[t \ {Max(t)}] \in Pools
        PROVE  iter[t] = F[<<iter[t \ {Max(t)}], places[Max(t)]>>]
    <3>1. places[Max(t)] \in 1 .. m
      BY <1>1, <1>8, <2>2
    <3>2. iter[t] = step(iter[t \ {Max(t)}], places[Max(t)])
      BY <1>10, <2>2
    <3>3. QED
      BY <1>5, <2>2, <3>1, <3>2
  <2>3. QED
    BY <2>1, <2>2 DEF FoldsLike
<1>12. PICK g : StepsBy(g, Pools, F, NoCandidates, places, m) /\ iter[1 .. m] = g[m]
  BY <1>7, <1>11, FoldReaches
<1>13. g \in [0 .. m -> Pools] /\ g[0] = NoCandidates
  BY <1>12 DEF StepsBy
<1>14. ASSUME NEW k \in 1 .. m PROVE g[k] = step(g[k - 1], k)
  <2>1. g[k - 1] \in Pools /\ places[k] = k
    BY <1>1, <1>13
  <2>2. QED
    BY <1>5, <1>12, <2>1 DEF StepsBy
<1>15. AggregateCandidates(seeds, profiles) = g[m]
  BY <1>1, <1>2, <1>12
<1>16. QED
  BY <1>13, <1>14, <1>15 DEF step, ByProfile

-----------------------------------------------------------------------------
(* Item-CF: the seeds.                                                     *)

LEMMA SeedSetIs ==
  ASSUME NEW s \in SeedLists
  PROVE  /\ IsFiniteSet(ToSet(s)) /\ Cardinality(ToSet(s)) = Len(s)
         /\ ToSet(s) \in SUBSET Seed
         /\ \A x, y \in ToSet(s) : x.id = y.id => x = y
         /\ Scored(ToSet(s))
<1>1. s \in Seq(Seed) /\ Distinct(s) /\ Len(s) \in Nat /\ DOMAIN s = 1 .. Len(s)
  BY DEF SeedLists
<1>2. PICK n \in Nat : n = Len(s)
  BY <1>1
<1>3. \A i \in 1 .. n : s[i] \in Seed /\ s[i] \in ToSet(s)
  BY <1>1, <1>2 DEF ToSet
<1>4. \A x \in ToSet(s) : \E i \in 1 .. n : s[i] = x
  BY <1>1, <1>2 DEF ToSet
<1>5. s \in [1 .. n -> ToSet(s)]
  <2>1. s = [i \in 1 .. n |-> s[i]]
    BY <1>1, <1>2
  <2>2. QED
    BY <1>3, <2>1
<1>6. \A i, j \in 1 .. n : s[i] = s[j] => i = j
  BY <1>1, <1>2 DEF Distinct
<1>7. IsFiniteSet(1 .. n) /\ Cardinality(1 .. n) = n
  <2>1. 1 \in Int /\ n \in Int
    OBVIOUS
  <2>2. IsFiniteSet(1 .. n)
    BY <2>1, FS_Interval
  <2>3. Cardinality(1 .. n) = IF 1 > n THEN 0 ELSE n - 1 + 1
    BY <2>1, FS_Interval
  <2>4. QED
    BY <2>2, <2>3
<1>8. IsFiniteSet(ToSet(s)) /\ Cardinality(ToSet(s)) = Cardinality(1 .. n)
  BY <1>4, <1>5, <1>6, <1>7, SameSize
<1>9. ToSet(s) \in SUBSET Seed
  BY <1>3, <1>4
<1>10. \A x, y \in ToSet(s) : x.id = y.id => x = y
  BY <1>1, <1>2, <1>4 DEF Distinct
<1>11. Seed \in SUBSET [id : Nat, score : Int]
  BY DEF Seed
<1>12. Scored(ToSet(s))
  BY <1>8, <1>9, <1>10, <1>11 DEF Scored
<1>13. QED
  BY <1>2, <1>7, <1>8, <1>9, <1>10, <1>12

\* The seeds are from all, and one that is left out is no stronger.
AreStrongest(seeds, all) ==
  /\ ToSet(seeds) \subseteq all
  /\ Cardinality(ToSet(seeds)) = Len(seeds)
  /\ \A s \in all \ ToSet(seeds) :
       Len(seeds) = MaxTriggerSeeds /\ \A k \in ToSet(seeds) : s.score <= k.score

LEMMA SelectedAre ==
  ASSUME NEW seeds \in SeedLists
  PROVE  /\ SelectTopTriggerSeeds(seeds) \in SeedLists
         /\ Len(SelectTopTriggerSeeds(seeds)) <= MaxTriggerSeeds
         /\ AreStrongest(SelectTopTriggerSeeds(seeds), ToSet(seeds))
<1>1. PICK max \in Nat \ {0} : max = MaxTriggerSeeds
  BY ItemCfAssumption
<1>2. /\ seeds \in Seq(Seed) /\ Len(seeds) \in Nat
      /\ IsFiniteSet(ToSet(seeds)) /\ Cardinality(ToSet(seeds)) = Len(seeds)
      /\ Scored(ToSet(seeds)) /\ ToSet(seeds) \in SUBSET Seed
      /\ \A x, y \in ToSet(seeds) : x.id = y.id => x = y
  BY SeedSetIs DEF SeedLists
<1>3. CASE Len(seeds) <= MaxTriggerSeeds
  BY <1>2, <1>3 DEF SelectTopTriggerSeeds, AreStrongest
<1>4. CASE ~(Len(seeds) <= MaxTriggerSeeds)
  <2>1. PICK all : all = ToSet(seeds)
    OBVIOUS
  <2>2. PICK n \in Nat : n = Len(seeds) /\ n > max /\ n = Cardinality(all)
    BY <1>1, <1>2, <1>4, <2>1
  <2>3. PICK s : s = Sorted(all)
    OBVIOUS
  <2>4. InOrder(s, all)
    BY <1>2, <2>1, <2>3, SortedIs
  <2>5. /\ s \in Seq(all) /\ Len(s) = n /\ DOMAIN s = 1 .. n
        /\ \A x \in all : \E i \in 1 .. n : s[i] = x
        /\ \A i, j \in 1 .. n : i < j => HigherScoreFirst(s[i], s[j])
    BY <2>2, <2>4 DEF InOrder
  <2>6. PICK kept : kept = FirstN(s, max)
    OBVIOUS
  <2>7. SelectTopTriggerSeeds(seeds) = kept
    BY <1>1, <1>4, <2>1, <2>3, <2>6 DEF SelectTopTriggerSeeds
  <2>8. kept \in Seq(all) /\ Len(kept) = max /\ \A i \in 1 .. max : kept[i] = s[i]
    <3>1. /\ kept \in Seq(all)
          /\ Len(kept) = (IF Len(s) < max THEN Len(s) ELSE max)
          /\ \A i \in 1 .. Len(kept) : kept[i] = s[i]
      BY <2>5, <2>6, FirstNIs
    <3>2. Len(kept) = max
      BY <2>2, <2>5, <3>1
    <3>3. QED
      BY <3>1, <3>2
  <2>9. DOMAIN kept = 1 .. max /\ \A i \in 1 .. max : i \in 1 .. n
    BY <2>2, <2>8
  <2>10. \A i \in 1 .. n : s[i] \in all /\ s[i] \in [id : Nat, score : Int]
    BY <1>2, <2>1, <2>5 DEF Seed
  <2>11. \A i, j \in 1 .. n : s[i].id = s[j].id => i = j
    <3> SUFFICES ASSUME NEW i \in 1 .. n, NEW j \in 1 .. n, s[i].id = s[j].id, i # j
                 PROVE  FALSE
      OBVIOUS
    <3>1. s[i] = s[j]
      BY <1>2, <2>1, <2>10
    <3>2. i < j \/ j < i
      OBVIOUS
    <3>3. HigherScoreFirst(s[i], s[i])
      BY <2>5, <3>1, <3>2
    <3>4. QED
      BY <2>10, <3>3, HigherScoreFirstIsAnOrder
  <2>12. Distinct(kept)
    BY <2>8, <2>9, <2>11 DEF Distinct
  <2>13. kept \in SeedLists
    <3>1. kept \in Seq(Seed)
      BY <1>2, <2>1, <2>8
    <3>2. QED
      BY <2>12, <3>1 DEF SeedLists
  <2>14. Cardinality(ToSet(kept)) = Len(kept)
    BY <2>13, SeedSetIs
  <2>15. ToSet(kept) \subseteq all /\ \A k \in ToSet(kept) : \E i \in 1 .. max : k = s[i]
    BY <2>8, <2>9, <2>10 DEF ToSet
  <2>16. ASSUME NEW x \in all \ ToSet(kept), NEW k \in ToSet(kept)
         PROVE  x.score <= k.score
    <3>1. PICK i \in 1 .. max : k = s[i]
      BY <2>15
    <3>2. PICK j \in 1 .. n : x = s[j]
      BY <2>5, <2>16
    <3>3. j \notin 1 .. max
      BY <2>8, <2>9, <2>16, <3>2 DEF ToSet
    <3>4. i < j /\ i \in 1 .. n
      BY <2>9, <3>1, <3>2, <3>3
    <3>5. HigherScoreFirst(k, x)
      BY <2>5, <3>1, <3>2, <3>4
    <3>6. k.score \in Int /\ x.score \in Int
      BY <2>10, <3>1, <3>2, <3>4
    <3>7. QED
      BY <3>5, <3>6 DEF HigherScoreFirst
  <2>17. AreStrongest(kept, all)
    BY <1>1, <2>8, <2>14, <2>15, <2>16 DEF AreStrongest
  <2>18. QED
    BY <1>1, <2>1, <2>7, <2>8, <2>13, <2>17
<1>5. QED
  BY <1>3, <1>4

-----------------------------------------------------------------------------
(* Item-CF: what is found belongs to the seeds, in their order.            *)

Answer == [id : Nat, list : Seq(Neighbor)]

\* answers are those of the first seeds.
AnswersTo(answers, seeds) ==
  /\ answers \in Seq(Answer)
  /\ Len(answers) <= Len(seeds)
  /\ \A i \in 1 .. Len(answers) : answers[i].id = seeds[i].id

EvidenceOf(seeds, answers) ==
  [i \in DOMAIN answers |->
     [seed |-> CHOOSE s \in ToSet(seeds) : s.id = answers[i].id, list |-> answers[i].list]]

\* An id that was asked for names the seed at its place.
LEMMA EvidenceIs ==
  ASSUME NEW seeds \in SeedLists, NEW answers, AnswersTo(answers, seeds)
  PROVE  /\ EvidenceOf(seeds, answers) \in Seq(Finding)
         /\ Len(EvidenceOf(seeds, answers)) = Len(answers)
         /\ \A i \in 1 .. Len(answers) :
              EvidenceOf(seeds, answers)[i] = Finds(seeds[i], answers[i].list)
<1>1. /\ answers \in Seq(Answer) /\ Len(answers) \in Nat /\ DOMAIN answers = 1 .. Len(answers)
      /\ Len(answers) <= Len(seeds)
      /\ \A i \in 1 .. Len(answers) : answers[i].id = seeds[i].id
  BY DEF AnswersTo
<1>2. PICK n \in Nat : n = Len(answers)
  BY <1>1
<1>3. seeds \in Seq(Seed) /\ Len(seeds) \in Nat /\ DOMAIN seeds = 1 .. Len(seeds)
  BY DEF SeedLists
<1>4. \A i \in 1 .. n : seeds[i] \in ToSet(seeds) /\ seeds[i] \in Seed
  BY <1>1, <1>2, <1>3 DEF ToSet
<1>5. \A i \in 1 .. n : answers[i].list \in Seq(Neighbor)
  <2>1. PICK T : T = Answer
    OBVIOUS
  <2>2. \A i \in 1 .. n : answers[i] \in T
    BY <1>1, <1>2, <2>1
  <2>3. QED
    BY <2>1, <2>2 DEF Answer
<1>6. ASSUME NEW i \in 1 .. n
      PROVE  (CHOOSE s \in ToSet(seeds) : s.id = answers[i].id) = seeds[i]
  <2>1. \A x, y \in ToSet(seeds) : x.id = y.id => x = y
    BY SeedSetIs
  <2>2. seeds[i] \in ToSet(seeds) /\ answers[i].id = seeds[i].id
    BY <1>1, <1>2, <1>4
  <2>3. QED
    BY <2>1, <2>2
<1>7. PICK E : E = EvidenceOf(seeds, answers)
  OBVIOUS
<1>8. /\ E = [i \in 1 .. n |-> E[i]]
      /\ \A i \in 1 .. n : E[i] = Finds(seeds[i], answers[i].list)
  BY <1>1, <1>2, <1>6, <1>7 DEF EvidenceOf, Finds
<1>9. \A i \in 1 .. n : E[i] \in Finding
  BY <1>4, <1>5, <1>8, FindsAreFindings
<1>10. E \in Seq(Finding) /\ Len(E) = n
  <2>1. PICK T : T = Finding
    OBVIOUS
  <2>2. \A i \in 1 .. n : E[i] \in T
    BY <1>9, <2>1
  <2>3. E \in Seq(T) /\ Len(E) = n
    BY <1>2, <1>8, <2>2
  <2>4. QED
    BY <2>1, <2>3
<1>11. QED
  BY <1>2, <1>7, <1>8, <1>10

\* u is s and then t.
OneAfterTheOther(u, s, t, T) ==
  /\ u \in Seq(T) /\ Len(u) = Len(s) + Len(t)
  /\ \A i \in 1 .. Len(s) : u[i] = s[i]
  /\ \A i \in 1 .. Len(t) : u[Len(s) + i] = t[i]

LEMMA Concatenation ==
  ASSUME NEW T, NEW s \in Seq(T), NEW t \in Seq(T)
  PROVE  OneAfterTheOther(s \o t, s, t, T)
<1>1. s \o t \in Seq(T) /\ Len(s \o t) = Len(s) + Len(t)
  OBVIOUS
<1>2. \A i \in 1 .. Len(s) : (s \o t)[i] = s[i]
  OBVIOUS
<1>3. ASSUME NEW i \in 1 .. Len(t) PROVE (s \o t)[Len(s) + i] = t[i]
  <2>1. Len(s) \in Nat /\ Len(t) \in Nat
    OBVIOUS
  <2>2. /\ Len(s) + i \in 1 .. (Len(s) + Len(t)) /\ ~(Len(s) + i <= Len(s))
        /\ (Len(s) + i) - Len(s) = i
    BY <2>1
  <2>3. QED
    BY <2>2
<1>4. QED
  BY <1>1, <1>2, <1>3 DEF OneAfterTheOther

\* After b answers to the seeds, more has the m lists in addition.
Continues(more, answers, b, seeds, lists, m) ==
  /\ AnswersTo(more, seeds)
  /\ Len(more) = b + m
  /\ SubSeq(EvidenceOf(seeds, more), 1, b) = EvidenceOf(seeds, answers)
  /\ SubSeq(EvidenceOf(seeds, more), 1, b + m) = EvidenceOf(seeds, more)
  /\ \A i \in 1 .. m :
       EvidenceOf(seeds, more)[b + i] = Finds(seeds[b + i], lists[i])

\* The next answers are those to the next seeds.
LEMMA MoreAnswers ==
  ASSUME NEW seeds \in SeedLists, NEW answers, AnswersTo(answers, seeds),
         NEW m \in Nat, Len(answers) + m <= Len(seeds),
         NEW lists, \A i \in 1 .. m : lists[i] \in Seq(Neighbor)
  PROVE  Continues(answers \o [i \in 1 .. m |-> [id |-> seeds[Len(answers) + i].id,
                                                list |-> lists[i]]],
                   answers, Len(answers), seeds, lists, m)
<1> DEFINE next == [i \in 1 .. m |-> [id |-> seeds[Len(answers) + i].id,
                                      list |-> lists[i]]]
           more == answers \o next
<1>1. PICK T : T = Answer
  OBVIOUS
<1>2. PICK b \in Nat : b = Len(answers)
  BY DEF AnswersTo
<1>3. answers \in Seq(T) /\ \A i \in 1 .. b : answers[i].id = seeds[i].id
  BY <1>1, <1>2 DEF AnswersTo
<1>4. seeds \in Seq(Seed) /\ Len(seeds) \in Nat /\ DOMAIN seeds = 1 .. Len(seeds)
  BY DEF SeedLists
<1>5. ASSUME NEW i \in 1 .. m
      PROVE  /\ next[i] = [id |-> seeds[b + i].id, list |-> lists[i]]
             /\ next[i] \in T
  <2>1. b + i \in 1 .. Len(seeds)
    BY <1>2, <1>4
  <2>2. seeds[b + i] \in Seed
    BY <1>4, <2>1
  <2>3. PICK x : x = seeds[b + i].id
    OBVIOUS
  <2>4. x \in Nat
    BY <2>2, <2>3 DEF Seed
  <2>5. [id |-> x, list |-> lists[i]] \in Answer
    BY <2>4 DEF Answer
  <2>6. next[i] = [id |-> seeds[b + i].id, list |-> lists[i]]
    BY <1>2
  <2>7. QED
    BY <1>1, <2>3, <2>5, <2>6
<1>6. next = [i \in 1 .. m |-> next[i]]
  OBVIOUS
<1>7. PICK new : new = next
  OBVIOUS
<1>8. new \in Seq(T) /\ Len(new) = m
  <2>1. \A i \in 1 .. m : new[i] \in T
    BY <1>5, <1>7
  <2>2. new = [i \in 1 .. m |-> new[i]]
    BY <1>6, <1>7
  <2>3. QED
    BY <2>1, <2>2
<1>9. PICK all : all = answers \o new
  OBVIOUS
<1>10. /\ all \in Seq(T) /\ Len(all) = b + m
       /\ \A i \in 1 .. b : all[i] = answers[i]
       /\ \A i \in 1 .. m : all[b + i] = new[i]
  <2>1. answers \in Seq(T) /\ new \in Seq(T) /\ Len(answers) = b /\ Len(new) = m
    BY <1>2, <1>3, <1>8
  <2>2. OneAfterTheOther(all, answers, new, T)
    BY <1>9, <2>1, Concatenation
  <2>3. QED
    BY <2>1, <2>2 DEF OneAfterTheOther
<1>11. ASSUME NEW i \in 1 .. (b + m) PROVE all[i].id = seeds[i].id
  <2>1. CASE i <= b
    BY <1>3, <1>10, <2>1
  <2>2. CASE ~(i <= b)
    <3>1. PICK j \in 1 .. m : i = b + j
      <4>1. i - b \in 1 .. m /\ i = b + (i - b)
        BY <2>2
      <4>2. QED
        BY <4>1
    <3>2. all[i] = new[j]
      BY <1>10, <3>1
    <3>3. new[j].id = seeds[b + j].id
      BY <1>5, <1>7, Zenon
    <3>4. QED
      BY <3>1, <3>2, <3>3, Zenon
  <2>3. QED
    BY <2>1, <2>2
<1>12. AnswersTo(all, seeds)
  BY <1>1, <1>2, <1>10, <1>11 DEF AnswersTo
<1>13. PICK E, old : E = EvidenceOf(seeds, all) /\ old = EvidenceOf(seeds, answers)
  OBVIOUS
<1>14. PICK U : U = Finding
  OBVIOUS
<1>15. /\ E \in Seq(U) /\ Len(E) = b + m
       /\ \A i \in 1 .. (b + m) : E[i] = Finds(seeds[i], all[i].list)
  BY <1>10, <1>12, <1>13, <1>14, EvidenceIs
<1>16. /\ old \in Seq(U) /\ Len(old) = b
       /\ \A i \in 1 .. b : old[i] = Finds(seeds[i], answers[i].list)
  BY <1>2, <1>13, <1>14, EvidenceIs
<1>17. \A i \in 1 .. b : E[i] = old[i]
  <2> SUFFICES ASSUME NEW i \in 1 .. b PROVE E[i] = old[i]
    OBVIOUS
  <2>1. i \in 1 .. (b + m)
    OBVIOUS
  <2>2. QED
    BY <1>10, <1>15, <1>16, <2>1
<1>18. SubSeq(E, 1, b) = old
  BY <1>15, <1>16, <1>17
<1>19. SubSeq(E, 1, b + m) = E
  BY <1>15, PrefixSteps
<1>20. ASSUME NEW i \in 1 .. m PROVE E[b + i] = Finds(seeds[b + i], lists[i])
  <2>1. b + i \in 1 .. (b + m)
    OBVIOUS
  <2>2. all[b + i].list = lists[i]
    BY <1>5, <1>7, <1>10
  <2>3. QED
    BY <1>15, <2>1, <2>2
<1>21. more = all
  BY <1>7, <1>9
<1>22. QED
  BY <1>2, <1>10, <1>12, <1>13, <1>18, <1>19, <1>20, <1>21 DEF Continues

-----------------------------------------------------------------------------
(* Item-CF: the invariant.                                                 *)

LEMMA NormalizedIs ==
  ASSUME NEW r \in Requests
  PROVE  /\ Normalized(r).profile = r.profile /\ Normalized(r).user_id = r.user_id
         /\ Normalized(r).max \in Nat
         /\ r.user_id \in Int
         /\ IsRequestValid(r) => r.user_id > 0 /\ r.profile # NoProfile /\ HasChannels(r.profile)
<1>1. /\ r = [user_id |-> r.user_id, profile |-> r.profile, max |-> r.max]
      /\ r.user_id \in Int /\ r.max \in Int
      /\ r.profile # NoProfile => HasChannels(r.profile)
      /\ DefaultMax \in Nat
  BY RetrieverAssumption
<1>2. PICK u, p, m : u = r.user_id /\ p = r.profile /\ m = r.max
  OBVIOUS
<1>3. r = [user_id |-> u, profile |-> p, max |-> m] /\ m \in Int
  BY <1>1, <1>2
<1>4. Normalized(r) = [user_id |-> u, profile |-> p,
                       max |-> IF m <= 0 THEN DefaultMax ELSE m]
  BY <1>3 DEF Normalized
<1>5. Normalized(r).max \in Nat
  BY <1>1, <1>3, <1>4
<1>6. QED
  BY <1>1, <1>2, <1>4, <1>5 DEF IsRequestValid

ItemEvidence == EvidenceOf(trigger_seeds, found)

(***************************************************************************)
(* The seeds are the strongest, what was found answers the first of them,  *)
(* and the pool of candidates is what that makes of it, batch by batch.    *)
(***************************************************************************)
ItemCfInv ==
  /\ ItemCfTypeOK
  /\ request.max \in Nat
  /\ trigger_seeds \in SeedLists
  /\ trigger_seeds # <<>> =>
       AreStrongest(trigger_seeds, ToSet(CollectItemSeeds(request.profile)))
  /\ AnswersTo(found, trigger_seeds)
  /\ pc = "lookup" =>
       PoolOf(candidates, ItemEvidence, item_ids_to_filter_out) /\ response = NoResponse
  /\ response.candidates # <<>> => Succeeded
  /\ Succeeded =>
       /\ Len(found) = Len(trigger_seeds)
       /\ PoolOf(candidates, ItemEvidence, item_ids_to_filter_out)
       /\ response = Filled(candidates, request.max)

LEMMA NoAnswers ==
  ASSUME NEW seeds \in SeedLists
  PROVE  AnswersTo(<<>>, seeds) /\ EvidenceOf(seeds, <<>>) = <<>>
<1>1. Len(<<>>) = 0 /\ DOMAIN <<>> = {} /\ Len(seeds) \in Nat
  BY DEF SeedLists
<1>2. <<>> \in Seq(Answer)
  OBVIOUS
<1>3. AnswersTo(<<>>, seeds)
  BY <1>1, <1>2 DEF AnswersTo
<1>4. EvidenceOf(seeds, <<>>) \in Seq(Finding) /\ Len(EvidenceOf(seeds, <<>>)) = 0
  BY <1>1, <1>3, EvidenceIs
<1>5. QED
  BY <1>3, <1>4

LEMMA NothingIsASeedList == <<>> \in SeedLists /\ ToSet(<<>>) = {}
<1>1. <<>> \in Seq(Seed) /\ DOMAIN <<>> = {}
  OBVIOUS
<1>2. QED
  BY <1>1 DEF SeedLists, Distinct, ToSet

LEMMA ItemCfInitHolds == ItemCfInit => ItemCfInv
<1> SUFFICES ASSUME ItemCfInit PROVE ItemCfInv
  OBVIOUS
<1> USE DEF ItemCfInit
<1>1. ItemCfTypeOK
  <2>1. 0 \in 0 .. MaxTriggerSeeds
    BY ItemCfAssumption
  <2>2. DOMAIN candidates = {}
    BY DEF NoCandidates
  <2>3. QED
    BY <2>1, <2>2 DEF ItemCfTypeOK
<1>2. request.max \in Nat
  BY DEF NoRequest
<1>3. trigger_seeds \in SeedLists /\ AnswersTo(found, trigger_seeds)
  BY NothingIsASeedList, NoAnswers
<1>4. response.candidates = <<>> /\ ~ Succeeded
  BY DEF NoResponse, Succeeded
<1>5. QED
  BY <1>1, <1>2, <1>3, <1>4 DEF ItemCfInv

LEMMA SeedListsAreTyped ==
  ASSUME NEW list \in SeedLists
  PROVE  list \in Seq([id : Nat \ {0}, score : Nat \ {0}]) /\ Len(list) \in Nat
         /\ (list # <<>> => Len(list) >= 1)
BY DEF SeedLists, Seed

LEMMA RetrieveByItemsKeeps ==
  ASSUME ItemCfInv, NEW r \in Requests, RetrieveByItems(r)
  PROVE  ItemCfInv'
<1> USE DEF RetrieveByItems
<1>1. /\ request' = Normalized(r) /\ request'.profile = r.profile /\ request'.max \in Nat
      /\ IsRequestValid(r) => HasChannels(r.profile)
  BY NormalizedIs
<1>2. PICK seeds : seeds = trigger_seeds'
  OBVIOUS
<1>3. /\ seeds \in SeedLists /\ Len(seeds) <= MaxTriggerSeeds
      /\ seeds # <<>> => AreStrongest(seeds, ToSet(CollectItemSeeds(r.profile)))
  <2>1. CASE IsRequestValid(r)
    <3>1. CollectItemSeeds(r.profile) \in SeedLists
      BY <1>1, <2>1, ChannelItemsAre DEF CollectItemSeeds
    <3>2. seeds = SelectTopTriggerSeeds(CollectItemSeeds(r.profile))
      BY <1>2, <2>1
    <3>3. QED
      BY <3>1, <3>2, SelectedAre
  <2>2. CASE ~ IsRequestValid(r)
    <3>1. seeds = <<>> /\ Len(<<>>) = 0
      BY <1>2, <2>2
    <3>2. QED
      BY <3>1, NothingIsASeedList, ItemCfAssumption
  <2>3. QED
    BY <2>1, <2>2
<1>4. trigger_seeds' # <<>> =>
        AreStrongest(trigger_seeds', ToSet(CollectItemSeeds(request'.profile)))
  BY <1>1, <1>2, <1>3
<1>5. found' = <<>> /\ AnswersTo(found', seeds) /\ EvidenceOf(seeds, found') = <<>>
  BY <1>3, NoAnswers
<1>6. \/ pc' = "idle" /\ response'.candidates = <<>>
           /\ response'.status \in {"INVALID_REQUEST", "EMPTY_TRIGGER_SEEDS"}
      \/ pc' = "lookup" /\ response' = NoResponse /\ seeds # <<>>
  BY <1>2 DEF Respond, InvalidRequest, EmptyTriggerSeeds, Response
<1>7. ~ Succeeded' /\ response'.candidates = <<>>
  BY <1>6 DEF Succeeded, NoResponse
<1>8. ItemCfTypeOK'
  <2>1. batch_start' \in 0 .. MaxTriggerSeeds /\ DOMAIN candidates' = {}
    BY ItemCfAssumption DEF NoCandidates
  <2>2. seeds \in Seq([id : Nat \ {0}, score : Nat \ {0}])
    BY <1>3, SeedListsAreTyped
  <2>3. pc' = "lookup" =>
          /\ Len(seeds) \in 1 .. MaxTriggerSeeds
          /\ Len(found') = batch_start' /\ batch_start' < Len(seeds)
    <3> SUFFICES ASSUME pc' = "lookup"
                 PROVE  /\ Len(seeds) \in 1 .. MaxTriggerSeeds
                        /\ Len(found') = batch_start' /\ batch_start' < Len(seeds)
      OBVIOUS
    <3>1. Len(seeds) \in Nat /\ Len(seeds) >= 1
      BY <1>3, <1>6, SeedListsAreTyped
    <3>2. Len(found') = 0 /\ batch_start' = 0
      BY <1>5
    <3>3. QED
      BY <1>3, <3>1, <3>2, ItemCfAssumption
  <2>4. pc' \in {"idle", "lookup"} /\ (response' = NoResponse \/ response'.status \in Status)
    BY <1>6 DEF Status
  <2>5. request' \in {NoRequest} \cup {Normalized(x) : x \in Requests}
    OBVIOUS
  <2>6. QED
    BY <1>2, <2>1, <2>2, <2>3, <2>4, <2>5 DEF ItemCfTypeOK
<1>9. pc' = "lookup" =>
        PoolOf(candidates', ItemEvidence', item_ids_to_filter_out') /\ response' = NoResponse
  <2>1. PoolOf(NoCandidates, <<>>, item_ids_to_filter_out')
    BY NothingFound
  <2>2. ItemEvidence' = <<>>
    BY <1>2, <1>5 DEF ItemEvidence
  <2>3. QED
    BY <1>6, <2>1, <2>2
<1>10. QED
  BY <1>1, <1>2, <1>3, <1>4, <1>5, <1>7, <1>8, <1>9 DEF ItemCfInv

\* What is in the pool is as the type invariant says.
LEMMA PooledIsTyped ==
  ASSUME NEW pool, NEW E, NEW filter, PoolOf(pool, E, filter)
  PROVE  \A x \in DOMAIN pool : x > 0 /\ pool[x].score >= pool[x].reason_score
BY DEF PoolOf, Pooled, Explained

LEMMA LookupFailsKeeps ==
  ASSUME ItemCfInv, LookupFails
  PROVE  ItemCfInv'
<1> USE DEF LookupFails
<1>1. /\ pc' = "idle" /\ response'.candidates = <<>> /\ response'.status = "SYSTEM_ERROR"
      /\ UNCHANGED <<request, trigger_seeds, batch_start, candidates, found>>
  BY DEF Respond, SystemError, Response
<1>2. ~ Succeeded' /\ response'.candidates = <<>>
  BY <1>1 DEF Succeeded
<1>3. ItemCfTypeOK'
  BY <1>1 DEF ItemCfInv, ItemCfTypeOK, Status
<1>4. QED
  BY <1>1, <1>2, <1>3 DEF ItemCfInv

\* A batch makes of the pool what one lookup of all of its seeds would.
LEMMA LookupBatchFills ==
  ASSUME ItemCfInv, LookupBatch
  PROVE  /\ batch_end \in Nat /\ batch_end <= Len(trigger_seeds)
         /\ batch_end < Len(trigger_seeds) => batch_end = batch_start + BatchSize
         /\ AnswersTo(found', trigger_seeds)
         /\ Len(found') = batch_end
         /\ PoolOf(candidates', EvidenceOf(trigger_seeds, found'), item_ids_to_filter_out)
<1>1. PICK seeds, filter, b, n :
        /\ seeds = trigger_seeds /\ filter = item_ids_to_filter_out
        /\ b = batch_start /\ n = Len(trigger_seeds)
  OBVIOUS
<1>2. pc = "lookup"
  BY DEF LookupBatch
<1>3. /\ seeds \in SeedLists /\ AnswersTo(found, seeds)
      /\ PoolOf(candidates, EvidenceOf(seeds, found), filter)
      /\ request.max \in Nat
  BY <1>1, <1>2 DEF ItemCfInv, ItemEvidence
<1>4. b \in Nat /\ n \in Nat /\ b < n /\ Len(found) = b
  <2>1. batch_start \in 0 .. MaxTriggerSeeds /\ Len(found) = batch_start
          /\ batch_start < Len(trigger_seeds)
    BY <1>2 DEF ItemCfInv, ItemCfTypeOK
  <2>2. Len(seeds) \in Nat
    BY <1>3 DEF SeedLists
  <2>3. QED
    BY <1>1, <2>1, <2>2, ItemCfAssumption
<1>5. PICK last : last = batch_end
  OBVIOUS
<1>6. BatchSize \in Nat \ {0}
  BY ItemCfAssumption
<1>7. last \in Nat /\ b < last /\ last <= n /\ (last < n => last = b + BatchSize)
  BY <1>1, <1>4, <1>5, <1>6 DEF batch_end
<1>8. PICK m \in Nat : m = last - b /\ b + m = last
  <2>1. last - b \in Nat /\ b + (last - b) = last
    BY <1>4, <1>7
  <2>2. QED
    BY <2>1
<1>9. PICK lists \in [1 .. m -> Lists] :
        LET cut == [i \in DOMAIN lists |-> FirstN(lists[i], request.max)] IN
        /\ candidates' = AggregateSimilarityBatch(cut)
        /\ found' = found \o
             [i \in DOMAIN lists |->
                [id |-> trigger_seeds[batch_start + i].id, list |-> cut[i]]]
  BY <1>1, <1>5, <1>8 DEF LookupBatch
<1>10. PICK cut : cut = [i \in 1 .. m |-> FirstN(lists[i], request.max)]
  OBVIOUS
<1>11. /\ candidates' = AggregateSimilarityBatch(cut)
       /\ found' = found \o [i \in 1 .. m |-> [id |-> seeds[Len(found) + i].id, list |-> cut[i]]]
  <2>1. DOMAIN lists = 1 .. m
    OBVIOUS
  <2>2. cut = [i \in DOMAIN lists |-> FirstN(lists[i], request.max)]
    BY <1>10, <2>1
  <2>3. QED
    BY <1>1, <1>4, <1>9, <2>1, <2>2
<1>12. DOMAIN cut = 1 .. m /\ \A i \in 1 .. m : cut[i] \in Seq(Neighbor)
  <2>1. DOMAIN cut = 1 .. m
    BY <1>10
  <2>2. ASSUME NEW i \in 1 .. m PROVE cut[i] \in Seq(Neighbor)
    <3>1. lists[i] \in Lists
      OBVIOUS
    <3>2. lists[i] \in Seq(Neighbor)
      BY <3>1, ItemCfAssumption DEF ScoredLists, Neighbor
    <3>3. FirstN(lists[i], request.max) \in Seq(Neighbor)
      BY <1>3, <3>2, FirstNIs
    <3>4. QED
      BY <1>10, <3>3
  <2>3. QED
    BY <2>1, <2>2
<1>13. PICK E : E = EvidenceOf(seeds, found')
  OBVIOUS
<1>14. /\ AnswersTo(found', seeds) /\ Len(found') = b + m
       /\ SubSeq(E, 1, b) = EvidenceOf(seeds, found)
       /\ SubSeq(E, 1, b + m) = E
       /\ \A i \in 1 .. m : E[b + i] = Finds(seeds[b + i], cut[i])
  <2>1. Len(found) + m <= Len(seeds)
    BY <1>1, <1>4, <1>7, <1>8
  <2>2. QED
    <3>1. Continues(found', found, b, seeds, cut, m)
      BY <1>3, <1>4, <1>11, <1>12, <2>1, MoreAnswers
    <3>2. QED
      BY <1>13, <3>1 DEF Continues
<1>15. E \in Seq(Finding) /\ Len(E) = b + m
  BY <1>3, <1>13, <1>14, EvidenceIs
<1>16. \A i \in 1 .. m : seeds[b + i] \in Seed
  <2>1. seeds \in Seq(Seed)
    BY <1>3 DEF SeedLists
  <2>2. \A i \in 1 .. m : b + i \in 1 .. Len(seeds)
    BY <1>1, <1>4, <1>7, <1>8
  <2>3. QED
    BY <2>1, <2>2
<1>17. candidates \in Pools
  BY <1>3 DEF PoolOf, Pooled
<1>18. PICK g : /\ g[0] = candidates /\ candidates' = g[m]
                /\ \A k \in 1 .. m :
                     g[k] = AddNeighbors(g[k - 1], seeds[b + k], cut[k], filter)
  <2>1. \A i \in 1 .. m : cut[i] \in Seq(Neighbor) /\ trigger_seeds[batch_start + i] \in Seed
    BY <1>1, <1>12, <1>16
  <2>2. PICK g : InBatch(g, cut, m)
    BY <1>12, <1>17, <2>1, BatchSteps
  <2>3. QED
    BY <1>1, <1>11, <2>2 DEF InBatch
<1>19. \A k \in 1 .. m : g[k] = AddNeighbors(g[k - 1], E[b + k].seed, E[b + k].list, filter)
  <2> SUFFICES ASSUME NEW k \in 1 .. m
               PROVE  g[k] = AddNeighbors(g[k - 1], E[b + k].seed, E[b + k].list, filter)
    OBVIOUS
  <2>1. E[b + k] = Finds(seeds[b + k], cut[k])
    BY <1>14
  <2>2. E[b + k].seed = seeds[b + k] /\ E[b + k].list = cut[k]
    BY <2>1 DEF Finds
  <2>3. QED
    BY <1>18, <2>2
<1>20. PoolOf(g[m], SubSeq(E, 1, b + m), filter)
  <2>1. PoolOf(g[0], SubSeq(E, 1, b), filter)
    BY <1>3, <1>14, <1>18
  <2>2. b + m <= Len(E)
    BY <1>4, <1>15
  <2>3. QED
    BY <1>4, <1>15, <1>19, <2>1, <2>2, PoolFollows
<1>21. PoolOf(candidates', E, filter)
  BY <1>14, <1>18, <1>20
<1>22. QED
  BY <1>1, <1>5, <1>7, <1>8, <1>13, <1>14, <1>21

LEMMA LookupBatchKeeps ==
  ASSUME ItemCfInv, LookupBatch
  PROVE  ItemCfInv'
<1>1. /\ batch_end \in Nat /\ batch_end <= Len(trigger_seeds)
      /\ batch_end < Len(trigger_seeds) => batch_end = batch_start + BatchSize
      /\ AnswersTo(found', trigger_seeds) /\ Len(found') = batch_end
      /\ PoolOf(candidates', EvidenceOf(trigger_seeds, found'), item_ids_to_filter_out)
  BY LookupBatchFills
<1>2. pc = "lookup" /\ UNCHANGED <<request, trigger_seeds>>
  BY DEF LookupBatch
<1>3. PoolOf(candidates', ItemEvidence', item_ids_to_filter_out')
  BY <1>1, <1>2 DEF ItemEvidence, item_ids_to_filter_out
<1>4. \A x \in DOMAIN candidates' :
        x > 0 /\ candidates'[x].score >= candidates'[x].reason_score
  BY <1>1, PooledIsTyped
<1>5. Len(trigger_seeds) \in 1 .. MaxTriggerSeeds /\ batch_start \in 0 .. MaxTriggerSeeds
  BY <1>2 DEF ItemCfInv, ItemCfTypeOK
<1>6. CASE batch_end < Len(trigger_seeds)
  <2>1. /\ batch_start' = batch_end /\ UNCHANGED <<pc, response>>
    BY <1>1, <1>6 DEF LookupBatch
  <2>2. ItemCfTypeOK'
    <3>1. batch_end \in 0 .. MaxTriggerSeeds
      BY <1>1, <1>5, <1>6, ItemCfAssumption
    <3>2. QED
      BY <1>1, <1>2, <1>4, <1>5, <1>6, <2>1, <3>1 DEF ItemCfInv, ItemCfTypeOK
  <2>3. response' = NoResponse /\ pc' = "lookup"
    BY <1>2, <2>1 DEF ItemCfInv
  <2>4. response'.candidates = <<>> /\ ~ Succeeded'
    BY <2>3 DEF NoResponse, Succeeded
  <2>5. QED
    BY <1>1, <1>2, <1>3, <2>2, <2>3, <2>4 DEF ItemCfInv
<1>7. CASE ~(batch_end < Len(trigger_seeds))
  <2>1. /\ batch_start' = batch_start /\ pc' = "idle"
        /\ response' = Filled(candidates', request.max)
    BY <1>7 DEF LookupBatch, Respond
  <2>2. response'.status = "SUCCESS"
    BY <2>1 DEF Filled, Response
  <2>3. Len(found') = Len(trigger_seeds)
    BY <1>1, <1>5, <1>7
  <2>4. ItemCfTypeOK'
    BY <1>2, <1>4, <1>5, <2>1, <2>2 DEF ItemCfInv, ItemCfTypeOK, Status
  <2>5. Succeeded'
    BY <2>1, <2>2 DEF Succeeded
  <2>6. QED
    BY <1>1, <1>2, <1>3, <2>1, <2>3, <2>4, <2>5 DEF ItemCfInv
<1>8. QED
  BY <1>6, <1>7

(***************************************************************************)
(* Whatever the requests, the lists of the store and the size of a batch,  *)
(* DoRetrieve of Item-CF keeps its pool true to what was looked up.        *)
(***************************************************************************)
THEOREM ItemCfInvariant == ItemCfSpec => []ItemCfInv
<1>1. ASSUME ItemCfInv, [ItemCfNext]_item_cf_vars
      PROVE  ItemCfInv'
  <2>1. ASSUME NEW r \in Requests, RetrieveByItems(r) PROVE ItemCfInv'
    BY <1>1, <2>1, RetrieveByItemsKeeps
  <2>2. CASE LookupBatch
    BY <1>1, <2>2, LookupBatchKeeps
  <2>3. CASE LookupFails
    BY <1>1, <2>3, LookupFailsKeeps
  <2>4. CASE UNCHANGED item_cf_vars
    <3>1. ItemCfTypeOK'
      BY <1>1, <2>4 DEF ItemCfInv, ItemCfTypeOK, item_cf_vars
    <3>2. ItemEvidence' = ItemEvidence /\ item_ids_to_filter_out' = item_ids_to_filter_out
      BY <2>4 DEF item_cf_vars, ItemEvidence, item_ids_to_filter_out
    <3>3. Succeeded' = Succeeded
      BY <2>4 DEF item_cf_vars, Succeeded
    <3>4. QED
      BY <1>1, <2>4, <3>1, <3>2, <3>3 DEF ItemCfInv, item_cf_vars
  <2>5. QED
    BY <1>1, <2>1, <2>2, <2>3, <2>4 DEF ItemCfNext, Lookup
<1>2. QED
  BY ItemCfInitHolds, <1>1, PTL DEF ItemCfSpec

\* What SelectTopTriggerSeeds leaves out is never stronger than what it keeps.
THEOREM SeedsAreAlwaysStrongest == ItemCfSpec => []SeedsAreStrongest
<1>1. ItemCfInv => SeedsAreStrongest
  BY DEF ItemCfInv, SeedsAreStrongest, AreStrongest
<1>2. QED
  BY ItemCfInvariant, <1>1, PTL

\* The response of Item-CF is the best of all neighbours of all seeds, in
\* however many batches AggregateSimilarityBatch met them.
THEOREM ItemCfRanksWhatItFound == ItemCfSpec => []RanksNeighborsFound
<1>1. ASSUME ItemCfInv PROVE RanksNeighborsFound
  <2>1. ItemCfTypeOK /\ (response.candidates # <<>> => Succeeded)
    BY <1>1 DEF ItemCfInv
  <2>2. ASSUME Succeeded
        PROVE  /\ {found[i].id : i \in DOMAIN found} = {s.id : s \in ToSet(trigger_seeds)}
               /\ IsBestOf(response.candidates, FoundBySeed, item_ids_to_filter_out, request.max)
               /\ ReasonsAreStrongest(response.candidates, FoundBySeed, item_ids_to_filter_out)
    <3>1. /\ trigger_seeds \in SeedLists /\ AnswersTo(found, trigger_seeds)
          /\ Len(found) = Len(trigger_seeds) /\ request.max \in Nat
          /\ PoolOf(candidates, ItemEvidence, item_ids_to_filter_out)
          /\ response = Filled(candidates, request.max)
      BY <1>1, <2>2 DEF ItemCfInv
    <3>2. /\ DOMAIN found = DOMAIN trigger_seeds
          /\ \A i \in DOMAIN found : found[i].id = trigger_seeds[i].id
      BY <3>1 DEF SeedLists, AnswersTo
    <3>3. {found[i].id : i \in DOMAIN found} = {s.id : s \in ToSet(trigger_seeds)}
      BY <3>2 DEF ToSet
    <3>4. ItemEvidence = FoundBySeed
      BY DEF ItemEvidence, EvidenceOf, FoundBySeed
    <3>5. ItemEvidence \in Seq(Finding)
      BY <3>1, EvidenceIs DEF ItemEvidence
    <3>6. /\ IsBestOf(response.candidates, ItemEvidence, item_ids_to_filter_out, request.max)
          /\ ReasonsAreStrongest(response.candidates, ItemEvidence, item_ids_to_filter_out)
      BY <3>1, <3>5, FilledIsBest
    <3>7. QED
      BY <3>3, <3>4, <3>6
  <2>3. QED
    BY <2>1, <2>2 DEF RanksNeighborsFound
<1>2. QED
  BY ItemCfInvariant, <1>1, PTL

-----------------------------------------------------------------------------
(* User-CF: the places of the results.                                     *)

\* Each place of the call belongs to one of the seeds that are asked for.
OneToOne(seeds) ==
  LET V == valid_indexes(seeds) IN
  /\ V \in SUBSET (1 .. Len(seeds)) /\ IsFiniteSet(V) /\ Cardinality(V) \in Nat
  /\ \A i \in V : ResultIndex(seeds, i) \in 1 .. Cardinality(V)
  /\ \A i, j \in V : ResultIndex(seeds, i) = ResultIndex(seeds, j) => i = j
  /\ \A k \in 1 .. Cardinality(V) : \E i \in V : ResultIndex(seeds, i) = k

LEMMA ResultIndexIs ==
  ASSUME NEW seeds \in SeedLists
  PROVE  OneToOne(seeds)
<1>1. PICK n \in Nat : n = Len(seeds) /\ DOMAIN seeds = 1 .. n
  <2>1. seeds \in Seq(Seed)
    BY DEF SeedLists
  <2>2. QED
    BY <2>1
<1>2. PICK V : V = valid_indexes(seeds)
  OBVIOUS
<1>3. V \in SUBSET (1 .. n)
  BY <1>1, <1>2 DEF valid_indexes
<1>4. IsFiniteSet(V) /\ Cardinality(V) \in Nat
  <2>1. 1 \in Int /\ n \in Int
    OBVIOUS
  <2>2. IsFiniteSet(1 .. n)
    BY <2>1, FS_Interval
  <2>3. QED
    BY <1>3, <2>2, FS_Subset, FS_CardinalityType
<1>5. PICK R : R = {p \in V \X V : p[1] < p[2]}
  OBVIOUS
<1>6. \A x, y \in V : <<x, y>> \in R <=> x < y
  BY <1>5
<1>7. Orders(R, V)
  BY <1>3, <1>6 DEF Orders
<1>8. PICK rank : rank = [i \in V |-> Cardinality(Ahead(R, V, i))]
  OBVIOUS
<1>9. PICK c \in Nat : c = Cardinality(V)
  BY <1>4
<1>10. /\ \A i \in V : rank[i] \in 0 .. (c - 1)
       /\ \A i, j \in V : rank[i] = rank[j] => i = j
       /\ \A k \in 0 .. (c - 1) : \E i \in V : rank[i] = k
  <2>1. \A i \in V : Cardinality(Ahead(R, V, i)) \in 0 .. (Cardinality(V) - 1)
    BY <1>4, <1>7, RanksAreUnique
  <2>2. \A i, j \in V : Cardinality(Ahead(R, V, i)) = Cardinality(Ahead(R, V, j)) => i = j
    BY <1>4, <1>7, RanksAreUnique
  <2>3. \A k \in 0 .. (Cardinality(V) - 1) : \E i \in V : Cardinality(Ahead(R, V, i)) = k
    BY <1>4, <1>7, RanksAreUnique
  <2>4. QED
    BY <1>8, <1>9, <2>1, <2>2, <2>3
<1>11. ASSUME NEW i \in V PROVE ResultIndex(seeds, i) = rank[i] + 1
  <2>1. PICK A : A = Ahead(R, V, i)
    OBVIOUS
  <2>2. A \in SUBSET V /\ i \notin A
    BY <1>3, <1>6, <2>1 DEF Ahead
  <2>3. {j \in V : j <= i} = A \cup {i}
    <3>1. \A j \in V : j \in A <=> j < i
      BY <1>6, <2>1 DEF Ahead
    <3>2. \A j \in V : j \in Int /\ i \in Int
      BY <1>3
    <3>3. \A j \in V : j <= i <=> j \in A \/ j = i
      BY <3>1, <3>2
    <3>4. QED
      BY <2>2, <3>3
  <2>4. IsFiniteSet(A)
    BY <1>4, <2>2, FS_Subset
  <2>5. Cardinality(A \cup {i}) = Cardinality(A) + 1
    BY <2>2, <2>4, FS_AddElement
  <2>6. ResultIndex(seeds, i) = Cardinality(A \cup {i})
    BY <1>2, <2>3 DEF ResultIndex
  <2>7. rank[i] = Cardinality(A)
    BY <1>8, <2>1
  <2>8. QED
    BY <2>5, <2>6, <2>7
<1>12. PICK at : at = [i \in V |-> ResultIndex(seeds, i)]
  OBVIOUS
<1>13. \A i \in V : at[i] = rank[i] + 1 /\ at[i] = ResultIndex(seeds, i)
  BY <1>11, <1>12
<1>14. \A i \in V : at[i] \in 1 .. c
  <2> SUFFICES ASSUME NEW i \in V PROVE at[i] \in 1 .. c
    OBVIOUS
  <2>1. rank[i] \in 0 .. (c - 1) /\ at[i] = rank[i] + 1
    BY <1>10, <1>13
  <2>2. QED
    BY <2>1
<1>15. \A i, j \in V : at[i] = at[j] => i = j
  <2> SUFFICES ASSUME NEW i \in V, NEW j \in V, at[i] = at[j] PROVE i = j
    OBVIOUS
  <2>1. rank[i] \in 0 .. (c - 1) /\ rank[j] \in 0 .. (c - 1)
    BY <1>10
  <2>2. rank[i] + 1 = rank[j] + 1
    BY <1>13
  <2>3. rank[i] = rank[j]
    BY <2>1, <2>2
  <2>4. QED
    BY <1>10, <2>3
<1>16. \A k \in 1 .. c : \E i \in V : at[i] = k
  <2> SUFFICES ASSUME NEW k \in 1 .. c PROVE \E i \in V : at[i] = k
    OBVIOUS
  <2>1. k - 1 \in 0 .. (c - 1) /\ (k - 1) + 1 = k
    OBVIOUS
  <2>2. PICK i \in V : rank[i] = k - 1
    BY <1>10, <2>1
  <2>3. QED
    BY <1>13, <2>1, <2>2
<1>17. QED
  <2>1. V \in SUBSET (1 .. Len(seeds)) /\ IsFiniteSet(V) /\ Cardinality(V) \in Nat
    BY <1>1, <1>3, <1>4
  <2>2. \A i \in V : ResultIndex(seeds, i) \in 1 .. Cardinality(V)
    BY <1>9, <1>13, <1>14
  <2>3. \A i, j \in V : ResultIndex(seeds, i) = ResultIndex(seeds, j) => i = j
    BY <1>13, <1>15
  <2>4. \A k \in 1 .. Cardinality(V) : \E i \in V : ResultIndex(seeds, i) = k
    BY <1>9, <1>13, <1>16
  <2>5. QED
    BY <1>2, <2>1, <2>2, <2>3, <2>4 DEF OneToOne

-----------------------------------------------------------------------------
(* User-CF: the results belong to the seeds that are asked for.            *)

Replies == UNION {ResultOf(id) : id \in Nat}

\* The results are those of the first seeds that are asked for.
RepliesTo(replies, seeds) ==
  /\ replies \in Seq(Replies)
  /\ Len(replies) <= Cardinality(valid_indexes(seeds))
  /\ \A k \in 1 .. Len(replies) :
       \E i \in valid_indexes(seeds) :
         ResultIndex(seeds, i) = k /\ replies[k] \in ResultOf(seeds[i].id)

OwnReplies(replies, id) == {r \in ToSet(replies) : r.user_id = id /\ r.status = "SUCCESS"}

ProfilesOf(seeds, replies) ==
  [i \in DOMAIN seeds |->
     LET result == replies[ResultIndex(seeds, i)] IN
     IF i \in valid_indexes(seeds) /\ result.status = "SUCCESS"
     THEN result.profile ELSE NoProfile]

ProfileEvidence(seeds, replies) ==
  [i \in DOMAIN seeds |->
     LET own == OwnReplies(replies, seeds[i].id)
     IN [seed |-> seeds[i],
         list |-> IF own = {} THEN <<>>
                  ELSE ChannelItems((CHOOSE r \in own : TRUE).profile, Base)]]

LEMMA ResultOfIs ==
  ASSUME NEW id, NEW r \in ResultOf(id)
  PROVE  /\ r.user_id = id
         /\ r.status = "SUCCESS" => r.profile \in UserProfiles
BY DEF ResultOf, Result

\* The profile at a seed's place is that of the seed's own user.
LEMMA ProfileAtSeed ==
  ASSUME NEW seeds \in SeedLists, NEW replies, RepliesTo(replies, seeds),
         Len(replies) = Cardinality(valid_indexes(seeds)), NEW i \in DOMAIN seeds
  PROVE  LET p == ProfilesOf(seeds, replies)[i] IN
         /\ p # NoProfile => p \in UserProfiles
         /\ ProfileEvidence(seeds, replies)[i]
              = Finds(seeds[i], IF p = NoProfile THEN <<>> ELSE ChannelItems(p, Base))
<1>1. PICK V, p, own, id :
        /\ V = valid_indexes(seeds) /\ p = ProfilesOf(seeds, replies)[i]
        /\ own = OwnReplies(replies, seeds[i].id) /\ id = seeds[i].id
  OBVIOUS
<1>2. PICK n \in Nat : n = Len(replies)
  BY DEF RepliesTo
<1>3. /\ DOMAIN replies = 1 .. n /\ n = Cardinality(V)
      /\ \A k \in 1 .. n : \E j \in V :
           ResultIndex(seeds, j) = k /\ replies[k] \in ResultOf(seeds[j].id)
  BY <1>1, <1>2 DEF RepliesTo
<1>4. /\ \A j \in V : ResultIndex(seeds, j) \in 1 .. n
      /\ \A j, k \in V : ResultIndex(seeds, j) = ResultIndex(seeds, k) => j = k
  <2>1. OneToOne(seeds)
    BY ResultIndexIs
  <2>2. QED
    BY <1>1, <1>3, <2>1 DEF OneToOne
<1>5. /\ V = {j \in DOMAIN seeds : seeds[j].id <= MaxInt64}
      /\ \A j, k \in DOMAIN seeds : seeds[j].id = seeds[k].id => j = k
  BY <1>1 DEF valid_indexes, SeedLists, Distinct
<1>6. \A r \in own : \E j \in V :
        r = replies[ResultIndex(seeds, j)] /\ seeds[j].id = id /\ r.status = "SUCCESS"
  <2> SUFFICES ASSUME NEW r \in own
               PROVE  \E j \in V : /\ r = replies[ResultIndex(seeds, j)]
                                   /\ seeds[j].id = id /\ r.status = "SUCCESS"
    OBVIOUS
  <2>1. r \in ToSet(replies) /\ r.user_id = id /\ r.status = "SUCCESS"
    BY <1>1 DEF OwnReplies
  <2>2. PICK k \in 1 .. n : r = replies[k]
    BY <1>3, <2>1 DEF ToSet
  <2>3. PICK j \in V : ResultIndex(seeds, j) = k /\ replies[k] \in ResultOf(seeds[j].id)
    BY <1>3
  <2>4. r.user_id = seeds[j].id
    BY <2>2, <2>3, ResultOfIs
  <2>5. QED
    BY <2>1, <2>2, <2>3, <2>4
<1>7. p = IF i \in V /\ replies[ResultIndex(seeds, i)].status = "SUCCESS"
          THEN replies[ResultIndex(seeds, i)].profile ELSE NoProfile
  BY <1>1 DEF ProfilesOf
<1>8. ProfileEvidence(seeds, replies)[i]
        = Finds(seeds[i], IF own = {} THEN <<>>
                          ELSE ChannelItems((CHOOSE r \in own : TRUE).profile, Base))
  BY <1>1 DEF ProfileEvidence, Finds
<1>9. CASE i \in V /\ replies[ResultIndex(seeds, i)].status = "SUCCESS"
  <2>1. PICK k, r : k = ResultIndex(seeds, i) /\ r = replies[k]
    OBVIOUS
  <2>2. k \in 1 .. n /\ r.status = "SUCCESS"
    BY <1>4, <1>9, <2>1
  <2>3. r \in ResultOf(id)
    <3>1. PICK j \in V : ResultIndex(seeds, j) = k /\ replies[k] \in ResultOf(seeds[j].id)
      BY <1>3, <2>2
    <3>2. j = i
      BY <1>4, <1>9, <2>1, <3>1
    <3>3. QED
      BY <1>1, <2>1, <3>1, <3>2
  <2>4. r.user_id = id /\ r.profile \in UserProfiles
    BY <2>2, <2>3, ResultOfIs
  <2>5. r \in own
    <3>1. r \in ToSet(replies)
      BY <1>3, <2>1, <2>2 DEF ToSet
    <3>2. QED
      BY <1>1, <2>2, <2>4, <3>1 DEF OwnReplies
  <2>6. \A other \in own : other = r
    BY <1>1, <1>5, <1>6, <2>1
  <2>7. (CHOOSE other \in own : TRUE) = r
    BY <2>5, <2>6
  <2>8. p = r.profile /\ p \in UserProfiles /\ p # NoProfile
    BY <1>7, <1>9, <2>1, <2>4, UserCfAssumption
  <2>9. ProfileEvidence(seeds, replies)[i] = Finds(seeds[i], ChannelItems(p, Base))
    BY <1>8, <2>5, <2>7, <2>8
  <2>10. QED
    BY <1>1, <2>8, <2>9
<1>10. CASE ~(i \in V /\ replies[ResultIndex(seeds, i)].status = "SUCCESS")
  <2>1. own = {}
    <3> SUFFICES ASSUME NEW r \in own PROVE FALSE
      OBVIOUS
    <3>1. PICK j \in V : /\ r = replies[ResultIndex(seeds, j)]
                         /\ seeds[j].id = id /\ r.status = "SUCCESS"
      BY <1>6
    <3>2. j = i
      BY <1>1, <1>5, <3>1
    <3>3. QED
      BY <1>10, <3>1, <3>2
  <2>2. p = NoProfile /\ ProfileEvidence(seeds, replies)[i] = Finds(seeds[i], <<>>)
    BY <1>7, <1>8, <1>10, <2>1
  <2>3. QED
    BY <1>1, <2>2
<1>11. QED
  BY <1>9, <1>10

LEMMA ProfileEvidenceIs ==
  ASSUME NEW seeds \in SeedLists, NEW replies, RepliesTo(replies, seeds),
         Len(replies) = Cardinality(valid_indexes(seeds))
  PROVE  /\ ProfileEvidence(seeds, replies) \in Seq(Finding)
         /\ Len(ProfileEvidence(seeds, replies)) = Len(seeds)
         /\ PoolOf(AggregateCandidates(seeds, ProfilesOf(seeds, replies)),
                   ProfileEvidence(seeds, replies), Consumed(request.profile))
<1>1. PICK m \in Nat : m = Len(seeds) /\ DOMAIN seeds = 1 .. m
                         /\ \A i \in 1 .. m : seeds[i] \in Seed
  <2>1. seeds \in Seq(Seed)
    BY DEF SeedLists
  <2>2. Len(seeds) \in Nat /\ DOMAIN seeds = 1 .. Len(seeds)
          /\ \A i \in 1 .. Len(seeds) : seeds[i] \in Seed
    BY <2>1
  <2>3. QED
    BY <2>2
<1>2. PICK profiles, E, filter :
        /\ profiles = ProfilesOf(seeds, replies) /\ E = ProfileEvidence(seeds, replies)
        /\ filter = Consumed(request.profile)
  OBVIOUS
<1>3. \A i \in 1 .. m :
        /\ profiles[i] # NoProfile => profiles[i] \in UserProfiles
        /\ E[i] = Finds(seeds[i], IF profiles[i] = NoProfile THEN <<>>
                                  ELSE ChannelItems(profiles[i], Base))
  BY <1>1, <1>2, ProfileAtSeed
<1>4. \A i \in 1 .. m : profiles[i] # NoProfile => HasChannels(profiles[i])
  BY <1>3, UserCfAssumption
<1>5. ASSUME NEW i \in 1 .. m PROVE E[i] \in Finding
  <2>1. CASE profiles[i] = NoProfile
    <3>1. <<>> \in Seq(Neighbor)
      OBVIOUS
    <3>2. QED
      BY <1>1, <1>3, <2>1, <3>1, FindsAreFindings
  <2>2. CASE profiles[i] # NoProfile
    <3>1. ChannelItems(profiles[i], Base) \in Seq(Neighbor)
      BY <1>4, <2>2, ChannelItemsAre, SeedListsAreLists
    <3>2. QED
      BY <1>1, <1>3, <2>2, <3>1, FindsAreFindings
  <2>3. QED
    BY <2>1, <2>2
<1>6. E \in Seq(Finding) /\ Len(E) = m
  <2>1. PICK T : T = Finding
    OBVIOUS
  <2>2. \A i \in 1 .. m : E[i] \in T
    BY <1>5, <2>1
  <2>3. E = [i \in 1 .. m |-> E[i]]
    BY <1>1, <1>2 DEF ProfileEvidence
  <2>4. E \in Seq(T) /\ Len(E) = m
    BY <2>2, <2>3
  <2>5. QED
    BY <2>1, <2>4
<1>7. PICK g : ByProfile(g, seeds, profiles, m)
  BY <1>1, <1>4, ProfileSteps
<1>8. ASSUME NEW k \in 1 .. m
      PROVE  \/ g[k] = AddNeighbors(g[k - 1], E[0 + k].seed, E[0 + k].list, filter)
             \/ E[0 + k].list = <<>> /\ g[k] = g[k - 1]
  <2>1. 0 + k = k
    OBVIOUS
  <2>2. g[k] = IF profiles[k] = NoProfile
               THEN g[k - 1]
               ELSE AddNeighbors(g[k - 1], seeds[k], ChannelItems(profiles[k], Base), filter)
    BY <1>2, <1>7 DEF ByProfile
  <2>3. E[k].seed = seeds[k] /\ E[k].list = IF profiles[k] = NoProfile THEN <<>>
                                            ELSE ChannelItems(profiles[k], Base)
    <3>1. PICK items : items = IF profiles[k] = NoProfile THEN <<>>
                               ELSE ChannelItems(profiles[k], Base)
      OBVIOUS
    <3>2. E[k] = Finds(seeds[k], items)
      BY <1>3, <3>1
    <3>3. E[k].seed = seeds[k] /\ E[k].list = items
      BY <3>2 DEF Finds
    <3>4. QED
      BY <3>1, <3>3
  <2>4. QED
    BY <2>1, <2>2, <2>3
<1>9. SubSeq(E, 1, 0) = <<>> /\ SubSeq(E, 1, Len(E)) = E
  BY <1>6, PrefixSteps
<1>10. PoolOf(g[0], SubSeq(E, 1, 0), filter)
  BY <1>7, <1>9, NothingFound DEF ByProfile
<1>11. PoolOf(g[m], SubSeq(E, 1, 0 + m), filter)
  <2>1. 0 + m <= Len(E) /\ 0 \in Nat
    BY <1>6
  <2>2. QED
    BY <1>6, <1>8, <1>10, <2>1, PoolFollows
<1>12. 0 + m = Len(E)
  BY <1>6
<1>13. QED
  BY <1>1, <1>2, <1>6, <1>7, <1>9, <1>11, <1>12 DEF ByProfile

\* Without a seed that can be asked for there is nothing in the pool.
LEMMA NobodyAsked ==
  ASSUME NEW seeds \in SeedLists, valid_indexes(seeds) = {}, NEW filter
  PROVE  /\ RepliesTo(<<>>, seeds) /\ Len(<<>>) = Cardinality(valid_indexes(seeds))
         /\ PoolOf(NoCandidates, ProfileEvidence(seeds, <<>>), filter)
<1>1. PICK m \in Nat : m = Len(seeds) /\ DOMAIN seeds = 1 .. m
                         /\ \A i \in 1 .. m : seeds[i] \in Seed
  <2>1. seeds \in Seq(Seed)
    BY DEF SeedLists
  <2>2. Len(seeds) \in Nat /\ DOMAIN seeds = 1 .. Len(seeds)
          /\ \A i \in 1 .. Len(seeds) : seeds[i] \in Seed
    BY <2>1
  <2>3. QED
    BY <2>2
<1>2. Cardinality(valid_indexes(seeds)) = 0 /\ Len(<<>>) = 0
  BY FS_EmptySet
<1>3. RepliesTo(<<>>, seeds)
  <2>1. <<>> \in Seq(Replies)
    OBVIOUS
  <2>2. QED
    BY <1>2, <2>1 DEF RepliesTo
<1>4. PICK E : E = ProfileEvidence(seeds, <<>>)
  OBVIOUS
<1>5. E \in Seq(Finding) /\ Len(E) = m
  BY <1>1, <1>2, <1>3, <1>4, ProfileEvidenceIs
<1>6. \A i \in 1 .. m : E[i].list = <<>>
  <2>1. \A id : OwnReplies(<<>>, id) = {}
    BY DEF OwnReplies, ToSet
  <2>2. QED
    BY <1>1, <1>4, <2>1 DEF ProfileEvidence
<1>7. PICK g : g = [k \in 0 .. m |-> NoCandidates]
  OBVIOUS
<1>8. \A k \in 1 .. m : E[0 + k].list = <<>> /\ g[k] = g[k - 1]
  BY <1>6, <1>7
<1>9. SubSeq(E, 1, 0) = <<>> /\ SubSeq(E, 1, Len(E)) = E
  BY <1>5, PrefixSteps
<1>10. g[0] = NoCandidates /\ g[m] = NoCandidates
  BY <1>7
<1>11. PoolOf(g[0], SubSeq(E, 1, 0), filter)
  BY <1>9, <1>10, NothingFound
<1>12. PoolOf(g[m], SubSeq(E, 1, 0 + m), filter)
  <2>1. 0 + m <= Len(E) /\ 0 \in Nat
    BY <1>5
  <2>2. QED
    BY <1>5, <1>8, <1>11, <2>1, PoolFollows
<1>13. 0 + m = Len(E)
  BY <1>5
<1>14. QED
  BY <1>2, <1>3, <1>4, <1>9, <1>10, <1>12, <1>13

LEMMA ReplyAppended ==
  ASSUME NEW seeds \in SeedLists, NEW replies, RepliesTo(replies, seeds),
         NEW i \in valid_indexes(seeds), ResultIndex(seeds, i) = Len(replies) + 1,
         NEW r \in ResultOf(seeds[i].id)
  PROVE  RepliesTo(Append(replies, r), seeds)
<1>1. PICK V, n, T : V = valid_indexes(seeds) /\ n = Len(replies) /\ T = Replies
  OBVIOUS
<1>2. /\ replies \in Seq(T) /\ n \in Nat /\ DOMAIN replies = 1 .. n
      /\ \A k \in 1 .. n : \E j \in V :
           ResultIndex(seeds, j) = k /\ replies[k] \in ResultOf(seeds[j].id)
  BY <1>1 DEF RepliesTo
<1>3. n + 1 <= Cardinality(V)
  <2>1. OneToOne(seeds)
    BY ResultIndexIs
  <2>2. ResultIndex(seeds, i) \in 1 .. Cardinality(V) /\ Cardinality(V) \in Nat
    BY <1>1, <2>1 DEF OneToOne
  <2>3. QED
    BY <1>1, <1>2, <2>2
<1>4. r \in T
  <2>1. i \in DOMAIN seeds /\ seeds \in Seq(Seed)
    BY DEF valid_indexes, SeedLists
  <2>2. seeds[i] \in Seed
    BY <2>1
  <2>3. seeds[i].id \in Nat
    BY <2>2 DEF Seed
  <2>4. QED
    BY <1>1, <2>3 DEF Replies
<1>5. PICK more : more = Append(replies, r)
  OBVIOUS
<1>6. /\ more \in Seq(T) /\ Len(more) = n + 1 /\ more[n + 1] = r
      /\ \A k \in 1 .. n : more[k] = replies[k]
  BY <1>1, <1>2, <1>4, <1>5
<1>7. ASSUME NEW k \in 1 .. (n + 1)
      PROVE  \E j \in V : ResultIndex(seeds, j) = k /\ more[k] \in ResultOf(seeds[j].id)
  <2>1. CASE k = n + 1
    BY <1>1, <1>6, <2>1
  <2>2. CASE k # n + 1
    <3>1. k \in 1 .. n
      BY <1>2, <2>2
    <3>2. QED
      BY <1>2, <1>6, <3>1
  <2>3. QED
    BY <2>1, <2>2
<1>8. QED
  BY <1>1, <1>3, <1>5, <1>6, <1>7 DEF RepliesTo

\* The ids that are asked for are in the range of the type.
LEMMA RepliesAreTyped ==
  ASSUME NEW seeds \in SeedLists, NEW replies, RepliesTo(replies, seeds),
         NEW k \in DOMAIN replies
  PROVE  replies[k].user_id \in 1 .. MaxInt64
<1>1. DOMAIN replies = 1 .. Len(replies)
  BY DEF RepliesTo
<1>2. PICK i \in valid_indexes(seeds) : replies[k] \in ResultOf(seeds[i].id)
  BY <1>1 DEF RepliesTo
<1>3. i \in DOMAIN seeds /\ seeds[i].id <= MaxInt64 /\ seeds \in Seq(Seed)
  BY DEF valid_indexes, SeedLists
<1>4. seeds[i] \in Seed
  BY <1>3
<1>5. seeds[i].id \in Nat \ {0}
  BY <1>4 DEF Seed
<1>6. replies[k].user_id = seeds[i].id
  BY <1>2, ResultOfIs
<1>7. QED
  BY <1>3, <1>5, <1>6, UserCfAssumption

-----------------------------------------------------------------------------
(* User-CF: the invariant.                                                 *)

\* What the profiles that came back are as evidence, and the filter set.
UserEvidence == ProfileEvidence(trigger_seeds, results)
consumed == Consumed(request.profile)

OthersOnly(seeds, user_id) == \A i \in DOMAIN seeds : seeds[i].id # user_id

(***************************************************************************)
(* The results of the batch are, place by place, those of the seeds that   *)
(* can be asked for, however many of the seeds were left out before them.  *)
(***************************************************************************)
UserCfInv ==
  /\ UserCfTypeOK
  /\ request.max \in Nat
  /\ trigger_seeds \in SeedLists /\ OthersOnly(trigger_seeds, request.user_id)
  /\ RepliesTo(results, trigger_seeds)
  /\ pc = "neighbors" => results = <<>>
  /\ pc # "idle" => response = NoResponse
  /\ response.candidates # <<>> => Succeeded
  /\ Succeeded =>
       /\ Len(results) = Cardinality(valid_indexes(trigger_seeds))
       /\ \E pool : /\ PoolOf(pool, UserEvidence, consumed)
                    /\ response = Filled(pool, request.max)

LEMMA NoReplies ==
  ASSUME NEW seeds \in SeedLists
  PROVE  RepliesTo(<<>>, seeds)
<1>1. Cardinality(valid_indexes(seeds)) \in Nat
  BY ResultIndexIs DEF OneToOne
<1>2. <<>> \in Seq(Replies) /\ Len(<<>>) = 0 /\ 1 .. 0 = {}
  OBVIOUS
<1>3. QED
  BY <1>1, <1>2 DEF RepliesTo

LEMMA NoSeeds ==
  /\ <<>> \in SeedLists /\ Len(<<>>) <= MaxSeeds
  /\ <<>> \in Seq([id : Nat \ {0}, score : Nat \ {0}])
  /\ \A user_id : OthersOnly(<<>>, user_id)
<1>1. DOMAIN <<>> = {} /\ Len(<<>>) = 0 /\ <<>> \in Seq([id : Nat \ {0}, score : Nat \ {0}])
  OBVIOUS
<1>2. Len(<<>>) <= MaxSeeds
  BY <1>1, UserCfAssumption
<1>3. QED
  BY <1>1, <1>2, NothingIsASeedList DEF OthersOnly

LEMMA UserCfInitHolds == UserCfInit => UserCfInv
<1> SUFFICES ASSUME UserCfInit PROVE UserCfInv
  OBVIOUS
<1> USE DEF UserCfInit
<1>1. UserCfTypeOK
  BY NoSeeds DEF UserCfTypeOK
<1>2. request.max \in Nat
  BY DEF NoRequest
<1>3. RepliesTo(results, trigger_seeds)
  BY NoSeeds, NoReplies
<1>4. response.candidates = <<>> /\ ~ Succeeded
  BY DEF NoResponse, Succeeded
<1>5. QED
  BY <1>1, <1>2, <1>3, <1>4, NoSeeds DEF UserCfInv

LEMMA RetrieveByUsersKeeps ==
  ASSUME UserCfInv, NEW r \in Requests, RetrieveByUsers(r)
  PROVE  UserCfInv'
<1> USE DEF RetrieveByUsers
<1>1. request' = Normalized(r) /\ request'.max \in Nat
  BY NormalizedIs
<1>2. /\ trigger_seeds' \in SeedLists /\ OthersOnly(trigger_seeds', request'.user_id)
      /\ RepliesTo(results', trigger_seeds')
  BY NoSeeds, NoReplies
<1>3. \/ pc' = "idle" /\ response'.candidates = <<>> /\ response'.status = "INVALID_REQUEST"
      \/ pc' = "neighbors" /\ response' = NoResponse
  BY DEF Respond, InvalidRequest, Response
<1>4. ~ Succeeded' /\ response'.candidates = <<>>
  BY <1>3 DEF Succeeded, NoResponse
<1>5. UserCfTypeOK'
  <2>1. request' \in {NoRequest} \cup {Normalized(x) : x \in Requests}
    OBVIOUS
  <2>2. pc' \in {"idle", "neighbors", "profiles"}
          /\ (response' = NoResponse \/ response'.status \in Status)
    BY <1>3 DEF Status
  <2>3. QED
    BY <2>1, <2>2, NoSeeds DEF UserCfTypeOK
<1>6. QED
  BY <1>1, <1>2, <1>3, <1>4, <1>5 DEF UserCfInv

\* A response without candidates, to a request that failed or has no seeds.
LEMMA RefusalKeeps ==
  ASSUME UserCfInv, pc' = "idle", response'.candidates = <<>>,
         response'.status \in {"EMPTY_TRIGGER_SEEDS", "SYSTEM_ERROR"},
         UNCHANGED <<request, results>>,
         \/ trigger_seeds' = trigger_seeds
         \/ trigger_seeds' = <<>> /\ results = <<>>
  PROVE  UserCfInv'
<1>1. ~ Succeeded'
  BY DEF Succeeded
<1>2. /\ trigger_seeds' \in SeedLists /\ OthersOnly(trigger_seeds', request'.user_id)
      /\ RepliesTo(results', trigger_seeds')
      /\ trigger_seeds' \in Seq([id : Nat \ {0}, score : Nat \ {0}])
      /\ Len(trigger_seeds') <= MaxSeeds
  <2>1. CASE trigger_seeds' = trigger_seeds
    BY <2>1 DEF UserCfInv, UserCfTypeOK
  <2>2. CASE trigger_seeds' = <<>> /\ results = <<>>
    BY <2>2, NoSeeds, NoReplies
  <2>3. QED
    BY <2>1, <2>2
<1>3. UserCfTypeOK'
  BY <1>2 DEF UserCfInv, UserCfTypeOK, Status
<1>4. QED
  BY <1>1, <1>2, <1>3 DEF UserCfInv

LEMMA LoadTriggerSeedsKeeps ==
  ASSUME UserCfInv, LoadTriggerSeeds
  PROVE  UserCfInv'
<1> USE DEF LoadTriggerSeeds
<1>1. results = <<>> /\ results' = <<>> /\ request' = request /\ response = NoResponse
  BY DEF UserCfInv
<1>2. PICK list \in UserLists :
        trigger_seeds' = CollectUserSeeds(request.user_id, FirstN(list, MaxSeeds))
  OBVIOUS
<1>3. PICK first, seeds : first = FirstN(list, MaxSeeds) /\ seeds = trigger_seeds'
  OBVIOUS
<1>4. first \in Seq(Neighbor) /\ Len(first) <= MaxSeeds /\ Len(first) \in Nat
  <2>1. list \in Seq(Neighbor) /\ MaxSeeds \in Nat
    BY UserCfAssumption DEF ScoredLists, Neighbor
  <2>2. Len(list) \in Nat
    BY <2>1
  <2>3. /\ first \in Seq(Neighbor)
        /\ Len(first) = (IF Len(list) < MaxSeeds THEN Len(list) ELSE MaxSeeds)
    BY <1>3, <2>1, FirstNIs
  <2>4. QED
    BY <2>1, <2>2, <2>3
<1>5. /\ seeds \in SeedLists /\ Len(seeds) <= MaxSeeds
      /\ OthersOnly(seeds, request.user_id)
  <2>1. /\ seeds \in SeedLists /\ Len(seeds) <= Len(first)
        /\ \A i \in DOMAIN seeds : seeds[i].id # request.user_id
    BY <1>2, <1>3, <1>4, CollectUserSeedsIs
  <2>2. Len(seeds) \in Nat /\ MaxSeeds \in Nat
    BY <2>1, UserCfAssumption, SeedListsAreTyped
  <2>3. QED
    BY <1>4, <2>1, <2>2 DEF OthersOnly
<1>6. seeds \in Seq([id : Nat \ {0}, score : Nat \ {0}])
  BY <1>5, SeedListsAreTyped
<1>7. CASE trigger_seeds' = <<>> /\ Respond(EmptyTriggerSeeds)
  BY <1>1, <1>7, RefusalKeeps DEF Respond, EmptyTriggerSeeds, Response
<1>8. CASE valid_indexes(trigger_seeds') = {} /\ Respond(Filled(NoCandidates, request.max))
  <2>1. /\ RepliesTo(results', seeds)
        /\ Len(results') = Cardinality(valid_indexes(seeds))
        /\ PoolOf(NoCandidates, ProfileEvidence(seeds, results'), consumed)
    BY <1>1, <1>3, <1>5, <1>8, NobodyAsked
  <2>2. pc' = "idle" /\ response' = Filled(NoCandidates, request.max)
          /\ response'.status = "SUCCESS"
    BY <1>8 DEF Respond, Filled, Response
  <2>3. Succeeded'
    BY <2>2 DEF Succeeded
  <2>4. UserCfTypeOK'
    BY <1>1, <1>3, <1>5, <1>6, <2>2 DEF UserCfInv, UserCfTypeOK, Status
  <2>5. PoolOf(NoCandidates, UserEvidence', consumed')
    BY <1>1, <1>3, <2>1 DEF UserEvidence, consumed
  <2>6. QED
    BY <1>1, <1>3, <1>5, <2>1, <2>2, <2>3, <2>4, <2>5 DEF UserCfInv
<1>9. CASE pc' = "profiles" /\ UNCHANGED response
  <2>1. RepliesTo(results', seeds)
    BY <1>1, <1>5, NoReplies
  <2>2. response' = NoResponse /\ response'.candidates = <<>> /\ ~ Succeeded'
    BY <1>1, <1>9 DEF NoResponse, Succeeded
  <2>3. UserCfTypeOK'
    BY <1>1, <1>3, <1>5, <1>6, <1>9, <2>2 DEF UserCfInv, UserCfTypeOK
  <2>4. QED
    BY <1>1, <1>3, <1>5, <1>9, <2>1, <2>2, <2>3 DEF UserCfInv
<1>10. QED
  BY <1>7, <1>8, <1>9

LEMMA FailureKeeps ==
  ASSUME UserCfInv, SeedsFail \/ ProfilesFail
  PROVE  UserCfInv'
BY RefusalKeeps DEF SeedsFail, ProfilesFail, Respond, SystemError, Response

LEMMA BatchGetKeeps ==
  ASSUME UserCfInv, BatchGetUserCfProfiles
  PROVE  UserCfInv'
<1> USE DEF BatchGetUserCfProfiles
<1>1. PICK i \in valid_indexes(trigger_seeds) :
        /\ ResultIndex(trigger_seeds, i) = Len(results) + 1
        /\ \E r \in ResultOf(trigger_seeds[i].id) : results' = Append(results, r)
  OBVIOUS
<1>2. /\ trigger_seeds \in SeedLists /\ RepliesTo(results, trigger_seeds)
      /\ response = NoResponse
  BY DEF UserCfInv
<1>3. RepliesTo(results', trigger_seeds)
  BY <1>1, <1>2, ReplyAppended
<1>4. \A k \in DOMAIN results' : results'[k].user_id \in 1 .. MaxInt64
  BY <1>2, <1>3, RepliesAreTyped
<1>5. UserCfTypeOK'
  BY <1>4 DEF UserCfInv, UserCfTypeOK
<1>6. response'.candidates = <<>> /\ ~ Succeeded'
  BY <1>2 DEF NoResponse, Succeeded
<1>7. QED
  BY <1>2, <1>3, <1>5, <1>6 DEF UserCfInv

LEMMA LoadTriggerUserProfilesKeeps ==
  ASSUME UserCfInv, LoadTriggerUserProfiles
  PROVE  UserCfInv'
<1> USE DEF LoadTriggerUserProfiles
<1>1. PICK pool : pool = AggregateCandidates(trigger_seeds, trigger_user_profiles)
  OBVIOUS
<1>2. PoolOf(pool, UserEvidence, consumed)
  <2>1. trigger_user_profiles = ProfilesOf(trigger_seeds, results)
    BY DEF trigger_user_profiles, ProfilesOf
  <2>2. QED
    BY <1>1, <2>1, ProfileEvidenceIs DEF UserCfInv, UserEvidence, consumed
<1>3. /\ pc' = "idle" /\ response' = Filled(pool, request.max)
      /\ response'.status = "SUCCESS" /\ UNCHANGED <<request, trigger_seeds, results>>
  BY <1>1 DEF Respond, Filled, Response
<1>4. Succeeded' /\ UserEvidence' = UserEvidence /\ consumed' = consumed
  BY <1>3 DEF Succeeded, UserEvidence, consumed
<1>5. UserCfTypeOK'
  BY <1>3 DEF UserCfInv, UserCfTypeOK, Status
<1>6. QED
  BY <1>2, <1>3, <1>4, <1>5 DEF UserCfInv

(***************************************************************************)
(* Whatever similar users and profiles are found, and whichever of them    *)
(* cannot be asked for, DoRetrieve of User-CF credits each profile to the  *)
(* seed of its own user.                                                   *)
(***************************************************************************)
THEOREM UserCfInvariant == UserCfSpec => []UserCfInv
<1>1. ASSUME UserCfInv, [UserCfNext]_user_cf_vars
      PROVE  UserCfInv'
  <2>1. ASSUME NEW r \in Requests, RetrieveByUsers(r) PROVE UserCfInv'
    BY <1>1, <2>1, RetrieveByUsersKeeps
  <2>2. CASE LoadTriggerSeeds
    BY <1>1, <2>2, LoadTriggerSeedsKeeps
  <2>3. CASE SeedsFail \/ ProfilesFail
    BY <1>1, <2>3, FailureKeeps
  <2>4. CASE BatchGetUserCfProfiles
    BY <1>1, <2>4, BatchGetKeeps
  <2>5. CASE LoadTriggerUserProfiles
    BY <1>1, <2>5, LoadTriggerUserProfilesKeeps
  <2>6. CASE UNCHANGED user_cf_vars
    <3>1. UserCfTypeOK' /\ UserEvidence' = UserEvidence /\ consumed' = consumed
            /\ Succeeded' = Succeeded
      BY <1>1, <2>6
         DEF UserCfInv, UserCfTypeOK, user_cf_vars, UserEvidence, consumed, Succeeded
    <3>2. QED
      BY <1>1, <2>6, <3>1 DEF UserCfInv, user_cf_vars
  <2>7. QED
    BY <1>1, <2>1, <2>2, <2>3, <2>4, <2>5, <2>6 DEF UserCfNext
<1>2. QED
  BY UserCfInitHolds, <1>1, PTL DEF UserCfSpec

\* The response of User-CF is the best of the profiles that were found, and no
\* reason names the user that asked.
THEOREM UserCfRanksWhatItFound == UserCfSpec => []RanksProfilesFound
<1>1. ASSUME UserCfInv PROVE RanksProfilesFound
  <2>1. UserCfTypeOK /\ (response.candidates # <<>> => Succeeded)
    BY <1>1 DEF UserCfInv
  <2>2. ASSUME Succeeded
        PROVE  /\ IsBestOf(response.candidates, FoundByUser, consumed, request.max)
               /\ ReasonsAreStrongest(response.candidates, FoundByUser, consumed)
               /\ \A i \in DOMAIN response.candidates :
                    response.candidates[i].trigger # request.user_id
    <3>1. /\ trigger_seeds \in SeedLists /\ RepliesTo(results, trigger_seeds)
          /\ OthersOnly(trigger_seeds, request.user_id)
          /\ Len(results) = Cardinality(valid_indexes(trigger_seeds))
          /\ request.max \in Nat
      BY <1>1, <2>2 DEF UserCfInv
    <3>2. PICK pool : /\ PoolOf(pool, UserEvidence, consumed)
                      /\ response = Filled(pool, request.max)
      BY <1>1, <2>2 DEF UserCfInv
    <3>3. UserEvidence \in Seq(Finding) /\ Len(UserEvidence) = Len(trigger_seeds)
      BY <3>1, ProfileEvidenceIs DEF UserEvidence
    <3>4. UserEvidence = FoundByUser
      BY DEF UserEvidence, ProfileEvidence, FoundByUser, OwnReplies
    <3>5. /\ IsBestOf(response.candidates, UserEvidence, consumed, request.max)
          /\ ReasonsAreStrongest(response.candidates, UserEvidence, consumed)
      BY <3>1, <3>2, <3>3, FilledIsBest
    <3>6. \A c \in Contributions(UserEvidence, consumed) : c.trigger # request.user_id
      <4>1. \A i \in DOMAIN UserEvidence :
              i \in DOMAIN trigger_seeds /\ UserEvidence[i].seed = trigger_seeds[i]
        BY DEF UserEvidence, ProfileEvidence
      <4>2. \A i \in DOMAIN UserEvidence : UserEvidence[i].seed.id # request.user_id
        BY <3>1, <4>1 DEF OthersOnly
      <4>3. \A e : \A c \in ContributionsOf(e, consumed) : c.trigger = e.seed.id
        BY DEF ContributionsOf
      <4>4. QED
        BY <4>2, <4>3 DEF Contributions
    <3>7. \A i \in DOMAIN response.candidates :
            response.candidates[i].trigger # request.user_id
      BY <3>5, <3>6 DEF ReasonsAreStrongest
    <3>8. QED
      BY <3>4, <3>5, <3>7
  <2>3. QED
    BY <2>1, <2>2 DEF RanksProfilesFound, consumed
<1>2. QED
  BY UserCfInvariant, <1>1, PTL
=============================================================================
