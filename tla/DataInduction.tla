--------------------------- MODULE DataInduction ---------------------------
(***************************************************************************)
(* Induction over data for the proofs about the other modules, without a   *)
(* theorem that takes a predicate: a set of numbers has a least element,   *)
(* so a set that holds 0 and every successor holds every number, and the   *)
(* functions that folds choose exist.                                      *)
(***************************************************************************)
EXTENDS Integers, Sequences, FiniteSets, SequencesExt,
        FiniteSetTheorems, WellFoundedInduction, TLAPS

\* Every non-empty set of natural numbers has a least element: the interval
\* up to it is minimal among the intervals that end in the set.
LEMMA LeastElement ==
  ASSUME NEW T, T \subseteq Nat, T # {}
  PROVE  \E x \in T : \A y \in T : x <= y
<1>1. PICK n \in T : TRUE
  OBVIOUS
<1> DEFINE S == 0 .. n
           Q == {0 .. m : m \in {k \in T : k <= n}}
<1>2. IsWellFoundedOn(StrictSubsetOrdering(S), SUBSET S)
  <2>1. IsFiniteSet(S)
    BY FS_Interval
  <2>2. FiniteSubsetsOf(S) = SUBSET S
    BY <2>1, FS_FiniteSubsetsOfFinite
  <2> HIDE DEF S
  <2>3. IsWellFoundedOn(StrictSubsetOrdering(S), FiniteSubsetsOf(S))
    BY FS_StrictSubsetOrderingWellFounded
  <2>4. QED
    BY <2>2, <2>3
<1>3. Q \subseteq SUBSET S /\ Q # {}
  BY <1>1
<1>4. PICK q \in Q : \A r \in Q : ~(<<r, q>> \in StrictSubsetOrdering(S))
  <2> HIDE DEF S, Q
  <2>1. QED
    BY <1>2, <1>3, WFMin
<1>5. PICK x \in T : x <= n /\ q = 0 .. x
  OBVIOUS
<1>6. ASSUME NEW y \in T, y < x PROVE FALSE
  <2>1. 0 .. y \in Q /\ 0 .. y \subseteq q /\ 0 .. y # q
    BY <1>5, <1>6
  <2>2. <<0 .. y, q>> \in StrictSubsetOrdering(S)
    BY <2>1, <1>3 DEF StrictSubsetOrdering
  <2>3. QED
    BY <1>4, <2>1, <2>2
<1>7. QED
  BY <1>5, <1>6

\* Induction up to n: a set with 0 that is closed under successors below n.
LEMMA UpTo ==
  ASSUME NEW n \in Nat, NEW T, 0 \in T,
         \A k \in 0 .. (n - 1) : k \in T => k + 1 \in T
  PROVE  0 .. n \subseteq T
<1> DEFINE M == {k \in 0 .. n : k \notin T}
<1>1. SUFFICES ASSUME M # {} PROVE FALSE
  OBVIOUS
<1>2. PICK x \in M : \A y \in M : x <= y
  <2>1. M \subseteq Nat
    OBVIOUS
  <2> HIDE DEF M
  <2>2. QED
    BY <1>1, <2>1, LeastElement
<1>3. x \in 1 .. n /\ x - 1 \in 0 .. (n - 1)
  OBVIOUS
<1>4. x - 1 \in T
  BY <1>2, <1>3
<1>5. QED
  BY <1>3, <1>4

LEMMA MaxOfInterval ==
  ASSUME NEW k \in Nat, NEW t \in SUBSET (1 .. (k + 1)), k + 1 \in t
  PROVE  Max(t) = k + 1
<1>1. \E x \in t : \A y \in t : x >= y
  OBVIOUS
<1>2. Max(t) \in t /\ \A y \in t : Max(t) >= y
  BY <1>1 DEF Max
<1>3. Max(t) \in 1 .. (k + 1) /\ Max(t) >= k + 1
  BY <1>2
<1>4. QED
  BY <1>3

LEMMA MaxOfPrefix ==
  ASSUME NEW n \in Nat, NEW k \in 0 .. n, k # 0
  PROVE  Max(1 .. k) = k
<1>1. k - 1 \in Nat /\ (k - 1) + 1 = k
  OBVIOUS
<1>2. 1 .. k \in SUBSET (1 .. ((k - 1) + 1)) /\ (k - 1) + 1 \in 1 .. k
  OBVIOUS
<1>3. Max(1 .. k) = (k - 1) + 1
  BY <1>1, <1>2, MaxOfInterval
<1>4. QED
  BY <1>1, <1>3

LEMMA MaxIsIn ==
  ASSUME NEW n \in Nat, NEW t \in SUBSET (1 .. n), t # {}
  PROVE  Max(t) \in t /\ \A y \in t : y <= Max(t)
<1> DEFINE T == {k \in Nat : n - k \in t}
<1>1. T \subseteq Nat /\ T # {}
  <2>1. PICK y \in t : TRUE
    OBVIOUS
  <2>2. y \in Int /\ n - y \in Nat /\ n - (n - y) = y
    BY <2>1
  <2>3. QED
    BY <2>1, <2>2
<1>2. PICK x \in T : \A y \in T : x <= y
  <2> HIDE DEF T
  <2>1. QED
    BY <1>1, LeastElement
<1>3. PICK z \in t : z = n - x
  OBVIOUS
<1>4. ASSUME NEW y \in t PROVE z >= y
  <2>1. y \in Int /\ n - y \in Nat /\ n - (n - y) = y
    OBVIOUS
  <2>2. n - y \in T
    BY <2>1
  <2>3. QED
    BY <1>2, <1>3, <2>1, <2>2
<1>5. Max(t) \in t /\ \A y \in t : Max(t) >= y
  BY <1>4 DEF Max
<1>6. QED
  BY <1>5

LEMMA MinIsIn ==
  ASSUME NEW T, T \subseteq Nat, T # {}
  PROVE  Min(T) \in T /\ \A y \in T : Min(T) <= y
BY LeastElement DEF Min

\* f folds the elements of s at any set of the positions 1 .. n, in the order of
\* the positions: what a fold over a sequence of length n chooses.
FoldsBy(f, A, F, c, s, n) ==
  /\ f \in [SUBSET (1 .. n) -> A]
  /\ \A t \in SUBSET (1 .. n) :
       f[t] = IF t = {} THEN c ELSE F[<<f[t \ {Max(t)}], s[Max(t)]>>]

LEMMA FoldExists ==
  ASSUME NEW A, NEW B, NEW F, F \in [A \X B -> A], NEW c, c \in A,
         NEW n, n \in Nat, NEW s, \A i \in 1 .. n : s[i] \in B
  PROVE  \E f : FoldsBy(f, A, F, c, s, n)
<1> DEFINE Folds(f, k) == FoldsBy(f, A, F, c, s, k)
           T == {k \in Nat : \E f : Folds(f, k)}
<1> USE DEF FoldsBy
<1>1. 0 \in T
  <2>1. SUBSET (1 .. 0) = {{}}
    OBVIOUS
  <2>2. Folds([t \in SUBSET (1 .. 0) |-> c], 0)
    BY <2>1
  <2>3. QED
    BY <2>2
<1>2. ASSUME NEW k \in 0 .. (n - 1), k \in T PROVE k + 1 \in T
  <2>1. PICK f : Folds(f, k)
    BY <1>2
  <2> DEFINE g == [t \in SUBSET (1 .. (k + 1)) |->
                     IF k + 1 \in t THEN F[<<f[t \ {k + 1}], s[k + 1]>>] ELSE f[t]]
  <2>2. \A t \in SUBSET (1 .. (k + 1)) :
          /\ t \ {k + 1} \in SUBSET (1 .. k)
          /\ k + 1 \notin t => t \in SUBSET (1 .. k)
    OBVIOUS
  <2>3. s[k + 1] \in B
    BY <1>2
  <2>4. g \in [SUBSET (1 .. (k + 1)) -> A]
    BY <2>1, <2>2, <2>3
  <2>5. ASSUME NEW t \in SUBSET (1 .. (k + 1)), t # {}
        PROVE  g[t] = F[<<g[t \ {Max(t)}], s[Max(t)]>>]
    <3>1. CASE k + 1 \in t
      <4>1. Max(t) = k + 1
        BY <3>1, MaxOfInterval
      <4>2. t \ {k + 1} \in SUBSET (1 .. (k + 1)) /\ k + 1 \notin t \ {k + 1}
        OBVIOUS
      <4>3. g[t \ {k + 1}] = f[t \ {k + 1}]
        BY <4>2
      <4>4. QED
        BY <3>1, <4>1, <4>3
    <3>2. CASE k + 1 \notin t
      <4>1. t \in SUBSET (1 .. k) /\ t \ {Max(t)} \in SUBSET (1 .. k)
        BY <2>2, <3>2
      <4>2. g[t] = f[t] /\ g[t \ {Max(t)}] = f[t \ {Max(t)}]
        <5>1. t \ {Max(t)} \in SUBSET (1 .. (k + 1)) /\ k + 1 \notin t \ {Max(t)}
          BY <3>2
        <5> HIDE DEF Folds
        <5>2. QED
          BY <3>2, <5>1
      <4>3. QED
        BY <2>1, <2>5, <4>1, <4>2
    <3>3. QED
      BY <3>1, <3>2
  <2>6. g[{}] = c
    BY <2>1, {} \in SUBSET (1 .. (k + 1)), {} \in SUBSET (1 .. k)
  <2>7. \A t \in SUBSET (1 .. (k + 1)) :
          g[t] = IF t = {} THEN c ELSE F[<<g[t \ {Max(t)}], s[Max(t)]>>]
    <3> HIDE DEF g
    <3>1. QED
      BY <2>5, <2>6
  <2>8. Folds(g, k + 1)
    <3> HIDE DEF g
    <3>1. QED
      BY <2>4, <2>7
  <2>9. k + 1 \in Nat
    OBVIOUS
  <2>10. QED
    <3> HIDE DEF Folds, g
    <3>1. QED
      BY <2>8, <2>9
<1>3. n \in T
  <2> HIDE DEF T
  <2>1. 0 .. n \subseteq T
    BY <1>1, <1>2, UpTo
  <2>2. QED
    BY <2>1
<1>4. QED
  BY <1>3

\* g is what such a fold has come to after each of the positions.
StepsBy(g, A, F, c, s, n) ==
  /\ g \in [0 .. n -> A]
  /\ g[0] = c
  /\ \A k \in 1 .. n : g[k] = F[<<g[k - 1], s[k]>>]

\* A fold goes from one position to the next.
LEMMA FoldSteps ==
  ASSUME NEW A, NEW F, NEW c, NEW n \in Nat, NEW s, NEW f, FoldsBy(f, A, F, c, s, n)
  PROVE  StepsBy([k \in 0 .. n |-> f[1 .. k]], A, F, c, s, n)
<1> DEFINE g == [k \in 0 .. n |-> f[1 .. k]]
<1>1. \A k \in 0 .. n : 1 .. k \in SUBSET (1 .. n)
  OBVIOUS
<1>2. g \in [0 .. n -> A]
  BY <1>1 DEF FoldsBy
<1>3. g[0] = c
  <2>1. 1 .. 0 = {} /\ {} \in SUBSET (1 .. n) /\ 0 \in 0 .. n
    OBVIOUS
  <2>2. f[{}] = c
    BY <2>1 DEF FoldsBy
  <2>3. g[0] = f[1 .. 0]
    BY <2>1
  <2>4. QED
    BY <2>1, <2>2, <2>3
<1>4. ASSUME NEW k \in 1 .. n
      PROVE  g[k] = F[<<g[k - 1], s[k]>>]
  <2>1. Max(1 .. k) = k
    BY MaxOfPrefix
  <2>2. (1 .. k) \ {k} = 1 .. (k - 1) /\ 1 .. k # {} /\ k \in 0 .. n /\ k - 1 \in 0 .. n
    OBVIOUS
  <2>3. f[1 .. k] = F[<<f[(1 .. k) \ {Max(1 .. k)}], s[Max(1 .. k)]>>]
    BY <1>1, <2>2 DEF FoldsBy
  <2>4. QED
    BY <2>1, <2>2, <2>3
<1>5. QED
  BY <1>2, <1>3, <1>4 DEF StepsBy

\* iter folds the elements of s like F, wherever what it has folded is in A.
FoldsLike(iter, A, F, c, s, n) ==
  /\ iter[{}] = c
  /\ \A t \in SUBSET (1 .. n) :
       t # {} /\ iter[t \ {Max(t)}] \in A
         => iter[t] = F[<<iter[t \ {Max(t)}], s[Max(t)]>>]

\* Such a fold reaches what the steps one by one lead to.
LEMMA FoldReaches ==
  ASSUME NEW A, NEW F, NEW c, NEW n \in Nat, NEW s, NEW f, FoldsBy(f, A, F, c, s, n),
         NEW iter, FoldsLike(iter, A, F, c, s, n)
  PROVE  \E g : StepsBy(g, A, F, c, s, n) /\ iter[1 .. n] = g[n]
<1>1. PICK g : g = [k \in 0 .. n |-> f[1 .. k]]
  OBVIOUS
<1>2. StepsBy(g, A, F, c, s, n)
  BY <1>1, FoldSteps
<1>3. /\ \A k \in 0 .. n : g[k] \in A
      /\ g[0] = c /\ \A k \in 1 .. n : g[k] = F[<<g[k - 1], s[k]>>]
  BY <1>2 DEF StepsBy
<1> DEFINE T == {k \in 0 .. n : iter[1 .. k] = g[k]}
<1>4. 0 \in T
  <2>1. 1 .. 0 = {} /\ 0 \in 0 .. n
    OBVIOUS
  <2>2. iter[1 .. 0] = g[0]
    BY <1>3, <2>1 DEF FoldsLike
  <2>3. QED
    BY <2>1, <2>2
<1>5. ASSUME NEW k \in 0 .. (n - 1), k \in T PROVE k + 1 \in T
  <2>1. /\ k + 1 \in 0 .. n /\ k + 1 \in 1 .. n /\ (k + 1) - 1 = k /\ k \in 0 .. n
        /\ 1 .. (k + 1) \in SUBSET (1 .. n) /\ 1 .. (k + 1) # {} /\ k + 1 # 0
        /\ (1 .. (k + 1)) \ {k + 1} = 1 .. k
    OBVIOUS
  <2>2. Max(1 .. (k + 1)) = k + 1
    BY <2>1, MaxOfPrefix
  <2>3. iter[1 .. k] = g[k] /\ g[k] \in A
    BY <1>3, <1>5, <2>1
  <2>4. iter[1 .. (k + 1)] = F[<<iter[1 .. k], s[k + 1]>>]
    BY <2>1, <2>2, <2>3 DEF FoldsLike
  <2>5. g[k + 1] = F[<<g[k], s[k + 1]>>]
    BY <1>3, <2>1
  <2>6. QED
    BY <2>1, <2>3, <2>4, <2>5
<1>6. iter[1 .. n] = g[n]
  <2> HIDE DEF T
  <2>1. 0 .. n \subseteq T
    BY <1>4, <1>5, UpTo
  <2>2. n \in T
    BY <2>1
  <2>3. QED
    BY <2>2 DEF T
<1>7. QED
  BY <1>2, <1>6

-----------------------------------------------------------------------------
(* Ranks in a finite set that is in order.                                 *)

\* R, a set of pairs, puts the elements of S one after the other.
Orders(R, S) ==
  /\ \A x \in S : <<x, x>> \notin R
  /\ \A x, y, z \in S : <<x, y>> \in R /\ <<y, z>> \in R => <<x, z>> \in R
  /\ \A x, y \in S : x # y => <<x, y>> \in R \/ <<y, x>> \in R

Ahead(R, S, x) == {y \in S : <<y, x>> \in R}

\* Each number below the size of S is the rank of one element.
LEMMA RanksAreUnique ==
  ASSUME NEW S, IsFiniteSet(S), NEW R, Orders(R, S)
  PROVE  /\ \A x \in S : Cardinality(Ahead(R, S, x)) \in 0 .. (Cardinality(S) - 1)
         /\ \A x, y \in S :
              <<x, y>> \in R <=> Cardinality(Ahead(R, S, x)) < Cardinality(Ahead(R, S, y))
         /\ \A x, y \in S :
              Cardinality(Ahead(R, S, x)) = Cardinality(Ahead(R, S, y)) => x = y
         /\ \A k \in 0 .. (Cardinality(S) - 1) :
              \E x \in S : Cardinality(Ahead(R, S, x)) = k
<1> DEFINE n == Cardinality(S)
           rank(x) == Cardinality(Ahead(R, S, x))
<1>1. n \in Nat
  BY FS_CardinalityType
<1>2. \A x \in S : Ahead(R, S, x) \in SUBSET S /\ Ahead(R, S, x) # S
  BY DEF Orders, Ahead
<1>3. \A x \in S : IsFiniteSet(Ahead(R, S, x)) /\ rank(x) \in Nat /\ rank(x) < n
  <2> SUFFICES ASSUME NEW x \in S
               PROVE  IsFiniteSet(Ahead(R, S, x)) /\ rank(x) \in Nat /\ rank(x) < n
    OBVIOUS
  <2>1. IsFiniteSet(Ahead(R, S, x)) /\ rank(x) \in Nat
    BY <1>2, FS_Subset, FS_CardinalityType
  <2>2. rank(x) <= n /\ rank(x) # n
    BY <1>2, FS_Subset
  <2>3. QED
    BY <1>1, <2>1, <2>2
<1>4. ASSUME NEW x \in S, NEW y \in S, <<x, y>> \in R
      PROVE  rank(x) < rank(y)
  <2>1. Ahead(R, S, x) \in SUBSET Ahead(R, S, y) /\ Ahead(R, S, x) # Ahead(R, S, y)
    BY <1>4 DEF Orders, Ahead
  <2>2. rank(x) <= rank(y) /\ rank(x) # rank(y)
    BY <1>3, <2>1, FS_Subset
  <2>3. QED
    BY <1>3, <2>2
<1>5. ASSUME NEW x \in S, NEW y \in S, rank(x) = rank(y)
      PROVE  x = y
  <2>1. ~(rank(x) < rank(y)) /\ ~(rank(y) < rank(x))
    <3>1. rank(x) \in Nat /\ rank(y) \in Nat
      BY <1>3
    <3>2. QED
      BY <1>5, <3>1
  <2>2. <<x, y>> \notin R /\ <<y, x>> \notin R
    BY <1>4, <2>1
  <2>3. QED
    BY <2>2 DEF Orders
<1>6. ASSUME NEW x \in S, NEW y \in S, rank(x) < rank(y)
      PROVE  <<x, y>> \in R
  <2>1. rank(x) \in Nat /\ rank(y) \in Nat
    BY <1>3
  <2>2. x # y /\ ~(rank(y) < rank(x))
    BY <1>6, <2>1
  <2>3. <<y, x>> \notin R
    BY <1>4, <2>2
  <2>4. QED
    BY <2>2, <2>3 DEF Orders
<1> DEFINE D == 0 .. (n - 1)
           r == [x \in S |-> rank(x)]
<1>7. \A x \in S : rank(x) \in D
  <2> SUFFICES ASSUME NEW x \in S PROVE rank(x) \in D
    OBVIOUS
  <2>1. rank(x) \in Nat /\ rank(x) < n
    BY <1>3
  <2> HIDE DEF rank, n
  <2>2. QED
    BY <1>1, <2>1
<1>8. IsFiniteSet(D) /\ Cardinality(D) = n
  <2>1. 0 \in Int /\ n - 1 \in Int /\ (n - 1) - 0 + 1 = n
    BY <1>1
  <2>2. IsFiniteSet(D)
    BY <2>1, FS_Interval
  <2>3. Cardinality(D) = IF 0 > n - 1 THEN 0 ELSE (n - 1) - 0 + 1
    BY <2>1, FS_Interval
  <2>4. QED
    BY <1>1, <2>2, <2>3
<1> HIDE DEF D, n, rank
<1>9. r \in Injection(S, D)
  <2>1. r \in [S -> D]
    BY <1>7
  <2>2. \A x, y \in S : r[x] = r[y] => x = y
    BY <1>5
  <2>3. QED
    BY <2>1, <2>2 DEF Injection, IsInjective
<1>10. r \in Surjection(S, D)
  <2> HIDE DEF r
  <2>1. QED
    BY <1>8, <1>9, FS_Injection DEF n
<1>11. \A k \in D : \E x \in S : rank(x) = k
  <2>1. \A k \in D : \E x \in S : r[x] = k
    <3> HIDE DEF r
    <3>1. QED
      BY <1>10 DEF Surjection
  <2>2. QED
    BY <2>1
<1>12. QED
  BY <1>4, <1>5, <1>6, <1>7, <1>11 DEF rank, D, n
-----------------------------------------------------------------------------
\* The places of finitely many lists are finitely many.
LEMMA FinitelyManyPlaces ==
  ASSUME NEW S, IsFiniteSet(S), NEW length \in [S -> Nat]
  PROVE  IsFiniteSet({o \in S \X Nat : o[2] \in 1 .. length[o[1]]})
<1> DEFINE places == [x \in S |-> {x} \X (1 .. length[x])]
           T == {places[x] : x \in S}
           P == {o \in S \X Nat : o[2] \in 1 .. length[o[1]]}
<1>1. ASSUME NEW x \in S PROVE IsFiniteSet(places[x])
  <2>1. PICK n \in Nat : n = length[x]
    OBVIOUS
  <2>2. IsFiniteSet(1 .. n) /\ IsFiniteSet({x})
    <3>1. 1 \in Int /\ n \in Int
      OBVIOUS
    <3>2. QED
      BY <3>1, FS_Interval, FS_Singleton
  <2>3. IsFiniteSet({x} \X (1 .. n))
    BY <2>2, FS_Product
  <2>4. QED
    BY <2>1, <2>3
<1>2. P \subseteq UNION T
  <2> SUFFICES ASSUME NEW o \in P PROVE o \in UNION T
    OBVIOUS
  <2>1. PICK x \in S : o \in {x} \X (1 .. length[x])
    OBVIOUS
  <2>2. o \in places[x]
    BY <2>1
  <2> HIDE DEF places
  <2>3. QED
    BY <2>1, <2>2
<1>3. IsFiniteSet(T)
  <2>1. places \in Surjection(S, T)
    BY DEF Surjection
  <2> HIDE DEF places, T
  <2>2. QED
    BY <2>1, FS_Surjection
<1>4. \A U \in T : IsFiniteSet(U)
  BY <1>1
<1> HIDE DEF places, T, P
<1>5. IsFiniteSet(UNION T)
  BY <1>3, <1>4, FS_UNION
<1>6. QED
  BY <1>2, <1>5, FS_Subset DEF P

-----------------------------------------------------------------------------
(***************************************************************************)
(* Descent: lists of n numbers in lexicographic order, the first place at  *)
(* which two of them differ decides.  Nothing descends in it for ever, so  *)
(* what each step of a loop brings down is a reason for the loop to end.   *)
(***************************************************************************)
NatLess == {p \in Nat \X Nat : p[1] < p[2]}

Below(n) == LexProductOrdering(NatLess, Nat, n)

LEMMA NothingDescendsForever ==
  ASSUME NEW n \in Nat
  PROVE  IsWellFoundedOn(Below(n), [1 .. n -> Nat])
<1>1. NatLess = OpToRel(<, Nat)
  BY DEF NatLess, OpToRel
<1>2. IsWellFoundedOn(NatLess, Nat)
  BY <1>1, NatLessThanWellFounded
<1>3. QED
  BY <1>2, WFLexProductOrdering DEF Below

LEMMA IsBelow ==
  ASSUME NEW n \in Nat, NEW x \in [1 .. n -> Nat], NEW y \in [1 .. n -> Nat],
         NEW j \in 1 .. n, \A i \in 1 .. (j - 1) : x[i] = y[i], x[j] < y[j]
  PROVE  <<x, y>> \in Below(n)
<1>1. <<x[j], y[j]>> \in NatLess
  BY DEF NatLess
<1>2. QED
  BY <1>1 DEF Below, LexProductOrdering

\* Lists of three and of five numbers.
LEMMA ThreeNumbers ==
  ASSUME NEW a \in Nat, NEW b \in Nat, NEW c \in Nat
  PROVE  <<a, b, c>> \in [1 .. 3 -> Nat]
OBVIOUS

LEMMA FiveNumbers ==
  ASSUME NEW a \in Nat, NEW b \in Nat, NEW c \in Nat, NEW d \in Nat, NEW e \in Nat
  PROVE  <<a, b, c, d, e>> \in [1 .. 5 -> Nat]
OBVIOUS

LEMMA ThreeNumbersDescend ==
  ASSUME NEW f \in [1 .. 3 -> Nat], NEW g \in [1 .. 3 -> Nat],
         \/ f[1] < g[1]
         \/ f[1] = g[1] /\ f[2] < g[2]
         \/ f[1] = g[1] /\ f[2] = g[2] /\ f[3] < g[3]
  PROVE  <<f, g>> \in Below(3)
<1>1. PICK j \in 1 .. 3 : f[j] < g[j] /\ \A i \in 1 .. (j - 1) : f[i] = g[i]
  <2>1. CASE f[1] < g[1]
    BY <2>1
  <2>2. CASE f[1] = g[1] /\ f[2] < g[2]
    BY <2>2
  <2>3. CASE f[1] = g[1] /\ f[2] = g[2] /\ f[3] < g[3]
    BY <2>3
  <2>4. QED
    BY <2>1, <2>2, <2>3
<1>2. QED
  BY <1>1, IsBelow

LEMMA FiveNumbersDescend ==
  ASSUME NEW f \in [1 .. 5 -> Nat], NEW g \in [1 .. 5 -> Nat],
         \/ f[1] < g[1]
         \/ f[1] = g[1] /\ f[2] < g[2]
         \/ f[1] = g[1] /\ f[2] = g[2] /\ f[3] < g[3]
         \/ f[1] = g[1] /\ f[2] = g[2] /\ f[3] = g[3] /\ f[4] < g[4]
         \/ f[1] = g[1] /\ f[2] = g[2] /\ f[3] = g[3] /\ f[4] = g[4] /\ f[5] < g[5]
  PROVE  <<f, g>> \in Below(5)
<1>1. PICK j \in 1 .. 5 : f[j] < g[j] /\ \A i \in 1 .. (j - 1) : f[i] = g[i]
  <2>1. CASE f[1] < g[1]
    BY <2>1
  <2>2. CASE f[1] = g[1] /\ f[2] < g[2]
    BY <2>2
  <2>3. CASE f[1] = g[1] /\ f[2] = g[2] /\ f[3] < g[3]
    BY <2>3
  <2>4. CASE f[1] = g[1] /\ f[2] = g[2] /\ f[3] = g[3] /\ f[4] < g[4]
    BY <2>4
  <2>5. CASE f[1] = g[1] /\ f[2] = g[2] /\ f[3] = g[3] /\ f[4] = g[4] /\ f[5] < g[5]
    BY <2>5
  <2>6. QED
    BY <2>1, <2>2, <2>3, <2>4, <2>5
<1>2. QED
  BY <1>1, IsBelow
=============================================================================
