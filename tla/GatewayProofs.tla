--------------------------- MODULE GatewayProofs ---------------------------
(***************************************************************************)
(* Proofs about RankingService and the Gateway in front of it, for any     *)
(* items, features, scores and lengths: the merge, the sort and the cut    *)
(* make the ranking that a request calls for, each party is blamed for its *)
(* own mistakes only, and nothing that was retrieved is lost.              *)
(***************************************************************************)
EXTENDS Gateway, DataInduction

-----------------------------------------------------------------------------
(* Merging the candidates of a request.                                    *)

\* The step of the merge for one candidate: skipped, new, or added to its item.
MergesOne(new, M, offered, k) ==
  \/ /\ offered[k].item = 0
     /\ new = M
  \/ /\ offered[k].item # 0
     /\ \A m \in DOMAIN M : M[m].item # offered[k].item
     /\ new = Append(M, [item |-> offered[k].item, score |-> offered[k].score,
                         from |-> <<k>>])
  \/ /\ offered[k].item # 0
     /\ \E i \in DOMAIN M :
          /\ M[i].item = offered[k].item
          /\ new = [M EXCEPT ![i] = [item |-> M[i].item,
                                     score |-> M[i].score + offered[k].score,
                                     from |-> Append(M[i].from, k)]]

LEMMA MergeOneIs ==
  ASSUME NEW M \in Seq(Merged), NEW offered \in Seq(Offered), NEW k \in DOMAIN offered
  PROVE  MergesOne(MergeOne(M, offered, k), M, offered, k)
<1> DEFINE new == MergeOne(M, offered, k)
           c == offered[k]
           i == SelectInSeq(M, LAMBDA m : m.item = c.item)
<1>1. new = IF c.item = 0 THEN M
            ELSE IF i = 0
                 THEN Append(M, [item |-> c.item, score |-> c.score, from |-> <<k>>])
                 ELSE [M EXCEPT ![i].score = @ + c.score, ![i].from = Append(@, k)]
  BY DEF MergeOne
<1> SUFFICES MergesOne(new, M, offered, k)
  OBVIOUS
<1> HIDE DEF new
<1>2. IF \E m \in DOMAIN M : M[m].item = c.item
      THEN i \in DOMAIN M /\ M[i].item = c.item
      ELSE i = 0
  <2> DEFINE I == {m \in 1 .. Len(M) : M[m].item = c.item}
  <2>1. I \subseteq Nat /\ DOMAIN M = 1 .. Len(M)
    OBVIOUS
  <2>2. i = IF I # {} THEN Min(I) ELSE 0
    BY DEF SelectInSeq
  <2>3. I # {} => Min(I) \in I
    <3> HIDE DEF I
    <3>1. QED
      BY <2>1, MinIsIn
  <2> HIDE DEF i
  <2>4. QED
    BY <2>1, <2>2, <2>3
<1> HIDE DEF i
<1>3. CASE c.item = 0
  BY <1>1, <1>3 DEF MergesOne
<1>4. CASE c.item # 0 /\ ~\E m \in DOMAIN M : M[m].item = c.item
  BY <1>1, <1>2, <1>4 DEF MergesOne
<1>5. CASE c.item # 0 /\ \E m \in DOMAIN M : M[m].item = c.item
  <2>1. i \in DOMAIN M /\ M[i].item = c.item /\ i # 0 /\ M[i] \in Merged
    BY <1>2, <1>5
  <2>2. new = [M EXCEPT ![i].score = @ + c.score, ![i].from = Append(@, k)]
    BY <1>1, <1>5, <2>1
  <2> DEFINE e == [item |-> M[i].item, score |-> M[i].score + c.score,
                   from |-> Append(M[i].from, k)]
  <2>3. ASSUME NEW z \in Merged
        PROVE  [[z EXCEPT !.score = @ + c.score] EXCEPT !.from = Append(@, k)]
                 = [item |-> z.item, score |-> z.score + c.score,
                    from |-> Append(z.from, k)]
    <3>1. PICK total : total = z.score + c.score
      OBVIOUS
    <3>2. PICK from : from = Append(z.from, k)
      OBVIOUS
    <3>3. z = [item |-> z.item, score |-> z.score, from |-> z.from]
      BY DEF Merged
    <3>4. [z EXCEPT !.score = total] = [item |-> z.item, score |-> total, from |-> z.from]
      BY <3>3
    <3>5. [[item |-> z.item, score |-> total, from |-> z.from] EXCEPT !.from = from]
            = [item |-> z.item, score |-> total, from |-> from]
      OBVIOUS
    <3>6. [[z EXCEPT !.score = @ + c.score] EXCEPT !.from = Append(@, k)]
            = [[z EXCEPT !.score = total] EXCEPT !.from = from]
      <4> DEFINE y == [z EXCEPT !.score = @ + c.score]
      <4>1. y = [z EXCEPT !.score = total] /\ y.from = z.from
        BY <3>1, <3>4
      <4> HIDE DEF y
      <4>2. [y EXCEPT !.from = Append(@, k)] = [y EXCEPT !.from = from]
        BY <3>2, <4>1
      <4>3. QED
        BY <4>1, <4>2 DEF y
    <3>7. QED
      BY <3>1, <3>2, <3>4, <3>5, <3>6
  <2>4. new = [M EXCEPT ![i] = [[M[i] EXCEPT !.score = @ + c.score]
                                  EXCEPT !.from = Append(@, k)]]
    BY <2>1, <2>2
  <2>5. new = [M EXCEPT ![i] = e]
    BY <2>1, <2>3, <2>4
  <2>6. QED
    BY <1>5, <2>1, <2>5 DEF MergesOne
<1>6. QED
  BY <1>3, <1>4, <1>5

LEMMA MergeOneType ==
  ASSUME NEW M \in Seq(Merged), NEW offered \in Seq(Offered), NEW k \in DOMAIN offered
  PROVE  MergeOne(M, offered, k) \in Seq(Merged)
<1>1. PICK new : new = MergeOne(M, offered, k)
  OBVIOUS
<1>2. k \in Nat \ {0} /\ offered[k] \in Offered
  OBVIOUS
<1>3. offered[k].item \in Item \cup {0} /\ offered[k].score \in Nat
  BY <1>2 DEF Offered
<1>4. CASE new = M
  BY <1>1, <1>4
<1>5. CASE /\ offered[k].item # 0
           /\ new = Append(M, [item |-> offered[k].item, score |-> offered[k].score,
                               from |-> <<k>>])
  <2>1. [item |-> offered[k].item, score |-> offered[k].score, from |-> <<k>>] \in Merged
    BY <1>2, <1>3, <1>5 DEF Merged
  <2>2. QED
    BY <1>1, <1>5, <2>1
<1>6. ASSUME NEW i \in DOMAIN M,
             new = [M EXCEPT ![i] = [item |-> M[i].item,
                                     score |-> M[i].score + offered[k].score,
                                     from |-> Append(M[i].from, k)]]
      PROVE  new \in Seq(Merged)
  <2>1. M[i] \in Merged
    OBVIOUS
  <2>2. [item |-> M[i].item, score |-> M[i].score + offered[k].score,
         from |-> Append(M[i].from, k)] \in Merged
    BY <1>2, <1>3, <2>1 DEF Merged
  <2>3. QED
    BY <1>6, <2>2
<1>7. \/ new = M
      \/ /\ offered[k].item # 0
         /\ new = Append(M, [item |-> offered[k].item, score |-> offered[k].score,
                             from |-> <<k>>])
      \/ \E i \in DOMAIN M :
           new = [M EXCEPT ![i] = [item |-> M[i].item,
                                   score |-> M[i].score + offered[k].score,
                                   from |-> Append(M[i].from, k)]]
  <2>1. MergesOne(new, M, offered, k)
    BY <1>1, MergeOneIs
  <2>2. QED
    BY <2>1, Zenon DEF MergesOne
<1>8. QED
  BY <1>1, <1>4, <1>5, <1>6, <1>7

\* The merge goes through the candidates one by one.
LEMMA MergeSteps ==
  ASSUME NEW offered \in Seq(Offered)
  PROVE  \E g \in [0 .. Len(offered) -> Seq(Merged)] :
           /\ g[0] = <<>>
           /\ \A k \in 1 .. Len(offered) : g[k] = MergeOne(g[k - 1], offered, k)
           /\ NormalizeAndMergeCandidates(offered) = g[Len(offered)]
<1> DEFINE n == Len(offered)
           s == [k \in DOMAIN offered |-> k]
           F == [x \in Seq(Merged) \X (1 .. n) |-> MergeOne(x[1], offered, x[2])]
           iter == CHOOSE iter :
                     iter = [t \in SUBSET DOMAIN s |->
                       IF t = {} THEN <<>>
                       ELSE MergeOne(iter[t \ {Max(t)}], offered, s[Max(t)])]
<1>1. DOMAIN s = 1 .. n /\ DOMAIN offered = 1 .. n /\ n \in Nat /\ \A k \in 1 .. n : s[k] = k
  OBVIOUS
<1>2. NormalizeAndMergeCandidates(offered) = iter[DOMAIN s]
  BY DEF NormalizeAndMergeCandidates, FoldLeft, MapThenFoldSet
<1>3. F \in [Seq(Merged) \X (1 .. n) -> Seq(Merged)]
  <2>1. \A M \in Seq(Merged), k \in 1 .. n : MergeOne(M, offered, k) \in Seq(Merged)
    BY <1>1, MergeOneType
  <2>2. QED
    BY <2>1
<1> HIDE DEF F, n, s
<1>4. PICK f : FoldsBy(f, Seq(Merged), F, <<>>, s, n)
  <2>1. <<>> \in Seq(Merged) /\ \A k \in 1 .. n : s[k] \in 1 .. n
    BY <1>1
  <2> HIDE DEF iter
  <2>2. QED
    BY <1>1, <1>3, <2>1, FoldExists
<1>5. ASSUME NEW t \in SUBSET (1 .. n), t # {}
      PROVE  f[t] = MergeOne(f[t \ {Max(t)}], offered, s[Max(t)])
  <2>1. Max(t) \in 1 .. n
    BY <1>1, <1>5, MaxIsIn
  <2>2. <<f[t \ {Max(t)}], s[Max(t)]>> \in Seq(Merged) \X (1 .. n)
    BY <1>1, <1>4, <2>1 DEF FoldsBy
  <2>3. QED
    BY <1>4, <1>5, <2>2 DEF F, FoldsBy
<1>6. f = [t \in SUBSET (1 .. n) |->
             IF t = {} THEN <<>> ELSE MergeOne(f[t \ {Max(t)}], offered, s[Max(t)])]
  BY <1>4, <1>5 DEF FoldsBy
<1>7. iter = [t \in SUBSET (1 .. n) |->
                IF t = {} THEN <<>> ELSE MergeOne(iter[t \ {Max(t)}], offered, s[Max(t)])]
  BY <1>1, <1>6
<1> HIDE DEF iter
<1>8. PICK g : g = [k \in 0 .. n |-> f[1 .. k]]
  OBVIOUS
<1>9. /\ g \in [0 .. n -> Seq(Merged)] /\ g[0] = <<>>
      /\ \A k \in 1 .. n : g[k] = F[<<g[k - 1], s[k]>>]
  <2>1. StepsBy([k \in 0 .. n |-> f[1 .. k]], Seq(Merged), F, <<>>, s, n)
    BY <1>1, <1>4, FoldSteps
  <2>2. QED
    BY <1>8, <2>1 DEF StepsBy
<1>10. ASSUME NEW k \in 1 .. n
       PROVE  g[k] = MergeOne(g[k - 1], offered, k)
  <2>1. g[k - 1] \in Seq(Merged)
    BY <1>1, <1>9
  <2>2. QED
    BY <1>1, <1>9, <2>1 DEF F
<1>11. iter[1 .. n] = g[n]
  <2> DEFINE T == {k \in 0 .. n : iter[1 .. k] = g[k]}
  <2>1. ASSUME NEW k \in 0 .. n
        PROVE  iter[1 .. k] = IF k = 0 THEN <<>>
                              ELSE MergeOne(iter[1 .. (k - 1)], offered, k)
    <3>1. k \in Nat /\ 1 .. k \in SUBSET (1 .. n) /\ (k = 0 => 1 .. k = {})
      BY <1>1
    <3>2. k # 0 => 1 .. k # {} /\ (1 .. k) \ {k} = 1 .. (k - 1)
      BY <3>1
    <3>3. k # 0 => Max(1 .. k) = k /\ s[k] = k
      BY <1>1, MaxOfPrefix
    <3>4. QED
      BY <1>7, <3>1, <3>2, <3>3
  <2>2. 0 \in T
    <3>1. 0 \in 0 .. n
      BY <1>1
    <3>2. iter[1 .. 0] = <<>>
      <4>1. iter[1 .. 0] = IF 0 = 0 THEN <<>> ELSE MergeOne(iter[1 .. (0 - 1)], offered, 0)
        BY <2>1, <3>1
      <4>2. QED
        BY <4>1
    <3>3. QED
      BY <1>9, <3>1, <3>2
  <2>3. ASSUME NEW k \in 0 .. (n - 1), k \in T PROVE k + 1 \in T
    <3>1. k + 1 \in 0 .. n /\ (k + 1) - 1 = k /\ k + 1 # 0 /\ k + 1 \in 1 .. n
      BY <1>1
    <3>2. iter[1 .. (k + 1)] = MergeOne(iter[1 .. k], offered, k + 1)
      BY <2>1, <3>1
    <3>3. g[k + 1] = MergeOne(g[k], offered, k + 1)
      BY <1>10, <3>1
    <3>4. QED
      BY <2>3, <3>1, <3>2, <3>3
  <2>4. n \in T
    <3> HIDE DEF T
    <3>1. 0 .. n \subseteq T
      BY <1>1, <2>2, <2>3, UpTo
    <3>2. QED
      BY <1>1, <3>1
  <2>5. QED
    BY <2>4
<1>12. QED
  BY <1>1, <1>2, <1>9, <1>10, <1>11 DEF n

\* What an item's candidates add up to is counted in one pass over the request.
LEMMA TotalSteps ==
  ASSUME NEW offered \in Seq(Offered), NEW i
  PROVE  \E h \in [0 .. Len(offered) -> Nat] :
           /\ h[0] = 0
           /\ \A k \in 1 .. Len(offered) :
                h[k] = IF offered[k].item = i THEN h[k - 1] + offered[k].score ELSE h[k - 1]
           /\ Total(offered, i) = h[Len(offered)]
<1> DEFINE n == Len(offered)
           Add(sum, c) == IF c.item = i THEN sum + c.score ELSE sum
           F == [x \in Nat \X Offered |-> Add(x[1], x[2])]
           iter == CHOOSE iter :
                     iter = [t \in SUBSET DOMAIN offered |->
                       IF t = {} THEN 0 ELSE Add(iter[t \ {Max(t)}], offered[Max(t)])]
<1>1. DOMAIN offered = 1 .. n /\ n \in Nat /\ \A k \in 1 .. n : offered[k] \in Offered
  OBVIOUS
<1>2. Total(offered, i) = iter[DOMAIN offered]
  BY DEF Total, FoldLeft, MapThenFoldSet
<1>3. F \in [Nat \X Offered -> Nat]
  <2>1. \A sum \in Nat, c \in Offered : Add(sum, c) \in Nat
    BY DEF Offered
  <2>2. QED
    BY <2>1
<1> HIDE DEF F, n
<1>4. PICK f : FoldsBy(f, Nat, F, 0, offered, n)
  <2> HIDE DEF iter
  <2>1. QED
    BY <1>1, <1>3, FoldExists
<1>5. ASSUME NEW t \in SUBSET (1 .. n), t # {}
      PROVE  f[t] = Add(f[t \ {Max(t)}], offered[Max(t)])
  <2>1. Max(t) \in 1 .. n
    BY <1>1, <1>5, MaxIsIn
  <2>2. <<f[t \ {Max(t)}], offered[Max(t)]>> \in Nat \X Offered
    BY <1>1, <1>4, <2>1 DEF FoldsBy
  <2>3. QED
    BY <1>4, <1>5, <2>2 DEF F, FoldsBy
<1>6. f = [t \in SUBSET (1 .. n) |->
             IF t = {} THEN 0 ELSE Add(f[t \ {Max(t)}], offered[Max(t)])]
  BY <1>4, <1>5 DEF FoldsBy
<1>7. iter = [t \in SUBSET (1 .. n) |->
                IF t = {} THEN 0 ELSE Add(iter[t \ {Max(t)}], offered[Max(t)])]
  BY <1>1, <1>6
<1> HIDE DEF iter
<1>8. PICK h : h = [k \in 0 .. n |-> f[1 .. k]]
  OBVIOUS
<1>9. /\ h \in [0 .. n -> Nat] /\ h[0] = 0
      /\ \A k \in 1 .. n : h[k] = F[<<h[k - 1], offered[k]>>]
  <2>1. StepsBy([k \in 0 .. n |-> f[1 .. k]], Nat, F, 0, offered, n)
    BY <1>1, <1>4, FoldSteps
  <2>2. QED
    BY <1>8, <2>1 DEF StepsBy
<1>10. ASSUME NEW k \in 1 .. n
       PROVE  h[k] = Add(h[k - 1], offered[k])
  <2>1. h[k - 1] \in Nat
    BY <1>1, <1>9
  <2>2. QED
    BY <1>1, <1>9, <2>1 DEF F
<1>11. iter[1 .. n] = h[n]
  <2> DEFINE T == {k \in 0 .. n : iter[1 .. k] = h[k]}
  <2>1. ASSUME NEW k \in 0 .. n
        PROVE  iter[1 .. k] = IF k = 0 THEN 0 ELSE Add(iter[1 .. (k - 1)], offered[k])
    <3>1. k \in Nat /\ 1 .. k \in SUBSET (1 .. n) /\ (k = 0 => 1 .. k = {})
      BY <1>1
    <3>2. k # 0 => 1 .. k # {} /\ (1 .. k) \ {k} = 1 .. (k - 1)
      BY <3>1
    <3>3. k # 0 => Max(1 .. k) = k
      BY <1>1, MaxOfPrefix
    <3>4. QED
      BY <1>7, <3>1, <3>2, <3>3
  <2>2. 0 \in T
    <3>1. 0 \in 0 .. n
      BY <1>1
    <3>2. iter[1 .. 0] = 0
      <4>1. iter[1 .. 0] = IF 0 = 0 THEN 0 ELSE Add(iter[1 .. (0 - 1)], offered[0])
        BY <2>1, <3>1
      <4>2. QED
        BY <4>1
    <3>3. QED
      BY <1>9, <3>1, <3>2
  <2>3. ASSUME NEW k \in 0 .. (n - 1), k \in T PROVE k + 1 \in T
    <3>1. k + 1 \in 0 .. n /\ (k + 1) - 1 = k /\ k + 1 # 0 /\ k + 1 \in 1 .. n
      BY <1>1
    <3>2. iter[1 .. (k + 1)] = Add(iter[1 .. k], offered[k + 1])
      BY <2>1, <3>1
    <3>3. h[k + 1] = Add(h[k], offered[k + 1])
      BY <1>10, <3>1
    <3>4. QED
      BY <2>3, <3>1, <3>2, <3>3
  <2>4. n \in T
    <3> HIDE DEF T
    <3>1. 0 .. n \subseteq T
      BY <1>1, <2>2, <2>3, UpTo
    <3>2. QED
      BY <1>1, <3>1
  <2>5. QED
    BY <2>4
<1>12. QED
  BY <1>1, <1>2, <1>9, <1>10, <1>11 DEF n

\* r is the first k elements of s.
IsFirst(r, S, s, k) ==
  /\ r \in Seq(S)
  /\ Len(r) = k /\ DOMAIN r = 1 .. k
  /\ \A n \in 1 .. k : r[n] = s[n]

LEMMA PrefixIs ==
  ASSUME NEW S, NEW s \in Seq(S), NEW k \in Nat, k <= Len(s)
  PROVE  IsFirst(SubSeq(s, 1, k), S, s, k)
BY DEF IsFirst

LEMMA AppendedToSet ==
  ASSUME NEW S, NEW s \in Seq(S), NEW x \in S
  PROVE  ToSet(Append(s, x)) = ToSet(s) \cup {x}
<1> DEFINE more == Append(s, x)
<1>1. /\ DOMAIN more = 1 .. Len(s) + 1 /\ Len(s) \in Nat /\ DOMAIN s = 1 .. Len(s)
      /\ \A a \in 1 .. Len(s) : more[a] = s[a]
      /\ more[Len(s) + 1] = x
  OBVIOUS
<1>2. DOMAIN more = DOMAIN s \cup {Len(s) + 1}
  BY <1>1
<1> HIDE DEF more
<1>3. {more[a] : a \in DOMAIN more} = {s[a] : a \in DOMAIN s} \cup {x}
  BY <1>1, <1>2
<1>4. QED
  BY <1>3 DEF ToSet, more

\* M is the merge of the first k candidates: each of their items once, with all
\* of its positions.
MergeOf(M, offered, k) ==
  /\ M \in Seq(Merged)
  /\ \A a, b \in DOMAIN M : M[a].item = M[b].item => a = b
  /\ \A a \in DOMAIN M :
       /\ \E j \in 1 .. k : offered[j].item = M[a].item
       /\ ToSet(M[a].from) = {j \in 1 .. k : offered[j].item = M[a].item}
  /\ \A j \in 1 .. k : offered[j].item # 0 =>
       \E a \in DOMAIN M : M[a].item = offered[j].item

LEMMA MergeOfNext ==
  ASSUME NEW offered \in Seq(Offered), NEW k \in Nat, k + 1 \in DOMAIN offered,
         NEW M, MergeOf(M, offered, k)
  PROVE  MergeOf(MergeOne(M, offered, k + 1), offered, k + 1)
<1> DEFINE new == MergeOne(M, offered, k + 1)
           c == offered[k + 1]
<1>1. new \in Seq(Merged) /\ M \in Seq(Merged) /\ MergesOne(new, M, offered, k + 1)
  BY MergeOneType, MergeOneIs DEF MergeOf
<1> HIDE DEF new
<1>2. /\ \A a, b \in DOMAIN M : M[a].item = M[b].item => a = b
      /\ \A a \in DOMAIN M :
           /\ M[a] \in Merged
           /\ \E j \in 1 .. k : offered[j].item = M[a].item
           /\ ToSet(M[a].from) = {j \in 1 .. k : offered[j].item = M[a].item}
      /\ \A j \in 1 .. k : offered[j].item # 0 =>
           \E a \in DOMAIN M : M[a].item = offered[j].item
  <2>1. \A a \in DOMAIN M : M[a] \in Merged
    BY <1>1
  <2>2. QED
    BY <2>1, Zenon DEF MergeOf
<1>3. 1 .. (k + 1) = (1 .. k) \cup {k + 1} /\ k + 1 \notin 1 .. k
  OBVIOUS
<1>4. SUFFICES /\ \A a, b \in DOMAIN new : new[a].item = new[b].item => a = b
               /\ \A a \in DOMAIN new :
                    /\ \E j \in 1 .. (k + 1) : offered[j].item = new[a].item
                    /\ ToSet(new[a].from) =
                         {j \in 1 .. (k + 1) : offered[j].item = new[a].item}
               /\ \A j \in 1 .. (k + 1) : offered[j].item # 0 =>
                    \E a \in DOMAIN new : new[a].item = offered[j].item
  BY <1>1 DEF MergeOf, new
<1>5. CASE c.item = 0 /\ new = M
  <2>1. \A a \in DOMAIN M : M[a].item # 0
    BY <1>2, RankingAssumption DEF Merged
  <2>2. QED
    BY <1>2, <1>3, <1>5, <2>1
<1>6. CASE /\ c.item # 0
           /\ \A m \in DOMAIN M : M[m].item # c.item
           /\ new = Append(M, [item |-> c.item, score |-> c.score, from |-> <<k + 1>>])
  <2>1. /\ DOMAIN new = 1 .. Len(M) + 1 /\ DOMAIN M = 1 .. Len(M) /\ Len(M) \in Nat
        /\ \A a \in 1 .. Len(M) : new[a] = M[a]
        /\ new[Len(M) + 1].item = c.item /\ new[Len(M) + 1].from = <<k + 1>>
    BY <1>1, <1>6
  <2>2. \A a \in DOMAIN new : a = Len(M) + 1 \/ a \in DOMAIN M
    BY <2>1
  <2>3. \A a, b \in DOMAIN new : new[a].item = new[b].item => a = b
    BY <1>2, <1>6, <2>1, <2>2
  <2>4. ASSUME NEW a \in DOMAIN M
        PROVE  /\ \E j \in 1 .. (k + 1) : offered[j].item = new[a].item
               /\ ToSet(new[a].from) = {j \in 1 .. (k + 1) : offered[j].item = new[a].item}
    BY <1>2, <1>3, <1>6, <2>1
  <2>5. /\ \E j \in 1 .. (k + 1) : offered[j].item = new[Len(M) + 1].item
        /\ ToSet(new[Len(M) + 1].from)
             = {j \in 1 .. (k + 1) : offered[j].item = new[Len(M) + 1].item}
    <3>1. ToSet(<<k + 1>>) = {k + 1}
      BY DEF ToSet
    <3>2. \A j \in 1 .. k : offered[j].item # c.item
      BY <1>2, <1>6
    <3>3. {j \in 1 .. (k + 1) : offered[j].item = c.item} = {k + 1}
      BY <1>3, <3>2
    <3>4. QED
      BY <1>3, <2>1, <3>1, <3>3
  <2>6. \A j \in 1 .. (k + 1) : offered[j].item # 0 =>
          \E a \in DOMAIN new : new[a].item = offered[j].item
    <3> SUFFICES ASSUME NEW j \in 1 .. (k + 1), offered[j].item # 0
                 PROVE  \E a \in DOMAIN new : new[a].item = offered[j].item
      OBVIOUS
    <3>1. CASE j \in 1 .. k
      <4>1. PICK a \in DOMAIN M : M[a].item = offered[j].item
        BY <1>2, <3>1
      <4>2. a \in DOMAIN new /\ new[a].item = M[a].item
        BY <2>1
      <4>3. QED
        BY <4>1, <4>2
    <3>2. CASE j = k + 1
      <4>1. Len(M) + 1 \in DOMAIN new /\ new[Len(M) + 1].item = offered[j].item
        BY <2>1, <3>2
      <4>2. QED
        BY <4>1
    <3>3. QED
      BY <1>3, <3>1, <3>2
  <2>7. QED
    BY <2>2, <2>3, <2>4, <2>5, <2>6
<1>7. ASSUME NEW i \in DOMAIN M, M[i].item = c.item, c.item # 0,
             new = [M EXCEPT ![i] = [item |-> M[i].item, score |-> M[i].score + c.score,
                                     from |-> Append(M[i].from, k + 1)]]
      PROVE  /\ \A a, b \in DOMAIN new : new[a].item = new[b].item => a = b
             /\ \A a \in DOMAIN new :
                  /\ \E j \in 1 .. (k + 1) : offered[j].item = new[a].item
                  /\ ToSet(new[a].from) = {j \in 1 .. (k + 1) : offered[j].item = new[a].item}
             /\ \A j \in 1 .. (k + 1) : offered[j].item # 0 =>
                  \E a \in DOMAIN new : new[a].item = offered[j].item
  <2>1. /\ DOMAIN new = DOMAIN M
        /\ \A a \in DOMAIN M : new[a].item = M[a].item /\ (a # i => new[a] = M[a])
        /\ new[i].from = Append(M[i].from, k + 1)
    BY <1>1, <1>7
  <2>2. ASSUME NEW a \in DOMAIN M
        PROVE  ToSet(new[a].from) = {j \in 1 .. (k + 1) : offered[j].item = new[a].item}
    <3>1. CASE a = i
      <4>1. M[i].from \in Seq(Nat \ {0}) /\ k + 1 \in Nat \ {0}
        BY <1>2 DEF Merged
      <4>2. ToSet(Append(M[i].from, k + 1)) = ToSet(M[i].from) \cup {k + 1}
        BY <4>1, AppendedToSet
      <4>3. ToSet(M[i].from) = {j \in 1 .. k : offered[j].item = c.item}
        BY <1>2, <1>7
      <4>4. {j \in 1 .. (k + 1) : offered[j].item = c.item}
              = {j \in 1 .. k : offered[j].item = c.item} \cup {k + 1}
        BY <1>3
      <4>5. new[a].item = c.item /\ new[a].from = Append(M[i].from, k + 1)
        BY <1>7, <2>1, <3>1
      <4>6. QED
        BY <4>2, <4>3, <4>4, <4>5
    <3>2. CASE a # i
      <4>1. M[a].item # c.item
        BY <1>2, <1>7, <3>2
      <4>2. QED
        BY <1>2, <1>3, <2>1, <3>2, <4>1
    <3>3. QED
      BY <3>1, <3>2
  <2>3. \A a, b \in DOMAIN new : new[a].item = new[b].item => a = b
    BY <1>2, <2>1
  <2>4. \A a \in DOMAIN new : \E j \in 1 .. (k + 1) : offered[j].item = new[a].item
    BY <1>2, <1>3, <2>1
  <2>5. \A j \in 1 .. (k + 1) : offered[j].item # 0 =>
          \E a \in DOMAIN new : new[a].item = offered[j].item
    BY <1>2, <1>3, <1>7, <2>1
  <2>6. QED
    BY <2>1, <2>2, <2>3, <2>4, <2>5
<1>8. QED
  BY <1>1, <1>5, <1>6, <1>7 DEF MergesOne

\* The score of item i in M, if M has it, and the sum so far are the same.
SumOf(M, i, sum) ==
  /\ \A a \in DOMAIN M : M[a].item = i => M[a].score = sum
  /\ (\A a \in DOMAIN M : M[a].item # i) => sum = 0

LEMMA SumOfNext ==
  ASSUME NEW offered \in Seq(Offered), NEW k \in Nat, k + 1 \in DOMAIN offered,
         NEW M, MergeOf(M, offered, k), NEW i \in Item, NEW sum \in Nat, SumOf(M, i, sum)
  PROVE  SumOf(MergeOne(M, offered, k + 1), i,
               IF offered[k + 1].item = i THEN sum + offered[k + 1].score ELSE sum)
<1> DEFINE new == MergeOne(M, offered, k + 1)
           c == offered[k + 1]
           more == IF c.item = i THEN sum + c.score ELSE sum
<1>1. new \in Seq(Merged) /\ M \in Seq(Merged) /\ MergesOne(new, M, offered, k + 1)
  BY MergeOneType, MergeOneIs DEF MergeOf
<1>2. \A a, b \in DOMAIN M : M[a].item = M[b].item => a = b
  BY DEF MergeOf
<1>3. i # 0 /\ c.score \in Nat
  <2>1. c \in Offered
    OBVIOUS
  <2>2. QED
    BY <2>1, RankingAssumption DEF Offered
<1> SUFFICES SumOf(new, i, more)
  OBVIOUS
<1> HIDE DEF new
<1>4. CASE c.item = 0 /\ new = M
  BY <1>3, <1>4
<1>5. CASE /\ c.item # 0
           /\ \A m \in DOMAIN M : M[m].item # c.item
           /\ new = Append(M, [item |-> c.item, score |-> c.score, from |-> <<k + 1>>])
  <2>1. /\ DOMAIN new = 1 .. Len(M) + 1 /\ DOMAIN M = 1 .. Len(M) /\ Len(M) \in Nat
        /\ \A a \in 1 .. Len(M) : new[a] = M[a]
        /\ new[Len(M) + 1].item = c.item /\ new[Len(M) + 1].score = c.score
    BY <1>1, <1>5
  <2>2. \A a \in DOMAIN new : a = Len(M) + 1 \/ a \in DOMAIN M
    BY <2>1
  <2>3. Len(M) + 1 \in DOMAIN new /\ \A a \in DOMAIN M : a \in DOMAIN new
    BY <2>1
  <2>4. CASE c.item = i
    <3>1. sum = 0 /\ more = c.score
      BY <1>3, <1>5, <2>4 DEF SumOf
    <3>2. QED
      BY <1>5, <2>1, <2>2, <2>3, <2>4, <3>1 DEF SumOf
  <2>5. CASE c.item # i
    BY <2>1, <2>2, <2>3, <2>5 DEF SumOf
  <2>6. QED
    BY <2>4, <2>5
<1>6. ASSUME NEW m \in DOMAIN M, M[m].item = c.item, c.item # 0,
             new = [M EXCEPT ![m] = [item |-> M[m].item, score |-> M[m].score + c.score,
                                     from |-> Append(M[m].from, k + 1)]]
      PROVE  SumOf(new, i, more)
  <2>1. /\ DOMAIN new = DOMAIN M
        /\ \A a \in DOMAIN M : new[a].item = M[a].item /\ (a # m => new[a] = M[a])
        /\ new[m].score = M[m].score + c.score
    BY <1>1, <1>6
  <2>2. CASE c.item = i
    BY <1>2, <1>6, <2>1, <2>2 DEF SumOf
  <2>3. CASE c.item # i
    BY <1>6, <2>1, <2>3 DEF SumOf
  <2>4. QED
    BY <2>2, <2>3
<1>7. QED
  BY <1>1, <1>4, <1>5, <1>6 DEF MergesOne

\* What the merge makes of a request: its items once each, each with all of its
\* positions and the sum of their scores.
LEMMA Normalized ==
  ASSUME NEW offered \in Seq(Offered),
         NEW M, M = NormalizeAndMergeCandidates(offered)
  PROVE  /\ MergeOf(M, offered, Len(offered))
         /\ \A a \in DOMAIN M : M[a].score = Total(offered, M[a].item)
<1> DEFINE n == Len(offered)
<1>1. PICK g \in [0 .. n -> Seq(Merged)] :
        /\ g[0] = <<>>
        /\ \A k \in 1 .. n : g[k] = MergeOne(g[k - 1], offered, k)
        /\ NormalizeAndMergeCandidates(offered) = g[n]
  BY MergeSteps
<1>2. n \in Nat /\ DOMAIN offered = 1 .. n
  OBVIOUS
<1> HIDE DEF n
<1>3. \A k \in 0 .. (n - 1) :
        k \in Nat /\ k + 1 \in DOMAIN offered /\ k + 1 \in 1 .. n /\ (k + 1) - 1 = k
  BY <1>2
<1>4. \A k \in 0 .. n : MergeOf(g[k], offered, k)
  <2> DEFINE T == {k \in 0 .. n : MergeOf(g[k], offered, k)}
  <2>1. 0 \in T
    <3>1. MergeOf(<<>>, offered, 0)
      BY DEF MergeOf
    <3>2. QED
      BY <1>1, <1>2, <3>1
  <2>2. ASSUME NEW k \in 0 .. (n - 1), k \in T PROVE k + 1 \in T
    <3>1. MergeOf(MergeOne(g[k], offered, k + 1), offered, k + 1)
      BY <1>3, <2>2, MergeOfNext
    <3>2. g[k + 1] = MergeOne(g[k], offered, k + 1)
      BY <1>1, <1>3
    <3>3. QED
      BY <1>2, <1>3, <3>1, <3>2
  <2>3. 0 .. n \subseteq T
    <3> HIDE DEF T
    <3>1. QED
      BY <1>2, <2>1, <2>2, UpTo
  <2>4. QED
    BY <2>3
<1>5. ASSUME NEW i \in Item
      PROVE  SumOf(g[n], i, Total(offered, i))
  <2>1. PICK h \in [0 .. n -> Nat] :
          /\ h[0] = 0
          /\ \A k \in 1 .. n :
               h[k] = IF offered[k].item = i THEN h[k - 1] + offered[k].score ELSE h[k - 1]
          /\ Total(offered, i) = h[n]
    BY TotalSteps DEF n
  <2> DEFINE T == {k \in 0 .. n : SumOf(g[k], i, h[k])}
  <2>2. 0 \in T
    <3>1. SumOf(<<>>, i, 0)
      BY DEF SumOf
    <3>2. QED
      BY <1>1, <1>2, <2>1, <3>1
  <2>3. ASSUME NEW k \in 0 .. (n - 1), k \in T PROVE k + 1 \in T
    <3>1. k \in 0 .. n /\ h[k] \in Nat /\ SumOf(g[k], i, h[k])
      BY <1>2, <2>1, <2>3
    <3>2. SumOf(MergeOne(g[k], offered, k + 1), i,
                IF offered[k + 1].item = i THEN h[k] + offered[k + 1].score ELSE h[k])
      BY <1>3, <1>4, <3>1, SumOfNext
    <3>3. g[k + 1] = MergeOne(g[k], offered, k + 1)
      BY <1>1, <1>3
    <3>4. h[k + 1] = IF offered[k + 1].item = i THEN h[k] + offered[k + 1].score ELSE h[k]
      BY <1>3, <2>1
    <3>5. QED
      BY <1>2, <1>3, <3>2, <3>3, <3>4
  <2>4. n \in T
    <3> HIDE DEF T
    <3>1. 0 .. n \subseteq T
      BY <1>2, <2>2, <2>3, UpTo
    <3>2. QED
      BY <1>2, <3>1
  <2>5. QED
    BY <2>1, <2>4
<1>6. MergeOf(g[n], offered, n)
  BY <1>2, <1>4
<1>7. \A a \in DOMAIN g[n] : g[n][a].item \in Item
  <2>1. \A a \in DOMAIN g[n] : g[n][a] \in Merged
    BY <1>6 DEF MergeOf
  <2>2. QED
    BY <2>1 DEF Merged
<1>8. \A a \in DOMAIN g[n] : g[n][a].score = Total(offered, g[n][a].item)
  BY <1>5, <1>7 DEF SumOf
<1>9. QED
  BY <1>1, <1>6, <1>8 DEF n

-----------------------------------------------------------------------------
(* Sorting the scored candidates.                                          *)

ScoredCandidate == [candidate : Merged, score : Int]

\* Scored candidates of different items.
Scored(scored, n) ==
  /\ DOMAIN scored = 1 .. n
  /\ \A k \in 1 .. n : scored[k] \in ScoredCandidate
  /\ \A j, k \in 1 .. n : scored[j].candidate.item = scored[k].candidate.item => j = k

LEMMA BetterIsAnOrder ==
  /\ \A x \in ScoredCandidate : ~Better(x, x)
  /\ \A x, y, z \in ScoredCandidate : Better(x, y) /\ Better(y, z) => Better(x, z)
  /\ \A x, y \in ScoredCandidate :
       x.candidate.item # y.candidate.item => Better(x, y) \/ Better(y, x)
<1>1. \A x \in ScoredCandidate : x.score \in Int /\ x.candidate.item \in Int
  BY RankingAssumption DEF ScoredCandidate, Merged
<1>2. QED
  BY <1>1 DEF Better

\* There is such a permutation: it follows from how many candidates are better.
LEMMA OrderSorts ==
  ASSUME NEW n \in Nat, NEW scored, Scored(scored, n)
  PROVE  /\ Order(scored) \in Bijection(1 .. n, 1 .. n)
         /\ \A j, k \in 1 .. n :
              j < k => Better(scored[Order(scored)[j]], scored[Order(scored)[k]])
<1> DEFINE D == 1 .. n
           Above(k) == {m \in D : Better(scored[m], scored[k])}
           r == [k \in D |-> 1 + Cardinality(Above(k))]
<1>1. IsFiniteSet(D) /\ Cardinality(D) = n
  BY FS_Interval
<1>2. \A k \in D : ~Better(scored[k], scored[k])
  BY BetterIsAnOrder DEF Scored
<1>3. \A j, k, m \in D :
        Better(scored[j], scored[k]) /\ Better(scored[k], scored[m])
          => Better(scored[j], scored[m])
  BY BetterIsAnOrder DEF Scored
<1>4. \A j, k \in D : j # k => Better(scored[j], scored[k]) \/ Better(scored[k], scored[j])
  BY BetterIsAnOrder DEF Scored
<1> HIDE DEF D
<1>5. \A k \in D : IsFiniteSet(Above(k)) /\ Cardinality(Above(k)) \in Nat
  <2> SUFFICES ASSUME NEW k \in D
               PROVE  IsFiniteSet(Above(k)) /\ Cardinality(Above(k)) \in Nat
    OBVIOUS
  <2>1. Above(k) \in SUBSET D
    OBVIOUS
  <2> HIDE DEF Above
  <2>2. QED
    BY <1>1, <2>1, FS_Subset, FS_CardinalityType
<1>6. \A k \in D : Cardinality(Above(k)) < n
  <2> SUFFICES ASSUME NEW k \in D PROVE Cardinality(Above(k)) < n
    OBVIOUS
  <2>1. Above(k) \in SUBSET D /\ Above(k) # D
    BY <1>2
  <2> HIDE DEF Above
  <2>2. Cardinality(Above(k)) <= n /\ Cardinality(Above(k)) # n
    BY <1>1, <2>1, FS_Subset
  <2>3. QED
    BY <1>5, <2>2
<1>7. \A j, k \in D : Better(scored[j], scored[k]) => r[j] < r[k]
  <2>1. ASSUME NEW j \in D, NEW k \in D, Better(scored[j], scored[k])
        PROVE  Cardinality(Above(j)) < Cardinality(Above(k))
    <3>1. Above(j) \in SUBSET Above(k) /\ Above(j) # Above(k)
      BY <1>2, <1>3, <2>1
    <3> HIDE DEF Above
    <3>2. /\ Cardinality(Above(j)) <= Cardinality(Above(k))
          /\ Cardinality(Above(j)) # Cardinality(Above(k))
      BY <1>5, <3>1, FS_Subset
    <3>3. QED
      BY <1>5, <3>2
  <2> HIDE DEF Above
  <2>2. \A k \in D : r[k] = 1 + Cardinality(Above(k))
    OBVIOUS
  <2> HIDE DEF r
  <2>3. ASSUME NEW j \in D, NEW k \in D, Better(scored[j], scored[k])
        PROVE  r[j] < r[k]
    BY <1>5, <2>1, <2>2, <2>3
  <2>4. QED
    BY <2>3
<1>8. r \in [D -> D]
  <2>1. \A k \in D : 1 + Cardinality(Above(k)) \in D
    <3> HIDE DEF Above
    <3>1. QED
      BY <1>5, <1>6 DEF D
  <2>2. QED
    BY <2>1
<1> HIDE DEF r
<1>9. r \in Injection(D, D)
  <2>1. \A j, k \in D : r[j] \in Int
    BY <1>8 DEF D
  <2>2. \A j, k \in D : r[j] = r[k] => j = k
    BY <1>4, <1>7, <2>1
  <2>3. QED
    BY <1>8, <2>2 DEF Injection, IsInjective
<1>10. r \in Surjection(D, D)
  BY <1>1, <1>9, FS_Injection
<1>11. \A k \in D : \E j \in D : r[j] = k
  BY <1>10 DEF Surjection
<1> DEFINE p == [k \in D |-> CHOOSE j \in D : r[j] = k]
<1>12. \A k \in D : p[k] \in D /\ r[p[k]] = k
  BY <1>11
<1>13. p \in [D -> D]
  BY <1>12
<1> HIDE DEF p
<1>14. p \in Bijection(D, D)
  <2>1. p \in Injection(D, D)
    BY <1>12, <1>13 DEF Injection, IsInjective
  <2>2. p \in Surjection(D, D)
    BY <1>1, <2>1, FS_Injection
  <2>3. QED
    BY <2>1, <2>2 DEF Bijection
<1>15. ASSUME NEW j \in D, NEW k \in D, j < k
       PROVE  Better(scored[p[j]], scored[p[k]])
  <2>1. p[j] # p[k] /\ ~(r[p[k]] < r[p[j]])
    BY <1>12, <1>15 DEF D
  <2>2. QED
    BY <1>4, <1>7, <1>12, <2>1
<1>16. DOMAIN scored = D
  BY DEF Scored, D
<1>17. QED
  BY <1>14, <1>15, <1>16 DEF Order, D

-----------------------------------------------------------------------------
(* One call of the ranking service.                                        *)

\* The reply ranked is the ranking that the request and the lookups call for.
IsRanking(ranked) ==
  LET item(n) == ranked[n].candidate.item
      before(i, j) == \/ Deserves(i) > Deserves(j)
                      \/ Deserves(i) = Deserves(j) /\ i < j IN
  /\ Len(ranked) = Fewer(request.max_results, Cardinality(Offers))
  /\ \A n \in DOMAIN ranked :
       /\ item(n) \in Offers
       /\ ranked[n].score = Deserves(item(n))
       /\ ToSet(ranked[n].candidate.from) = Positions(item(n))
       /\ \A i \in Offers \ {item(m) : m \in 1..n} : before(item(n), i)
       /\ \A m \in 1..(n - 1) : before(item(m), item(n))

\* The candidates in the reply have what their occurrences add up to.
CarryTheirTotals(ranked) ==
  \A n \in DOMAIN ranked :
    ranked[n].candidate.score = Total(request.candidates, ranked[n].candidate.item)

\* The candidates are merged, and the documents found so far are in their order.
AtWork ==
  /\ Valid(request)
  /\ merged = NormalizeAndMergeCandidates(request.candidates)
  /\ \A n \in DOMAIN entries : entries[n] = found[merged[n].item]

RankInv ==
  /\ RankTypeOK
  /\ rank_pc # "idle" => AtWork
  /\ rank_pc = "lookup" => Len(entries) < Len(merged)
  /\ rank_pc = "score" => Len(entries) = Len(merged)
  /\ rank_pc = "idle" =>
       IF rank_reply.status = "success"
       THEN \E ranked : /\ ranked = rank_reply.ranked
                        /\ IsRanking(ranked) /\ CarryTheirTotals(ranked)
       ELSE rank_reply.ranked = <<>>

LEMMA MergedIs ==
  ASSUME RankTypeOK, AtWork
  PROVE  /\ merged \in Seq(Merged)
         /\ \A n \in DOMAIN merged :
              /\ merged[n] \in Merged
              /\ merged[n].item \in Item
              /\ merged[n].score \in Nat
              /\ merged[n].item \in Offers
              /\ merged[n].score = Total(request.candidates, merged[n].item)
              /\ ToSet(merged[n].from) = Positions(merged[n].item)
         /\ \A m, n \in DOMAIN merged : merged[m].item = merged[n].item => m = n
         /\ \A i \in Offers : \E n \in DOMAIN merged : merged[n].item = i
         /\ Cardinality(Offers) = Len(merged)
<1>1. request.candidates \in Seq(Offered)
  BY DEF RankTypeOK, RankRequest
<1> DEFINE offered == request.candidates
<1>2. /\ MergeOf(merged, offered, Len(offered))
      /\ \A n \in DOMAIN merged : merged[n].score = Total(offered, merged[n].item)
  BY <1>1, Normalized DEF AtWork
<1>3. DOMAIN offered = 1 .. Len(offered)
  BY <1>1
<1>4. /\ merged \in Seq(Merged)
      /\ \A m, n \in DOMAIN merged : merged[m].item = merged[n].item => m = n
      /\ \A n \in DOMAIN merged :
           /\ \E j \in DOMAIN offered : offered[j].item = merged[n].item
           /\ ToSet(merged[n].from) = {j \in DOMAIN offered : offered[j].item = merged[n].item}
      /\ \A j \in DOMAIN offered : offered[j].item # 0 =>
           \E n \in DOMAIN merged : merged[n].item = offered[j].item
  BY <1>2, <1>3, Zenon DEF MergeOf
<1>5. \A n \in DOMAIN merged : merged[n] \in Merged
  BY <1>4
<1>6. \A n \in DOMAIN merged : merged[n].item \in Item /\ merged[n].score \in Nat
  BY <1>5 DEF Merged
<1> HIDE DEF offered
<1>7. /\ \A i \in Item : Positions(i) = {j \in DOMAIN offered : offered[j].item = i}
      /\ Offers = {i \in Item : Positions(i) # {}}
  BY DEF Positions, Offers, offered
<1>8. \A n \in DOMAIN merged :
        /\ merged[n].item \in Offers
        /\ ToSet(merged[n].from) = Positions(merged[n].item)
  <2> SUFFICES ASSUME NEW n \in DOMAIN merged
               PROVE  /\ merged[n].item \in Offers
                      /\ ToSet(merged[n].from) = Positions(merged[n].item)
    OBVIOUS
  <2>1. PICK i \in Item : i = merged[n].item
    BY <1>6
  <2>2. Positions(i) = {j \in DOMAIN offered : offered[j].item = i}
    BY <1>7
  <2>3. /\ \E j \in DOMAIN offered : offered[j].item = i
        /\ ToSet(merged[n].from) = {j \in DOMAIN offered : offered[j].item = i}
    BY <1>4, <2>1
  <2>4. i \in Offers
    BY <1>7, <2>2, <2>3
  <2>5. QED
    BY <2>1, <2>2, <2>3, <2>4
<1>9. \A i \in Offers : \E n \in DOMAIN merged : merged[n].item = i
  <2> SUFFICES ASSUME NEW i \in Offers
               PROVE  \E n \in DOMAIN merged : merged[n].item = i
    OBVIOUS
  <2>1. i \in Item /\ i # 0
    BY <1>7, RankingAssumption
  <2>2. PICK j \in DOMAIN offered : offered[j].item = i
    BY <1>7, <2>1
  <2>3. QED
    BY <1>4, <2>1, <2>2
<1>10. Cardinality(Offers) = Len(merged)
  <2> DEFINE D == 1 .. Len(merged)
             f == [n \in D |-> merged[n].item]
  <2>1. DOMAIN merged = D /\ Len(merged) \in Nat
    <3>1. merged \in Seq(Merged)
      BY <1>4
    <3>2. QED
      BY <3>1
  <2>2. IsFiniteSet(D) /\ Cardinality(D) = Len(merged)
    <3>1. PICK L \in Nat : L = Len(merged)
      BY <2>1
    <3>2. IsFiniteSet(1 .. L) /\ Cardinality(1 .. L) = L
      BY FS_Interval
    <3>3. QED
      BY <3>1, <3>2
  <2> HIDE DEF D
  <2>3. f \in [D -> Offers]
    BY <1>8, <2>1
  <2>4. \A m, n \in D : f[m] = f[n] => m = n
    BY <1>4, <2>1
  <2>5. \A i \in Offers : \E n \in D : f[n] = i
    BY <1>9, <2>1
  <2> HIDE DEF f
  <2>6. f \in Bijection(D, Offers)
    BY <2>3, <2>4, <2>5 DEF Bijection, Injection, Surjection, IsInjective
  <2>7. ExistsBijection(D, Offers)
    BY <2>6 DEF ExistsBijection
  <2>8. QED
    BY <2>2, <2>7, FS_Bijection
<1>11. QED
  BY <1>2, <1>4, <1>5, <1>6, <1>8, <1>9, <1>10 DEF offered

\* What Score returns.
LEMMA ScoredAreRanked ==
  ASSUME RankInv, rank_pc = "score",
         NEW scored, scored = [n \in DOMAIN merged |-> ScoreCandidate(n)],
         NEW ranked, ranked = SubSeq(Sorted(scored), 1,
                                     Fewer(request.max_results, Len(scored)))
  PROVE  ranked \in Seq(ScoredCandidate) /\ IsRanking(ranked) /\ CarryTheirTotals(ranked)
<1>1. RankTypeOK /\ AtWork /\ Len(entries) = Len(merged)
  BY DEF RankInv
<1> DEFINE N == Len(merged)
           item(n) == merged[n].item
<1>2. /\ DOMAIN merged = 1 .. N /\ N \in Nat
      /\ \A n \in 1 .. N :
           /\ merged[n] \in Merged /\ item(n) \in Item /\ merged[n].score \in Nat
           /\ item(n) \in Offers
           /\ merged[n].score = Total(request.candidates, item(n))
           /\ ToSet(merged[n].from) = Positions(item(n))
      /\ \A m, n \in 1 .. N : item(m) = item(n) => m = n
      /\ \A i \in Offers : \E n \in 1 .. N : item(n) = i
      /\ Cardinality(Offers) = N
  <2>1. merged \in Seq(Merged)
    BY <1>1, MergedIs
  <2>2. DOMAIN merged = 1 .. N /\ N \in Nat
    BY <2>1
  <2> HIDE DEF N
  <2>3. QED
    BY <1>1, <2>2, MergedIs DEF N
<1> HIDE DEF N
<1>3. \A n \in 1 .. N :
        entries[n] = found[item(n)] /\ entries[n] \in Features \cup {NoEntry}
  <2>1. entries \in Seq(Features \cup {NoEntry}) /\ DOMAIN entries = 1 .. N
    BY <1>1, <1>2 DEF RankTypeOK, N
  <2>2. \A n \in 1 .. N : entries[n] \in Features \cup {NoEntry}
    <3>1. PICK E : E = Features \cup {NoEntry}
      OBVIOUS
    <3>2. entries \in Seq(E)
      BY <2>1, <3>1
    <3>3. \A n \in DOMAIN entries : entries[n] \in E
      BY <3>2
    <3>4. QED
      BY <2>1, <3>1, <3>3
  <2>3. QED
    BY <1>1, <2>1, <2>2 DEF AtWork
<1>4. \A n \in 1 .. N :
        /\ scored[n].candidate = merged[n]
        /\ scored[n].score = Deserves(item(n))
        /\ scored[n] \in ScoredCandidate
  <2> SUFFICES ASSUME NEW n \in 1 .. N
               PROVE  /\ scored[n].candidate = merged[n]
                      /\ scored[n].score = Deserves(item(n))
                      /\ scored[n] \in ScoredCandidate
    OBVIOUS
  <2>1. scored[n] = [candidate |-> merged[n],
                     score |-> merged[n].score - Dislike[item(n)]
                                 + (IF entries[n] = NoEntry THEN 0 ELSE entries[n])]
    BY <1>2 DEF ScoreCandidate
  <2>2. /\ merged[n].score \in Int /\ Dislike[item(n)] \in Int
        /\ (IF entries[n] = NoEntry THEN 0 ELSE entries[n]) \in Int
    <3>1. PICK i \in Item : i = item(n)
      BY <1>2
    <3>2. Dislike[i] \in Nat
      BY RankingAssumption
    <3>3. entries[n] # NoEntry => entries[n] \in Int
      BY <1>3, RankingAssumption
    <3>4. QED
      BY <1>2, <3>1, <3>2, <3>3
  <2>3. scored[n].score = Deserves(item(n))
    BY <1>2, <1>3, <2>1 DEF Deserves
  <2>4. scored[n].score \in Int
    BY <2>1, <2>2
  <2>5. scored[n] \in ScoredCandidate
    BY <1>2, <2>1, <2>4 DEF ScoredCandidate
  <2>6. QED
    BY <2>1, <2>3, <2>5
<1>5. DOMAIN scored = 1 .. N /\ Len(scored) = N /\ scored \in Seq(ScoredCandidate)
  <2>1. scored \in [1 .. N -> ScoredCandidate]
    BY <1>2, <1>4
  <2>2. QED
    BY <1>2, <2>1
<1>6. Scored(scored, N)
  BY <1>2, <1>4, <1>5 DEF Scored
<1> DEFINE p == Order(scored)
           sorted == Sorted(scored)
<1>7. /\ p \in Bijection(1 .. N, 1 .. N)
      /\ \A j, k \in 1 .. N : j < k => Better(scored[p[j]], scored[p[k]])
  BY <1>2, <1>6, OrderSorts
<1>8. /\ \A n \in 1 .. N : p[n] \in 1 .. N
      /\ \A j \in 1 .. N : \E n \in 1 .. N : p[n] = j
  BY <1>7 DEF Bijection, Injection, Surjection
<1>9. sorted = [n \in 1 .. N |-> scored[p[n]]]
  BY <1>5 DEF Sorted
<1> HIDE DEF p, sorted
<1>10. sorted \in Seq(ScoredCandidate) /\ Len(sorted) = N
  <2>1. sorted \in [1 .. N -> ScoredCandidate]
    BY <1>4, <1>8, <1>9
  <2>2. QED
    BY <1>2, <2>1
<1> DEFINE size == Fewer(request.max_results, N)
<1>11. size \in 0 .. N
  BY <1>1, <1>2 DEF Fewer, AtWork, Valid, RankTypeOK, RankRequest
<1>12. /\ ranked \in Seq(ScoredCandidate)
       /\ Len(ranked) = size /\ DOMAIN ranked = 1 .. size
       /\ \A n \in 1 .. size : ranked[n] = sorted[n]
  <2>1. ranked = SubSeq(sorted, 1, size)
    BY <1>5 DEF sorted
  <2> HIDE DEF size
  <2>2. size \in Nat /\ size <= Len(sorted)
    BY <1>2, <1>10, <1>11
  <2>3. sorted \in Seq(ScoredCandidate)
    BY <1>10
  <2>4. IsFirst(SubSeq(sorted, 1, size), ScoredCandidate, sorted, size)
    BY <2>2, <2>3, PrefixIs
  <2>5. IsFirst(ranked, ScoredCandidate, sorted, size)
    BY <2>1, <2>4, Zenon
  <2>6. QED
    BY <2>5 DEF IsFirst
<1> DEFINE best(n) == item(p[n])
<1>13. \A n \in 1 .. N :
         /\ sorted[n].candidate = merged[p[n]]
         /\ sorted[n].score = Deserves(best(n))
         /\ best(n) \in Offers
         /\ ToSet(merged[p[n]].from) = Positions(best(n))
  BY <1>2, <1>4, <1>8, <1>9
<1> DEFINE before(i, j) == \/ Deserves(i) > Deserves(j)
                           \/ Deserves(i) = Deserves(j) /\ i < j
<1>14. ASSUME NEW j \in 1 .. N, NEW k \in 1 .. N, j < k
       PROVE  before(best(j), best(k))
  <2>1. PICK x \in 1 .. N, y \in 1 .. N : x = p[j] /\ y = p[k]
    BY <1>8
  <2>2. Better(scored[x], scored[y])
    BY <1>7, <1>14, <2>1
  <2>3. scored[x].candidate.item = item(x) /\ scored[y].candidate.item = item(y)
    BY <1>4
  <2>4. before(item(x), item(y))
    BY <1>4, <2>2, <2>3, Zenon DEF Better
  <2>5. QED
    BY <2>1, <2>4
<1>15. ASSUME NEW n \in 1 .. size
       PROVE  ranked[n].candidate.item = best(n)
  <2>1. n \in 1 .. N
    BY <1>2, <1>11
  <2>2. ranked[n] = sorted[n]
    BY <1>12
  <2>3. QED
    BY <1>13, <2>1, <2>2
<1>16. \A i \in Offers : \E n \in 1 .. N : best(n) = i
  <2> SUFFICES ASSUME NEW i \in Offers PROVE \E n \in 1 .. N : best(n) = i
    OBVIOUS
  <2>1. PICK j \in 1 .. N : item(j) = i
    BY <1>2
  <2>2. PICK n \in 1 .. N : p[n] = j
    BY <1>8
  <2>3. QED
    BY <2>1, <2>2
<1> HIDE DEF size, item, best, before
<1>17. ASSUME NEW n \in DOMAIN ranked
       PROVE  /\ ranked[n].candidate.item \in Offers
              /\ ranked[n].score = Deserves(ranked[n].candidate.item)
              /\ ToSet(ranked[n].candidate.from) = Positions(ranked[n].candidate.item)
              /\ \A i \in Offers \ {ranked[m].candidate.item : m \in 1 .. n} :
                   before(ranked[n].candidate.item, i)
              /\ \A m \in 1 .. (n - 1) :
                   before(ranked[m].candidate.item, ranked[n].candidate.item)
  <2>1. n \in 1 .. size /\ n \in 1 .. N
    BY <1>2, <1>11, <1>12
  <2>2. ASSUME NEW i \in Offers, \A m \in 1 .. n : ranked[m].candidate.item # i
        PROVE  before(ranked[n].candidate.item, i)
    <3>1. PICK k \in 1 .. N : best(k) = i
      BY <1>16
    <3>2. ~(k <= n)
      <4> SUFFICES ASSUME k <= n PROVE FALSE
        OBVIOUS
      <4>1. k \in 1 .. n /\ k \in 1 .. size
        BY <1>2, <1>11, <2>1
      <4>2. QED
        BY <1>15, <2>2, <3>1, <4>1
    <3>3. n < k
      BY <1>2, <2>1, <3>2
    <3>4. QED
      BY <1>14, <1>15, <2>1, <3>1, <3>3
  <2>3. ASSUME NEW m \in 1 .. (n - 1)
        PROVE  before(ranked[m].candidate.item, ranked[n].candidate.item)
    <3>1. m \in 1 .. size /\ m \in 1 .. N /\ m < n
      BY <1>2, <1>11, <2>1
    <3>2. QED
      BY <1>14, <1>15, <2>1, <3>1
  <2>4. /\ ranked[n].candidate.item \in Offers
        /\ ranked[n].score = Deserves(ranked[n].candidate.item)
        /\ ToSet(ranked[n].candidate.from) = Positions(ranked[n].candidate.item)
    BY <1>12, <1>13, <1>15, <2>1
  <2>5. QED
    BY <2>2, <2>3, <2>4
<1>18. Len(ranked) = Fewer(request.max_results, Cardinality(Offers))
  BY <1>2, <1>12 DEF size
<1>19. CarryTheirTotals(ranked)
  <2>1. \A n \in 1 .. size :
          ranked[n].candidate = merged[p[n]] /\ p[n] \in 1 .. N
    <3>1. \A n \in 1 .. size : n \in 1 .. N
      BY <1>2, <1>11
    <3>2. QED
      BY <1>8, <1>12, <1>13, <3>1
  <2>2. QED
    BY <1>2, <1>12, <2>1 DEF CarryTheirTotals, item
<1>20. QED
  BY <1>12, <1>17, <1>18, <1>19 DEF IsRanking, before

LEMMA SameRanking ==
  ASSUME UNCHANGED <<request, found>>, NEW ranked, IsRanking(ranked), CarryTheirTotals(ranked)
  PROVE  IsRanking(ranked)' /\ CarryTheirTotals(ranked)'
<1>1. Offers' = Offers /\ \A i : Positions(i)' = Positions(i)
  BY DEF Offers, Positions
<1>2. \A i : Deserves(i)' = Deserves(i)
  BY DEF Deserves
<1>3. request' = request
  OBVIOUS
<1>4. QED
  BY <1>1, <1>2, <1>3, Zenon DEF IsRanking, CarryTheirTotals

LEMMA RankKeeps ==
  ASSUME RankInv, NEW r \in RankRequest, Rank(r)
  PROVE  RankInv'
<1>1. RankTypeOK
  BY DEF RankInv
<1>2. r.candidates \in Seq(Offered)
  BY DEF RankRequest
<1>3. NormalizeAndMergeCandidates(r.candidates) \in Seq(Merged)
  BY <1>2, Normalized DEF MergeOf
<1>4. /\ request' = r /\ entries' = <<>>
      /\ found' = [i \in Item |-> NoEntry]
      /\ merged' = IF Valid(r) /\ r.ranker_known
                   THEN NormalizeAndMergeCandidates(r.candidates) ELSE <<>>
  BY DEF Rank
<1>5. \/ rank_pc' = "idle" /\ rank_reply' = RankReply("INVALID_ARGUMENT", "invalid_request", <<>>)
      \/ rank_pc' = "idle" /\ rank_reply' = RankReply("OK", "empty_candidates", <<>>)
      \/ /\ Valid(r) /\ r.ranker_known /\ merged' # <<>>
         /\ rank_pc' = "lookup" /\ rank_reply' = RankReply("OK", "none", <<>>)
  BY DEF Rank, Ranked
<1>6. merged' \in Seq(Merged)
  BY <1>3, <1>4
<1>7. RankTypeOK'
  <2>1. found' \in [Item -> Features \cup {NoEntry}]
    BY <1>4
  <2>2. entries' \in Seq(Features \cup {NoEntry}) /\ Len(entries') = 0
    BY <1>4
  <2>3. Len(merged') \in Nat
    BY <1>6
  <2>4. /\ rank_pc' \in {"idle", "lookup", "score"}
        /\ rank_reply'.code \in {"OK", "INVALID_ARGUMENT", "INTERNAL"}
        /\ rank_reply'.status \in RankStatus
        /\ rank_reply'.ranked = <<>>
    BY <1>5 DEF RankReply, RankStatus
  <2>5. <<>> \in Seq([candidate : Merged, score : Int])
    OBVIOUS
  <2>6. Len(entries') <= Len(merged')
    BY <2>2, <2>3
  <2>7. QED
    BY <1>4, <1>6, <2>1, <2>2, <2>4, <2>5, <2>6 DEF RankTypeOK
<1>8. CASE rank_pc' = "lookup" /\ Valid(r) /\ r.ranker_known /\ merged' # <<>>
  <2>1. merged' = NormalizeAndMergeCandidates(request'.candidates)
    BY <1>4, <1>8
  <2>2. Valid(request)'
    BY <1>4, <1>8 DEF Valid
  <2>3. DOMAIN entries' = {} /\ Len(entries') = 0
    BY <1>4
  <2>4. AtWork'
    BY <2>1, <2>2, <2>3 DEF AtWork
  <2>5. Len(entries') < Len(merged')
    BY <1>6, <1>8, <2>3
  <2>6. QED
    BY <1>7, <1>8, <2>4, <2>5 DEF RankInv
<1>9. CASE rank_pc' = "idle"
  <2>1. rank_reply'.status # "success" /\ rank_reply'.ranked = <<>>
    BY <1>5, <1>9 DEF RankReply
  <2>2. QED
    BY <1>7, <1>9, <2>1 DEF RankInv
<1>10. QED
  BY <1>5, <1>8, <1>9

LEMMA LookupKeeps ==
  ASSUME RankInv, NEW f \in Features \cup {NoEntry}, Lookup(f)
  PROVE  RankInv'
<1>1. RankTypeOK /\ AtWork /\ Len(entries) < Len(merged)
  BY DEF RankInv, Lookup
<1> DEFINE n == Len(entries) + 1
           i == merged[n].item
<1>2. /\ entries' = Append(entries, f) /\ found' = [found EXCEPT ![i] = f]
      /\ rank_pc' = IF Len(entries') = Len(merged) THEN "score" ELSE "lookup"
      /\ UNCHANGED <<request, merged, rank_reply>>
  BY DEF Lookup
<1>3. /\ merged \in Seq(Merged)
      /\ \A m \in DOMAIN merged : merged[m].item \in Item
      /\ \A k, m \in DOMAIN merged : merged[k].item = merged[m].item => k = m
  BY <1>1, MergedIs
<1>4. PICK E : E = Features \cup {NoEntry}
  OBVIOUS
<1>5. entries \in Seq(E) /\ found \in [Item -> E] /\ f \in E
  BY <1>1, <1>4 DEF RankTypeOK
<1>6. Len(entries) \in Nat /\ DOMAIN entries = 1 .. Len(entries)
  BY <1>5
<1>7. Len(merged) \in Nat /\ DOMAIN merged = 1 .. Len(merged)
  BY <1>3
<1>8. n \in DOMAIN merged /\ i \in Item /\ \A m \in DOMAIN entries : m \in DOMAIN merged /\ m # n
  BY <1>1, <1>3, <1>6, <1>7
<1>9. /\ entries' \in Seq(E) /\ Len(entries') = n /\ DOMAIN entries' = 1 .. n
      /\ \A m \in DOMAIN entries : entries'[m] = entries[m]
      /\ entries'[n] = f
  BY <1>2, <1>5, <1>6
<1>10. found' \in [Item -> E] /\ found'[i] = f /\ \A j \in Item : j # i => found'[j] = found[j]
  BY <1>2, <1>5, <1>8
<1>11. \A m \in DOMAIN entries' : entries'[m] = found'[merged[m].item]
  <2> SUFFICES ASSUME NEW m \in DOMAIN entries'
               PROVE  entries'[m] = found'[merged[m].item]
    OBVIOUS
  <2>1. CASE m = n
    BY <1>9, <1>10, <2>1
  <2>2. CASE m # n
    <3>1. m \in DOMAIN entries
      BY <1>6, <1>9, <2>2
    <3>2. merged[m].item \in Item /\ merged[m].item # i
      BY <1>3, <1>8, <2>2, <3>1
    <3>3. QED
      BY <1>1, <1>9, <1>10, <3>1, <3>2 DEF AtWork
  <2>3. QED
    BY <2>1, <2>2
<1>12. Len(entries') <= Len(merged)
  BY <1>1, <1>6, <1>7, <1>9
<1> HIDE DEF n, i
<1>13. RankTypeOK'
  <2>1. rank_pc' \in {"idle", "lookup", "score"}
    BY <1>2
  <2>2. QED
    BY <1>1, <1>2, <1>4, <1>9, <1>10, <1>12, <2>1 DEF RankTypeOK
<1>14. AtWork'
  BY <1>1, <1>2, <1>11 DEF AtWork, Valid
<1>15. /\ rank_pc' = "lookup" => Len(entries') < Len(merged')
       /\ rank_pc' = "score" => Len(entries') = Len(merged')
       /\ rank_pc' # "idle"
  <2>1. Len(entries') \in Nat
    BY <1>6, <1>9 DEF n
  <2>2. merged' = merged
    BY <1>2
  <2>3. CASE Len(entries') = Len(merged)
    BY <1>2, <2>2, <2>3
  <2>4. CASE Len(entries') # Len(merged)
    <3>1. PICK a, b : a = Len(entries') /\ b = Len(merged)
      OBVIOUS
    <3>2. a \in Nat /\ b \in Nat /\ a <= b /\ a # b
      BY <1>7, <1>12, <2>1, <2>4, <3>1
    <3>3. a < b
      BY <3>2
    <3>4. rank_pc' = "lookup"
      BY <1>2, <2>4
    <3>5. QED
      BY <2>2, <3>1, <3>3, <3>4
  <2>5. QED
    BY <2>3, <2>4
<1>16. QED
  BY <1>13, <1>14, <1>15 DEF RankInv

LEMMA ScoreKeeps ==
  ASSUME RankInv, Score
  PROVE  RankInv'
<1>1. RankTypeOK /\ rank_pc = "score"
  BY DEF RankInv, Score
<1>2. PICK scored : scored = [n \in DOMAIN merged |-> ScoreCandidate(n)]
  OBVIOUS
<1>3. PICK ranked : ranked = SubSeq(Sorted(scored), 1, Fewer(request.max_results, Len(scored)))
  OBVIOUS
<1>4. ranked \in Seq(ScoredCandidate) /\ IsRanking(ranked) /\ CarryTheirTotals(ranked)
  BY <1>1, <1>2, <1>3, ScoredAreRanked
<1>5. rank_pc' = "idle" /\ rank_reply' = RankReply("OK", "success", ranked)
  BY <1>2, <1>3 DEF Score, Ranked
<1>6. UNCHANGED <<request, merged, entries, found>>
  BY DEF Score
<1>7. rank_reply'.code = "OK" /\ rank_reply'.status = "success" /\ rank_reply'.ranked = ranked
  BY <1>5 DEF RankReply
<1>8. IsRanking(ranked)' /\ CarryTheirTotals(ranked)'
  BY <1>4, <1>6, SameRanking
<1>9. RankTypeOK'
  BY <1>1, <1>4, <1>5, <1>6, <1>7 DEF RankTypeOK, RankStatus, ScoredCandidate
<1>10. QED
  BY <1>5, <1>7, <1>8, <1>9 DEF RankInv

LEMMA RankStepKeeps ==
  ASSUME RankInv, RankStep
  PROVE  RankInv'
<1>1. CASE LookupFails
  <2>1. RankTypeOK
    BY DEF RankInv
  <2>2. /\ rank_pc' = "idle" /\ UNCHANGED <<request, merged, entries, found>>
        /\ rank_reply' = RankReply("INTERNAL", "system_error", <<>>)
    BY <1>1 DEF LookupFails, Ranked
  <2>3. /\ rank_reply'.code = "INTERNAL" /\ rank_reply'.status = "system_error"
        /\ rank_reply'.ranked = <<>>
    BY <2>2 DEF RankReply
  <2>4. <<>> \in Seq([candidate : Merged, score : Int])
    OBVIOUS
  <2>5. RankTypeOK'
    BY <2>1, <2>2, <2>3, <2>4 DEF RankTypeOK, RankStatus
  <2>6. QED
    BY <2>2, <2>3, <2>5 DEF RankInv
<1>2. QED
  BY <1>1, LookupKeeps, ScoreKeeps DEF RankStep

LEMMA RankStutters ==
  ASSUME RankInv, UNCHANGED ranking
  PROVE  RankInv'
<1>1. UNCHANGED <<rank_pc, request, merged, entries, found, rank_reply>>
  BY DEF ranking
<1>2. RankTypeOK' /\ (AtWork <=> AtWork')
  BY <1>1 DEF RankInv, RankTypeOK, AtWork, Valid
<1>3. \A ranked : IsRanking(ranked) /\ CarryTheirTotals(ranked)
                   => IsRanking(ranked)' /\ CarryTheirTotals(ranked)'
  BY <1>1, SameRanking
<1>4. QED
  BY <1>1, <1>2, <1>3 DEF RankInv

LEMMA RankInitKeeps == RankInit => RankInv
<1> SUFFICES ASSUME RankInit PROVE RankInv
  OBVIOUS
<1>1. /\ rank_reply.code = "OK" /\ rank_reply.status = "none" /\ rank_reply.ranked = <<>>
      /\ rank_pc = "idle" /\ merged = <<>> /\ entries = <<>>
  BY DEF RankInit, RankReply
<1>2. request \in RankRequest
  <2>1. <<>> \in Seq(Offered)
    OBVIOUS
  <2>2. QED
    BY <2>1 DEF RankInit, NoRequest, RankRequest
<1>3. found \in [Item -> Features \cup {NoEntry}]
  BY DEF RankInit
<1>4. /\ <<>> \in Seq(Merged) /\ <<>> \in Seq(Features \cup {NoEntry}) /\ Len(<<>>) = 0
      /\ <<>> \in Seq([candidate : Merged, score : Int])
  OBVIOUS
<1>5. RankTypeOK
  BY <1>1, <1>2, <1>3, <1>4 DEF RankTypeOK, RankStatus
<1>6. QED
  BY <1>1, <1>5 DEF RankInv

LEMMA RankInvIsEnough == RankInv => RankedAreTheBest
<1> SUFFICES ASSUME RankInv PROVE RankedAreTheBest
  OBVIOUS
<1>1. RankDone => rank_pc = "idle"
  BY DEF RankDone
<1>2. RankTypeOK
  BY DEF RankInv
<1>3. RankDone /\ rank_reply.status # "success" => rank_reply.ranked = <<>>
  BY <1>1 DEF RankInv
<1>4. RankDone /\ rank_reply.status = "success" => IsRanking(rank_reply.ranked)
  BY <1>1 DEF RankInv
<1>5. QED
  BY <1>2, <1>3, <1>4 DEF RankedAreTheBest, IsRanking

\* The ranking service called with any requests: whatever the lookups find, a
\* ranking has the best items in their order, with the scores they deserve.
THEOREM RankingIsRight ==
  ASSUME NEW CONSTANT R, R \subseteq RankRequest
  PROVE  RankInit /\ [][RankNext(R)]_ranking => []RankedAreTheBest
<1>1. RankInv /\ [RankNext(R)]_ranking => RankInv'
  BY RankKeeps, RankStepKeeps, RankStutters DEF RankNext
<1>2. QED
  BY <1>1, RankInitKeeps, RankInvIsEnough, PTL

-----------------------------------------------------------------------------
(* The gateway.                                                            *)

\* What retrieval answers: different items, not more than were asked for.
RetrievedOK ==
  /\ retrieved \in Seq([item : Item, score : Scores])
  /\ \A i, j \in DOMAIN retrieved : retrieved[i].item = retrieved[j].item => i = j
  /\ retrieved # <<>> => Len(retrieved) <= max_results

\* The ranking service was called with what the others answered.
Asked == request = [user_id |-> user_id, profile |-> profile, max_results |-> max_results,
                    ranker_known |-> TRUE, candidates |-> retrieved]

\* What the reply of the ranking service says about the call.
RankVerdict ==
  \/ rank_reply.status = "success" /\ rank_reply.code = "OK"
     /\ max_results > 0 /\ OwnProfile /\ retrieved # <<>>
  \/ rank_reply.status = "invalid_request" /\ rank_reply.code = "INVALID_ARGUMENT"
     /\ (max_results <= 0 \/ ~OwnProfile)
  \/ rank_reply.status = "empty_candidates" /\ rank_reply.code = "OK"
     /\ max_results > 0 /\ OwnProfile /\ retrieved = <<>>
  \/ rank_reply.status = "system_error" /\ rank_reply.code = "INTERNAL"

Served ==
  response.status = "SUCCESS" =>
    /\ Len(response.candidates) = Len(retrieved)
    /\ \A n \in DOMAIN retrieved :
         \E m \in DOMAIN response.candidates :
           /\ response.candidates[m].item = retrieved[n].item
           /\ response.candidates[m].score = retrieved[n].score

Blamed ==
  /\ <<response.code, response.status>> \in
       {<<"OK", "SUCCESS">>, <<"NOT_FOUND", "USER_NOT_FOUND">>,
        <<"INVALID_ARGUMENT", "INVALID_REQUEST">>, <<"INTERNAL", "SYSTEM_ERROR">>}
  /\ response.status = "SUCCESS" <=> response.candidates # <<>>
  /\ response.status = "USER_NOT_FOUND" => ~existed /\ ~trouble
  /\ response.status = "INVALID_REQUEST" =>
       existed /\ (max_results <= 0 \/ user_id <= 0 \/ ~OwnProfile)
  /\ response.status = "SYSTEM_ERROR" =>
       \/ trouble
       \/ max_results > 0 /\ user_id > 0 /\ OwnProfile /\ retrieved = <<>>
  /\ response.status = "SUCCESS" => existed /\ max_results > 0 /\ user_id > 0 /\ OwnProfile

\* What the call knows at each of its steps.
Known ==
  /\ pc = "get_profile" => retrieved = <<>> /\ ~existed /\ ~trouble
  /\ pc = "profile_reply" =>
       /\ retrieved = <<>>
       /\ \/ reply.code = "OK" /\ existed /\ profile \in ProfileIds
          \/ reply.code = "NOT_FOUND" /\ ~existed /\ ~trouble
          \/ reply.code \in {"INTERNAL", "UNAVAILABLE"} /\ trouble
  /\ pc \in {"retrieve", "retrieve_reply", "rank", "ranking", "rank_reply"} =>
       existed /\ profile \in ProfileIds
  /\ pc = "retrieve" => retrieved = <<>>
  /\ pc = "retrieve_reply" =>
       /\ reply.status = "success"
       /\ \/ reply.code = "OK" /\ user_id > 0
          \/ reply.code = "INVALID_ARGUMENT" /\ user_id <= 0
          \/ reply.code \in {"INTERNAL", "UNAVAILABLE"} /\ trouble
  /\ pc \in {"rank", "ranking", "rank_reply"} => user_id > 0
  /\ pc = "ranking" =>
       /\ Asked
       /\ rank_pc # "idle" => max_results > 0 /\ OwnProfile /\ retrieved # <<>>
       /\ rank_pc = "idle" => RankVerdict
  /\ pc # "ranking" => rank_pc = "idle"
  /\ pc = "rank_reply" =>
       \/ reply.code \in {"INTERNAL", "UNAVAILABLE"} /\ reply.status = "success" /\ trouble
       \/ /\ Asked /\ RankVerdict /\ rank_reply.status # "system_error"
          /\ reply = Reply(rank_reply.code, rank_reply.status)
  /\ pc = "idle" /\ response.status # "none" => Blamed /\ Served

GInv == TypeOK /\ RankInv /\ RetrievedOK /\ Known

LEMMA RankingTypeKept ==
  ASSUME TypeOK, RankTypeOK', UNCHANGED <<user_id, max_results>>,
         pc' \in State, profile' \in Int \cup {NoProfile}, retrieved' \in Seq(Offered),
         reply'.code \in Code, response'.code \in Code \ {"UNAVAILABLE"},
         response'.status \in RecommendationStatus, response'.candidates \in Seq(Merged),
         existed' \in BOOLEAN, trouble' \in BOOLEAN
  PROVE  TypeOK'
BY DEF TypeOK

LEMMA SubSequences ==
  ASSUME NEW A, NEW B, A \subseteq B, NEW s \in Seq(A)
  PROVE  s \in Seq(B)
<1>1. Len(s) \in Nat /\ s \in [1 .. Len(s) -> A]
  OBVIOUS
<1>2. s \in [1 .. Len(s) -> B]
  BY <1>1
<1>3. QED
  BY <1>1, <1>2

LEMMA ReplyIs ==
  ASSUME NEW code, NEW status
  PROVE  /\ Reply(code, status).code = code
         /\ Reply(code, status).status = IF code = "OK" THEN status ELSE "success"
BY DEF Reply

\* An RPC comes back: what went wrong on the way or in a store is trouble.
LEMMA Replied ==
  ASSUME NEW next, NEW code, NEW status, Replies(next, Reply(code, status)),
         trouble \in BOOLEAN
  PROVE  /\ pc' = next
         /\ reply' = Reply(code, status)
         /\ reply'.code = code
         /\ reply'.status = IF code = "OK" THEN status ELSE "success"
         /\ code \in {"INTERNAL", "UNAVAILABLE"} => trouble' = TRUE
         /\ code \notin {"INTERNAL", "UNAVAILABLE"} => trouble' = trouble
         /\ trouble' \in BOOLEAN
<1>1. pc' = next /\ reply' = Reply(code, status)
  BY DEF Replies
<1>2. trouble' = (trouble \/ Reply(code, status).code \in {"INTERNAL", "UNAVAILABLE"})
  BY DEF Replies
<1>3. Reply(code, status).code = code
  BY ReplyIs
<1>4. trouble' = (trouble \/ code \in {"INTERNAL", "UNAVAILABLE"})
  BY <1>2, <1>3
<1>5. trouble' \in BOOLEAN
  BY <1>4
<1>6. CASE code \in {"INTERNAL", "UNAVAILABLE"}
  <2>1. trouble' = TRUE
    BY <1>4, <1>6
  <2>2. QED
    BY <1>1, <1>5, <1>6, <2>1, ReplyIs
<1>7. CASE code \notin {"INTERNAL", "UNAVAILABLE"}
  <2>1. trouble' = trouble
    BY <1>4, <1>7
  <2>2. QED
    BY <1>1, <1>5, <1>7, <2>1, ReplyIs
<1>8. QED
  BY <1>6, <1>7

LEMMA GetProfileKeeps ==
  ASSUME GInv, GetProfile
  PROVE  GInv'
<1>1. TypeOK /\ RankInv /\ RetrievedOK /\ Known /\ pc = "get_profile" /\ trouble \in BOOLEAN
  BY DEF GInv, GetProfile, TypeOK
<1>2. /\ retrieved = <<>> /\ ~existed /\ ~trouble /\ rank_pc = "idle"
  BY <1>1 DEF Known
<1>3. UNCHANGED <<user_id, max_results, retrieved, response, ranking>> /\ pc' = "profile_reply"
  BY DEF GetProfile, Replies
<1>4. \/ reply'.code = "OK" /\ existed' /\ existed' = TRUE /\ profile' \in ProfileIds
      \/ reply'.code = "NOT_FOUND" /\ trouble' = trouble /\ UNCHANGED <<profile, existed>>
      \/ reply'.code \in {"INTERNAL", "UNAVAILABLE"} /\ trouble' = TRUE
         /\ UNCHANGED <<profile, existed>>
  <2>1. CASE Replies("profile_reply", Reply("OK", "success")) /\ profile' \in ProfileIds
             /\ existed' = TRUE
    BY <2>1, ReplyIs DEF Replies
  <2>2. CASE Replies("profile_reply", Reply("NOT_FOUND", "success"))
             /\ UNCHANGED <<profile, existed>>
    BY <1>1, <1>2, <2>2, Replied
  <2>3. CASE Replies("profile_reply", Reply("INTERNAL", "success"))
             /\ UNCHANGED <<profile, existed>>
    BY <1>1, <2>3, Replied
  <2>4. CASE Replies("profile_reply", Unavailable) /\ UNCHANGED <<profile, existed>>
    BY <1>1, <2>4, Replied DEF Unavailable
  <2>5. QED
    BY <2>1, <2>2, <2>3, <2>4 DEF GetProfile
<1>5. trouble' \in BOOLEAN /\ existed' \in BOOLEAN /\ profile' \in Int \cup {NoProfile}
      /\ reply'.code \in Code
  BY <1>1, <1>4, GatewayAssumption DEF GetProfile, Replies, TypeOK, Code
<1>6. RankInv'
  BY <1>1, <1>3, RankStutters
<1>7. TypeOK'
  BY <1>1, <1>3, <1>5, <1>6, RankingTypeKept DEF TypeOK, State, RankInv
<1>8. RetrievedOK'
  BY <1>1, <1>3 DEF RetrievedOK
<1>9. Known'
  BY <1>2, <1>3, <1>4 DEF Known, ranking
<1>10. QED
  BY <1>6, <1>7, <1>8, <1>9 DEF GInv

LEMMA RecommendKeeps ==
  ASSUME GInv, NEW user \in UserIds, NEW n \in MaxResults, Recommend(user, n)
  PROVE  GInv'
<1>1. TypeOK /\ RankInv /\ Known /\ pc = "idle" /\ rank_pc = "idle"
  BY DEF GInv, Recommend, Known
<1>2. /\ UNCHANGED <<reply, ranking>> /\ pc' = "get_profile" /\ retrieved' = <<>>
      /\ ~existed' /\ ~trouble' /\ existed' \in BOOLEAN /\ trouble' \in BOOLEAN
      /\ user_id' = user /\ max_results' = n /\ profile' = NoProfile
      /\ response' = Response("OK", "none", <<>>)
  BY DEF Recommend
<1>3. user \in Int /\ n \in Int
  BY GatewayAssumption
<1>4. RankInv'
  BY <1>1, <1>2, RankStutters
<1>5. /\ response'.code = "OK" /\ response'.status = "none" /\ response'.candidates = <<>>
      /\ <<>> \in Seq(Merged) /\ <<>> \in Seq(Offered)
      /\ <<>> \in Seq([item : Item, score : Scores])
  BY <1>2 DEF Response
<1>6. TypeOK'
  BY <1>1, <1>2, <1>3, <1>4, <1>5
  DEF TypeOK, State, RankInv, Code, RecommendationStatus
<1>7. RetrievedOK'
  BY <1>2, <1>5 DEF RetrievedOK
<1>8. Known'
  BY <1>1, <1>2 DEF Known, ranking
<1>9. QED
  BY <1>4, <1>6, <1>7, <1>8 DEF GInv

\* Recommend returns without results.
LEMMA RespondErrorKeeps ==
  ASSUME GInv, NEW code, NEW status, Respond(code, status, <<>>),
         <<code, status>> \in {<<"NOT_FOUND", "USER_NOT_FOUND">>,
                               <<"INVALID_ARGUMENT", "INVALID_REQUEST">>,
                               <<"INTERNAL", "SYSTEM_ERROR">>},
         UNCHANGED <<user_id, max_results, profile, retrieved, reply, history, ranking>>,
         rank_pc = "idle",
         status = "USER_NOT_FOUND" => ~existed /\ ~trouble,
         status = "INVALID_REQUEST" =>
           existed /\ (max_results <= 0 \/ user_id <= 0 \/ ~OwnProfile),
         status = "SYSTEM_ERROR" =>
           \/ trouble
           \/ max_results > 0 /\ user_id > 0 /\ OwnProfile /\ retrieved = <<>>
  PROVE  GInv'
<1>1. TypeOK /\ RankInv /\ RetrievedOK
  BY DEF GInv
<1>2. /\ pc' = "idle" /\ response'.code = code /\ response'.status = status
      /\ response'.candidates = <<>>
  BY DEF Respond, Response
<1>3. UNCHANGED <<existed, trouble>>
  BY DEF history
<1>4. RankInv'
  BY <1>1, RankStutters
<1>5. <<>> \in Seq(Merged)
  OBVIOUS
<1>6. TypeOK'
  BY <1>1, <1>2, <1>3, <1>4, <1>5
  DEF TypeOK, State, RankInv, Code, RecommendationStatus
<1>7. RetrievedOK'
  BY <1>1 DEF RetrievedOK
<1>8. Blamed' /\ Served'
  BY <1>2, <1>3 DEF Blamed, Served, OwnProfile
<1>9. Known'
  BY <1>2, <1>8 DEF Known, ranking
<1>10. QED
  BY <1>4, <1>6, <1>7, <1>9 DEF GInv

LEMMA FetchProfileKeeps ==
  ASSUME GInv, FetchProfile
  PROVE  GInv'
<1>1. TypeOK /\ RankInv /\ RetrievedOK /\ Known /\ pc = "profile_reply"
  BY DEF GInv, FetchProfile
<1>2. UNCHANGED <<user_id, max_results, profile, retrieved, reply, history, ranking>>
  BY DEF FetchProfile
<1>3. /\ rank_pc = "idle" /\ retrieved = <<>>
      /\ \/ reply.code = "OK" /\ existed /\ profile \in ProfileIds
         \/ reply.code = "NOT_FOUND" /\ ~existed /\ ~trouble
         \/ reply.code \in {"INTERNAL", "UNAVAILABLE"} /\ trouble
  BY <1>1 DEF Known
<1>4. CASE reply.code = "OK" /\ pc' = "retrieve" /\ UNCHANGED response
  <2>1. RankInv'
    BY <1>1, <1>2, RankStutters
  <2>2. UNCHANGED <<existed, trouble>>
    BY <1>2 DEF history
  <2>3. TypeOK'
    BY <1>1, <1>2, <1>4, <2>1, <2>2 DEF TypeOK, State, RankInv
  <2>4. RetrievedOK'
    BY <1>1, <1>2 DEF RetrievedOK
  <2>5. Known'
    BY <1>2, <1>3, <1>4, <2>2 DEF Known, ranking
  <2>6. QED
    BY <2>1, <2>3, <2>4, <2>5 DEF GInv
<1>5. CASE reply.code = "NOT_FOUND" /\ Respond("NOT_FOUND", "USER_NOT_FOUND", <<>>)
  BY <1>2, <1>3, <1>5, RespondErrorKeeps
<1>6. CASE reply.code \notin {"OK", "NOT_FOUND"} /\ Respond("INTERNAL", "SYSTEM_ERROR", <<>>)
  BY <1>2, <1>3, <1>6, RespondErrorKeeps
<1>7. QED
  BY <1>4, <1>5, <1>6 DEF FetchProfile

LEMMA RetrieveKeeps ==
  ASSUME GInv, Retrieve
  PROVE  GInv'
<1>1. TypeOK /\ RankInv /\ RetrievedOK /\ Known /\ pc = "retrieve" /\ trouble \in BOOLEAN
  BY DEF GInv, Retrieve, TypeOK
<1>2. UNCHANGED <<user_id, max_results, profile, response, existed, ranking>>
      /\ pc' = "retrieve_reply"
  BY DEF Retrieve, Replies
<1>3. rank_pc = "idle" /\ existed /\ profile \in ProfileIds /\ retrieved = <<>> /\ user_id \in Int
  BY <1>1 DEF Known, TypeOK
<1>4. profile # NoProfile
  BY <1>3, GatewayAssumption
<1>5. /\ reply'.status = "success" /\ reply'.code \in Code /\ trouble' \in BOOLEAN
      /\ \/ reply'.code = "OK" /\ user_id > 0
         \/ reply'.code = "INVALID_ARGUMENT" /\ user_id <= 0
         \/ reply'.code \in {"INTERNAL", "UNAVAILABLE"} /\ trouble'
  <2>1. CASE user_id > 0 /\ Replies("retrieve_reply", Reply("OK", "success"))
    BY <1>1, <2>1, Replied DEF Code
  <2>2. CASE (user_id <= 0 \/ profile = NoProfile)
             /\ Replies("retrieve_reply", Reply("INVALID_ARGUMENT", "success"))
    <3>1. user_id <= 0
      BY <1>3, <1>4, <2>2
    <3>2. QED
      BY <1>1, <2>2, <3>1, Replied DEF Code
  <2>3. CASE Replies("retrieve_reply", Reply("INTERNAL", "success"))
    BY <1>1, <2>3, Replied DEF Code
  <2>4. CASE Replies("retrieve_reply", Unavailable)
    BY <1>1, <2>4, Replied DEF Unavailable, Code
  <2>5. QED
    BY <2>1, <2>2, <2>3, <2>4 DEF Retrieve
<1>6. RetrievedOK'
  <2>1. CASE UNCHANGED retrieved
    BY <1>1, <1>2, <2>1 DEF RetrievedOK
  <2>2. CASE retrieved' \in Retrievable(max_results)
    <3>1. PICK s : s = retrieved'
      OBVIOUS
    <3> DEFINE bound == IF max_results < 0 THEN 0 ELSE max_results
               C == [item : Item, score : Scores]
    <3>2. /\ s \in SeqOf(C, bound)
          /\ \A i, j \in DOMAIN s : s[i].item = s[j].item => i = j
      BY <2>2, <3>1 DEF Retrievable
    <3>3. max_results \in Int /\ bound \in Nat
      BY <1>1 DEF TypeOK
    <3> HIDE DEF C
    <3>4. PICK m \in 0 .. bound : s \in [1 .. m -> C]
      BY <3>2 DEF SeqOf
    <3>5. s \in Seq(C) /\ Len(s) = m
      BY <3>3, <3>4
    <3>6. s # <<>> => Len(s) <= max_results
      BY <3>3, <3>4, <3>5
    <3>7. QED
      BY <1>2, <3>1, <3>2, <3>5, <3>6 DEF RetrievedOK, C
  <2>3. QED
    BY <2>1, <2>2 DEF Retrieve
<1>7. RankInv'
  BY <1>1, <1>2, RankStutters
<1>8. retrieved' \in Seq(Offered)
  <2>1. [item : Item, score : Scores] \subseteq Offered
    BY GatewayAssumption DEF Offered
  <2>2. retrieved' \in Seq([item : Item, score : Scores])
    BY <1>6 DEF RetrievedOK
  <2>3. QED
    BY <2>1, <2>2, SubSequences
<1>9. TypeOK'
  BY <1>1, <1>2, <1>5, <1>7, <1>8 DEF TypeOK, State, RankInv
<1>10. Known'
  BY <1>2, <1>3, <1>5 DEF Known, ranking
<1>11. QED
  BY <1>6, <1>7, <1>9, <1>10 DEF GInv

LEMMA FetchCandidatesKeeps ==
  ASSUME GInv, FetchCandidates
  PROVE  GInv'
<1>1. TypeOK /\ RankInv /\ RetrievedOK /\ Known /\ pc = "retrieve_reply"
  BY DEF GInv, FetchCandidates
<1>2. UNCHANGED <<user_id, max_results, profile, retrieved, reply, history, ranking>>
  BY DEF FetchCandidates
<1>3. /\ rank_pc = "idle" /\ existed /\ profile \in ProfileIds /\ reply.status = "success"
      /\ \/ reply.code = "OK" /\ user_id > 0
         \/ reply.code = "INVALID_ARGUMENT" /\ user_id <= 0
         \/ reply.code \in {"INTERNAL", "UNAVAILABLE"} /\ trouble
  BY <1>1 DEF Known
<1>4. CASE Accepted /\ pc' = "rank" /\ UNCHANGED response
  <2>1. RankInv'
    BY <1>1, <1>2, RankStutters
  <2>2. UNCHANGED <<existed, trouble>>
    BY <1>2 DEF history
  <2>3. TypeOK'
    BY <1>1, <1>2, <1>4, <2>1, <2>2 DEF TypeOK, State, RankInv
  <2>4. RetrievedOK'
    BY <1>1, <1>2 DEF RetrievedOK
  <2>5. Known'
    BY <1>2, <1>3, <1>4, <2>2 DEF Known, ranking, Accepted
  <2>6. QED
    BY <2>1, <2>3, <2>4, <2>5 DEF GInv
<1>5. CASE ~Accepted /\ RespondError
  <2>1. CASE Rejected /\ Respond("INVALID_ARGUMENT", "INVALID_REQUEST", <<>>)
    BY <1>2, <1>3, <2>1, RespondErrorKeeps DEF Rejected
  <2>2. CASE ~Rejected /\ Respond("INTERNAL", "SYSTEM_ERROR", <<>>)
    BY <1>2, <1>3, <1>5, <2>2, RespondErrorKeeps DEF Rejected, Accepted
  <2>3. QED
    BY <1>5, <2>1, <2>2 DEF RespondError
<1>6. QED
  BY <1>4, <1>5 DEF FetchCandidates

\* No candidates are left exactly if none were retrieved.
LEMMA EmptyMerge ==
  ASSUME RetrievedOK, retrieved \in Seq(Offered)
  PROVE  NormalizeAndMergeCandidates(retrieved) = <<>> <=> retrieved = <<>>
<1>1. PICK M : M = NormalizeAndMergeCandidates(retrieved)
  OBVIOUS
<1>2. MergeOf(M, retrieved, Len(retrieved))
  BY <1>1, Normalized
<1>3. M \in Seq(Merged)
  BY <1>2 DEF MergeOf
<1>4. CASE retrieved = <<>>
  <2>1. DOMAIN M = {}
    BY <1>2, <1>4 DEF MergeOf
  <2>2. QED
    BY <1>1, <1>3, <1>4, <2>1
<1>5. CASE retrieved # <<>>
  <2>1. 1 \in 1 .. Len(retrieved) /\ 1 \in DOMAIN retrieved
    BY <1>5
  <2>2. retrieved[1] \in [item : Item, score : Scores]
    <3>1. PICK C : C = [item : Item, score : Scores]
      OBVIOUS
    <3>2. retrieved \in Seq(C)
      BY <3>1 DEF RetrievedOK
    <3>3. \A n \in DOMAIN retrieved : retrieved[n] \in C
      BY <3>2
    <3>4. QED
      BY <2>1, <3>1, <3>3
  <2>3. retrieved[1].item # 0
    BY <2>2, RankingAssumption
  <2>4. DOMAIN M # {}
    BY <1>2, <2>1, <2>3 DEF MergeOf
  <2>5. QED
    BY <1>1, <1>5, <2>4
<1>6. QED
  BY <1>4, <1>5

LEMMA CallRankKeeps ==
  ASSUME GInv, CallRank
  PROVE  GInv'
<1>1. TypeOK /\ RankInv /\ RetrievedOK /\ Known /\ pc = "rank"
  BY DEF GInv, CallRank
<1>2. UNCHANGED <<call, history>> /\ pc' = "ranking"
  BY DEF CallRank
<1>3. UNCHANGED <<user_id, max_results, profile, retrieved, reply, response, existed, trouble>>
  BY <1>2 DEF call, history
<1>4. existed /\ profile \in ProfileIds /\ user_id > 0 /\ user_id \in Int /\ max_results \in Int
      /\ retrieved \in Seq(Offered)
  BY <1>1 DEF Known, TypeOK
<1>5. PICK r : r = [user_id |-> user_id, profile |-> profile, max_results |-> max_results,
                    ranker_known |-> TRUE, candidates |-> retrieved]
  OBVIOUS
<1>6. /\ r \in RankRequest /\ (Valid(r) <=> max_results > 0 /\ OwnProfile)
      /\ r.ranker_known /\ r.candidates = retrieved
  BY <1>4, <1>5, GatewayAssumption DEF RankRequest, Valid, OwnProfile
<1>7. Rank(r)
  BY <1>5 DEF CallRank
<1>8. RankInv'
  BY <1>1, <1>6, <1>7, RankKeeps
<1>9. request' = r
  BY <1>7 DEF Rank
<1>10. NormalizeAndMergeCandidates(retrieved) = <<>> <=> retrieved = <<>>
  BY <1>1, <1>4, EmptyMerge
<1>11. /\ rank_pc' # "idle" => max_results > 0 /\ OwnProfile' /\ retrieved # <<>>
       /\ rank_pc' = "idle" => RankVerdict'
  <2>1. CASE max_results <= 0 \/ ~OwnProfile
    <3>1. ~Valid(r)
      BY <1>4, <1>6, <2>1
    <3>2. rank_pc' = "idle" /\ rank_reply' = RankReply("INVALID_ARGUMENT", "invalid_request", <<>>)
      BY <1>7, <3>1 DEF Rank, Ranked
    <3>3. QED
      BY <1>3, <2>1, <3>2 DEF RankVerdict, RankReply, OwnProfile
  <2>2. CASE max_results > 0 /\ OwnProfile /\ retrieved = <<>>
    <3>1. Valid(r) /\ merged' = <<>>
      BY <1>6, <1>7, <1>10, <2>2 DEF Rank
    <3>2. rank_pc' = "idle" /\ rank_reply' = RankReply("OK", "empty_candidates", <<>>)
      BY <1>6, <1>7, <3>1 DEF Rank, Ranked
    <3>3. QED
      BY <1>3, <2>2, <3>2 DEF RankVerdict, RankReply, OwnProfile
  <2>3. CASE max_results > 0 /\ OwnProfile /\ retrieved # <<>>
    <3>1. Valid(r) /\ merged' # <<>>
      BY <1>6, <1>7, <1>10, <2>3 DEF Rank
    <3>2. rank_pc' = "lookup"
      BY <1>6, <1>7, <3>1 DEF Rank
    <3>3. QED
      BY <1>3, <2>3, <3>2 DEF OwnProfile
  <2>4. QED
    BY <1>4, <2>1, <2>2, <2>3
<1>12. TypeOK'
  BY <1>1, <1>2, <1>3, <1>8 DEF TypeOK, State, RankInv
<1>13. RetrievedOK'
  BY <1>1, <1>3 DEF RetrievedOK
<1>14. Asked'
  BY <1>3, <1>5, <1>9 DEF Asked
<1>15. Known'
  BY <1>2, <1>3, <1>4, <1>11, <1>14 DEF Known
<1>16. QED
  BY <1>8, <1>12, <1>13, <1>15 DEF GInv

LEMMA RankingWorksKeeps ==
  ASSUME GInv, RankingWorks
  PROVE  GInv'
<1>1. TypeOK /\ RankInv /\ RetrievedOK /\ Known /\ pc = "ranking"
  BY DEF GInv, RankingWorks
<1>2. UNCHANGED <<pc, call, history>> /\ RankStep
  BY DEF RankingWorks
<1>3. UNCHANGED <<pc, user_id, max_results, profile, retrieved, reply, response,
                  existed, trouble>>
  BY <1>2 DEF call, history
<1>4. RankInv'
  BY <1>1, <1>2, RankStepKeeps
<1>5. rank_pc # "idle" /\ UNCHANGED request
  BY <1>2 DEF RankStep, Lookup, LookupFails, Score
<1>6. existed /\ profile \in ProfileIds /\ user_id > 0 /\ Asked
      /\ max_results > 0 /\ OwnProfile /\ retrieved # <<>>
  BY <1>1, <1>5 DEF Known
<1>7. rank_pc' = "idle" => RankVerdict'
  <2>1. CASE \E f \in Features \cup {NoEntry} : Lookup(f)
    BY <2>1 DEF Lookup
  <2>2. CASE LookupFails
    BY <2>2 DEF LookupFails, Ranked, RankReply, RankVerdict
  <2>3. CASE Score
    <3>1. PICK ranked : rank_reply' = RankReply("OK", "success", ranked)
      BY <2>3 DEF Score, Ranked
    <3>2. QED
      BY <1>3, <1>6, <3>1 DEF RankReply, RankVerdict, OwnProfile
  <2>4. QED
    BY <1>2, <2>1, <2>2, <2>3 DEF RankStep
<1>8. TypeOK'
  BY <1>1, <1>3, <1>4 DEF TypeOK, RankInv
<1>9. RetrievedOK'
  BY <1>1, <1>3 DEF RetrievedOK
<1>10. Asked'
  BY <1>3, <1>5, <1>6 DEF Asked
<1>11. Known'
  BY <1>1, <1>3, <1>6, <1>7, <1>10 DEF Known, OwnProfile
<1>12. QED
  BY <1>4, <1>8, <1>9, <1>11 DEF GInv

LEMMA RankRepliesKeeps ==
  ASSUME GInv, RankReplies
  PROVE  GInv'
<1>1. TypeOK /\ RankInv /\ RetrievedOK /\ Known /\ pc = "ranking" /\ rank_pc = "idle"
      /\ trouble \in BOOLEAN
  BY DEF GInv, RankReplies, TypeOK
<1>2. UNCHANGED <<user_id, max_results, profile, retrieved, response, existed, ranking>>
      /\ pc' = "rank_reply"
  BY DEF RankReplies, Replies
<1>3. existed /\ profile \in ProfileIds /\ user_id > 0 /\ Asked /\ RankVerdict
  BY <1>1 DEF Known
<1>4. UNCHANGED <<rank_pc, request, rank_reply>>
  BY <1>2 DEF ranking
<1>5. RankInv'
  BY <1>1, <1>2, RankStutters
<1>6. Asked' /\ RankVerdict'
  BY <1>2, <1>3, <1>4 DEF Asked, RankVerdict, OwnProfile
<1>7. /\ reply'.code \in Code /\ trouble' \in BOOLEAN
      /\ \/ reply'.code \in {"INTERNAL", "UNAVAILABLE"} /\ reply'.status = "success" /\ trouble'
         \/ /\ rank_reply.status # "system_error"
            /\ reply' = Reply(rank_reply.code, rank_reply.status)
  <2>1. CASE Replies("rank_reply", Unavailable)
    BY <1>1, <2>1, Replied DEF Unavailable, Code
  <2>2. CASE Replies("rank_reply", Reply(rank_reply.code, rank_reply.status))
    <3>1. PICK code, status : code = rank_reply.code /\ status = rank_reply.status
      OBVIOUS
    <3>2. \/ code = "INTERNAL"
          \/ code \in {"OK", "INVALID_ARGUMENT"} /\ status # "system_error"
      BY <1>3, <3>1 DEF RankVerdict
    <3>3. Replies("rank_reply", Reply(code, status))
      BY <2>2, <3>1
    <3>4. QED
      BY <1>1, <3>1, <3>2, <3>3, Replied DEF Code
  <2>3. QED
    BY <2>1, <2>2 DEF RankReplies
<1>8. TypeOK'
  BY <1>1, <1>2, <1>5, <1>7 DEF TypeOK, State, RankInv
<1>9. RetrievedOK'
  BY <1>1, <1>2 DEF RetrievedOK
<1>10. Known'
  BY <1>1, <1>2, <1>3, <1>4, <1>6, <1>7 DEF Known
<1>11. QED
  BY <1>5, <1>8, <1>9, <1>10 DEF GInv

\* An item that is offered once has the score of that offer.
LEMMA TotalOfOne ==
  ASSUME NEW offered \in Seq(Offered), NEW n \in DOMAIN offered,
         \A j, k \in DOMAIN offered : offered[j].item = offered[k].item => j = k
  PROVE  Total(offered, offered[n].item) = offered[n].score
<1> DEFINE N == Len(offered)
<1>1. DOMAIN offered = 1 .. N /\ N \in Nat /\ n \in 1 .. N /\ offered[n].score \in Nat
  <2>1. offered[n] \in Offered
    OBVIOUS
  <2>2. QED
    BY <2>1 DEF Offered
<1>2. PICK h \in [0 .. N -> Nat] :
        /\ h[0] = 0
        /\ \A k \in 1 .. N : h[k] = IF offered[k].item = offered[n].item
                                    THEN h[k - 1] + offered[k].score ELSE h[k - 1]
        /\ Total(offered, offered[n].item) = h[N]
  BY TotalSteps
<1> HIDE DEF N
<1> DEFINE T == {k \in 0 .. N : h[k] = IF k < n THEN 0 ELSE offered[n].score}
<1>3. 0 \in T
  BY <1>1, <1>2
<1>4. ASSUME NEW k \in 0 .. (N - 1), k \in T PROVE k + 1 \in T
  <2>1. k + 1 \in 1 .. N /\ (k + 1) - 1 = k
    BY <1>1
  <2>2. CASE k + 1 = n
    <3>1. h[k] = 0 /\ h[k + 1] = h[k] + offered[n].score
      BY <1>2, <1>4, <2>1, <2>2
    <3>2. QED
      BY <1>1, <2>1, <2>2, <3>1
  <2>3. CASE k + 1 # n
    <3>1. offered[k + 1].item # offered[n].item
      BY <1>1, <2>1, <2>3
    <3>2. h[k + 1] = h[k]
      BY <1>2, <2>1, <3>1
    <3>3. QED
      BY <1>1, <1>4, <2>1, <2>3, <3>2
  <2>4. QED
    BY <2>2, <2>3
<1>5. N \in T
  <2> HIDE DEF T
  <2>1. 0 .. N \subseteq T
    BY <1>1, <1>3, <1>4, UpTo
  <2>2. QED
    BY <1>1, <2>1
<1>6. QED
  BY <1>1, <1>2, <1>5

\* A ranking of what was retrieved has all of it: every place is taken by another
\* item, and there are as many places as items.
LEMMA RankedRetrieved ==
  ASSUME RankTypeOK, RetrievedOK, Asked, retrieved \in Seq(Offered), retrieved # <<>>,
         max_results \in Int,
         NEW ranked \in Seq(ScoredCandidate), IsRanking(ranked), CarryTheirTotals(ranked)
  PROVE  /\ Len(ranked) = Len(retrieved)
         /\ \A n \in DOMAIN retrieved :
              \E m \in DOMAIN ranked :
                /\ ranked[m].candidate.item = retrieved[n].item
                /\ ranked[m].candidate.score = retrieved[n].score
<1> DEFINE N == Len(retrieved)
           D == 1 .. N
<1>1. request.candidates = retrieved /\ request.max_results = max_results
  BY DEF Asked
<1>2. /\ DOMAIN retrieved = D /\ N \in Nat /\ N <= max_results /\ N > 0
      /\ \A n \in D : retrieved[n].item \in Item
      /\ \A j, k \in D : retrieved[j].item = retrieved[k].item => j = k
  <2>1. PICK C : C = [item : Item, score : Scores]
    OBVIOUS
  <2>2. retrieved \in Seq(C)
    BY <2>1 DEF RetrievedOK
  <2>3. DOMAIN retrieved = D /\ N \in Nat /\ N > 0 /\ \A n \in D : retrieved[n] \in C
    BY <2>2
  <2>4. \A n \in D : retrieved[n].item \in Item
    BY <2>1, <2>3
  <2>5. QED
    BY <2>3, <2>4 DEF RetrievedOK
<1> HIDE DEF N
<1>3. Offers = {retrieved[n].item : n \in D}
  BY <1>1, <1>2 DEF Offers, Positions
<1>4. Cardinality(Offers) = N
  <2> DEFINE f == [n \in D |-> retrieved[n].item]
  <2>1. f \in Bijection(D, Offers)
    BY <1>2, <1>3 DEF Bijection, Injection, Surjection, IsInjective
  <2>2. IsFiniteSet(D) /\ Cardinality(D) = N
    BY <1>2, FS_Interval
  <2> HIDE DEF f, D
  <2>3. f \in Surjection(D, Offers) /\ f \in Injection(D, Offers)
    BY <2>1 DEF Bijection
  <2>4. QED
    BY <2>2, <2>3, FS_Surjection
<1>5. Len(ranked) = N /\ DOMAIN ranked = D
  <2>1. Len(ranked) = Fewer(max_results, N)
    BY <1>1, <1>4 DEF IsRanking
  <2>2. Len(ranked) = N
    BY <1>2, <2>1 DEF Fewer
  <2>3. QED
    BY <2>2
<1> DEFINE item(m) == ranked[m].candidate.item
<1>6. \A m \in D : \E n \in D : retrieved[n].item = item(m)
  <2>1. \A m \in D : item(m) \in Offers
    BY <1>5 DEF IsRanking
  <2>2. QED
    BY <1>3, <2>1
<1>7. \A m, n \in D : m < n => item(m) # item(n)
  <2> SUFFICES ASSUME NEW m \in D, NEW n \in D, m < n, item(m) = item(n)
               PROVE  FALSE
    OBVIOUS
  <2>1. PICK i : i = item(m) /\ i = item(n)
    OBVIOUS
  <2>2. m \in 1 .. (n - 1) /\ n \in DOMAIN ranked
    BY <1>2, <1>5
  <2>3. Deserves(i) > Deserves(i) \/ i < i
    BY <2>1, <2>2 DEF IsRanking
  <2>4. ranked[n].score = Deserves(i) /\ i \in Offers
    BY <2>1, <2>2 DEF IsRanking
  <2>5. Deserves(i) \in Int
    <3>1. ranked[n] \in ScoredCandidate
      BY <2>2
    <3>2. QED
      BY <2>4, <3>1 DEF ScoredCandidate
  <2>6. i \in Int
    BY <2>4, RankingAssumption DEF Offers
  <2>7. QED
    BY <2>3, <2>5, <2>6
<1> HIDE DEF item
<1> DEFINE g == [m \in D |-> CHOOSE n \in D : retrieved[n].item = item(m)]
<1>8. \A m \in D : g[m] \in D /\ retrieved[g[m]].item = item(m)
  BY <1>6
<1>9. g \in [D -> D]
  BY <1>8
<1> HIDE DEF g
<1>10. g \in Injection(D, D)
  <2>1. \A m, n \in D : g[m] = g[n] => m = n
    BY <1>2, <1>7, <1>8 DEF D
  <2>2. QED
    BY <1>9, <2>1 DEF Injection, IsInjective
<1>11. \A n \in D : \E m \in D : g[m] = n
  <2>1. IsFiniteSet(D)
    BY <1>2, FS_Interval
  <2> HIDE DEF D
  <2>2. g \in Surjection(D, D)
    BY <1>10, <2>1, FS_Injection
  <2>3. QED
    BY <2>2 DEF Surjection
<1>12. ASSUME NEW n \in D
       PROVE  \E m \in D : /\ ranked[m].candidate.item = retrieved[n].item
                           /\ ranked[m].candidate.score = retrieved[n].score
  <2>1. PICK m \in D : g[m] = n
    BY <1>11
  <2>2. ranked[m].candidate.item = retrieved[n].item
    BY <1>8, <2>1 DEF item
  <2>3. ranked[m].candidate.score = Total(retrieved, retrieved[n].item)
    BY <1>1, <1>5, <2>2 DEF CarryTheirTotals
  <2>4. Total(retrieved, retrieved[n].item) = retrieved[n].score
    BY <1>2, TotalOfOne
  <2>5. QED
    BY <2>2, <2>3, <2>4
<1>13. QED
  BY <1>2, <1>5, <1>12 DEF N

LEMMA FetchRankedCandidatesKeeps ==
  ASSUME GInv, FetchRankedCandidates
  PROVE  GInv'
<1>1. TypeOK /\ RankInv /\ RetrievedOK /\ Known /\ pc = "rank_reply"
  BY DEF GInv, FetchRankedCandidates
<1>2. UNCHANGED <<user_id, max_results, profile, retrieved, reply, history, ranking>>
  BY DEF FetchRankedCandidates
<1>3. rank_pc = "idle" /\ existed /\ profile \in ProfileIds /\ user_id > 0
      /\ \/ reply.code \in {"INTERNAL", "UNAVAILABLE"} /\ reply.status = "success" /\ trouble
         \/ /\ Asked /\ RankVerdict /\ rank_reply.status # "system_error"
            /\ reply = Reply(rank_reply.code, rank_reply.status)
  BY <1>1 DEF Known
<1>4. \/ reply.code \in {"INTERNAL", "UNAVAILABLE"} /\ reply.status = "success" /\ trouble
      \/ /\ reply.code = "INVALID_ARGUMENT" /\ reply.status = "success"
         /\ (max_results <= 0 \/ ~OwnProfile)
      \/ /\ reply.code = "OK" /\ reply.status = "empty_candidates"
         /\ max_results > 0 /\ OwnProfile /\ retrieved = <<>>
      \/ /\ reply.code = "OK" /\ reply.status = "success" /\ Asked
         /\ rank_reply.status = "success"
         /\ max_results > 0 /\ OwnProfile /\ retrieved # <<>>
  BY <1>3 DEF RankVerdict, Reply
<1>5. CASE ~Accepted /\ RespondError
  <2>1. CASE Rejected /\ Respond("INVALID_ARGUMENT", "INVALID_REQUEST", <<>>)
    BY <1>2, <1>3, <1>4, <2>1, RespondErrorKeeps DEF Rejected
  <2>2. CASE ~Rejected /\ Respond("INTERNAL", "SYSTEM_ERROR", <<>>)
    BY <1>2, <1>3, <1>4, <1>5, <2>2, RespondErrorKeeps DEF Rejected, Accepted
  <2>3. QED
    BY <1>5, <2>1, <2>2 DEF RespondError
<1>6. CASE Accepted /\ Respond("OK", "SUCCESS",
             [n \in DOMAIN rank_reply.ranked |-> rank_reply.ranked[n].candidate])
  <2>1. /\ Asked /\ rank_reply.status = "success"
        /\ max_results > 0 /\ OwnProfile /\ retrieved # <<>>
    BY <1>4, <1>6 DEF Accepted
  <2>2. PICK ranked : /\ ranked = rank_reply.ranked
                      /\ IsRanking(ranked) /\ CarryTheirTotals(ranked)
    BY <1>1, <1>3, <2>1 DEF RankInv
  <2>3. ranked \in Seq(ScoredCandidate) /\ RankTypeOK
    BY <1>1, <2>2 DEF RankInv, RankTypeOK, ScoredCandidate
  <2>4. retrieved \in Seq(Offered) /\ max_results \in Int
    BY <1>1 DEF TypeOK
  <2>5. /\ Len(ranked) = Len(retrieved)
        /\ \A n \in DOMAIN retrieved :
             \E m \in DOMAIN ranked :
               /\ ranked[m].candidate.item = retrieved[n].item
               /\ ranked[m].candidate.score = retrieved[n].score
    BY <1>1, <2>1, <2>2, <2>3, <2>4, RankedRetrieved
  <2>6. PICK best : best = [n \in DOMAIN ranked |-> ranked[n].candidate]
    OBVIOUS
  <2>7. /\ pc' = "idle" /\ response'.code = "OK" /\ response'.status = "SUCCESS"
        /\ response'.candidates = best
    BY <1>6, <2>2, <2>6 DEF Respond, Response
  <2>8. /\ DOMAIN best = DOMAIN ranked /\ best \in Seq(Merged) /\ Len(best) = Len(retrieved)
        /\ \A m \in DOMAIN ranked : best[m] = ranked[m].candidate
    <3>1. PICK size \in Nat : Len(ranked) = size /\ DOMAIN ranked = 1 .. size
      BY <2>3
    <3>2. \A n \in 1 .. size : ranked[n] \in ScoredCandidate
      BY <2>3, <3>1
    <3>3. best \in [1 .. size -> Merged]
      BY <2>6, <3>1, <3>2 DEF ScoredCandidate
    <3>4. QED
      BY <2>5, <2>6, <3>1, <3>3
  <2>9. best # <<>>
    BY <2>1, <2>4, <2>8
  <2>10. UNCHANGED <<existed, trouble>>
    BY <1>2 DEF history
  <2>11. Served'
    <3>1. \A n \in DOMAIN retrieved :
            \E m \in DOMAIN best : /\ best[m].item = retrieved[n].item
                                   /\ best[m].score = retrieved[n].score
      BY <2>5, <2>8
    <3>2. QED
      BY <1>2, <2>7, <2>8, <3>1 DEF Served
  <2>12. Blamed'
    BY <1>2, <1>3, <2>1, <2>7, <2>9, <2>10 DEF Blamed, OwnProfile
  <2>13. RankInv'
    BY <1>1, <1>2, RankStutters
  <2>14. TypeOK'
    BY <1>1, <1>2, <2>7, <2>8, <2>10, <2>13
    DEF TypeOK, State, RankInv, Code, RecommendationStatus
  <2>15. RetrievedOK'
    BY <1>1, <1>2 DEF RetrievedOK
  <2>16. Known'
    BY <1>2, <1>3, <2>7, <2>11, <2>12 DEF Known, ranking
  <2>17. QED
    BY <2>13, <2>14, <2>15, <2>16 DEF GInv
<1>7. QED
  BY <1>5, <1>6 DEF FetchRankedCandidates

LEMMA GatewayInit == Init => GInv
<1> SUFFICES ASSUME Init PROVE GInv
  OBVIOUS
<1>1. /\ RankInit /\ pc = "idle" /\ user_id = 0 /\ max_results = 0 /\ profile = NoProfile
      /\ retrieved = <<>> /\ existed = FALSE /\ trouble = FALSE
      /\ reply = Reply("OK", "success") /\ response = Response("OK", "none", <<>>)
  BY DEF Init
<1>2. RankInv
  BY <1>1, RankInitKeeps
<1>3. /\ reply.code = "OK" /\ response.code = "OK" /\ response.status = "none"
      /\ response.candidates = <<>>
  BY <1>1 DEF Reply, Response
<1>4. /\ <<>> \in Seq(Merged) /\ <<>> \in Seq(Offered)
      /\ <<>> \in Seq([item : Item, score : Scores])
  OBVIOUS
<1>5. TypeOK
  <2>1. RankTypeOK
    BY <1>2 DEF RankInv
  <2>2. retrieved \in Seq(Offered) /\ response.candidates \in Seq(Merged)
    BY <1>1, <1>3, <1>4
  <2>3. user_id \in Int /\ max_results \in Int /\ profile \in Int \cup {NoProfile}
    BY <1>1
  <2>4. existed \in BOOLEAN /\ trouble \in BOOLEAN
    BY <1>1, Zenon
  <2>5. /\ pc \in State /\ reply.code \in Code /\ response.code \in Code \ {"UNAVAILABLE"}
        /\ response.status \in RecommendationStatus
    BY <1>1, <1>3 DEF State, Code, RecommendationStatus
  <2>6. QED
    BY <2>1, <2>2, <2>3, <2>4, <2>5 DEF TypeOK
<1>6. RetrievedOK
  BY <1>1, <1>4 DEF RetrievedOK
<1>7. rank_pc = "idle"
  BY <1>1 DEF RankInit
<1>8. Known
  BY <1>1, <1>3, <1>7 DEF Known
<1>9. QED
  BY <1>2, <1>5, <1>6, <1>8 DEF GInv

LEMMA GatewayStutters ==
  ASSUME GInv, UNCHANGED vars
  PROVE  GInv'
<1>1. UNCHANGED <<pc, user_id, max_results, profile, retrieved, reply, response,
                  existed, trouble, ranking>>
  BY DEF vars, call, history
<1>2. TypeOK /\ RankInv /\ RetrievedOK /\ Known
  BY DEF GInv
<1>3. RankInv' /\ UNCHANGED <<rank_pc, request, rank_reply>>
  BY <1>1, <1>2, RankStutters DEF ranking
<1>4. TypeOK'
  BY <1>1, <1>2, <1>3 DEF TypeOK, RankInv
<1>5. RetrievedOK'
  BY <1>1, <1>2 DEF RetrievedOK
<1>6. Asked' = Asked /\ RankVerdict' = RankVerdict /\ Blamed' = Blamed /\ Served' = Served
  BY <1>1, <1>3 DEF Asked, RankVerdict, Blamed, Served, OwnProfile
<1>7. Known'
  BY <1>1, <1>2, <1>3, <1>6 DEF Known, Reply, OwnProfile
<1>8. QED
  BY <1>3, <1>4, <1>5, <1>7 DEF GInv

LEMMA GatewayStep ==
  ASSUME GInv, [Next]_vars
  PROVE  GInv'
<1>1. CASE \E user \in UserIds, n \in MaxResults : Recommend(user, n)
  BY <1>1, RecommendKeeps
<1>2. CASE Proceed
  BY <1>2, GetProfileKeeps, FetchProfileKeeps, RetrieveKeeps, FetchCandidatesKeeps,
     CallRankKeeps, RankingWorksKeeps, RankRepliesKeeps, FetchRankedCandidatesKeeps
  DEF Proceed
<1>3. CASE UNCHANGED vars
  BY <1>3, GatewayStutters
<1>4. QED
  BY <1>1, <1>2, <1>3 DEF Next

\* Every step of a call keeps what is known of it, up to the verdict.
THEOREM GatewayInvariant == Spec => []GInv
BY GatewayInit, GatewayStep, PTL DEF Spec

\* Each party is blamed for its own mistakes only, whatever the services answer,
\* whichever of the calls fail and whosever id the stored profile has.
THEOREM BlameIsAlwaysJustified == Spec => []BlameIsJustified
<1>1. GInv => BlameIsJustified
  BY DEF GInv, BlameIsJustified, Known, Blamed, Answered
<1>2. QED
  BY <1>1, GatewayInvariant, PTL

\* A successful answer has every candidate that was retrieved, with its score.
THEOREM NothingIsLost == Spec => []NothingRetrievedIsLost
<1>1. GInv => NothingRetrievedIsLost
  BY DEF GInv, NothingRetrievedIsLost, Known, Served, Answered
<1>2. QED
  BY <1>1, GatewayInvariant, PTL

\* The ranking service as the gateway calls it ranks as it does alone.
THEOREM GatewayGetsTheBest == Spec => []RankedAreTheBest
<1>1. GInv => RankedAreTheBest
  BY RankInvIsEnough DEF GInv
<1>2. QED
  BY <1>1, GatewayInvariant, PTL
=============================================================================
