------------------------- MODULE CachingStoreProofs -------------------------
(***************************************************************************)
(* Proofs about LruCache and the stores on it, CachingStore, for any keys, *)
(* values, capacity, time to live and number of threads.  The cache comes  *)
(* first: list and index agree in every state, and the cache implements    *)
(* TtlMap.  Then the stores, with any fetch time.                          *)
(***************************************************************************)
EXTENDS CachingStore, SequenceTheorems, FiniteSetTheorems, TLAPS

\* IndexMatchesEntries of any list, however long, and any index.
Matches(list, idx) ==
  /\ list \in Seq(Entry)
  /\ DOMAIN idx \subseteq Key
  /\ \A k \in DOMAIN idx : idx[k] \in Node
  /\ DOMAIN idx = {list[i].key : i \in DOMAIN list}
  /\ \A k \in DOMAIN idx :
       \E i \in DOMAIN list : list[i].node = idx[k] /\ list[i].key = k
  /\ \A i, j \in DOMAIN list :
       list[i].node = list[j].node \/ list[i].key = list[j].key => i = j

LEMMA MatchesIsInvariant == IndexMatchesEntries <=> Matches(entries, index) /\ Len(entries) <= Capacity
  BY DEF IndexMatchesEntries, CacheTypeOK, Matches

\* Where the entry of a key is.
LEMMA PositionOfKey ==
  ASSUME Matches(entries, index), NEW k \in DOMAIN index
  PROVE  /\ Position(k) \in DOMAIN entries
         /\ entries[Position(k)].node = index[k]
         /\ entries[Position(k)].key = k
<1>1. PICK i \in DOMAIN entries : entries[i].node = index[k] /\ entries[i].key = k
  BY DEF Matches
<1>2. Position(k) \in DOMAIN entries /\ entries[Position(k)].node = index[k]
  BY <1>1 DEF Position
<1>3. Position(k) = i
  BY <1>1, <1>2 DEF Matches
<1>4. QED
  BY <1>1, <1>2, <1>3

-----------------------------------------------------------------------------
(* The list operations.                                                    *)

LEMMA RemovedAt ==
  ASSUME NEW S, NEW list \in Seq(S), NEW i \in 1 .. Len(list)
  PROVE  /\ RemoveAt(list, i) \in Seq(S)
         /\ Len(RemoveAt(list, i)) = Len(list) - 1
         /\ DOMAIN RemoveAt(list, i) = 1 .. Len(list) - 1
         /\ \A j \in 1 .. Len(list) - 1 :
              RemoveAt(list, i)[j] = IF j < i THEN list[j] ELSE list[j + 1]
<1>1. Len(list) \in Nat /\ \A j \in 1 .. Len(list) : list[j] \in S
  OBVIOUS
<1>2. /\ SubSeq(list, 1, i - 1) \in Seq(S) /\ Len(SubSeq(list, 1, i - 1)) = i - 1
      /\ \A j \in 1 .. i - 1 : SubSeq(list, 1, i - 1)[j] = list[j]
  <2>1. \A j \in 1 .. i - 1 : list[j] \in S
    BY <1>1
  <2>2. QED
    BY <1>1, <2>1, SubSeqProperties
<1>3. /\ SubSeq(list, i + 1, Len(list)) \in Seq(S)
      /\ Len(SubSeq(list, i + 1, Len(list))) = Len(list) - i
      /\ \A j \in 1 .. Len(list) - i : SubSeq(list, i + 1, Len(list))[j] = list[i + j]
  <2>1. \A j \in i + 1 .. Len(list) : list[j] \in S
    BY <1>1
  <2>2. QED
    BY <1>1, <2>1, SubSeqProperties
<1> DEFINE s1 == SubSeq(list, 1, i - 1)
<1> DEFINE s2 == SubSeq(list, i + 1, Len(list))
<1>4. /\ s1 \o s2 \in Seq(S) /\ Len(s1 \o s2) = Len(s1) + Len(s2)
      /\ \A j \in 1 .. Len(s1) + Len(s2) :
           (s1 \o s2)[j] = IF j <= Len(s1) THEN s1[j] ELSE s2[j - Len(s1)]
  BY <1>2, <1>3, ConcatProperties
<1>5. RemoveAt(list, i) = s1 \o s2
  BY DEF RemoveAt
<1>6. Len(s1) = i - 1 /\ \A j \in 1 .. i - 1 : s1[j] = list[j]
  BY <1>2
<1>7. Len(s2) = Len(list) - i /\ \A j \in 1 .. Len(list) - i : s2[j] = list[i + j]
  BY <1>3
<1> HIDE DEF s1, s2
<1>8. Len(s1 \o s2) = Len(list) - 1 /\ DOMAIN (s1 \o s2) = 1 .. Len(list) - 1
  BY <1>1, <1>4, <1>6, <1>7
<1>9. \A j \in 1 .. Len(list) - 1 :
        (s1 \o s2)[j] = IF j < i THEN list[j] ELSE list[j + 1]
  <2> SUFFICES ASSUME NEW j \in 1 .. Len(list) - 1
               PROVE  (s1 \o s2)[j] = IF j < i THEN list[j] ELSE list[j + 1]
    OBVIOUS
  <2>1. CASE j < i
    BY <1>1, <1>4, <1>6, <1>7, <2>1
  <2>2. CASE ~(j < i)
    <3>1. j - (i - 1) \in 1 .. Len(list) - i /\ i + (j - (i - 1)) = j + 1
      BY <1>1, <2>2
    <3>2. (s1 \o s2)[j] = s2[j - (i - 1)]
      BY <1>1, <1>4, <1>6, <1>7, <2>2
    <3>3. QED
      BY <1>7, <2>2, <3>1, <3>2
  <2>3. QED
    BY <2>1, <2>2
<1>10. QED
  BY <1>4, <1>5, <1>8, <1>9

LEMMA PushedFront ==
  ASSUME NEW S, NEW list \in Seq(S), NEW e \in S
  PROVE  /\ <<e>> \o list \in Seq(S)
         /\ Len(<<e>> \o list) = Len(list) + 1
         /\ DOMAIN (<<e>> \o list) = 1 .. Len(list) + 1
         /\ \A j \in 1 .. Len(list) + 1 :
              (<<e>> \o list)[j] = IF j = 1 THEN e ELSE list[j - 1]
<1>1. <<e>> \in Seq(S) /\ Len(<<e>>) = 1 /\ <<e>>[1] = e
  OBVIOUS
<1>2. Len(list) \in Nat
  OBVIOUS
<1>3. /\ <<e>> \o list \in Seq(S) /\ Len(<<e>> \o list) = 1 + Len(list)
      /\ \A j \in 1 .. 1 + Len(list) :
           (<<e>> \o list)[j] = IF j <= 1 THEN <<e>>[j] ELSE list[j - 1]
  BY <1>1, ConcatProperties
<1> HIDE <1>1
<1>4. QED
  BY <1>1, <1>2, <1>3

LEMMA MovedToFront ==
  ASSUME NEW S, NEW list \in Seq(S), NEW i \in 1 .. Len(list), NEW e \in S
  PROVE  Len(<<e>> \o RemoveAt(list, i)) = Len(list)
<1>1. RemoveAt(list, i) \in Seq(S) /\ Len(RemoveAt(list, i)) = Len(list) - 1
  BY RemovedAt
<1>2. Len(<<e>> \o RemoveAt(list, i)) = Len(RemoveAt(list, i)) + 1
  BY <1>1, PushedFront
<1>3. Len(list) \in Nat
  OBVIOUS
<1>4. QED
  BY <1>1, <1>2, <1>3

-----------------------------------------------------------------------------
(* What the operations of the cache do to a list and an index that match.  *)

LEMMA EraseMatches ==
  ASSUME NEW list, NEW idx, Matches(list, idx), NEW i \in DOMAIN list
  PROVE  Matches(RemoveAt(list, i), [x \in DOMAIN idx \ {list[i].key} |-> idx[x]])
<1> DEFINE less == RemoveAt(list, i)
<1> DEFINE rest == [x \in DOMAIN idx \ {list[i].key} |-> idx[x]]
<1> DEFINE was(j) == IF j < i THEN j ELSE j + 1
<1> DEFINE is(j) == IF j < i THEN j ELSE j - 1
<1>1. list \in Seq(Entry) /\ Len(list) \in Nat /\ DOMAIN list = 1 .. Len(list)
      /\ i \in 1 .. Len(list)
  BY DEF Matches
<1>2. /\ less \in Seq(Entry) /\ Len(less) = Len(list) - 1
      /\ DOMAIN less = 1 .. Len(list) - 1
      /\ \A j \in 1 .. Len(list) - 1 : less[j] = IF j < i THEN list[j] ELSE list[j + 1]
  BY <1>1, RemovedAt
<1>3. \A j \in DOMAIN less : was(j) \in DOMAIN list /\ was(j) # i /\ less[j] = list[was(j)]
  BY <1>1, <1>2
<1>4. \A j \in DOMAIN list \ {i} : is(j) \in DOMAIN less /\ less[is(j)] = list[j]
  BY <1>1, <1>2
<1>5. \A j, k \in DOMAIN less : was(j) = was(k) => j = k
  BY <1>1, <1>2
<1>6. /\ DOMAIN rest = DOMAIN idx \ {list[i].key}
      /\ \A x \in DOMAIN rest : rest[x] = idx[x]
  OBVIOUS
<1> HIDE DEF less, rest, was, is
<1>7. DOMAIN rest = {less[j].key : j \in DOMAIN less}
  BY <1>3, <1>4, <1>6 DEF Matches
<1>8. \A k \in DOMAIN rest :
        \E j \in DOMAIN less : less[j].node = rest[k] /\ less[j].key = k
  <2> SUFFICES ASSUME NEW k \in DOMAIN rest
               PROVE  \E j \in DOMAIN less : less[j].node = rest[k] /\ less[j].key = k
    OBVIOUS
  <2>1. PICK j \in DOMAIN list : list[j].node = idx[k] /\ list[j].key = k
    BY <1>6 DEF Matches
  <2>2. j # i
    BY <1>6, <2>1
  <2>3. QED
    BY <1>4, <1>6, <2>1, <2>2
<1>9. \A j, k \in DOMAIN less :
        less[j].node = less[k].node \/ less[j].key = less[k].key => j = k
  BY <1>3, <1>5 DEF Matches
<1>10. QED
  BY <1>2, <1>6, <1>7, <1>8, <1>9 DEF Matches, less, rest

LEMMA ToFrontMatches ==
  ASSUME NEW list, NEW idx, Matches(list, idx), NEW i \in DOMAIN list,
         NEW e \in Entry, e.node = list[i].node, e.key = list[i].key
  PROVE  Matches(<<e>> \o RemoveAt(list, i), idx)
<1> DEFINE front == <<e>> \o RemoveAt(list, i)
<1> DEFINE was(j) == IF j = 1 THEN i ELSE IF j - 1 < i THEN j - 1 ELSE j
<1> DEFINE is(j) == IF j = i THEN 1 ELSE IF j < i THEN j + 1 ELSE j
<1>1. list \in Seq(Entry) /\ Len(list) \in Nat /\ DOMAIN list = 1 .. Len(list)
      /\ i \in 1 .. Len(list)
  BY DEF Matches
<1>2. /\ RemoveAt(list, i) \in Seq(Entry) /\ Len(RemoveAt(list, i)) = Len(list) - 1
      /\ \A j \in 1 .. Len(list) - 1 :
           RemoveAt(list, i)[j] = IF j < i THEN list[j] ELSE list[j + 1]
  BY <1>1, RemovedAt
<1>3. /\ front \in Seq(Entry) /\ Len(front) = Len(RemoveAt(list, i)) + 1
      /\ DOMAIN front = 1 .. Len(RemoveAt(list, i)) + 1
      /\ \A j \in 1 .. Len(RemoveAt(list, i)) + 1 :
           front[j] = IF j = 1 THEN e ELSE RemoveAt(list, i)[j - 1]
  BY <1>2, PushedFront
<1> HIDE DEF front
<1>4. /\ Len(front) = Len(list) /\ DOMAIN front = 1 .. Len(list) /\ front[1] = e
      /\ \A j \in 2 .. Len(list) : front[j] = IF j - 1 < i THEN list[j - 1] ELSE list[j]
  <2>1. Len(front) = Len(list) /\ DOMAIN front = 1 .. Len(list) /\ front[1] = e
    BY <1>1, <1>2, <1>3
  <2>2. ASSUME NEW j \in 2 .. Len(list)
        PROVE  front[j] = IF j - 1 < i THEN list[j - 1] ELSE list[j]
    <3>1. front[j] = RemoveAt(list, i)[j - 1]
      BY <1>1, <1>2, <1>3
    <3>2. j - 1 \in 1 .. Len(list) - 1 /\ (j - 1) + 1 = j
      BY <1>1
    <3>3. QED
      BY <1>2, <3>1, <3>2
  <2>3. QED
    BY <2>1, <2>2
<1>5. \A j \in DOMAIN front : /\ was(j) \in DOMAIN list
                              /\ front[j].node = list[was(j)].node
                              /\ front[j].key = list[was(j)].key
  BY <1>1, <1>4
<1>6. \A j \in DOMAIN list : /\ is(j) \in DOMAIN front
                             /\ front[is(j)].node = list[j].node
                             /\ front[is(j)].key = list[j].key
  BY <1>1, <1>4
<1>7. \A j, k \in DOMAIN front : was(j) = was(k) => j = k
  BY <1>1, <1>4
<1> HIDE DEF was, is
<1>8. DOMAIN idx = {front[j].key : j \in DOMAIN front}
  BY <1>5, <1>6 DEF Matches
<1>9. \A k \in DOMAIN idx :
        \E j \in DOMAIN front : front[j].node = idx[k] /\ front[j].key = k
  BY <1>6 DEF Matches
<1>10. \A j, k \in DOMAIN front :
        front[j].node = front[k].node \/ front[j].key = front[k].key => j = k
  BY <1>5, <1>7 DEF Matches
<1>11. QED
  BY <1>3, <1>4, <1>8, <1>9, <1>10 DEF Matches, front

\* There is a node for one entry more than the cache keeps.
LEMMA FreeNodeIsFree ==
  ASSUME Matches(entries, index), Len(entries) <= Capacity
  PROVE  FreeNode \in Node /\ \A i \in DOMAIN entries : entries[i].node # FreeNode
<1> DEFINE used == {entries[i].node : i \in DOMAIN entries}
<1> DEFINE nodeOf == [i \in DOMAIN entries |-> entries[i].node]
<1>1. /\ Len(entries) \in Nat /\ DOMAIN entries = 1 .. Len(entries)
      /\ Capacity \in Nat /\ Len(entries) <= Capacity
  <2>1. entries \in Seq(Entry) /\ Len(entries) <= Capacity
    BY DEF Matches
  <2>2. QED
    BY <2>1, CacheAssumption
<1>2. IsFiniteSet(1 .. Len(entries)) /\ Cardinality(1 .. Len(entries)) = Len(entries)
  <2>1. \A n \in Nat : IsFiniteSet(1 .. n) /\ Cardinality(1 .. n) = n
    BY FS_Interval
  <2>2. QED
    BY <1>1, <2>1
<1>3. IsFiniteSet(Node) /\ Cardinality(Node) = Capacity + 1
  BY <1>1, FS_Interval DEF Node
<1>4. nodeOf \in Surjection(1 .. Len(entries), used)
  BY <1>1 DEF Surjection
<1> HIDE DEF nodeOf, used
<1>5. IsFiniteSet(used) /\ Cardinality(used) <= Cardinality(1 .. Len(entries))
  BY <1>2, <1>4, FS_Surjection
<1>6. ~(Node \subseteq used)
  <2> SUFFICES ASSUME Node \subseteq used PROVE FALSE
    OBVIOUS
  <2>1. Cardinality(Node) <= Cardinality(used)
    BY <1>5, FS_Subset
  <2>2. Cardinality(used) \in Nat
    BY <1>5, FS_CardinalityType
  <2>3. QED
    BY <1>1, <1>2, <1>3, <1>5, <2>1, <2>2
<1>7. PICK n \in Node : n \notin used
  BY <1>6
<1>8. \A i \in DOMAIN entries : entries[i].node # n
  BY <1>7 DEF used
<1>9. QED
  BY <1>8 DEF FreeNode

LEMMA PushMatches ==
  ASSUME NEW list, NEW idx, Matches(list, idx),
         NEW e \in Entry, e.key \notin DOMAIN idx,
         \A i \in DOMAIN list : list[i].node # e.node
  PROVE  Matches(<<e>> \o list,
                 [x \in DOMAIN idx \cup {e.key} |-> IF x = e.key THEN e.node ELSE idx[x]])
<1> DEFINE pushed == <<e>> \o list
<1> DEFINE more == [x \in DOMAIN idx \cup {e.key} |-> IF x = e.key THEN e.node ELSE idx[x]]
<1>1. list \in Seq(Entry) /\ Len(list) \in Nat /\ DOMAIN list = 1 .. Len(list)
  BY DEF Matches
<1>2. /\ pushed \in Seq(Entry) /\ Len(pushed) = Len(list) + 1
      /\ DOMAIN pushed = 1 .. Len(list) + 1
      /\ \A j \in 1 .. Len(list) + 1 : pushed[j] = IF j = 1 THEN e ELSE list[j - 1]
  BY <1>1, PushedFront
<1>3. DOMAIN more = DOMAIN idx \cup {e.key} /\ more[e.key] = e.node
      /\ \A x \in DOMAIN idx : more[x] = idx[x]
  OBVIOUS
<1> HIDE DEF pushed, more
<1>4. /\ 1 \in DOMAIN pushed /\ pushed[1] = e
      /\ \A j \in DOMAIN list : j + 1 \in DOMAIN pushed /\ pushed[j + 1] = list[j]
      /\ \A j \in DOMAIN pushed \ {1} : j - 1 \in DOMAIN list /\ pushed[j] = list[j - 1]
  BY <1>1, <1>2
<1>5. e.key \in Key /\ e.node \in Node
  BY DEF Entry
<1>6. DOMAIN more = {pushed[j].key : j \in DOMAIN pushed}
  BY <1>3, <1>4 DEF Matches
<1>7. \A k \in DOMAIN more :
        \E j \in DOMAIN pushed : pushed[j].node = more[k] /\ pushed[j].key = k
  <2> SUFFICES ASSUME NEW k \in DOMAIN more
               PROVE  \E j \in DOMAIN pushed : pushed[j].node = more[k] /\ pushed[j].key = k
    OBVIOUS
  <2>1. CASE k = e.key
    BY <1>3, <1>4, <2>1
  <2>2. CASE k # e.key
    <3>1. k \in DOMAIN idx /\ more[k] = idx[k]
      BY <1>3, <2>2
    <3>2. PICK j \in DOMAIN list : list[j].node = idx[k] /\ list[j].key = k
      BY <3>1 DEF Matches
    <3>3. QED
      BY <1>4, <3>1, <3>2
  <2>3. QED
    BY <2>1, <2>2
<1>8. \A j, k \in DOMAIN pushed :
        pushed[j].node = pushed[k].node \/ pushed[j].key = pushed[k].key => j = k
  <2> SUFFICES ASSUME NEW j \in DOMAIN pushed, NEW k \in DOMAIN pushed,
                      pushed[j].node = pushed[k].node \/ pushed[j].key = pushed[k].key
               PROVE  j = k
    OBVIOUS
  <2>1. \A i \in DOMAIN list : list[i].key # e.key /\ list[i].node # e.node
    BY DEF Matches
  <2>2. CASE j = 1 \/ k = 1
    BY <1>4, <2>1, <2>2
  <2>3. CASE j # 1 /\ k # 1
    <3>1. j - 1 = k - 1
      BY <1>4, <2>3 DEF Matches
    <3>2. QED
      BY <1>2, <3>1
  <2>4. QED
    BY <2>2, <2>3
<1>9. DOMAIN more \subseteq Key /\ \A k \in DOMAIN more : more[k] \in Node
  BY <1>3, <1>5 DEF Matches
<1>10. Matches(pushed, more)
  BY <1>2, <1>6, <1>7, <1>8, <1>9 DEF Matches
<1>11. QED
  BY <1>10 DEF pushed, more

\* Evicting the back is erasing the last entry.
LEMMA FrontIsRemoved ==
  ASSUME NEW S, NEW list \in Seq(S), Len(list) >= 1
  PROVE  RemoveAt(list, Len(list)) = Front(list) /\ Last(list) = list[Len(list)]
<1>1. Len(list) \in Nat /\ \A j \in 1 .. Len(list) : list[j] \in S
  OBVIOUS
<1>2. SubSeq(list, Len(list) + 1, Len(list)) = <<>>
  BY <1>1, SubSeqEmpty
<1>3. SubSeq(list, 1, Len(list) - 1) \in Seq(S)
  <2>1. \A j \in 1 .. Len(list) - 1 : list[j] \in S
    BY <1>1
  <2>2. QED
    BY <1>1, <2>1, SubSeqProperties
<1>4. SubSeq(list, 1, Len(list) - 1) \o <<>> = SubSeq(list, 1, Len(list) - 1)
  BY <1>3, ConcatEmptySeq
<1>5. QED
  BY <1>2, <1>4 DEF RemoveAt, Front, Last

-----------------------------------------------------------------------------
(* The cache: its invariant in every step of it.                           *)

LEMMA GetKeepsMatches ==
  ASSUME IndexMatchesEntries, NEW k \in Key, Get(k)
  PROVE  IndexMatchesEntries'
<1>1. Matches(entries, index) /\ Len(entries) <= Capacity
  BY MatchesIsInvariant
<1>2. SUFFICES Matches(entries', index') /\ Len(entries') <= Capacity
  BY DEF IndexMatchesEntries, CacheTypeOK, Matches
<1>3. entries \in Seq(Entry) /\ Len(entries) \in Nat /\ DOMAIN entries = 1 .. Len(entries)
  BY <1>1 DEF Matches
<1>4. CASE ~Found(k)
  BY <1>1, <1>4 DEF Get, Hit, cache
<1>5. CASE Found(k)
  <2> DEFINE i == Position(k)
  <2>1. i \in 1 .. Len(entries) /\ entries[i].key = k /\ entries[i].node = index[k]
    BY <1>1, <1>3, <1>5, PositionOfKey DEF Found
  <2> HIDE DEF i
  <2>2. /\ RemoveAt(entries, i) \in Seq(Entry)
        /\ Len(RemoveAt(entries, i)) = Len(entries) - 1
    BY <1>3, <2>1, RemovedAt
  <2>3. CASE entries' = RemoveAt(entries, i) /\ index' = Erase(k)
    <3>1. Matches(RemoveAt(entries, i), [x \in DOMAIN index \ {entries[i].key} |-> index[x]])
      BY <1>1, <1>3, <2>1, EraseMatches
    <3>2. QED
      BY <1>1, <1>3, <2>1, <2>2, <2>3, <3>1, CacheAssumption DEF Erase
  <2>4. CASE entries' = ToFront(i, entries[i]) /\ index' = index
    <3>1. entries[i] \in Entry
      BY <1>3, <2>1
    <3>2. Matches(<<entries[i]>> \o RemoveAt(entries, i), index)
      BY <1>1, <1>3, <2>1, <3>1, ToFrontMatches
    <3>3. Len(<<entries[i]>> \o RemoveAt(entries, i)) = Len(entries)
      BY <1>3, <2>1, <3>1, MovedToFront
    <3>4. QED
      BY <1>1, <2>4, <3>2, <3>3 DEF ToFront
  <2>5. QED
    BY <1>5, <2>3, <2>4 DEF Get, i
<1>6. QED
  BY <1>4, <1>5

LEMMA PutKeepsMatches ==
  ASSUME IndexMatchesEntries, NEW k \in Key, NEW v \in Value, Put(k, v)
  PROVE  IndexMatchesEntries'
<1>1. Matches(entries, index) /\ Len(entries) <= Capacity
  BY MatchesIsInvariant
<1>2. SUFFICES Matches(entries', index') /\ Len(entries') <= Capacity
  BY DEF IndexMatchesEntries, CacheTypeOK, Matches
<1>3. /\ entries \in Seq(Entry) /\ Len(entries) \in Nat
      /\ DOMAIN entries = 1 .. Len(entries)
  BY <1>1 DEF Matches
<1>4. CASE Disabled
  BY <1>1, <1>4 DEF Put, cache
<1>5. CASE PutExisting(k, v)
  <2> DEFINE i == Position(k)
  <2> DEFINE e == [entries[i] EXCEPT !.value = v, !.left = Ttl]
  <2>1. i \in 1 .. Len(entries) /\ entries[i].key = k /\ entries[i].node = index[k]
    BY <1>1, <1>3, <1>5, PositionOfKey DEF Found, PutExisting
  <2>2. entries' = <<e>> \o RemoveAt(entries, i) /\ index' = index
    BY <1>5 DEF PutExisting, ToFront
  <2> HIDE DEF i
  <2>3. e \in Entry /\ e.node = entries[i].node /\ e.key = entries[i].key
    <3>1. entries[i] \in Entry
      BY <1>3, <2>1
    <3>2. ASSUME NEW x \in Entry
          PROVE  LET y == [x EXCEPT !.value = v, !.left = Ttl] IN
                 y \in Entry /\ y.node = x.node /\ y.key = x.key
      <4>1. Ttl \in 0 .. Ttl
        BY CacheAssumption
      <4>2. QED
        BY <4>1 DEF Entry
    <3>3. QED
      BY <3>1, <3>2
  <2> HIDE DEF e
  <2>4. Matches(<<e>> \o RemoveAt(entries, i), index)
    BY <1>1, <1>3, <2>1, <2>3, ToFrontMatches
  <2>5. Len(<<e>> \o RemoveAt(entries, i)) = Len(entries)
    BY <1>3, <2>1, <2>3, MovedToFront
  <2>6. QED
    BY <1>1, <2>2, <2>4, <2>5
<1>6. CASE ~Disabled /\ PutNew(k, v)
  <2> DEFINE e == [node |-> FreeNode, key |-> k, value |-> v, left |-> Ttl]
  <2> DEFINE pushed == <<e>> \o entries
  <2> DEFINE more == [x \in DOMAIN index \cup {k} |-> IF x = k THEN FreeNode ELSE index[x]]
  <2>1. /\ FreeNode \in Node
        /\ \A i \in DOMAIN entries : entries[i].node # FreeNode
    BY <1>1, FreeNodeIsFree
  <2>2. e \in Entry /\ e.key = k /\ e.node = FreeNode
    BY <2>1, CacheAssumption DEF Entry
  <2>3. k \notin DOMAIN index
    BY <1>6 DEF PutNew, Found
  <2>4. Matches(pushed, more)
    <3> HIDE DEF e
    <3>1. Matches(<<e>> \o entries,
                  [x \in DOMAIN index \cup {e.key} |-> IF x = e.key THEN e.node ELSE index[x]])
      <4>1. /\ Matches(entries, index) /\ e \in Entry /\ e.key \notin DOMAIN index
            /\ \A i \in DOMAIN entries : entries[i].node # e.node
        BY <1>1, <2>1, <2>2, <2>3
      <4>2. QED
        BY <4>1, PushMatches
    <3>2. QED
      BY <2>2, <3>1
  <2>5. pushed \in Seq(Entry) /\ Len(pushed) = Len(entries) + 1
        /\ DOMAIN pushed = 1 .. Len(entries) + 1
    <3> HIDE DEF e
    <3>1. QED
      BY <1>3, <2>2, PushedFront
  <2>6. /\ entries' = IF Len(pushed) > Capacity THEN Front(pushed) ELSE pushed
        /\ index' = [x \in (DOMAIN index \cup {k})
                            \ (IF Len(pushed) > Capacity THEN {Last(pushed).key} ELSE {}) |->
                       IF x = k THEN FreeNode ELSE index[x]]
    BY <1>6 DEF PutNew
  <2> HIDE DEF pushed
  <2>7. CASE Len(pushed) > Capacity
    <3>1. Matches(RemoveAt(pushed, Len(pushed)),
                  [x \in DOMAIN more \ {pushed[Len(pushed)].key} |-> more[x]])
      <4> HIDE DEF more
      <4>1. Len(pushed) \in DOMAIN pushed
        BY <1>3, <2>5
      <4>2. QED
        BY <2>4, <4>1, EraseMatches
    <3>2. /\ RemoveAt(pushed, Len(pushed)) = Front(pushed)
          /\ Last(pushed) = pushed[Len(pushed)]
      BY <1>3, <2>5, FrontIsRemoved
    <3>3. Len(RemoveAt(pushed, Len(pushed))) = Len(entries)
      BY <1>3, <2>5, RemovedAt
    <3>4. index' = [x \in DOMAIN more \ {pushed[Len(pushed)].key} |-> more[x]]
      BY <2>6, <2>7, <3>2
    <3>5. entries' = RemoveAt(pushed, Len(pushed))
      BY <2>6, <2>7, <3>2
    <3>6. QED
      BY <1>1, <3>1, <3>3, <3>4, <3>5
  <2>8. CASE ~(Len(pushed) > Capacity)
    <3>1. entries' = pushed /\ index' = more
      BY <2>6, <2>8
    <3> HIDE DEF more
    <3>2. QED
      BY <1>3, <2>4, <2>5, <2>8, <3>1, CacheAssumption
  <2>9. QED
    BY <2>7, <2>8
<1>7. QED
  BY <1>4, <1>5, <1>6 DEF Put

LEMMA TickKeepsMatches ==
  ASSUME IndexMatchesEntries, Tick
  PROVE  IndexMatchesEntries'
<1>1. Matches(entries, index) /\ Len(entries) <= Capacity
  BY MatchesIsInvariant
<1>2. SUFFICES Matches(entries', index') /\ Len(entries') <= Capacity
  BY DEF IndexMatchesEntries, CacheTypeOK, Matches
<1>3. /\ entries \in Seq(Entry) /\ Len(entries) \in Nat
      /\ DOMAIN entries = 1 .. Len(entries)
  BY <1>1 DEF Matches
<1>4. entries' = [i \in 1 .. Len(entries) |->
                    [entries[i] EXCEPT !.left = IF @ > 0 THEN @ - 1 ELSE 0]]
  BY <1>3 DEF Tick
<1>5. \A i \in 1 .. Len(entries) :
        /\ entries'[i] \in Entry /\ entries'[i].node = entries[i].node
        /\ entries'[i].key = entries[i].key
  <2> SUFFICES ASSUME NEW i \in 1 .. Len(entries)
               PROVE  /\ entries'[i] \in Entry /\ entries'[i].node = entries[i].node
                      /\ entries'[i].key = entries[i].key
    OBVIOUS
  <2>1. entries[i] \in Entry
    BY <1>3
  <2>2. entries'[i] = [entries[i] EXCEPT !.left = IF @ > 0 THEN @ - 1 ELSE 0]
    BY <1>4
  <2>3. QED
    BY <2>1, <2>2, CacheAssumption DEF Entry
<1>6. entries' \in Seq(Entry) /\ Len(entries') = Len(entries)
      /\ DOMAIN entries' = 1 .. Len(entries)
  <2>1. entries' \in [1 .. Len(entries) -> Entry]
    BY <1>4, <1>5
  <2>2. entries' \in Seq(Entry)
    BY <1>3, <2>1, SeqDef
  <2>3. QED
    BY <1>3, <2>1, <2>2, LenProperties
<1>7. index' = index
  BY DEF Tick
<1> DEFINE list == entries'
<1> DEFINE len == Len(entries)
<1>8. /\ list \in Seq(Entry) /\ DOMAIN list = 1 .. len /\ Len(list) <= Capacity
      /\ \A i \in 1 .. len :
           list[i].node = entries[i].node /\ list[i].key = entries[i].key
  BY <1>1, <1>5, <1>6
<1>9. DOMAIN entries = 1 .. len
  BY <1>3
<1> HIDE DEF list, len
<1>10. {list[i].key : i \in DOMAIN list} = {entries[i].key : i \in DOMAIN entries}
  BY <1>8, <1>9
<1>11. \A k \in DOMAIN index :
         \E i \in DOMAIN list : list[i].node = index[k] /\ list[i].key = k
  BY <1>1, <1>8, <1>9 DEF Matches
<1>12. \A i, j \in DOMAIN list :
         list[i].node = list[j].node \/ list[i].key = list[j].key => i = j
  BY <1>1, <1>8, <1>9 DEF Matches
<1>13. Matches(list, index)
  BY <1>1, <1>8, <1>10, <1>11, <1>12 DEF Matches
<1>14. QED
  BY <1>7, <1>8, <1>13 DEF list

LEMMA InitMatches == CacheInit => IndexMatchesEntries
<1> SUFFICES ASSUME CacheInit PROVE Matches(entries, index) /\ Len(entries) <= Capacity
  BY MatchesIsInvariant
<1>1. entries = <<>> /\ index = [k \in {} |-> 0]
  BY DEF CacheInit
<1>2. <<>> \in Seq(Entry) /\ DOMAIN <<>> = {} /\ Len(<<>>) = 0
  OBVIOUS
<1>3. QED
  BY <1>1, <1>2, CacheAssumption DEF Matches

\* No iterator of the index dangles or leads to a node that was reused for
\* another key, whatever Get, Put and the clock do.
THEOREM IndexIsAlwaysRight == CacheSpec => []IndexMatchesEntries
<1>1. IndexMatchesEntries /\ [CacheNext]_cache => IndexMatchesEntries'
  <2> SUFFICES ASSUME IndexMatchesEntries, [CacheNext]_cache
               PROVE  IndexMatchesEntries'
    OBVIOUS
  <2>1. CASE UNCHANGED cache
    BY <2>1 DEF cache, IndexMatchesEntries, CacheTypeOK
  <2>2. QED
    BY <2>1, GetKeepsMatches, PutKeepsMatches, TickKeepsMatches DEF CacheNext
<1>2. QED
  BY <1>1, InitMatches, PTL DEF CacheSpec

-----------------------------------------------------------------------------
(* The order of the list.                                                  *)

\* Each entry of the list was used after those behind it.
InRecency(list, used) ==
  \A i, j \in DOMAIN list : i < j => <<list[i].key, list[j].key>> \in used

\* The history after key k is used.
UsedLast(used, k) == {p \in used : p[2] # k} \cup ({k} \X (Key \ {k}))

LEMMA RemovalKeepsOrder ==
  ASSUME NEW list \in Seq(Entry), NEW n \in 1 .. Len(list), NEW used, InRecency(list, used)
  PROVE  InRecency(RemoveAt(list, n), used)
<1> DEFINE less == RemoveAt(list, n)
<1>1. /\ DOMAIN less = 1 .. Len(list) - 1 /\ Len(list) \in Nat /\ DOMAIN list = 1 .. Len(list)
      /\ \A j \in 1 .. Len(list) - 1 : less[j] = IF j < n THEN list[j] ELSE list[j + 1]
  <2>1. Len(list) \in Nat /\ DOMAIN list = 1 .. Len(list)
    OBVIOUS
  <2>2. DOMAIN less = 1 .. Len(list) - 1
    BY RemovedAt, Zenon
  <2>3. \A j \in 1 .. Len(list) - 1 : less[j] = IF j < n THEN list[j] ELSE list[j + 1]
    BY RemovedAt, Zenon
  <2>4. QED
    BY <2>1, <2>2, <2>3, Zenon
<1> HIDE DEF less
<1> SUFFICES ASSUME NEW i \in DOMAIN less, NEW j \in DOMAIN less, i < j
             PROVE  <<less[i].key, less[j].key>> \in used
  BY DEF InRecency, less
<1> DEFINE a == IF i < n THEN i ELSE i + 1
           b == IF j < n THEN j ELSE j + 1
<1>2. a \in DOMAIN list /\ b \in DOMAIN list /\ a < b
  BY <1>1
<1>3. less[i] = list[a] /\ less[j] = list[b]
  BY <1>1
<1> HIDE DEF a, b
<1>4. QED
  BY <1>2, <1>3 DEF InRecency

LEMMA FrontKeepsOrder ==
  ASSUME NEW list \in Seq(Entry), NEW e \in Entry, NEW used, InRecency(list, used),
         \A i \in DOMAIN list : list[i].key # e.key
  PROVE  InRecency(<<e>> \o list, UsedLast(used, e.key))
<1> DEFINE more == <<e>> \o list
<1>1. /\ DOMAIN more = 1 .. Len(list) + 1 /\ Len(list) \in Nat /\ DOMAIN list = 1 .. Len(list)
      /\ \A j \in 1 .. Len(list) + 1 : more[j] = IF j = 1 THEN e ELSE list[j - 1]
  <2>1. Len(list) \in Nat /\ DOMAIN list = 1 .. Len(list)
    OBVIOUS
  <2>2. /\ DOMAIN more = 1 .. Len(list) + 1
        /\ \A j \in 1 .. Len(list) + 1 : more[j] = IF j = 1 THEN e ELSE list[j - 1]
    BY PushedFront
  <2>3. QED
    BY <2>1, <2>2
<1> HIDE DEF more
<1> SUFFICES ASSUME NEW i \in DOMAIN more, NEW j \in DOMAIN more, i < j
             PROVE  <<more[i].key, more[j].key>> \in UsedLast(used, e.key)
  BY DEF InRecency, more
<1>2. j - 1 \in DOMAIN list /\ more[j] = list[j - 1]
  BY <1>1
<1>3. list[j - 1] \in Entry /\ list[j - 1].key # e.key
  BY <1>2
<1>4. more[j].key \in Key \ {e.key}
  BY <1>2, <1>3 DEF Entry
<1>5. CASE i = 1
  <2>1. more[i] = e
    BY <1>1, <1>5
  <2>2. QED
    BY <1>4, <2>1 DEF UsedLast
<1>6. CASE i # 1
  <2>1. i - 1 \in DOMAIN list /\ more[i] = list[i - 1] /\ i - 1 < j - 1
    BY <1>1, <1>6
  <2>2. <<more[i].key, more[j].key>> \in used
    BY <1>2, <2>1 DEF InRecency
  <2>3. <<more[i].key, more[j].key>>[2] = more[j].key
    OBVIOUS
  <2>4. QED
    BY <1>4, <2>2, <2>3 DEF UsedLast
<1>7. QED
  BY <1>5, <1>6

\* A hit, or a new value, moves its entry from position n to the front.
LEMMA ToFrontKeepsOrder ==
  ASSUME NEW list \in Seq(Entry), NEW n \in 1 .. Len(list), NEW e \in Entry,
         e.key = list[n].key, NEW used, InRecency(list, used),
         \A i, j \in DOMAIN list : list[i].key = list[j].key => i = j
  PROVE  InRecency(<<e>> \o RemoveAt(list, n), UsedLast(used, e.key))
<1>1. /\ RemoveAt(list, n) \in Seq(Entry)
      /\ DOMAIN RemoveAt(list, n) = 1 .. Len(list) - 1
      /\ \A j \in 1 .. Len(list) - 1 :
           RemoveAt(list, n)[j] = IF j < n THEN list[j] ELSE list[j + 1]
  BY RemovedAt, Zenon
<1>2. Len(list) \in Nat /\ DOMAIN list = 1 .. Len(list)
  OBVIOUS
<1>3. ASSUME NEW j \in 1 .. Len(list) - 1 PROVE RemoveAt(list, n)[j].key # e.key
  <2> DEFINE b == IF j < n THEN j ELSE j + 1
  <2>1. b \in DOMAIN list /\ b # n /\ n \in DOMAIN list
    BY <1>2
  <2>2. RemoveAt(list, n)[j] = list[b]
    BY <1>1
  <2> HIDE DEF b
  <2>3. QED
    BY <2>1, <2>2
<1>4. InRecency(RemoveAt(list, n), used)
  BY RemovalKeepsOrder
<1>5. QED
  BY <1>1, <1>3, <1>4, FrontKeepsOrder

LEMMA UsedLastIsAsymmetric ==
  ASSUME NEW used, \A k, l \in Key : <<k, l>> \in used => <<l, k>> \notin used,
         NEW k \in Key
  PROVE  \A x, y \in Key : <<x, y>> \in UsedLast(used, k) => <<y, x>> \notin UsedLast(used, k)
<1>1. \A x, y : <<x, y>> \in UsedLast(used, k) <=>
        (<<x, y>> \in used /\ y # k) \/ (x = k /\ y \in Key \ {k})
  BY DEF UsedLast
<1>2. QED
  BY <1>1

OrderInv == IndexMatchesEntries /\ EntriesInRecencyOrder

LEMMA GetKeepsOrder ==
  ASSUME OrderInv, NEW k \in Key, Get(k)
  PROVE  EntriesInRecencyOrder'
<1>1. Matches(entries, index) /\ InRecency(entries, recency)
      /\ \A x, y \in Key : <<x, y>> \in recency => <<y, x>> \notin recency
  BY MatchesIsInvariant DEF OrderInv, EntriesInRecencyOrder, InRecency
<1>2. /\ entries \in Seq(Entry) /\ Len(entries) \in Nat /\ DOMAIN entries = 1 .. Len(entries)
      /\ \A i, j \in DOMAIN entries : entries[i].key = entries[j].key => i = j
  BY <1>1 DEF Matches
<1>3. CASE ~Found(k)
  BY <1>1, <1>3 DEF Get, Hit, cache, EntriesInRecencyOrder, InRecency
<1>4. CASE Found(k)
  <2> DEFINE i == Position(k)
  <2>1. i \in 1 .. Len(entries) /\ entries[i].key = k
    BY <1>1, <1>2, <1>4, PositionOfKey DEF Found
  <2> HIDE DEF i
  <2>2. CASE entries' = RemoveAt(entries, i) /\ recency' = recency
    <3>1. InRecency(RemoveAt(entries, i), recency)
      BY <1>1, <1>2, <2>1, RemovalKeepsOrder
    <3>2. QED
      BY <1>1, <2>2, <3>1 DEF EntriesInRecencyOrder, InRecency
  <2>3. CASE entries' = ToFront(i, entries[i]) /\ Use(k)
    <3>1. entries[i] \in Entry
      BY <1>2, <2>1
    <3>2. InRecency(<<entries[i]>> \o RemoveAt(entries, i), UsedLast(recency, k))
      BY <1>1, <1>2, <2>1, <3>1, ToFrontKeepsOrder
    <3>3. recency' = UsedLast(recency, k) /\ entries' = <<entries[i]>> \o RemoveAt(entries, i)
      BY <2>3 DEF Use, UsedLast, ToFront
    <3>4. QED
      BY <1>1, <3>2, <3>3, UsedLastIsAsymmetric DEF EntriesInRecencyOrder, InRecency
  <2>4. QED
    BY <1>4, <2>2, <2>3 DEF Get, i
<1>5. QED
  BY <1>3, <1>4

LEMMA PutKeepsOrder ==
  ASSUME OrderInv, NEW k \in Key, NEW v \in Value, Put(k, v)
  PROVE  EntriesInRecencyOrder'
<1>1. Matches(entries, index) /\ Len(entries) <= Capacity /\ InRecency(entries, recency)
      /\ \A x, y \in Key : <<x, y>> \in recency => <<y, x>> \notin recency
  BY MatchesIsInvariant DEF OrderInv, EntriesInRecencyOrder, InRecency
<1>2. /\ entries \in Seq(Entry) /\ Len(entries) \in Nat /\ DOMAIN entries = 1 .. Len(entries)
      /\ \A i, j \in DOMAIN entries : entries[i].key = entries[j].key => i = j
      /\ DOMAIN index = {entries[i].key : i \in DOMAIN entries}
  BY <1>1 DEF Matches
<1>3. CASE Disabled
  BY <1>1, <1>3 DEF Put, cache, EntriesInRecencyOrder, InRecency
<1>4. CASE PutExisting(k, v)
  <2> DEFINE i == Position(k)
  <2> DEFINE e == [entries[i] EXCEPT !.value = v, !.left = Ttl]
  <2>1. i \in 1 .. Len(entries) /\ entries[i].key = k
    BY <1>1, <1>2, <1>4, PositionOfKey DEF Found, PutExisting
  <2>2. entries' = <<e>> \o RemoveAt(entries, i) /\ recency' = UsedLast(recency, k)
    BY <1>4 DEF PutExisting, ToFront, Use, UsedLast
  <2> HIDE DEF i
  <2>3. e \in Entry /\ e.key = k
    <3>1. entries[i] \in Entry
      BY <1>2, <2>1
    <3>2. ASSUME NEW x \in Entry
          PROVE  LET y == [x EXCEPT !.value = v, !.left = Ttl] IN
                 y \in Entry /\ y.key = x.key
      <4>1. Ttl \in 0 .. Ttl
        BY CacheAssumption
      <4>2. QED
        BY <4>1 DEF Entry
    <3>3. QED
      BY <2>1, <3>1, <3>2
  <2> HIDE DEF e
  <2>4. InRecency(<<e>> \o RemoveAt(entries, i), UsedLast(recency, k))
    BY <1>1, <1>2, <2>1, <2>3, ToFrontKeepsOrder
  <2>5. QED
    BY <1>1, <2>2, <2>4, UsedLastIsAsymmetric DEF EntriesInRecencyOrder, InRecency
<1>5. CASE ~Disabled /\ PutNew(k, v)
  <2> DEFINE e == [node |-> FreeNode, key |-> k, value |-> v, left |-> Ttl]
  <2> DEFINE pushed == <<e>> \o entries
  <2>1. e \in Entry /\ e.key = k
    <3>1. FreeNode \in Node
      BY <1>1, FreeNodeIsFree
    <3>2. QED
      BY <3>1, CacheAssumption DEF Entry
  <2>2. \A i \in DOMAIN entries : entries[i].key # k
    BY <1>2, <1>5 DEF PutNew, Found
  <2>3. /\ entries' = IF Len(pushed) > Capacity THEN Front(pushed) ELSE pushed
        /\ recency' = UsedLast(recency, k)
    BY <1>5 DEF PutNew, Use, UsedLast
  <2>4. InRecency(pushed, UsedLast(recency, k)) /\ pushed \in Seq(Entry) /\ Len(pushed) >= 1
    <3> HIDE DEF e
    <3>1. InRecency(pushed, UsedLast(recency, k))
      BY <1>1, <1>2, <2>1, <2>2, FrontKeepsOrder
    <3>2. pushed \in Seq(Entry) /\ Len(pushed) >= 1
      BY <1>2, <2>1, PushedFront
    <3>3. QED
      BY <3>1, <3>2
  <2> HIDE DEF pushed
  <2>5. InRecency(Front(pushed), UsedLast(recency, k))
    <3>1. Len(pushed) \in 1 .. Len(pushed) /\ RemoveAt(pushed, Len(pushed)) = Front(pushed)
      BY <2>4, FrontIsRemoved
    <3>2. QED
      BY <2>4, <3>1, RemovalKeepsOrder
  <2>6. InRecency(entries', UsedLast(recency, k))
    BY <2>3, <2>4, <2>5
  <2>7. QED
    BY <1>1, <2>3, <2>6, UsedLastIsAsymmetric DEF EntriesInRecencyOrder, InRecency
<1>6. QED
  BY <1>3, <1>4, <1>5 DEF Put

LEMMA TickKeepsOrder ==
  ASSUME OrderInv, Tick
  PROVE  EntriesInRecencyOrder'
<1>1. entries \in Seq(Entry)
  BY DEF OrderInv, IndexMatchesEntries, CacheTypeOK
<1>2. /\ DOMAIN entries' = DOMAIN entries /\ recency' = recency
      /\ \A i \in DOMAIN entries : entries'[i].key = entries[i].key
  <2>1. \A i \in DOMAIN entries : entries[i] \in Entry
    BY <1>1
  <2>2. QED
    BY <2>1 DEF Tick, Entry
<1>3. QED
  BY <1>2 DEF OrderInv, EntriesInRecencyOrder

\* The entry at the back, which the next insertion evicts, is the least recently
\* used one, however Get, Put, overwriting and expiry moved the others.
THEOREM BackIsLeastRecentlyUsed == CacheSpec => []EntriesInRecencyOrder
<1>1. CacheInit => EntriesInRecencyOrder
  BY DEF CacheInit, EntriesInRecencyOrder
<1>2. OrderInv /\ [CacheNext]_cache => EntriesInRecencyOrder'
  <2> SUFFICES ASSUME OrderInv, [CacheNext]_cache
               PROVE  EntriesInRecencyOrder'
    OBVIOUS
  <2>1. CASE UNCHANGED cache
    BY <2>1 DEF cache, OrderInv, EntriesInRecencyOrder
  <2>2. QED
    BY <2>1, GetKeepsOrder, PutKeepsOrder, TickKeepsOrder DEF CacheNext
<1>3. QED
  BY <1>1, <1>2, IndexIsAlwaysRight, PTL DEF CacheSpec, OrderInv

-----------------------------------------------------------------------------
(* What the cache contains, entry by entry.                                *)

LEMMA GetAddsNothing ==
  ASSUME IndexMatchesEntries, NEW k \in Key, Get(k)
  PROVE  \A j \in DOMAIN entries' : \E i \in DOMAIN entries : entries'[j] = entries[i]
<1>1. Matches(entries, index)
  BY MatchesIsInvariant
<1>2. /\ entries \in Seq(Entry) /\ Len(entries) \in Nat
      /\ DOMAIN entries = 1 .. Len(entries)
  BY <1>1 DEF Matches
<1>3. CASE ~Found(k)
  BY <1>3 DEF Get, Hit, cache
<1>4. CASE Found(k)
  <2> DEFINE i == Position(k)
  <2> DEFINE less == RemoveAt(entries, i)
  <2>1. i \in 1 .. Len(entries) /\ entries[i] \in Entry
    BY <1>1, <1>2, <1>4, PositionOfKey DEF Found
  <2>2. entries' = less \/ entries' = <<entries[i]>> \o less
    BY <1>4 DEF Get, ToFront
  <2> HIDE DEF i
  <2>3. /\ less \in Seq(Entry) /\ DOMAIN less = 1 .. Len(entries) - 1
        /\ Len(less) = Len(entries) - 1
        /\ \A j \in 1 .. Len(entries) - 1 :
             less[j] = IF j < i THEN entries[j] ELSE entries[j + 1]
    BY <1>2, <2>1, RemovedAt
  <2> HIDE DEF less
  <2>4. \A j \in DOMAIN less : \E n \in DOMAIN entries : less[j] = entries[n]
    <3> SUFFICES ASSUME NEW j \in DOMAIN less
                 PROVE  \E n \in DOMAIN entries : less[j] = entries[n]
      OBVIOUS
    <3>1. j \in DOMAIN entries /\ j + 1 \in DOMAIN entries
      BY <1>2, <2>3
    <3>2. QED
      BY <2>3, <3>1
  <2>5. /\ DOMAIN (<<entries[i]>> \o less) = 1 .. Len(less) + 1
        /\ \A j \in 1 .. Len(less) + 1 :
             (<<entries[i]>> \o less)[j] = IF j = 1 THEN entries[i] ELSE less[j - 1]
    BY <2>1, <2>3, PushedFront
  <2>6. \A j \in DOMAIN (<<entries[i]>> \o less) :
          \E n \in DOMAIN entries : (<<entries[i]>> \o less)[j] = entries[n]
    <3> SUFFICES ASSUME NEW j \in 1 .. Len(less) + 1
                 PROVE  \E n \in DOMAIN entries : (<<entries[i]>> \o less)[j] = entries[n]
      BY <2>5
    <3>1. CASE j = 1
      BY <1>2, <2>1, <2>5, <3>1
    <3>2. CASE j # 1
      <4>1. j - 1 \in DOMAIN less
        BY <1>2, <2>3, <3>2
      <4>2. (<<entries[i]>> \o less)[j] = less[j - 1]
        BY <2>5, <3>2
      <4>3. PICK n \in DOMAIN entries : less[j - 1] = entries[n]
        BY <2>4, <4>1
      <4>4. QED
        BY <4>2, <4>3
    <3>3. QED
      BY <3>1, <3>2
  <2>7. QED
    BY <2>2, <2>4, <2>6
<1>5. QED
  BY <1>3, <1>4

IsNew(e, k, v) == e.key = k /\ e.value = v /\ e.left = Ttl

LEMMA PutAddsItsEntry ==
  ASSUME IndexMatchesEntries, NEW k \in Key, NEW v \in Value, Put(k, v), ~Disabled
  PROVE  /\ \A j \in DOMAIN entries' :
              \/ IsNew(entries'[j], k, v)
              \/ \E i \in DOMAIN entries : entries'[j] = entries[i]
         /\ \E j \in DOMAIN entries' : IsNew(entries'[j], k, v)
<1>1. Matches(entries, index) /\ Len(entries) <= Capacity
  BY MatchesIsInvariant
<1>2. /\ entries \in Seq(Entry) /\ Len(entries) \in Nat
      /\ DOMAIN entries = 1 .. Len(entries)
  BY <1>1 DEF Matches
<1>3. ASSUME NEW list \in Seq(Entry), NEW e \in Entry, IsNew(e, k, v),
             \A j \in DOMAIN list : \E i \in DOMAIN entries : list[j] = entries[i]
      PROVE  /\ \A j \in DOMAIN (<<e>> \o list) :
                  \/ IsNew((<<e>> \o list)[j], k, v)
                  \/ \E i \in DOMAIN entries : (<<e>> \o list)[j] = entries[i]
             /\ 1 \in DOMAIN (<<e>> \o list) /\ (<<e>> \o list)[1] = e
  <2>1. /\ Len(list) \in Nat /\ DOMAIN list = 1 .. Len(list)
        /\ DOMAIN (<<e>> \o list) = 1 .. Len(list) + 1
        /\ \A j \in 1 .. Len(list) + 1 :
             (<<e>> \o list)[j] = IF j = 1 THEN e ELSE list[j - 1]
    BY PushedFront
  <2>2. ASSUME NEW j \in 1 .. Len(list) + 1, j # 1
        PROVE  \E i \in DOMAIN entries : (<<e>> \o list)[j] = entries[i]
    <3>1. j - 1 \in DOMAIN list /\ (<<e>> \o list)[j] = list[j - 1]
      BY <2>1, <2>2
    <3>2. QED
      BY <1>3, <3>1
  <2>3. QED
    BY <1>3, <2>1, <2>2
<1>4. CASE PutExisting(k, v)
  <2> DEFINE i == Position(k)
  <2> DEFINE e == [entries[i] EXCEPT !.value = v, !.left = Ttl]
  <2> DEFINE less == RemoveAt(entries, i)
  <2>1. i \in 1 .. Len(entries) /\ entries[i].key = k
    BY <1>1, <1>2, <1>4, PositionOfKey DEF Found, PutExisting
  <2>2. entries' = <<e>> \o less
    BY <1>4 DEF PutExisting, ToFront
  <2> HIDE DEF i
  <2>3. e \in Entry /\ IsNew(e, k, v)
    <3>1. entries[i] \in Entry
      BY <1>2, <2>1
    <3>2. ASSUME NEW x \in Entry
          PROVE  LET y == [x EXCEPT !.value = v, !.left = Ttl] IN
                 y \in Entry /\ y.key = x.key /\ y.value = v /\ y.left = Ttl
      <4>1. Ttl \in 0 .. Ttl
        BY CacheAssumption
      <4>2. QED
        BY <4>1 DEF Entry
    <3>3. QED
      BY <2>1, <3>1, <3>2 DEF IsNew
  <2>4. /\ less \in Seq(Entry) /\ DOMAIN less = 1 .. Len(entries) - 1
        /\ \A j \in 1 .. Len(entries) - 1 :
             less[j] = IF j < i THEN entries[j] ELSE entries[j + 1]
    BY <1>2, <2>1, RemovedAt
  <2> HIDE DEF less, e
  <2>5. \A j \in DOMAIN less : \E n \in DOMAIN entries : less[j] = entries[n]
    <3> SUFFICES ASSUME NEW j \in DOMAIN less
                 PROVE  \E n \in DOMAIN entries : less[j] = entries[n]
      OBVIOUS
    <3>1. j \in DOMAIN entries /\ j + 1 \in DOMAIN entries
      BY <1>2, <2>4
    <3>2. QED
      BY <2>4, <3>1
  <2>6. /\ \A j \in DOMAIN (<<e>> \o less) :
             \/ IsNew((<<e>> \o less)[j], k, v)
             \/ \E n \in DOMAIN entries : (<<e>> \o less)[j] = entries[n]
        /\ 1 \in DOMAIN (<<e>> \o less) /\ (<<e>> \o less)[1] = e
    BY <1>3, <2>3, <2>4, <2>5
  <2>7. QED
    BY <2>2, <2>3, <2>6
<1>5. CASE PutNew(k, v)
  <2> DEFINE e == [node |-> FreeNode, key |-> k, value |-> v, left |-> Ttl]
  <2> DEFINE pushed == <<e>> \o entries
  <2>1. FreeNode \in Node
    BY <1>1, FreeNodeIsFree
  <2>2. e \in Entry /\ IsNew(e, k, v)
    <3>1. Ttl \in 0 .. Ttl
      BY CacheAssumption
    <3>2. QED
      BY <2>1, <3>1 DEF Entry, IsNew
  <2>3. (entries' = Front(pushed) /\ Len(pushed) > Capacity) \/ entries' = pushed
    BY <1>5 DEF PutNew
  <2> HIDE DEF e
  <2>4. /\ pushed \in Seq(Entry) /\ Len(pushed) = Len(entries) + 1
        /\ DOMAIN pushed = 1 .. Len(entries) + 1
    BY <1>2, <2>2, PushedFront
  <2>5. \A j \in DOMAIN pushed :
          IsNew(pushed[j], k, v) \/ \E i \in DOMAIN entries : pushed[j] = entries[i]
    BY <1>2, <1>3, <2>2
  <2>8. pushed[1] = e
    BY <1>2, <1>3, <2>2
  <2> HIDE DEF pushed
  <2>6. /\ \A j \in DOMAIN Front(pushed) : j \in DOMAIN pushed /\ Front(pushed)[j] = pushed[j]
        /\ DOMAIN Front(pushed) = 1 .. Len(pushed) - 1
    <3>1. RemoveAt(pushed, Len(pushed)) = Front(pushed)
      BY <1>2, <2>4, FrontIsRemoved
    <3>2. /\ DOMAIN RemoveAt(pushed, Len(pushed)) = 1 .. Len(pushed) - 1
          /\ \A j \in 1 .. Len(pushed) - 1 :
               RemoveAt(pushed, Len(pushed))[j] =
                 IF j < Len(pushed) THEN pushed[j] ELSE pushed[j + 1]
      <4>1. Len(pushed) \in 1 .. Len(pushed)
        BY <1>2, <2>4
      <4>2. QED
        BY <2>4, <4>1, RemovedAt
    <3>3. QED
      BY <1>2, <2>4, <3>1, <3>2
  <2>7. \A j \in DOMAIN entries' : j \in DOMAIN pushed /\ entries'[j] = pushed[j]
    BY <2>3, <2>6
  <2>9. 1 \in DOMAIN entries'
    <3>1. Capacity \in Nat /\ Capacity > 0
      BY CacheAssumption DEF Disabled
    <3>2. QED
      BY <1>2, <2>3, <2>4, <2>6, <3>1
  <2>10. QED
    BY <2>2, <2>5, <2>7, <2>8, <2>9
<1>6. QED
  BY <1>4, <1>5 DEF Put

-----------------------------------------------------------------------------
(* The cache implements TtlMap.                                            *)

View(e) == [value |-> e.value, left |-> e.left]

\* Contents of any list.
ContentsOf(list) ==
  [k \in {list[i].key : i \in DOMAIN list} |->
     LET s == CHOOSE i \in DOMAIN list : list[i].key = k IN View(list[s])]

LEMMA ContentsAre == Contents = ContentsOf(entries) /\ Contents' = ContentsOf(entries')
  BY DEF Contents, Stored, ContentsOf, View

LEMMA ContentsOfEntries ==
  ASSUME NEW list, NEW idx, Matches(list, idx)
  PROVE  /\ DOMAIN ContentsOf(list) = DOMAIN idx
         /\ \A i \in DOMAIN list :
              /\ list[i].key \in DOMAIN idx
              /\ ContentsOf(list)[list[i].key] = View(list[i])
         /\ \A k \in DOMAIN idx : \E i \in DOMAIN list : list[i].key = k
<1>1. DOMAIN ContentsOf(list) = DOMAIN idx
  BY DEF ContentsOf, Matches
<1>2. ASSUME NEW i \in DOMAIN list
      PROVE  ContentsOf(list)[list[i].key] = View(list[i])
  <2> DEFINE s == CHOOSE n \in DOMAIN list : list[n].key = list[i].key
  <2>1. s \in DOMAIN list /\ list[s].key = list[i].key
    OBVIOUS
  <2>2. s = i
    BY <2>1 DEF Matches
  <2>3. QED
    BY <2>2 DEF ContentsOf
<1>3. QED
  BY <1>1, <1>2 DEF Matches

\* What the entries say determines the contents.
LEMMA SameContents ==
  ASSUME NEW list, NEW idx, Matches(list, idx),
         NEW f, f = [k \in DOMAIN idx |-> f[k]],
         \A i \in DOMAIN list : f[list[i].key] = View(list[i])
  PROVE  ContentsOf(list) = f
<1> DEFINE c == ContentsOf(list)
<1>1. DOMAIN c = DOMAIN idx /\ c = [k \in DOMAIN c |-> c[k]]
  <2>1. DOMAIN c = DOMAIN idx
    BY ContentsOfEntries
  <2>2. c = [k \in DOMAIN c |-> c[k]]
    BY DEF ContentsOf
  <2>3. QED
    BY <2>1, <2>2
<1>2. ASSUME NEW k \in DOMAIN idx PROVE c[k] = f[k]
  <2>1. PICK i \in DOMAIN list : list[i].key = k
    BY ContentsOfEntries
  <2>2. c[k] = View(list[i])
    BY <2>1, ContentsOfEntries
  <2>3. QED
    BY <2>1, <2>2
<1> HIDE DEF c
<1>3. c = f
  BY <1>1, <1>2
<1>4. QED
  BY <1>3 DEF c

LEMMA GetImplements ==
  ASSUME IndexMatchesEntries, NEW k \in Key, Get(k)
  PROVE  Map!Drop(k) \/ Contents' = Contents
<1> DEFINE old == entries
<1> DEFINE new == entries'
<1> DEFINE before == index
<1> DEFINE after == index'
<1>1. Matches(old, before) /\ Matches(new, after)
  <2>1. IndexMatchesEntries'
    BY GetKeepsMatches
  <2>2. QED
    BY <2>1 DEF IndexMatchesEntries, CacheTypeOK, Matches
<1>2. \A j \in DOMAIN new : \E i \in DOMAIN old : new[j] = old[i]
  BY GetAddsNothing
<1>3. /\ DOMAIN ContentsOf(old) = DOMAIN before
      /\ \A i \in DOMAIN old : ContentsOf(old)[old[i].key] = View(old[i])
  BY <1>1, ContentsOfEntries
<1>4. \A j \in DOMAIN new : new[j].key \in DOMAIN after
  BY <1>1, ContentsOfEntries
<1>5. CASE UNCHANGED index
  <2> DEFINE f == ContentsOf(old)
  <2>1. f = [x \in DOMAIN after |-> f[x]]
    BY <1>3, <1>5 DEF ContentsOf
  <2>2. \A j \in DOMAIN new : f[new[j].key] = View(new[j])
    BY <1>2, <1>3
  <2> HIDE DEF old, new, before, after, f
  <2>3. ContentsOf(new) = f
    BY <1>1, <2>1, <2>2, SameContents
  <2>4. QED
    BY <2>3, ContentsAre DEF old, new, f
<1>6. CASE Found(k) /\ IsExpired(old[Position(k)]) /\ after = Erase(k)
  <2> DEFINE f == [x \in DOMAIN ContentsOf(old) \ {k} |-> ContentsOf(old)[x]]
  <2>1. DOMAIN f = DOMAIN after
    BY <1>3, <1>6 DEF Erase
  <2>2. f = [x \in DOMAIN after |-> f[x]]
    BY <2>1
  <2>3. \A j \in DOMAIN new : f[new[j].key] = View(new[j])
    <3> SUFFICES ASSUME NEW j \in DOMAIN new PROVE f[new[j].key] = View(new[j])
      OBVIOUS
    <3>1. PICK i \in DOMAIN old : new[j] = old[i]
      BY <1>2
    <3>2. new[j].key \in DOMAIN f
      BY <1>4, <2>1
    <3>3. QED
      BY <1>3, <3>1, <3>2
  <2>4. k \in DOMAIN ContentsOf(old) /\ ContentsOf(old)[k].left = 0
    <3>1. /\ Position(k) \in DOMAIN old /\ old[Position(k)].key = k
          /\ k \in DOMAIN before
      BY <1>1, <1>6, PositionOfKey DEF Found
    <3>2. ContentsOf(old)[k] = View(old[Position(k)])
      BY <1>3, <3>1
    <3>3. QED
      BY <1>3, <1>6, <3>1, <3>2 DEF IsExpired, View
  <2> HIDE DEF old, new, before, after, f
  <2>5. ContentsOf(new) = f
    BY <1>1, <2>2, <2>3, SameContents
  <2>6. QED
    BY <2>4, <2>5, ContentsAre DEF old, new, f, Map!Drop, Map!Without
<1>7. QED
  BY <1>5, <1>6 DEF Get, cache

LEMMA TickImplements ==
  ASSUME IndexMatchesEntries, Tick
  PROVE  Map!Clock
<1> DEFINE old == entries
<1> DEFINE new == entries'
<1> DEFINE c == ContentsOf(old)
<1> DEFINE f == [k \in DOMAIN c |-> [c[k] EXCEPT !.left = IF @ > 0 THEN @ - 1 ELSE 0]]
<1>1. Matches(old, index) /\ Matches(new, index)
  <2>1. IndexMatchesEntries'
    BY TickKeepsMatches
  <2>2. Matches(entries, index) /\ Matches(entries', index')
    BY <2>1 DEF IndexMatchesEntries, CacheTypeOK, Matches
  <2>3. index' = index
    BY DEF Tick
  <2>4. QED
    BY <2>2, <2>3
<1>2. DOMAIN c = DOMAIN index /\ \A i \in DOMAIN old : c[old[i].key] = View(old[i])
  BY <1>1, ContentsOfEntries
<1>3. \A i \in DOMAIN old : old[i] \in Entry /\ old[i].key \in DOMAIN c
  <2> HIDE DEF old, new, c, f
  <2>1. old \in Seq(Entry) /\ DOMAIN index = {old[i].key : i \in DOMAIN old}
    BY <1>1 DEF Matches
  <2>2. \A i \in DOMAIN old : old[i] \in Entry
    BY <2>1
  <2>3. QED
    BY <1>2, <2>1, <2>2
<1>4. f = [k \in DOMAIN index |-> f[k]]
  BY <1>2
<1>5. ASSUME NEW i \in DOMAIN new PROVE f[new[i].key] = View(new[i])
  <2>1. i \in DOMAIN old /\ new[i] = [old[i] EXCEPT !.left = IF @ > 0 THEN @ - 1 ELSE 0]
    BY <1>5 DEF Tick
  <2>2. PICK e \in Entry : e = old[i]
    BY <1>3, <2>1
  <2>3. /\ new[i].key = e.key /\ new[i].value = e.value
        /\ new[i].left = IF e.left > 0 THEN e.left - 1 ELSE 0
    BY <2>1, <2>2 DEF Entry
  <2>4. c[e.key] = View(e) /\ e.key \in DOMAIN c
    BY <1>2, <1>3, <2>1, <2>2
  <2>5. f[e.key] = [View(e) EXCEPT !.left = IF @ > 0 THEN @ - 1 ELSE 0]
    BY <2>4
  <2>6. QED
    BY <2>3, <2>5 DEF View
<1>6. ContentsOf(new) = f
  <2> HIDE DEF old, new, c, f
  <2>1. QED
    BY <1>1, <1>4, <1>5, SameContents
<1>7. QED
  BY <1>6, ContentsAre DEF Map!Clock

LEMMA ContentsSize ==
  ASSUME Matches(entries, index)
  PROVE  Cardinality(DOMAIN index) = Len(entries)
<1> DEFINE keyOf == [i \in DOMAIN entries |-> entries[i].key]
<1>1. Len(entries) \in Nat /\ DOMAIN entries = 1 .. Len(entries)
  BY DEF Matches
<1>2. IsFiniteSet(1 .. Len(entries)) /\ Cardinality(1 .. Len(entries)) = Len(entries)
  <2>1. \A n \in Nat : IsFiniteSet(1 .. n) /\ Cardinality(1 .. n) = n
    BY FS_Interval
  <2>2. QED
    BY <1>1, <2>1
<1> DEFINE I == 1 .. Len(entries)
<1> DEFINE K == DOMAIN index
<1>3. K = {entries[i].key : i \in I} /\ \A i, j \in I : entries[i].key = entries[j].key => i = j
  BY <1>1 DEF Matches
<1>4. keyOf \in [I -> K] /\ \A i \in I : keyOf[i] = entries[i].key
  BY <1>1, <1>3
<1> HIDE DEF keyOf, I, K
<1>5. keyOf \in Injection(I, K)
  BY <1>3, <1>4 DEF Injection, IsInjective
<1>6. keyOf \in Surjection(I, K)
  BY <1>3, <1>4 DEF Surjection
<1>7. keyOf \in Bijection(I, K)
  BY <1>5, <1>6 DEF Bijection
<1>8. Cardinality(K) = Cardinality(I)
  BY <1>2, <1>7, FS_Bijection DEF I, ExistsBijection
<1>9. QED
  BY <1>2, <1>8 DEF I, K

\* Contents after a Put that evicts the victims.
AfterPut(k, v, victims) ==
  [x \in (DOMAIN Contents \ victims) \cup {k} |->
     IF x = k THEN [value |-> v, left |-> Ttl] ELSE Contents[x]]

LEMMA PutStores ==
  ASSUME IndexMatchesEntries, NEW k \in Key, NEW v \in Value, Put(k, v), ~Disabled,
         NEW victims \in SUBSET (DOMAIN index \ {k}),
         DOMAIN index' = (DOMAIN index \ victims) \cup {k}
  PROVE  Contents' = AfterPut(k, v, victims)
<1> DEFINE old == entries
<1> DEFINE new == entries'
<1> DEFINE after == index'
<1> DEFINE c == ContentsOf(old)
<1> DEFINE f == [x \in (DOMAIN c \ victims) \cup {k} |->
                   IF x = k THEN [value |-> v, left |-> Ttl] ELSE c[x]]
<1>1. Matches(old, index) /\ Matches(new, after)
  <2>1. IndexMatchesEntries'
    BY PutKeepsMatches
  <2>2. QED
    BY <2>1 DEF IndexMatchesEntries, CacheTypeOK, Matches
<1>2. DOMAIN c = DOMAIN index /\ \A i \in DOMAIN old : c[old[i].key] = View(old[i])
  BY <1>1, ContentsOfEntries
<1>3. \A j \in DOMAIN new : new[j].key \in DOMAIN after
  BY <1>1, ContentsOfEntries
<1>4. /\ \A j \in DOMAIN new :
           IsNew(new[j], k, v) \/ \E i \in DOMAIN old : new[j] = old[i]
      /\ \E j \in DOMAIN new : IsNew(new[j], k, v)
  BY PutAddsItsEntry
<1>5. \A j \in DOMAIN new : new[j].key = k => IsNew(new[j], k, v)
  BY <1>1, <1>4 DEF Matches, IsNew
<1>6. DOMAIN f = DOMAIN after
  BY <1>2
<1>7. f = [x \in DOMAIN after |-> f[x]]
  BY <1>6
<1>8. ASSUME NEW j \in DOMAIN new PROVE f[new[j].key] = View(new[j])
  <2>1. new[j].key \in DOMAIN f
    BY <1>3, <1>6
  <2>2. CASE new[j].key = k
    BY <1>5, <2>1, <2>2 DEF IsNew, View
  <2>3. CASE new[j].key # k
    <3>1. PICK i \in DOMAIN old : new[j] = old[i]
      BY <1>4, <2>3 DEF IsNew
    <3>2. f[new[j].key] = c[new[j].key]
      BY <2>1, <2>3
    <3>3. QED
      BY <1>2, <3>1, <3>2
  <2>4. QED
    BY <2>2, <2>3
<1>9. ContentsOf(new) = f
  <2> HIDE DEF old, new, after, c, f
  <2>1. QED
    BY <1>1, <1>7, <1>8, SameContents
<1>10. QED
  BY <1>9, ContentsAre DEF AfterPut

LEMMA PutImplements ==
  ASSUME IndexMatchesEntries, NEW k \in Key, NEW v \in Value, Put(k, v)
  PROVE  Map!Store(k, v) \/ Contents' = Contents
<1>1. Matches(entries, index) /\ Len(entries) <= Capacity
  BY MatchesIsInvariant
<1>2. DOMAIN Contents = DOMAIN index
  BY <1>1, ContentsAre, ContentsOfEntries
<1>3. CASE Disabled
  BY <1>3, ContentsAre DEF Put, cache
<1>4. CASE ~Disabled
  <2>1. Capacity \in Nat /\ Capacity > 0
    BY <1>4, CacheAssumption DEF Disabled
  <2>2. /\ entries \in Seq(Entry) /\ Len(entries) \in Nat
        /\ DOMAIN entries = 1 .. Len(entries)
    BY <1>1 DEF Matches
  <2>3. Cardinality(DOMAIN index) = Len(entries)
    BY <1>1, ContentsSize
  <2> DEFINE needed == IF k \notin DOMAIN index /\ Len(entries) = Capacity THEN 1 ELSE 0
  <2>4. \E victims \in SUBSET (DOMAIN index \ {k}) :
          /\ Cardinality(victims) = needed
          /\ DOMAIN index' = (DOMAIN index \ victims) \cup {k}
    <3>1. CASE PutExisting(k, v)
      <4>1. k \in DOMAIN index /\ index' = index
        BY <3>1 DEF PutExisting, Found
      <4>2. Cardinality({}) = 0
        BY FS_EmptySet
      <4>3. QED
        BY <4>1, <4>2
    <3>2. CASE PutNew(k, v)
      <4> DEFINE e == [node |-> FreeNode, key |-> k, value |-> v, left |-> Ttl]
      <4> DEFINE pushed == <<e>> \o entries
      <4> DEFINE full == Len(pushed) > Capacity
      <4> DEFINE evicted == IF full THEN {Last(pushed).key} ELSE {}
      <4>1. k \notin DOMAIN index
        BY <3>2 DEF PutNew, Found
      <4>2. DOMAIN index' = (DOMAIN index \cup {k}) \ evicted
        BY <3>2 DEF PutNew
      <4>3. e \in Entry
        <5>1. Ttl \in 0 .. Ttl
          BY CacheAssumption
        <5>2. FreeNode \in Node
          BY <1>1, FreeNodeIsFree
        <5>3. QED
          BY <5>1, <5>2 DEF Entry
      <4> HIDE DEF e
      <4>4. /\ pushed \in Seq(Entry) /\ Len(pushed) = Len(entries) + 1
            /\ \A j \in 1 .. Len(entries) + 1 :
                 pushed[j] = IF j = 1 THEN e ELSE entries[j - 1]
        BY <2>2, <4>3, PushedFront
      <4> HIDE DEF pushed
      <4>8. full <=> Len(entries) = Capacity
        <5>1. Len(pushed) = Len(entries) + 1
          BY <4>4
        <5>2. Len(entries) <= Capacity
          BY <1>1
        <5>3. Len(entries) \in Nat
          BY <2>2
        <5>4. QED
          BY <2>1, <5>1, <5>2, <5>3, SMT DEF full
      <4>5. CASE full
        <5>1. Len(entries) = Capacity
          BY <4>5, <4>8
        <5>2. Last(pushed) = pushed[Len(pushed)]
          BY <2>2, <4>4, FrontIsRemoved
        <5>3. Last(pushed) = entries[Len(entries)] /\ Len(entries) \in DOMAIN entries
          BY <2>1, <2>2, <4>4, <5>1, <5>2
        <5>4. Last(pushed).key \in DOMAIN index
          BY <1>1, <5>3 DEF Matches
        <5>5. evicted \in SUBSET (DOMAIN index \ {k}) /\ evicted = {Last(pushed).key}
          BY <4>1, <4>5, <5>4
        <5>6. Cardinality(evicted) = needed
          BY <4>1, <5>1, <5>5, FS_Singleton
        <5>7. DOMAIN index' = (DOMAIN index \ evicted) \cup {k}
          BY <4>1, <4>2, <5>5
        <5>8. QED
          BY <5>5, <5>6, <5>7
      <4>6. CASE ~full
        <5>1. Len(entries) # Capacity
          BY <4>6, <4>8
        <5>2. Cardinality({}) = needed
          BY <5>1, FS_EmptySet
        <5>3. DOMAIN index' = (DOMAIN index \ {}) \cup {k}
          BY <4>2, <4>6
        <5>4. QED
          BY <5>2, <5>3
      <4>7. QED
        BY <4>5, <4>6
    <3>3. QED
      BY <1>4, <3>1, <3>2 DEF Put
  <2>5. PICK victims \in SUBSET (DOMAIN index \ {k}) :
          /\ Cardinality(victims) = needed
          /\ DOMAIN index' = (DOMAIN index \ victims) \cup {k}
    BY <2>4
  <2>6. Contents' = AfterPut(k, v, victims)
    BY <1>4, <2>5, PutStores
  <2>7. Map!Store(k, v)
    <3>1. /\ victims \in SUBSET (DOMAIN Contents \ {k})
          /\ Cardinality(victims) =
               IF k \notin DOMAIN Contents /\ Cardinality(DOMAIN Contents) = Capacity
               THEN 1 ELSE 0
      BY <1>2, <2>3, <2>5
    <3>2. Contents' = [x \in (DOMAIN Contents \ victims) \cup {k} |->
                         IF x = k THEN [value |-> v, left |-> Ttl] ELSE Contents[x]]
      BY <2>6 DEF AfterPut
    <3>3. \E V \in SUBSET (DOMAIN Contents \ {k}) :
            /\ Cardinality(V) =
                 IF k \notin DOMAIN Contents /\ Cardinality(DOMAIN Contents) = Capacity
                 THEN 1 ELSE 0
            /\ Contents' = [x \in (DOMAIN Contents \ V) \cup {k} |->
                              IF x = k THEN [value |-> v, left |-> Ttl] ELSE Contents[x]]
      BY <3>1, <3>2, Zenon
    <3>4. \A S : Map!Cardinality(S) = Cardinality(S)
      BY Zenon DEF Map!Cardinality, Cardinality
    <3>5. QED
      BY <2>1, <3>3, <3>4, Zenon DEF Map!Store
  <2>8. QED
    BY <2>7
<1>5. QED
  BY <1>3, <1>4

\* A caller of the cache sees a map with a time to live: nothing else removes,
\* changes or refreshes an entry.
THEOREM CacheImplementsTtlMap == CacheSpec => ImplementsTtlMap
<1>1. CacheInit => Map!TInit
  <2> SUFFICES ASSUME CacheInit PROVE Contents = [k \in {} |-> [value |-> 0, left |-> 0]]
    BY DEF Map!TInit
  <2>1. DOMAIN entries = {}
    BY DEF CacheInit
  <2>2. QED
    BY <2>1 DEF Contents
<1>2. IndexMatchesEntries /\ [CacheNext]_cache => [Map!TNext]_Contents
  <2> SUFFICES ASSUME IndexMatchesEntries, [CacheNext]_cache
               PROVE  Map!TNext \/ Contents' = Contents
    OBVIOUS
  <2>1. CASE UNCHANGED cache
    BY <2>1, ContentsAre DEF cache
  <2>2. ASSUME NEW k \in Key, Get(k) PROVE Map!TNext \/ Contents' = Contents
    BY <2>2, GetImplements DEF Map!TNext
  <2>3. ASSUME NEW k \in Key, NEW v \in Value, Put(k, v)
        PROVE  Map!TNext \/ Contents' = Contents
    BY <2>3, PutImplements DEF Map!TNext
  <2>4. CASE Tick
    BY <2>4, TickImplements DEF Map!TNext
  <2>5. QED
    BY <2>1, <2>2, <2>3, <2>4 DEF CacheNext
<1>3. QED
  BY <1>1, <1>2, IndexIsAlwaysRight, PTL DEF CacheSpec, ImplementsTtlMap, Map!TSpec

-----------------------------------------------------------------------------
(***************************************************************************)
(* How old the values under way are.  A stored value is fresh, a fetched   *)
(* one is as old as its fetch at most, a cached one as old as a whole      *)
(* fetch and the part of its time to live that is over.                    *)
(***************************************************************************)
StoredIsFresh == \A k \in Key, v \in Value : stored[k] = v => age[k][v] = 0

FetchedIsRecent ==
  \A t \in Thread :
    pc[t] = "fill" /\ fetched[t] \in Value => age[key[t]][fetched[t]] <= elapsed[t]

AgesWell(e) == e.left > 0 => age[e.key][e.value] <= MaxFetch + (Ttl - e.left)

CachedIsRecent == \A i \in DOMAIN entries : AgesWell(entries[i])

DisabledIsEmpty == Disabled => DOMAIN entries = {}

AnsweredIsRecent == \A t \in Thread : answer[t].age <= MaxAge

CacheInv == IndexMatchesEntries /\ CachedIsRecent /\ DisabledIsEmpty

ThreadInv == TypeOK /\ StoredIsFresh /\ FetchedIsRecent /\ AnsweredIsRecent

IInv == CacheInv /\ ThreadInv

LEMMA Bounds ==
  /\ Ttl \in Nat /\ MaxFetch \in Nat /\ MaxAge \in Nat /\ MaxFetch <= MaxAge
  /\ ~Disabled => Ttl > 0 /\ MaxAge = MaxFetch + Ttl - 1
BY CacheAssumption, StoreAssumption DEF MaxAge, Disabled

\* What a hit returns.
LEMMA HitIsRecent ==
  ASSUME CacheInv, TypeOK, NEW k \in Key, Hit(k)
  PROVE  Cached(k) \in Value /\ age[k][Cached(k)] <= MaxAge
<1>1. Matches(entries, index) /\ entries \in Seq(Entry)
  BY MatchesIsInvariant DEF CacheInv, Matches
<1> DEFINE e == entries[Position(k)]
<1>2. Position(k) \in DOMAIN entries /\ e.key = k
  BY <1>1, PositionOfKey DEF Hit, Found
<1>3. e \in Entry /\ e.left # 0 /\ AgesWell(e) /\ ~Disabled
  BY <1>1, <1>2 DEF Hit, IsExpired, CacheInv, CachedIsRecent, DisabledIsEmpty
<1>4. Cached(k) = e.value
  BY DEF Cached
<1> HIDE DEF e
<1>5. e.value \in Value /\ e.left \in 1 .. Ttl
  BY <1>3, Bounds DEF Entry
<1>6. age[k][e.value] \in Int
  BY <1>5 DEF TypeOK
<1>7. age[k][e.value] <= MaxFetch + (Ttl - e.left)
  BY <1>2, <1>3, <1>5 DEF AgesWell
<1>8. QED
  BY <1>3, <1>4, <1>5, <1>6, <1>7, Bounds

\* A call that ends with a recent value, or without one, keeps the bounds.
LEMMA AnswerKeepsThreads ==
  ASSUME ThreadInv, CacheTypeOK', NEW t \in Thread, NEW r \in Document \cup {Failed},
         r \in Value => age[key[t]][r] <= MaxAge, Answer(t, r)
  PROVE  ThreadInv'
<1>1. TypeOK
  BY DEF ThreadInv
<1> DEFINE a == IF r \in Value THEN age[key[t]][r] ELSE 0
<1>2. a \in 0 .. MaxAge + 1 /\ a <= MaxAge
  <2>1. CASE r \in Value
    <3>1. age[key[t]][r] \in 0 .. MaxAge + 1
      BY <1>1, <2>1 DEF TypeOK
    <3>2. QED
      BY <2>1, <3>1
  <2>2. CASE r \notin Value
    BY <2>2, Bounds
  <2>3. QED
    BY <2>1, <2>2
<1>3. answer' = [answer EXCEPT ![t] = [value |-> r, age |-> a]]
  BY DEF Answer
<1> HIDE DEF a
<1>4. TypeOK'
  <2>1. /\ pc' \in [Thread -> {"idle", "get", "fetch", "fill"}]
        /\ stored' \in [Key -> Document] /\ key' \in [Thread -> Key]
        /\ age' \in [Key -> [Value -> 0 .. (MaxAge + 1)]]
        /\ seenAbsent' \in [Thread -> BOOLEAN]
    BY <1>1 DEF Answer, TypeOK
  <2>2. elapsed' \in [Thread -> 0 .. MaxFetch]
    BY <1>1, Bounds DEF Answer, TypeOK
  <2>3. fetched' \in [Thread -> Document]
    BY <1>1 DEF Answer, TypeOK, Document
  <2>4. answer' \in [Thread -> [value : Document \cup {Failed}, age : 0 .. (MaxAge + 1)]]
    BY <1>1, <1>2, <1>3 DEF TypeOK
  <2>5. QED
    BY <2>1, <2>2, <2>3, <2>4 DEF TypeOK
<1>5. StoredIsFresh'
  BY DEF ThreadInv, StoredIsFresh, Answer
<1>6. FetchedIsRecent'
  <2> SUFFICES ASSUME NEW u \in Thread, pc'[u] = "fill", fetched'[u] \in Value
               PROVE  age'[key'[u]][fetched'[u]] <= elapsed'[u]
    BY DEF FetchedIsRecent
  <2>1. u # t
    BY <1>1 DEF Answer, TypeOK
  <2>2. /\ pc'[u] = pc[u] /\ fetched'[u] = fetched[u] /\ elapsed'[u] = elapsed[u]
        /\ key' = key /\ age' = age
    BY <1>1, <2>1 DEF Answer, TypeOK
  <2>3. QED
    BY <2>2 DEF ThreadInv, FetchedIsRecent
<1>7. AnsweredIsRecent'
  BY <1>1, <1>2, <1>3 DEF ThreadInv, AnsweredIsRecent, TypeOK
<1>8. QED
  BY <1>4, <1>5, <1>6, <1>7 DEF ThreadInv

\* The cache keeps its bounds if its entries are old ones or a recent one.
LEMMA EntriesKeepCache ==
  ASSUME CacheInv, IndexMatchesEntries', UNCHANGED age,
         Disabled => DOMAIN entries' = {},
         \A j \in DOMAIN entries' :
           AgesWell(entries[j])' \/ \E i \in DOMAIN entries : entries'[j] = entries[i]
  PROVE  CacheInv'
<1>1. ASSUME NEW j \in DOMAIN entries', NEW i \in DOMAIN entries, entries'[j] = entries[i]
      PROVE  AgesWell(entries[j])'
  <2>1. AgesWell(entries[i])
    BY DEF CacheInv, CachedIsRecent
  <2>2. QED
    BY <1>1, <2>1 DEF AgesWell
<1>2. CachedIsRecent'
  <2> SUFFICES ASSUME NEW j \in DOMAIN entries' PROVE AgesWell(entries[j])'
    BY DEF CachedIsRecent
  <2>1. QED
    BY <1>1
<1>3. QED
  BY <1>2 DEF CacheInv, DisabledIsEmpty

LEMMA UnchangedCache ==
  ASSUME CacheInv, UNCHANGED cache, UNCHANGED age
  PROVE  CacheInv'
<1>1. IndexMatchesEntries'
  BY DEF CacheInv, cache, IndexMatchesEntries, CacheTypeOK
<1>2. Disabled => DOMAIN entries' = {}
  BY DEF CacheInv, cache, DisabledIsEmpty
<1>3. \A j \in DOMAIN entries' : \E i \in DOMAIN entries : entries'[j] = entries[i]
  BY DEF cache
<1>4. QED
  BY <1>1, <1>2, <1>3, EntriesKeepCache

LEMMA FindInCacheKeeps ==
  ASSUME IInv, NEW t \in Thread, FindInCache(t)
  PROVE  IInv'
<1>1. CacheInv /\ ThreadInv /\ TypeOK /\ IndexMatchesEntries
  BY DEF IInv, CacheInv, ThreadInv
<1>2. PICK k \in Key : k = key[t]
  BY <1>1 DEF TypeOK
<1>3. Get(k)
  BY <1>2 DEF FindInCache
<1>4. UNCHANGED age
  BY DEF FindInCache, Answer
<1>5. IndexMatchesEntries'
  BY <1>1, <1>3, GetKeepsMatches
<1>6. \A j \in DOMAIN entries' : \E i \in DOMAIN entries : entries'[j] = entries[i]
  BY <1>1, <1>3, GetAddsNothing
<1>7. CacheInv'
  BY <1>1, <1>4, <1>5, <1>6, EntriesKeepCache DEF CacheInv, DisabledIsEmpty
<1>8. ThreadInv'
  <2>1. CASE Hit(key[t]) /\ Answer(t, Cached(key[t]))
    <3>1. PICK r : r = Cached(key[t])
      OBVIOUS
    <3>2. r \in Value /\ age[key[t]][r] <= MaxAge
      BY <1>1, <1>2, <2>1, <3>1, HitIsRecent
    <3>3. Answer(t, r)
      BY <2>1, <3>1 DEF Answer
    <3>4. CacheTypeOK'
      BY <1>5 DEF IndexMatchesEntries
    <3>5. QED
      BY <1>1, <3>2, <3>3, <3>4, AnswerKeepsThreads DEF Document
  <2>2. CASE /\ pc' = [pc EXCEPT ![t] = "fetch"]
             /\ UNCHANGED <<stored, key, fetched, elapsed, age, seenAbsent, answer>>
    <3>1. TypeOK'
      BY <1>1, <1>5, <2>2 DEF TypeOK, IndexMatchesEntries
    <3>2. FetchedIsRecent'
      BY <1>1, <2>2 DEF FetchedIsRecent, ThreadInv, TypeOK
    <3>3. StoredIsFresh' /\ AnsweredIsRecent'
      BY <1>1, <2>2 DEF ThreadInv, StoredIsFresh, AnsweredIsRecent
    <3>4. QED
      BY <3>1, <3>2, <3>3 DEF ThreadInv
  <2>3. QED
    BY <2>1, <2>2 DEF FindInCache
<1>9. QED
  BY <1>7, <1>8 DEF IInv

LEMMA FillKeeps ==
  ASSUME IInv, NEW t \in Thread, Fill(t)
  PROVE  IInv'
<1>1. CacheInv /\ ThreadInv /\ TypeOK /\ IndexMatchesEntries
  BY DEF IInv, CacheInv, ThreadInv
<1>2. PICK k \in Key : k = key[t]
  BY <1>1 DEF TypeOK
<1>3. PICK d \in Document : d = fetched[t]
  BY <1>1 DEF TypeOK
<1>4. /\ IF d = Absent THEN UNCHANGED cache ELSE Put(k, d)
      /\ Answer(t, d)
  BY <1>2, <1>3 DEF Fill
<1>5. d \in Value => age[k][d] <= MaxFetch
  <2> SUFFICES ASSUME d \in Value PROVE age[k][d] <= MaxFetch
    OBVIOUS
  <2>1. pc[t] = "fill"
    BY DEF Fill
  <2>2. age[k][d] <= elapsed[t]
    BY <1>1, <1>2, <1>3, <2>1 DEF ThreadInv, FetchedIsRecent
  <2>3. age[k][d] \in Int /\ elapsed[t] \in Int /\ elapsed[t] <= MaxFetch
    BY <1>1, Bounds DEF TypeOK
  <2>4. QED
    BY <2>2, <2>3, Bounds
<1>6. UNCHANGED age
  BY <1>4 DEF Answer
<1>7. CacheInv'
  <2>1. CASE d = Absent \/ Disabled
    <3>1. UNCHANGED cache
      BY <1>4, <2>1 DEF Put
    <3>2. QED
      BY <1>1, <1>6, <3>1, UnchangedCache
  <2>2. CASE d # Absent /\ ~Disabled
    <3>1. d \in Value /\ Put(k, d)
      BY <1>4, <2>2 DEF Document
    <3>2. IndexMatchesEntries'
      BY <1>1, <3>1, PutKeepsMatches
    <3>3. \A j \in DOMAIN entries' :
            \/ IsNew(entries'[j], k, d)
            \/ \E i \in DOMAIN entries : entries'[j] = entries[i]
      BY <1>1, <2>2, <3>1, PutAddsItsEntry
    <3>4. ASSUME NEW j \in DOMAIN entries', IsNew(entries'[j], k, d)
          PROVE  AgesWell(entries[j])'
      <4>1. age[k][d] <= MaxFetch + (Ttl - Ttl)
        BY <1>5, <3>1, Bounds
      <4>2. QED
        BY <1>6, <3>4, <4>1 DEF IsNew, AgesWell
    <3>5. \A j \in DOMAIN entries' :
            AgesWell(entries[j])' \/ \E i \in DOMAIN entries : entries'[j] = entries[i]
      BY <3>3, <3>4
    <3>6. QED
      BY <1>1, <1>6, <2>2, <3>2, <3>5, EntriesKeepCache
  <2>3. QED
    BY <2>1, <2>2
<1>8. ThreadInv'
  <2>1. d \in Value => age[key[t]][d] <= MaxAge
    <3> SUFFICES ASSUME d \in Value PROVE age[k][d] <= MaxAge
      BY <1>2
    <3>1. age[k][d] \in Int
      BY <1>1 DEF TypeOK
    <3>2. QED
      BY <1>5, <3>1, Bounds
  <2>2. CacheTypeOK'
    BY <1>7 DEF CacheInv, IndexMatchesEntries
  <2>3. QED
    BY <1>1, <1>4, <2>1, <2>2, AnswerKeepsThreads
<1>9. QED
  BY <1>7, <1>8 DEF IInv

LEMMA CallKeeps ==
  ASSUME IInv, NEW t \in Thread, NEW k \in Key, Call(t, k)
  PROVE  IInv'
<1>1. CacheInv /\ ThreadInv /\ TypeOK
  BY DEF IInv, ThreadInv
<1>2. UNCHANGED cache /\ UNCHANGED age
  BY DEF Call
<1>3. CacheInv'
  BY <1>1, <1>2, UnchangedCache
<1>4. TypeOK'
  BY <1>1, <1>3 DEF Call, TypeOK, CacheInv, IndexMatchesEntries
<1>5. FetchedIsRecent'
  <2> SUFFICES ASSUME NEW u \in Thread, pc'[u] = "fill", fetched'[u] \in Value
               PROVE  age'[key'[u]][fetched'[u]] <= elapsed'[u]
    BY DEF FetchedIsRecent
  <2>1. u # t
    BY <1>1 DEF Call, TypeOK
  <2>2. pc[u] = "fill" /\ key'[u] = key[u] /\ UNCHANGED <<fetched, elapsed, age>>
    BY <1>1, <2>1 DEF Call, TypeOK
  <2>3. QED
    BY <1>1, <2>2 DEF ThreadInv, FetchedIsRecent
<1>6. StoredIsFresh' /\ AnsweredIsRecent'
  BY <1>1 DEF Call, ThreadInv, StoredIsFresh, AnsweredIsRecent
<1>7. QED
  BY <1>3, <1>4, <1>5, <1>6 DEF IInv, ThreadInv

LEMMA FetchKeeps ==
  ASSUME IInv, NEW t \in Thread, Fetch(t)
  PROVE  IInv'
<1>1. CacheInv /\ ThreadInv /\ TypeOK
  BY DEF IInv, ThreadInv
<1>2. UNCHANGED cache /\ UNCHANGED age
  BY DEF Fetch
<1>3. CacheInv'
  BY <1>1, <1>2, UnchangedCache
<1>4. TypeOK'
  BY <1>1, <1>3 DEF Fetch, TypeOK, CacheInv, IndexMatchesEntries
<1>5. FetchedIsRecent'
  <2> SUFFICES ASSUME NEW u \in Thread, pc'[u] = "fill", fetched'[u] \in Value
               PROVE  age'[key'[u]][fetched'[u]] <= elapsed'[u]
    BY DEF FetchedIsRecent
  <2>1. CASE u = t
    <3>1. fetched'[u] = stored[key[u]] /\ key[u] \in Key
      BY <1>1, <2>1 DEF Fetch, TypeOK
    <3>2. age[key[u]][fetched'[u]] = 0
      BY <1>1, <3>1 DEF ThreadInv, StoredIsFresh
    <3>3. elapsed[u] \in 0 .. MaxFetch
      BY <1>1 DEF TypeOK
    <3>4. QED
      BY <3>2, <3>3, Bounds DEF Fetch
  <2>2. CASE u # t
    <3>1. pc[u] = "fill" /\ fetched'[u] = fetched[u] /\ UNCHANGED <<key, elapsed, age>>
      BY <1>1, <2>2 DEF Fetch, TypeOK
    <3>2. QED
      BY <1>1, <3>1 DEF ThreadInv, FetchedIsRecent
  <2>3. QED
    BY <2>1, <2>2
<1>6. StoredIsFresh' /\ AnsweredIsRecent'
  BY <1>1 DEF Fetch, ThreadInv, StoredIsFresh, AnsweredIsRecent
<1>7. QED
  BY <1>3, <1>4, <1>5, <1>6 DEF IInv, ThreadInv

LEMMA FetchFailsKeeps ==
  ASSUME IInv, NEW t \in Thread, FetchFails(t)
  PROVE  IInv'
<1>1. CacheInv /\ ThreadInv
  BY DEF IInv
<1>2. Answer(t, Failed) /\ UNCHANGED cache /\ UNCHANGED age
  BY DEF FetchFails, Answer
<1>3. CacheInv'
  BY <1>1, <1>2, UnchangedCache
<1>4. CacheTypeOK'
  BY <1>3 DEF CacheInv, IndexMatchesEntries
<1>5. Failed \notin Value
  BY StoreAssumption
<1>6. QED
  BY <1>1, <1>2, <1>3, <1>4, <1>5, AnswerKeepsThreads DEF IInv

LEMMA WriteKeeps ==
  ASSUME IInv, NEW k \in Key, NEW d \in Document, Write(k, d)
  PROVE  IInv'
<1>1. CacheInv /\ ThreadInv /\ TypeOK /\ IndexMatchesEntries
  BY DEF IInv, ThreadInv, CacheInv
<1>2. UNCHANGED cache /\ UNCHANGED threads /\ UNCHANGED answer
  BY DEF Write
<1>3. \A x \in Key, v \in Value :
        /\ age[x][v] \in 0 .. MaxAge + 1 /\ age'[x][v] \in 0 .. MaxAge + 1
        /\ age'[x][v] <= age[x][v]
        /\ stored'[x] = v => age'[x][v] = 0
  <2> SUFFICES ASSUME NEW x \in Key, NEW v \in Value
               PROVE  /\ age[x][v] \in 0 .. MaxAge + 1 /\ age'[x][v] \in 0 .. MaxAge + 1
                      /\ age'[x][v] <= age[x][v]
                      /\ stored'[x] = v => age'[x][v] = 0
    OBVIOUS
  <2>1. age[x][v] \in 0 .. MaxAge + 1
    BY <1>1 DEF TypeOK
  <2>2. CASE x = k /\ v = d
    <3>1. d # Absent
      BY <2>2, StoreAssumption
    <3>2. age' = [age EXCEPT ![k][d] = 0]
      BY <3>1 DEF Write
    <3>3. age'[x][v] = 0
      BY <1>1, <2>2, <3>2 DEF TypeOK
    <3>4. QED
      BY <2>1, <3>3, Bounds
  <2>3. CASE ~(x = k /\ v = d)
    <3>1. age'[x][v] = age[x][v]
      BY <1>1, <2>3 DEF Write, TypeOK
    <3>2. stored'[x] = v => stored[x] = v
      BY <1>1, <2>3 DEF Write, TypeOK
    <3>3. QED
      BY <1>1, <2>1, <3>1, <3>2, Bounds DEF ThreadInv, StoredIsFresh
  <2>4. QED
    BY <2>2, <2>3
<1>4. TypeOK'
  <2>1. CacheTypeOK'
    BY <1>1, <1>2 DEF cache, CacheTypeOK, TypeOK
  <2>2. age' \in [Key -> [Value -> 0 .. (MaxAge + 1)]]
    <3>1. CASE d = Absent
      BY <1>1, <3>1 DEF Write, TypeOK
    <3>2. CASE d \in Value
      <4>1. d # Absent /\ 0 \in 0 .. MaxAge + 1
        BY <3>2, StoreAssumption, Bounds
      <4>2. QED
        BY <1>1, <3>2, <4>1 DEF Write, TypeOK
    <3>3. QED
      BY <3>1, <3>2 DEF Document
  <2>3. stored' \in [Key -> Document]
    BY <1>1 DEF Write, TypeOK
  <2>4. seenAbsent' \in [Thread -> BOOLEAN]
    BY <1>1 DEF Write, TypeOK
  <2>5. QED
    BY <1>1, <1>2, <2>1, <2>2, <2>3, <2>4 DEF TypeOK, threads
<1>5. FetchedIsRecent'
  <2> SUFFICES ASSUME NEW u \in Thread, pc[u] = "fill", fetched[u] \in Value
               PROVE  age'[key[u]][fetched[u]] <= elapsed[u]
    BY <1>2 DEF FetchedIsRecent, threads
  <2>1. key[u] \in Key /\ elapsed[u] \in Int /\ age[key[u]][fetched[u]] <= elapsed[u]
    BY <1>1 DEF ThreadInv, FetchedIsRecent, TypeOK
  <2>2. QED
    BY <1>3, <2>1, Bounds
<1>6. StoredIsFresh' /\ AnsweredIsRecent'
  BY <1>1, <1>2, <1>3 DEF ThreadInv, StoredIsFresh, AnsweredIsRecent
<1>7. CachedIsRecent'
  <2> SUFFICES ASSUME NEW i \in DOMAIN entries PROVE AgesWell(entries[i])'
    BY <1>2 DEF cache, CachedIsRecent
  <2>1. entries[i] \in Entry /\ AgesWell(entries[i])
    BY <1>1 DEF CacheInv, CachedIsRecent, IndexMatchesEntries, CacheTypeOK
  <2>2. PICK e \in Entry : e = entries[i]
    BY <2>1
  <2>3. e.key \in Key /\ e.value \in Value /\ e.left \in Int
    BY Bounds DEF Entry
  <2>4. e.left > 0 => age'[e.key][e.value] <= MaxFetch + (Ttl - e.left)
    BY <1>3, <2>1, <2>2, <2>3, Bounds DEF AgesWell
  <2>5. QED
    BY <1>2, <2>2, <2>4 DEF AgesWell, cache
<1>8. IndexMatchesEntries' /\ DisabledIsEmpty'
  BY <1>1, <1>2 DEF cache, IndexMatchesEntries, CacheTypeOK, CacheInv, DisabledIsEmpty
<1>9. QED
  BY <1>4, <1>5, <1>6, <1>7, <1>8 DEF IInv, CacheInv, ThreadInv

LEMMA PassKeeps ==
  ASSUME IInv, Pass
  PROVE  IInv'
<1>1. CacheInv /\ ThreadInv /\ TypeOK /\ IndexMatchesEntries
  BY DEF IInv, ThreadInv, CacheInv
<1>2. Tick /\ UNCHANGED <<stored, pc, key, fetched, seenAbsent, answer>>
  BY DEF Pass
<1>3. IndexMatchesEntries'
  BY <1>1, <1>2, TickKeepsMatches
<1>4. \A x \in Key, v \in Value :
        /\ age[x][v] \in 0 .. MaxAge + 1 /\ age'[x][v] \in 0 .. MaxAge + 1
        /\ age'[x][v] <= age[x][v] + 1
        /\ stored'[x] = v => age'[x][v] = 0
  <2> SUFFICES ASSUME NEW x \in Key, NEW v \in Value
               PROVE  /\ age[x][v] \in 0 .. MaxAge + 1 /\ age'[x][v] \in 0 .. MaxAge + 1
                      /\ age'[x][v] <= age[x][v] + 1
                      /\ stored'[x] = v => age'[x][v] = 0
    OBVIOUS
  <2>1. age[x][v] \in 0 .. MaxAge + 1
    BY <1>1 DEF TypeOK
  <2>2. age'[x][v] = IF stored[x] = v THEN 0
                     ELSE IF age[x][v] <= MaxAge THEN age[x][v] + 1 ELSE MaxAge + 1
    BY DEF Pass
  <2>3. QED
    BY <1>2, <2>1, <2>2, Bounds
<1>5. \A t \in Thread :
        /\ elapsed[t] \in Int /\ elapsed'[t] \in 0 .. MaxFetch
        /\ pc[t] = "fill" => elapsed'[t] = elapsed[t] + 1
  <2> SUFFICES ASSUME NEW t \in Thread
               PROVE  /\ elapsed[t] \in Int /\ elapsed'[t] \in 0 .. MaxFetch
                      /\ pc[t] = "fill" => elapsed'[t] = elapsed[t] + 1
    OBVIOUS
  <2>1. elapsed[t] \in 0 .. MaxFetch
    BY <1>1 DEF TypeOK
  <2>2. elapsed'[t] = IF t \in Fetching THEN elapsed[t] + 1 ELSE 0
    BY DEF Pass
  <2>3. t \in Fetching => elapsed[t] < MaxFetch
    BY DEF Pass
  <2>4. pc[t] = "fill" => t \in Fetching
    BY DEF Fetching
  <2>5. QED
    BY <2>1, <2>2, <2>3, <2>4, Bounds
<1>6. TypeOK'
  <2>1. age' \in [Key -> [Value -> 0 .. (MaxAge + 1)]]
    <3> DEFINE new(k, v) == IF stored[k] = v THEN 0
                            ELSE IF age[k][v] <= MaxAge THEN age[k][v] + 1 ELSE MaxAge + 1
    <3>1. age' = [k \in Key |-> [v \in Value |-> new(k, v)]]
      BY DEF Pass
    <3>2. \A k \in Key, v \in Value : new(k, v) \in 0 .. MaxAge + 1
      <4>1. \A k \in Key, v \in Value : age[k][v] \in 0 .. MaxAge + 1
        BY <1>4
      <4>2. QED
        BY <4>1, Bounds
    <3> HIDE DEF new
    <3>3. QED
      BY <3>1, <3>2
  <2>2. elapsed' \in [Thread -> 0 .. MaxFetch]
    <3>1. DOMAIN elapsed' = Thread /\ elapsed' = [t \in Thread |-> elapsed'[t]]
      BY DEF Pass
    <3>2. QED
      BY <1>5, <3>1
  <2>3. CacheTypeOK'
    BY <1>3 DEF IndexMatchesEntries
  <2>4. QED
    BY <1>1, <1>2, <2>1, <2>2, <2>3 DEF TypeOK
<1>7. FetchedIsRecent'
  <2> SUFFICES ASSUME NEW u \in Thread, pc[u] = "fill", fetched[u] \in Value
               PROVE  age'[key[u]][fetched[u]] <= elapsed'[u]
    BY <1>2 DEF FetchedIsRecent
  <2>1. key[u] \in Key /\ age[key[u]][fetched[u]] <= elapsed[u]
    BY <1>1 DEF ThreadInv, FetchedIsRecent, TypeOK
  <2>2. PICK k \in Key, v \in Value : k = key[u] /\ v = fetched[u]
    BY <2>1
  <2>3. age'[k][v] <= age[k][v] + 1 /\ age'[k][v] \in Int /\ age[k][v] \in Int
    BY <1>4, Bounds
  <2>4. QED
    BY <1>5, <2>1, <2>2, <2>3
<1>8. StoredIsFresh' /\ AnsweredIsRecent'
  BY <1>1, <1>2, <1>4 DEF ThreadInv, StoredIsFresh, AnsweredIsRecent
<1>9. CachedIsRecent'
  <2> SUFFICES ASSUME NEW i \in DOMAIN entries' PROVE AgesWell(entries[i])'
    BY DEF CachedIsRecent
  <2>1. i \in DOMAIN entries
    BY <1>2 DEF Tick
  <2>2. PICK e \in Entry : e = entries[i]
    BY <1>1, <2>1 DEF IndexMatchesEntries, CacheTypeOK
  <2>3. AgesWell(e)
    BY <1>1, <2>1, <2>2 DEF CacheInv, CachedIsRecent
  <2>4. entries'[i] = [e EXCEPT !.left = IF @ > 0 THEN @ - 1 ELSE 0]
    BY <1>2, <2>1, <2>2 DEF Tick
  <2>5. /\ e.key \in Key /\ e.value \in Value /\ e.left \in 0 .. Ttl
        /\ entries'[i].key = e.key /\ entries'[i].value = e.value
        /\ entries'[i].left = IF e.left > 0 THEN e.left - 1 ELSE 0
    BY <2>2, <2>4 DEF Entry
  <2>6. /\ age'[e.key][e.value] <= age[e.key][e.value] + 1
        /\ age'[e.key][e.value] \in Int /\ age[e.key][e.value] \in Int
    BY <1>4, <2>5, Bounds
  <2>7. ASSUME e.left - 1 > 0
        PROVE  age'[e.key][e.value] <= MaxFetch + (Ttl - (e.left - 1))
    BY <2>3, <2>5, <2>6, <2>7, Bounds DEF AgesWell
  <2>8. QED
    <3>1. CASE e.left > 0
      BY <2>5, <2>7, <3>1 DEF AgesWell
    <3>2. CASE ~(e.left > 0)
      <4>1. entries'[i].left = 0
        BY <2>5, <3>2
      <4>2. QED
        BY <4>1 DEF AgesWell
    <3>3. QED
      BY <3>1, <3>2
<1>10. DisabledIsEmpty'
  BY <1>1, <1>2 DEF Tick, CacheInv, DisabledIsEmpty
<1>11. QED
  BY <1>3, <1>6, <1>7, <1>8, <1>9, <1>10 DEF IInv, CacheInv, ThreadInv

LEMMA InitKeeps == Init => IInv
<1> SUFFICES ASSUME Init PROVE IInv
  OBVIOUS
<1>1. IndexMatchesEntries /\ CacheTypeOK /\ DOMAIN entries = {}
  BY InitMatches DEF Init, CacheInit, IndexMatchesEntries
<1>2. TypeOK
  <2>1. age \in [Key -> [Value -> 0 .. (MaxAge + 1)]]
    BY Bounds DEF Init
  <2>2. elapsed \in [Thread -> 0 .. MaxFetch]
    BY Bounds DEF Init
  <2>3. answer \in [Thread -> [value : Document \cup {Failed}, age : 0 .. (MaxAge + 1)]]
    <3>1. [value |-> Failed, age |-> 0] \in [value : Document \cup {Failed}, age : 0 .. (MaxAge + 1)]
      BY Bounds
    <3>2. QED
      BY <3>1 DEF Init
  <2>4. QED
    BY <1>1, <2>1, <2>2, <2>3 DEF Init, TypeOK, Document
<1>3. StoredIsFresh
  BY DEF Init, StoredIsFresh
<1>4. FetchedIsRecent
  BY DEF Init, FetchedIsRecent
<1>5. AnsweredIsRecent
  BY Bounds DEF Init, AnsweredIsRecent
<1>6. QED
  BY <1>1, <1>2, <1>3, <1>4, <1>5
  DEF IInv, CacheInv, CachedIsRecent, DisabledIsEmpty, ThreadInv

\* The invariant behind the age of the answers holds in every behaviour.
THEOREM AgesAreBounded == Spec => []IInv
<1>1. IInv /\ [Next]_vars => IInv'
  <2> SUFFICES ASSUME IInv, [Next]_vars PROVE IInv'
    OBVIOUS
  <2>1. CASE UNCHANGED vars
    <3>1. UNCHANGED cache /\ UNCHANGED <<stored, threads, age, seenAbsent, answer>>
      BY <2>1 DEF vars
    <3>2. CacheInv'
      BY <3>1, UnchangedCache DEF IInv
    <3>3. TypeOK'
      BY <3>1, <3>2
      DEF threads, IInv, CacheInv, IndexMatchesEntries, ThreadInv, TypeOK
    <3>4. StoredIsFresh' /\ FetchedIsRecent' /\ AnsweredIsRecent'
      BY <3>1
      DEF threads, IInv, ThreadInv, StoredIsFresh, FetchedIsRecent, AnsweredIsRecent
    <3>5. QED
      BY <3>2, <3>3, <3>4 DEF IInv, ThreadInv
  <2>2. QED
    BY <2>1, CallKeeps, FindInCacheKeeps, FetchKeeps, FetchFailsKeeps, FillKeeps,
       WriteKeeps, PassKeeps DEF Next, Find
<1>2. QED
  BY <1>1, InitKeeps, PTL DEF Spec

\* No call returns a value that was replaced longer ago than one fetch and one
\* time to live, whatever the threads and the offline jobs do meanwhile.
THEOREM AnswersAreRecent == Spec => []StalenessBounded
<1>1. IInv => StalenessBounded
  BY DEF IInv, ThreadInv, AnsweredIsRecent, StalenessBounded
<1>2. QED
  BY <1>1, AgesAreBounded, PTL

-----------------------------------------------------------------------------
(* What a call has seen when it says that there is no document.            *)

\* A call during which the document was missing has noticed it, and so has one
\* that was told so.
AbsentIsSeen ==
  \A t \in Thread :
    /\ pc[t] # "idle" /\ stored[key[t]] = Absent => seenAbsent[t]
    /\ pc[t] = "fill" /\ fetched[t] = Absent => seenAbsent[t]

LEMMA AnswerKeepsSeen ==
  ASSUME TypeOK, AbsentIsSeen, NEW t \in Thread, NEW r, Answer(t, r)
  PROVE  AbsentIsSeen'
<1> SUFFICES ASSUME NEW u \in Thread
             PROVE  /\ pc'[u] # "idle" /\ stored'[key'[u]] = Absent => seenAbsent'[u]
                    /\ pc'[u] = "fill" /\ fetched'[u] = Absent => seenAbsent'[u]
  BY DEF AbsentIsSeen
<1>1. pc' = [pc EXCEPT ![t] = "idle"] /\ UNCHANGED <<stored, key, seenAbsent>>
      /\ fetched' = [fetched EXCEPT ![t] = Absent]
  BY DEF Answer
<1>2. QED
  BY <1>1 DEF TypeOK, AbsentIsSeen

LEMMA StepKeepsSeen ==
  ASSUME TypeOK, AbsentIsSeen, [Next]_vars
  PROVE  AbsentIsSeen'
<1>1. ASSUME NEW t \in Thread, NEW k \in Key, Call(t, k)
      PROVE  AbsentIsSeen'
  BY <1>1 DEF Call, TypeOK, AbsentIsSeen
<1>2. ASSUME NEW t \in Thread, FindInCache(t)
      PROVE  AbsentIsSeen'
  <2>1. CASE Answer(t, Cached(key[t]))
    <3>1. PICK r : r = Cached(key[t])
      OBVIOUS
    <3>2. Answer(t, r)
      BY <2>1, <3>1 DEF Answer
    <3>3. QED
      BY <3>2, AnswerKeepsSeen
  <2>2. CASE /\ pc' = [pc EXCEPT ![t] = "fetch"] /\ pc[t] = "get"
             /\ UNCHANGED <<stored, key, fetched, seenAbsent>>
    BY <2>2 DEF TypeOK, AbsentIsSeen
  <2>3. QED
    BY <1>2, <2>1, <2>2 DEF FindInCache
<1>3. ASSUME NEW t \in Thread, Fetch(t)
      PROVE  AbsentIsSeen'
  BY <1>3 DEF Fetch, TypeOK, AbsentIsSeen
<1>4. ASSUME NEW t \in Thread, FetchFails(t) \/ Fill(t)
      PROVE  AbsentIsSeen'
  <2>1. PICK r : Answer(t, r)
    BY <1>4 DEF FetchFails, Fill
  <2>2. QED
    BY <2>1, AnswerKeepsSeen
<1>5. ASSUME NEW k \in Key, NEW d \in Document, Write(k, d)
      PROVE  AbsentIsSeen'
  <2>1. /\ stored' = [stored EXCEPT ![k] = d] /\ UNCHANGED <<pc, key, fetched>>
        /\ seenAbsent' = [t \in Thread |-> seenAbsent[t] \/ (key[t] = k /\ d = Absent)]
    BY <1>5 DEF Write, threads
  <2>2. \A t \in Thread : seenAbsent'[t] <=> seenAbsent[t] \/ (key[t] = k /\ d = Absent)
    BY <2>1
  <2>3. \A t \in Thread : stored'[key[t]] = Absent =>
          stored[key[t]] = Absent \/ (key[t] = k /\ d = Absent)
    BY <2>1 DEF TypeOK
  <2>4. QED
    BY <2>1, <2>2, <2>3 DEF AbsentIsSeen
<1>6. CASE Pass \/ UNCHANGED vars
  BY <1>6 DEF Pass, vars, threads, AbsentIsSeen
<1>7. QED
  BY <1>1, <1>2, <1>3, <1>4, <1>5, <1>6 DEF Next, Find

\* "Not found" is the answer of the store to this very call, which asked at a
\* moment when the document was missing; the cache never gives it.
THEOREM NotFoundIsNeverCached == Spec => NotFoundIsFresh
<1>1. Init => AbsentIsSeen
  BY DEF Init, AbsentIsSeen
<1>2. IInv => TypeOK
  BY DEF IInv, ThreadInv
<1>3. ASSUME IInv, AbsentIsSeen, [Next]_vars
      PROVE  [\A t \in Thread :
                pc[t] # "idle" /\ pc'[t] = "idle" /\ answer'[t].value = Absent
                  => seenAbsent[t]]_vars
  <2> SUFFICES ASSUME Next, NEW t \in Thread, pc[t] # "idle", pc'[t] = "idle",
                      answer'[t].value = Absent
               PROVE  seenAbsent[t]
    BY <1>3
  <2>1. TypeOK /\ CacheInv
    BY <1>3 DEF IInv, ThreadInv
  <2>2. \A r : Answer(t, r) => r = Absent
    BY <2>1 DEF Answer, TypeOK
  <2>3. ASSUME NEW u \in Thread, NEW r, Answer(u, r)
        PROVE  u = t
    BY <2>1, <2>3 DEF Answer, TypeOK
  <2>4. ASSUME NEW u \in Thread, NEW k \in Key, Call(u, k)
        PROVE  FALSE
    BY <2>1, <2>4 DEF Call, TypeOK
  <2>5. ASSUME NEW u \in Thread, FindInCache(u)
        PROVE  seenAbsent[t]
    <3>1. CASE Hit(key[u]) /\ Answer(u, Cached(key[u]))
      <4>1. PICK r : r = Cached(key[u])
        OBVIOUS
      <4>2. Answer(u, r)
        BY <3>1, <4>1 DEF Answer
      <4>3. u = t /\ r = Absent
        BY <2>2, <2>3, <4>2
      <4>4. r \in Value
        BY <2>1, <3>1, <4>1, HitIsRecent DEF TypeOK
      <4>5. QED
        BY <4>3, <4>4, StoreAssumption
    <3>2. CASE pc' = [pc EXCEPT ![u] = "fetch"]
      BY <2>1, <3>2 DEF TypeOK
    <3>3. QED
      BY <2>5, <3>1, <3>2 DEF FindInCache
  <2>6. ASSUME NEW u \in Thread, Fetch(u)
        PROVE  FALSE
    BY <2>1, <2>6 DEF Fetch, TypeOK
  <2>7. ASSUME NEW u \in Thread, FetchFails(u)
        PROVE  FALSE
    <3>1. Answer(u, Failed)
      BY <2>7 DEF FetchFails
    <3>2. QED
      BY <2>2, <2>3, <3>1, StoreAssumption
  <2>8. ASSUME NEW u \in Thread, Fill(u)
        PROVE  seenAbsent[t]
    <3>1. PICK r : r = fetched[u]
      OBVIOUS
    <3>2. Answer(u, r) /\ pc[u] = "fill"
      BY <2>8, <3>1 DEF Fill, Answer
    <3>3. u = t /\ r = Absent
      BY <2>2, <2>3, <3>2
    <3>4. QED
      BY <1>3, <3>1, <3>2, <3>3 DEF AbsentIsSeen
  <2>9. ASSUME (\E k \in Key, d \in Document : Write(k, d)) \/ Pass
        PROVE  FALSE
    BY <2>9 DEF Write, Pass, threads
  <2>10. QED
    BY <2>4, <2>5, <2>6, <2>7, <2>8, <2>9 DEF Next, Find
<1>4. IInv /\ AbsentIsSeen /\ [Next]_vars => AbsentIsSeen'
  BY <1>2, StepKeepsSeen
<1>5. QED
  BY <1>1, <1>3, <1>4, AgesAreBounded, PTL DEF Spec, NotFoundIsFresh
=============================================================================
