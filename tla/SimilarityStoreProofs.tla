------------------------ MODULE SimilarityStoreProofs ------------------------
(***************************************************************************)
(* Proofs about RedisWriter and SimilarityStore, for any data, batch size, *)
(* options, numbers of attempts and threads, pool sizes and limits.        *)
(* Wherever jobs die, batches are sent again and keys expire, a finished   *)
(* job leaves its data, no reader sees a mixture, and lookups return whole *)
(* lists of the ids they belong to.  The jobs come first, then they with   *)
(* readers between their commands.                                         *)
(***************************************************************************)
EXTENDS SimilarityStore, SequenceTheorems, DataInduction

-----------------------------------------------------------------------------
(* The commands of a record that have not been executed.                   *)

Todo(d, z, e) == Command("delete", d) \o Command("zadd", z) \o Command("expire", e)

LEMMA CommandsAreTodo ==
  \A v, k : Commands(v, k) = Todo(ReplaceExisting, Values(v, k) # Nothing, Expire)
BY DEF Commands, Todo

LEMMA Prepended ==
  ASSUME NEW S, NEW x \in S, NEW s \in Seq(S)
  PROVE  /\ <<x>> \o s \in Seq(S) /\ <<x>> \o s # <<>>
         /\ Head(<<x>> \o s) = x /\ Tail(<<x>> \o s) = s
<1> DEFINE t == <<x>> \o s
<1>1. <<x>> \in Seq(S) /\ Len(<<x>>) = 1 /\ <<x>>[1] = x /\ Len(s) \in Nat
  OBVIOUS
<1>2. /\ t \in Seq(S) /\ Len(t) = 1 + Len(s)
      /\ \A i \in 1 .. 1 + Len(s) : t[i] = IF i <= 1 THEN <<x>>[i] ELSE s[i - 1]
  BY <1>1, ConcatProperties
<1> HIDE DEF t
<1>3. t # <<>>
  BY <1>1, <1>2
<1>4. /\ Head(t) = t[1] /\ Tail(t) \in Seq(S) /\ Len(Tail(t)) = Len(t) - 1
      /\ \A i \in 1 .. Len(Tail(t)) : Tail(t)[i] = t[i + 1]
  BY <1>2, <1>3, HeadTailProperties
<1>5. Len(Tail(t)) = Len(s) /\ \A i \in 1 .. Len(s) : Tail(t)[i] = s[i]
  BY <1>1, <1>2, <1>4
<1>6. Tail(t) = s
  BY <1>4, <1>5, SeqEqual
<1>7. t[1] = x
  BY <1>1, <1>2
<1>8. QED
  BY <1>2, <1>3, <1>4, <1>6, <1>7 DEF t

LEMMA TodoSteps ==
  ASSUME NEW d \in BOOLEAN, NEW z \in BOOLEAN, NEW e \in BOOLEAN
  PROVE  /\ Todo(d, z, e) \in Seq(Operation)
         /\ Todo(d, z, e) = <<>> <=> ~d /\ ~z /\ ~e
         /\ d => /\ Head(Todo(d, z, e)) = "delete"
                 /\ Tail(Todo(d, z, e)) = Todo(FALSE, z, e)
         /\ ~d /\ z => /\ Head(Todo(d, z, e)) = "zadd"
                       /\ Tail(Todo(d, z, e)) = Todo(FALSE, FALSE, e)
         /\ ~d /\ ~z /\ e => /\ Head(Todo(d, z, e)) = "expire"
                             /\ Tail(Todo(d, z, e)) = Todo(FALSE, FALSE, FALSE)
<1> DEFINE Z == Command("zadd", z)
<1> DEFINE E == Command("expire", e)
<1>1. "delete" \in Operation /\ "zadd" \in Operation /\ "expire" \in Operation
  BY DEF Operation
<1>2. Z \in Seq(Operation) /\ E \in Seq(Operation) /\ <<"delete">> \in Seq(Operation)
      /\ <<>> \in Seq(Operation)
  BY <1>1 DEF Command
<1>3. Command("delete", FALSE) = <<>> /\ Command("zadd", FALSE) = <<>>
      /\ Command("expire", FALSE) = <<>> /\ Command("delete", TRUE) = <<"delete">>
  BY DEF Command
<1>4. (z => Z = <<"zadd">>) /\ (~z => Z = <<>>) /\ (e => E = <<"expire">>) /\ (~e => E = <<>>)
  BY DEF Command
<1> HIDE DEF Z, E
<1>5. <<>> \o Z = Z /\ <<>> \o E = E /\ <<>> \o <<>> = <<>> /\ E \o <<>> = E
  BY <1>2, ConcatEmptySeq
<1>6. Z \o E \in Seq(Operation)
  BY <1>2, ConcatProperties
<1>7. Todo(TRUE, z, e) = <<"delete">> \o (Z \o E)
  <2>1. Todo(TRUE, z, e) = (<<"delete">> \o Z) \o E
    BY <1>3 DEF Todo, Z, E
  <2> DEFINE D == <<"delete">>
  <2>2. D \in Seq(Operation)
    BY <1>2
  <2> HIDE DEF D
  <2>3. (D \o Z) \o E = D \o (Z \o E)
    BY <1>2, <2>2, ConcatAssociative
  <2>4. QED
    BY <2>1, <2>3 DEF D
<1>8. Todo(FALSE, z, e) = Z \o E
  BY <1>3, <1>5 DEF Todo, Z, E
<1>9. Todo(FALSE, FALSE, e) = E
  BY <1>3, <1>5 DEF Todo, E
<1>10. Todo(FALSE, FALSE, FALSE) = <<>>
  BY <1>3, <1>5 DEF Todo
<1>11. CASE d
  <2>1. d = TRUE
    BY <1>11
  <2>2. /\ <<"delete">> \o (Z \o E) \in Seq(Operation)
        /\ <<"delete">> \o (Z \o E) # <<>>
        /\ Head(<<"delete">> \o (Z \o E)) = "delete"
        /\ Tail(<<"delete">> \o (Z \o E)) = Z \o E
    BY <1>1, <1>6, Prepended
  <2>3. QED
    BY <1>7, <1>8, <1>11, <2>1, <2>2
<1>12. CASE ~d /\ z
  <2>1. d = FALSE
    BY <1>12
  <2>2. Todo(d, z, e) = <<"zadd">> \o E
    BY <1>4, <1>8, <1>12, <2>1
  <2>3. /\ <<"zadd">> \o E \in Seq(Operation) /\ <<"zadd">> \o E # <<>>
        /\ Head(<<"zadd">> \o E) = "zadd" /\ Tail(<<"zadd">> \o E) = E
    BY <1>1, <1>2, Prepended
  <2>4. QED
    BY <1>9, <1>12, <2>2, <2>3
<1>13. CASE ~d /\ ~z /\ e
  <2>1. d = FALSE /\ z = FALSE
    BY <1>13
  <2>2. Todo(d, z, e) = <<"expire">>
    BY <1>4, <1>9, <1>13, <2>1
  <2>3. <<"expire">> \in Seq(Operation) /\ <<"expire">> \o <<>> = <<"expire">>
    BY <1>1, ConcatEmptySeq
  <2>4. /\ <<"expire">> # <<>> /\ Head(<<"expire">>) = "expire"
        /\ Tail(<<"expire">>) = <<>>
    BY <1>1, <1>2, <2>3, Prepended
  <2>5. QED
    BY <1>10, <1>13, <2>2, <2>3, <2>4
<1>14. CASE ~d /\ ~z /\ ~e
  <2>1. d = FALSE /\ z = FALSE /\ e = FALSE
    BY <1>14
  <2>2. QED
    BY <1>2, <1>10, <1>14, <2>1
<1>15. QED
  BY <1>11, <1>12, <1>13, <1>14

-----------------------------------------------------------------------------
(***************************************************************************)
(* The invariant: how far each record of the job has come.                 *)
(***************************************************************************)

\* The key has the values of the job's version, unless they expired since.
Has(k) ==
  \/ k \in lapsed
  \/ /\ Includes(zset[k], Values(version, k))
     /\ ReplaceExisting => zset[k] = Values(version, k)

Timed(k) == Expire => k \in lapsed \/ volatile[k] \/ zset[k] = Nothing

Settled(k) == Has(k) /\ Timed(k)

\* What holds of a key with the delete d, the zadd z and the expire e to do.
Progress(k, d, z, e) ==
  /\ d => (z <=> Values(version, k) # Nothing)
  /\ d \/ z => (e <=> Expire)
  /\ ReplaceExisting /\ ~d /\ z => zset[k] = Nothing
  /\ ~d /\ ~z => Has(k)
  /\ ~d /\ ~z /\ ~e => Timed(k)

RecordInv(i) ==
  \E d, z, e \in BOOLEAN :
    pipeline[i] = Todo(d, z, e) /\ Progress(KeyOf(i), d, z, e)

JobInv ==
  /\ job = "writing" =>
       /\ DOMAIN pipeline = 1 .. (BatchEnd(version, written) - written)
       /\ \A i \in DOMAIN pipeline : RecordInv(i)
  /\ job \in {"writing", "finished"} =>
       /\ version \in Version
       /\ written \in 0 .. Len(Data[version].keys)
       /\ \A n \in 1 .. written : Settled(Data[version].keys[n])
  /\ job = "finished" => written = Len(Data[version].keys)

IInv == NoMixedNeighbors /\ JobInv

-----------------------------------------------------------------------------
LEMMA DataFacts ==
  ASSUME NEW v \in Version
  PROVE  /\ v \in Nat \ {0}
         /\ Data[v].keys \in Seq(Key)
         /\ Len(Data[v].keys) \in Nat
         /\ \A n \in 1 .. Len(Data[v].keys) : Data[v].keys[n] \in Key
         /\ Keys(v) = {Data[v].keys[n] : n \in 1 .. Len(Data[v].keys)}
         /\ \A n, m \in 1 .. Len(Data[v].keys) :
              Data[v].keys[n] = Data[v].keys[m] => n = m
         /\ \A k \in Key : Values(v, k) \in SortedSet
<1> DEFINE D == [keys : Seq(Key), values : [Key -> SortedSet]]
<1>1. Data \in Seq(D) /\ v \in 1 .. Len(Data)
  <2>1. Data \in Seq(D) /\ v \in DOMAIN Data
    BY WriterAssumption DEF Version
  <2> HIDE DEF D
  <2>2. QED
    BY <2>1
<1>2. Data[v] \in D
  <2> HIDE DEF D
  <2>1. QED
    BY <1>1
<1>3. Data[v].keys \in Seq(Key) /\ Data[v].values \in [Key -> SortedSet]
  BY <1>2
<1>4. \A k \in Key : Values(v, k) \in SortedSet
  BY <1>3 DEF Values
<1>5. Len(Data[v].keys) \in Nat /\ DOMAIN Data[v].keys = 1 .. Len(Data[v].keys)
  BY <1>3
<1>6. \A n \in 1 .. Len(Data[v].keys) : Data[v].keys[n] \in Key
  BY <1>3
<1>7. Keys(v) = {Data[v].keys[n] : n \in 1 .. Len(Data[v].keys)}
  BY <1>5 DEF Keys, ToSet
<1>8. IsInjective(Data[v].keys)
  BY WriterAssumption
<1>9. \A n, m \in 1 .. Len(Data[v].keys) : Data[v].keys[n] = Data[v].keys[m] => n = m
  BY <1>5, <1>8 DEF IsInjective
<1>10. v \in Nat \ {0}
  BY <1>1
<1>11. QED
  BY <1>3, <1>4, <1>5, <1>6, <1>7, <1>9, <1>10

LEMMA BatchFacts ==
  ASSUME NEW v \in Version, NEW n \in 0 .. Len(Data[v].keys)
  PROVE  /\ BatchEnd(v, n) \in n .. Len(Data[v].keys)
         /\ \A i \in 1 .. (BatchEnd(v, n) - n) : n + i \in 1 .. Len(Data[v].keys)
BY DataFacts, WriterAssumption DEF BatchEnd

LEMMA NothingIsASet == Nothing \in SortedSet
<1>1. Nothing \in [{} -> Score]
  BY DEF Nothing
<1>2. QED
  BY <1>1 DEF SortedSet

LEMMA OverIsASet ==
  ASSUME NEW s \in SortedSet, NEW t \in SortedSet
  PROVE  /\ Over(s, t) \in SortedSet
         /\ Includes(Over(s, t), s)
         /\ t = Nothing => Over(s, t) = s
<1>1. PICK S \in SUBSET Neighbor : s \in [S -> Score]
  BY DEF SortedSet
<1>2. PICK T \in SUBSET Neighbor : t \in [T -> Score]
  BY DEF SortedSet
<1>3. Over(s, t) \in [S \cup T -> Score]
  BY <1>1, <1>2 DEF Over
<1>4. S \cup T \in SUBSET Neighbor
  OBVIOUS
<1>5. Over(s, t) \in SortedSet
  BY <1>3, <1>4 DEF SortedSet
<1>6. Includes(Over(s, t), s)
  BY DEF Over, Includes
<1>7. ASSUME t = Nothing PROVE Over(s, t) = s
  <2>1. DOMAIN t = {}
    BY <1>7 DEF Nothing
  <2>2. QED
    BY <1>1, <2>1 DEF Over
<1>8. QED
  BY <1>5, <1>6, <1>7

\* The first command of a batch that is sent finds its keys as it needs them.
LEMMA BatchIsReady ==
  ASSUME NEW v \in Version, NEW n \in 0 .. Len(Data[v].keys),
         NEW i \in 1 .. (BatchEnd(v, n) - n),
         version' = v, written' = n, pipeline' = Batch(v, n)
  PROVE  RecordInv(i)'
<1> DEFINE k == Data[v].keys[n + i]
<1> DEFINE z == Values(v, k) # Nothing
<1>1. pipeline'[i] = Todo(ReplaceExisting, z, Expire)
  BY CommandsAreTodo DEF Batch
<1>2. KeyOf(i)' = k
  BY DEF KeyOf
<1>3. ReplaceExisting \in BOOLEAN /\ Expire \in BOOLEAN /\ z \in BOOLEAN
  BY WriterAssumption
<1>4. Progress(k, ReplaceExisting, z, Expire)'
  <2>1. ~z => Includes(zset'[k], Values(v, k))
    BY DEF Includes, Nothing
  <2>2. QED
    BY <2>1 DEF Progress, Has, Timed
<1> HIDE DEF k, z
<1>5. QED
  BY <1>1, <1>2, <1>3, <1>4 DEF RecordInv

-----------------------------------------------------------------------------
\* What a step leaves alone keeps its progress.
LEMMA OthersKeep ==
  ASSUME NEW x, version' = version, zset'[x] = zset[x], volatile'[x] = volatile[x],
         x \in lapsed' <=> x \in lapsed
  PROVE  /\ Settled(x) => Settled(x)'
         /\ \A d, z, e \in BOOLEAN : Progress(x, d, z, e) => Progress(x, d, z, e)'
BY DEF Settled, Has, Timed, Progress

LEMMA RecordKeys ==
  ASSUME JobInv, job = "writing"
  PROVE  /\ version \in Version /\ written \in 0 .. Len(Data[version].keys)
         /\ \A i \in DOMAIN pipeline :
              written + i \in 1 .. Len(Data[version].keys) /\ KeyOf(i) \in Keys(version)
                /\ KeyOf(i) \in Key
         /\ \A i, j \in DOMAIN pipeline : KeyOf(i) = KeyOf(j) => i = j
         /\ \A i \in DOMAIN pipeline, n \in 1 .. written :
              KeyOf(i) # Data[version].keys[n]
<1> DEFINE keys == Data[version].keys
<1>1. /\ version \in Version /\ written \in 0 .. Len(keys) /\ Len(keys) \in Nat
      /\ DOMAIN pipeline = 1 .. (BatchEnd(version, written) - written)
  BY DataFacts DEF JobInv
<1>2. \A i \in DOMAIN pipeline : written + i \in 1 .. Len(keys) /\ i \in 1 .. Len(keys)
  <2>1. /\ BatchEnd(version, written) \in written .. Len(keys)
        /\ \A i \in 1 .. (BatchEnd(version, written) - written) :
             written + i \in 1 .. Len(keys)
    BY <1>1, BatchFacts
  <2> HIDE DEF keys
  <2>2. \A i \in DOMAIN pipeline : i \in 1 .. Len(keys)
    BY <1>1, <2>1
  <2>3. QED
    BY <1>1, <2>1, <2>2
<1>3. /\ \A n \in 1 .. Len(keys) : keys[n] \in Key /\ keys[n] \in Keys(version)
      /\ \A n, m \in 1 .. Len(keys) : keys[n] = keys[m] => n = m
  BY <1>1, DataFacts
<1>4. \A i \in DOMAIN pipeline : KeyOf(i) = keys[written + i]
  BY DEF KeyOf
<1> HIDE DEF keys
<1>5. \A i, j \in DOMAIN pipeline : KeyOf(i) = KeyOf(j) => i = j
  BY <1>1, <1>2, <1>3, <1>4
<1>6. \A i \in DOMAIN pipeline, n \in 1 .. written : KeyOf(i) # keys[n]
  <2> SUFFICES ASSUME NEW i \in DOMAIN pipeline, NEW n \in 1 .. written,
                      KeyOf(i) = keys[n]
               PROVE  FALSE
    OBVIOUS
  <2>1. n \in 1 .. Len(keys) /\ written + i \in 1 .. Len(keys) /\ i \in 1 .. Len(keys)
    BY <1>1, <1>2
  <2>2. written + i = n
    BY <1>3, <1>4, <2>1
  <2>3. QED
    BY <1>1, <2>1, <2>2
<1>7. QED
  BY <1>1, <1>2, <1>3, <1>4, <1>5, <1>6 DEF keys

\* A command does its part for its record.
LEMMA CommandProgress ==
  ASSUME WriterTypeOK, version \in Version, version' = version,
         NEW k \in Key, NEW rest, NEW d \in BOOLEAN, NEW z \in BOOLEAN, NEW e \in BOOLEAN,
         rest = Todo(d, z, e), rest # <<>>, Progress(k, d, z, e),
         \/ Head(rest) = "delete" /\ Delete(k)
         \/ Head(rest) = "zadd" /\ ZAdd(k)
         \/ Head(rest) = "expire" /\ ExpireKey(k)
  PROVE  /\ \E f, g, h \in BOOLEAN : Tail(rest) = Todo(f, g, h) /\ Progress(k, f, g, h)'
         /\ zset' \in [Key -> SortedSet] /\ volatile' \in [Key -> BOOLEAN]
         /\ lapsed' \subseteq Key
         /\ \A x \in Key \ {k} : /\ zset'[x] = zset[x] /\ volatile'[x] = volatile[x]
                                 /\ x \in lapsed' <=> x \in lapsed
         /\ ReplaceExisting =>
              zset'[k] \in {Nothing, zset[k], Values(version, k)}
<1>1. /\ zset \in [Key -> SortedSet] /\ volatile \in [Key -> BOOLEAN] /\ lapsed \subseteq Key
  BY DEF WriterTypeOK
<1>2. Values(version, k) \in SortedSet
  BY DataFacts
<1>3. /\ d => Head(rest) = "delete" /\ Tail(rest) = Todo(FALSE, z, e)
      /\ ~d /\ z => Head(rest) = "zadd" /\ Tail(rest) = Todo(FALSE, FALSE, e)
      /\ ~d /\ ~z => /\ e /\ Head(rest) = "expire"
                     /\ Tail(rest) = Todo(FALSE, FALSE, FALSE)
  BY TodoSteps
<1>4. CASE d
  <2>1. Delete(k)
    BY <1>3, <1>4
  <2>2. /\ zset' \in [Key -> SortedSet] /\ zset'[k] = Nothing
        /\ volatile' \in [Key -> BOOLEAN] /\ lapsed' = lapsed
        /\ \A x \in Key \ {k} : zset'[x] = zset[x] /\ volatile'[x] = volatile[x]
    BY <1>1, <2>1, NothingIsASet DEF Delete
  <2>3. Includes(Nothing, Nothing)
    BY DEF Includes, Nothing
  <2>4. Progress(k, FALSE, z, e)'
    BY <1>4, <2>2, <2>3 DEF Progress, Has, Timed
  <2>5. QED
    BY <1>1, <1>3, <1>4, <2>2, <2>4
<1>5. CASE ~d /\ z
  <2>1. ZAdd(k)
    BY <1>3, <1>5
  <2>2. Over(Values(version, k), zset[k]) \in SortedSet
    BY <1>1, <1>2, OverIsASet
  <2>3. /\ zset' \in [Key -> SortedSet] /\ zset'[k] = Over(Values(version, k), zset[k])
        /\ volatile' = volatile /\ lapsed' = lapsed \ {k}
        /\ \A x \in Key \ {k} : zset'[x] = zset[x]
    BY <1>1, <2>1, <2>2 DEF ZAdd
  <2>4. /\ Includes(zset'[k], Values(version, k))
        /\ ReplaceExisting => zset'[k] = Values(version, k)
    BY <1>1, <1>2, <1>5, <2>3, OverIsASet DEF Progress
  <2>5. Progress(k, FALSE, FALSE, e)'
    BY <1>5, <2>3, <2>4 DEF Progress, Has, Timed
  <2>6. QED
    BY <1>1, <1>3, <1>5, <2>3, <2>4, <2>5
<1>6. CASE ~d /\ ~z
  <2>1. ExpireKey(k)
    BY <1>3, <1>6
  <2>2. /\ volatile' \in [Key -> BOOLEAN] /\ volatile'[k] = (zset[k] # Nothing)
        /\ zset' = zset /\ lapsed' = lapsed
        /\ \A x \in Key \ {k} : volatile'[x] = volatile[x]
    BY <1>1, <2>1 DEF ExpireKey
  <2>3. Progress(k, FALSE, FALSE, FALSE)'
    BY <1>6, <2>2 DEF Progress, Has, Timed
  <2>4. QED
    BY <1>1, <1>3, <1>6, <2>2, <2>3
<1>7. QED
  BY <1>4, <1>5, <1>6

LEMMA BatchIsTyped ==
  ASSUME NEW v \in Version, NEW n \in 0 .. Len(Data[v].keys)
  PROVE  /\ Batch(v, n) \in Seq(Seq(Operation))
         /\ DOMAIN Batch(v, n) = 1 .. (BatchEnd(v, n) - n)
<1> DEFINE m == BatchEnd(v, n) - n
<1>1. m \in Nat
  BY BatchFacts, DataFacts
<1>2. \A i \in 1 .. m : Commands(v, Data[v].keys[n + i]) \in Seq(Operation)
  <2> SUFFICES ASSUME NEW i \in 1 .. m
               PROVE  Commands(v, Data[v].keys[n + i]) \in Seq(Operation)
    OBVIOUS
  <2>1. PICK z \in BOOLEAN : z = (Values(v, Data[v].keys[n + i]) # Nothing)
    OBVIOUS
  <2>2. ReplaceExisting \in BOOLEAN /\ Expire \in BOOLEAN
    BY WriterAssumption
  <2>3. Todo(ReplaceExisting, z, Expire) \in Seq(Operation)
    BY <2>2, TodoSteps
  <2>4. QED
    BY <2>1, <2>3, CommandsAreTodo
<1>3. Batch(v, n) = [i \in 1 .. m |-> Commands(v, Data[v].keys[n + i])]
  BY DEF Batch
<1> DEFINE S == Seq(Operation)
<1>4. \A s : m \in Nat /\ s \in [1 .. m -> S] => s \in Seq(S) /\ DOMAIN s = 1 .. m
  <2> HIDE DEF m, S
  <2>1. QED
    OBVIOUS
<1> HIDE DEF m
<1>5. Batch(v, n) \in [1 .. m -> S]
  BY <1>2, <1>3
<1>6. Batch(v, n) \in Seq(S) /\ DOMAIN Batch(v, n) = 1 .. m
  BY <1>1, <1>4, <1>5
<1>7. QED
  BY <1>6 DEF m

\* A job that starts, goes on to the next batch or sends one again.
LEMMA SendKeeps ==
  ASSUME IInv, UNCHANGED database, NEW v \in Version, v >= version,
         NEW n \in 0 .. Len(Data[v].keys),
         job' = "writing", version' = v, written' = n, pipeline' = Batch(v, n),
         attempt' \in 0 .. MaxWriteAttempts,
         \A m \in 1 .. n : Settled(Data[v].keys[m])'
  PROVE  IInv'
<1>1. WriterTypeOK /\ v \in Nat
  BY DataFacts DEF IInv, NoMixedNeighbors
<1>2. Batch(v, n) \in Seq(Seq(Operation)) /\ DOMAIN Batch(v, n) = 1 .. (BatchEnd(v, n) - n)
  BY BatchIsTyped
<1>3. WriterTypeOK'
  BY <1>1, <1>2, DataFacts DEF WriterTypeOK, database
<1>4. version \in Nat
  <2>1. \A w \in Version : w \in Nat
    BY DataFacts
  <2>2. QED
    BY <1>1, <2>1 DEF WriterTypeOK
<1>5. NoMixedNeighbors'
  <2> SUFFICES ASSUME ReplaceExisting, NEW k \in Key, zset[k] # Nothing
               PROVE  \E w \in 1 .. v : k \in Keys(w) /\ zset[k] = Values(w, k)
    BY <1>3 DEF NoMixedNeighbors, database
  <2>1. PICK w \in 1 .. version : k \in Keys(w) /\ zset[k] = Values(w, k)
    BY DEF IInv, NoMixedNeighbors
  <2>2. w \in 1 .. v
    BY <1>1, <1>4, <2>1
  <2>3. QED
    BY <2>1, <2>2
<1>6. \A i \in DOMAIN Batch(v, n) : RecordInv(i)'
  BY <1>2, BatchIsReady
<1>7. JobInv'
  BY <1>2, <1>6 DEF JobInv
<1>8. QED
  BY <1>5, <1>7 DEF IInv

\* database' = database keeps what is settled.
LEMMA UntouchedIsSettled ==
  ASSUME UNCHANGED database, version' = version, NEW x, Settled(x)
  PROVE  Settled(x)'
BY OthersKeep DEF database

LEMMA StartJobKeeps ==
  ASSUME IInv, NEW v \in Version, StartJob(v)
  PROVE  IInv'
<1>1. 0 \in 0 .. Len(Data[v].keys) /\ 1 \in 0 .. MaxWriteAttempts
  BY DataFacts, WriterAssumption
<1>2. \A m \in 1 .. 0 : Settled(Data[v].keys[m])'
  OBVIOUS
<1>3. QED
  BY <1>1, <1>2, SendKeeps DEF StartJob, Send

LEMMA ResendKeeps ==
  ASSUME IInv, Resend
  PROVE  IInv'
<1>1. /\ job = "writing" /\ job' = "writing" /\ UNCHANGED database
      /\ version' = version /\ written' = written
      /\ pipeline' = Batch(version, written)
  BY DEF Resend
<1>2. attempt' \in 0 .. MaxWriteAttempts
  <2>1. attempt \in 0 .. MaxWriteAttempts /\ MaxWriteAttempts \in Nat
    BY WriterAssumption DEF IInv, NoMixedNeighbors, WriterTypeOK
  <2>2. QED
    BY <2>1 DEF Resend
<1>3. /\ version \in Version /\ written \in 0 .. Len(Data[version].keys)
      /\ \A n \in 1 .. written : Settled(Data[version].keys[n])
  BY <1>1 DEF IInv, JobInv
<1>4. PICK v \in Version : v = version
  BY <1>3
<1>5. PICK n \in 0 .. Len(Data[v].keys) : n = written
  BY <1>3, <1>4
<1>6. v >= version
  BY <1>4, DataFacts
<1>7. \A m \in 1 .. n : Settled(Data[v].keys[m])'
  <2> SUFFICES ASSUME NEW m \in 1 .. n PROVE Settled(Data[v].keys[m])'
    OBVIOUS
  <2>1. Settled(Data[v].keys[m])
    BY <1>3, <1>4, <1>5
  <2>2. QED
    BY <1>1, <2>1, UntouchedIsSettled
<1>8. QED
  BY <1>1, <1>2, <1>4, <1>5, <1>6, <1>7, SendKeeps

\* A batch whose commands have all been executed has settled its keys.
LEMMA NextBatchKeeps ==
  ASSUME IInv, NextBatch
  PROVE  IInv'
<1>1. /\ job = "writing" /\ UNCHANGED database /\ version' = version
      /\ \A i \in DOMAIN pipeline : pipeline[i] = <<>>
      /\ written' = BatchEnd(version, written)
  BY DEF NextBatch
<1>2. /\ version \in Version /\ written \in 0 .. Len(Data[version].keys)
      /\ \A n \in 1 .. written : Settled(Data[version].keys[n])
      /\ DOMAIN pipeline = 1 .. (BatchEnd(version, written) - written)
      /\ \A i \in DOMAIN pipeline : RecordInv(i)
  BY <1>1 DEF IInv, JobInv
<1>3. PICK v \in Version : v = version
  BY <1>2
<1>4. PICK w \in 0 .. Len(Data[v].keys) : w = written
  BY <1>2, <1>3
<1>5. PICK n \in 0 .. Len(Data[v].keys) : n = written' /\ w <= n /\ n = BatchEnd(v, w)
  <2>1. BatchEnd(v, w) \in w .. Len(Data[v].keys) /\ Len(Data[v].keys) \in Nat
    BY BatchFacts, DataFacts
  <2>2. QED
    BY <1>1, <1>3, <1>4, <2>1
<1>6. \A i \in DOMAIN pipeline : Settled(KeyOf(i))
  <2> SUFFICES ASSUME NEW i \in DOMAIN pipeline PROVE Settled(KeyOf(i))
    OBVIOUS
  <2>1. PICK d \in BOOLEAN, z \in BOOLEAN, e \in BOOLEAN :
          pipeline[i] = Todo(d, z, e) /\ Progress(KeyOf(i), d, z, e)
    BY <1>2 DEF RecordInv
  <2>2. ~d /\ ~z /\ ~e
    BY <1>1, <2>1, TodoSteps
  <2>3. QED
    BY <2>1, <2>2 DEF Progress, Settled
<1>7. \A m \in 1 .. n : Settled(Data[v].keys[m])'
  <2> SUFFICES ASSUME NEW m \in 1 .. n PROVE Settled(Data[v].keys[m])'
    OBVIOUS
  <2>1. CASE m <= w
    <3>1. Settled(Data[v].keys[m])
      BY <1>2, <1>3, <1>4, <2>1
    <3>2. QED
      BY <1>1, <3>1, UntouchedIsSettled
  <2>2. CASE m > w
    <3>1. PICK i \in 1 .. (n - w) : m = w + i
      <4>1. m - w \in 1 .. (n - w) /\ m = w + (m - w)
        BY <2>2
      <4>2. QED
        BY <4>1
    <3>2. KeyOf(i) = Data[v].keys[m]
      BY <1>3, <1>4, <3>1 DEF KeyOf
    <3>3. Settled(Data[v].keys[m])
      BY <1>2, <1>3, <1>4, <1>5, <1>6, <3>1, <3>2
    <3>4. QED
      BY <1>1, <3>3, UntouchedIsSettled
  <2>3. QED
    BY <2>1, <2>2
<1>8. CASE written' < Len(Data[version].keys)
  <2>1. /\ job' = "writing" /\ pipeline' = Batch(v, n) /\ attempt' = 1
    BY <1>1, <1>3, <1>5, <1>8 DEF NextBatch, Send
  <2>2. attempt' \in 0 .. MaxWriteAttempts /\ v >= version
    BY <1>3, <2>1, DataFacts, WriterAssumption
  <2>3. QED
    BY <1>1, <1>3, <1>5, <1>7, <2>1, <2>2, SendKeeps
<1>9. CASE ~(written' < Len(Data[version].keys))
  <2>1. job' = "finished" /\ UNCHANGED <<pipeline, attempt>>
    BY <1>9 DEF NextBatch
  <2>2. n = Len(Data[v].keys)
    BY <1>3, <1>5, <1>9, DataFacts
  <2>3. NoMixedNeighbors'
    BY <1>1, <1>5, <2>1
      DEF IInv, NoMixedNeighbors, WriterTypeOK, database
  <2>4. JobInv'
    BY <1>1, <1>3, <1>5, <1>7, <2>1, <2>2 DEF JobInv
  <2>5. QED
    BY <2>3, <2>4 DEF IInv
<1>10. QED
  BY <1>8, <1>9

LEMMA ExecuteKeeps ==
  ASSUME IInv, Execute
  PROVE  IInv'
<1>1. /\ job = "writing" /\ job' = job /\ version' = version
      /\ written' = written /\ attempt' = attempt
  BY DEF Execute
<1>2. PICK i \in DOMAIN pipeline :
        /\ pipeline[i] # <<>>
        /\ pipeline' = [pipeline EXCEPT ![i] = Tail(@)]
        /\ \/ Head(pipeline[i]) = "delete" /\ Delete(KeyOf(i))
           \/ Head(pipeline[i]) = "zadd" /\ ZAdd(KeyOf(i))
           \/ Head(pipeline[i]) = "expire" /\ ExpireKey(KeyOf(i))
  BY DEF Execute, IsNext
<1>3. /\ version \in Version /\ written \in 0 .. Len(Data[version].keys)
      /\ \A j \in DOMAIN pipeline : KeyOf(j) \in Keys(version) /\ KeyOf(j) \in Key
      /\ \A j \in DOMAIN pipeline : KeyOf(j) = KeyOf(i) => j = i
      /\ \A n \in 1 .. written : KeyOf(i) # Data[version].keys[n]
  BY <1>1, RecordKeys DEF IInv
<1>4. /\ WriterTypeOK
      /\ DOMAIN pipeline = 1 .. (BatchEnd(version, written) - written)
      /\ \A j \in DOMAIN pipeline : RecordInv(j)
      /\ \A n \in 1 .. written : Settled(Data[version].keys[n])
  BY <1>1 DEF IInv, NoMixedNeighbors, JobInv
<1>5. PICK k \in Key : k = KeyOf(i)
  BY <1>3
<1>6. PICK rest : rest = pipeline[i]
  OBVIOUS
<1>7. PICK d \in BOOLEAN, z \in BOOLEAN, e \in BOOLEAN :
        rest = Todo(d, z, e) /\ Progress(k, d, z, e)
  BY <1>4, <1>5, <1>6 DEF RecordInv
<1>8. \/ Head(rest) = "delete" /\ Delete(k)
      \/ Head(rest) = "zadd" /\ ZAdd(k)
      \/ Head(rest) = "expire" /\ ExpireKey(k)
  BY <1>2, <1>5, <1>6
<1>9. /\ \E f, g, h \in BOOLEAN : Tail(rest) = Todo(f, g, h) /\ Progress(k, f, g, h)'
      /\ zset' \in [Key -> SortedSet] /\ volatile' \in [Key -> BOOLEAN]
      /\ lapsed' \subseteq Key
      /\ \A x \in Key \ {k} : /\ zset'[x] = zset[x] /\ volatile'[x] = volatile[x]
                              /\ x \in lapsed' <=> x \in lapsed
      /\ ReplaceExisting => zset'[k] \in {Nothing, zset[k], Values(version, k)}
  BY <1>1, <1>2, <1>3, <1>4, <1>6, <1>7, <1>8, CommandProgress
<1>10. /\ pipeline' \in Seq(Seq(Operation)) /\ DOMAIN pipeline' = DOMAIN pipeline
       /\ pipeline'[i] = Tail(rest)
       /\ \A j \in DOMAIN pipeline : j # i => pipeline'[j] = pipeline[j]
  <2>1. Tail(rest) \in Seq(Operation)
    <3>1. PICK a \in BOOLEAN, b \in BOOLEAN, c \in BOOLEAN : Tail(rest) = Todo(a, b, c)
      BY <1>9
    <3>2. Todo(a, b, c) \in Seq(Operation)
      BY TodoSteps
    <3>3. QED
      BY <3>1, <3>2
  <2>2. pipeline \in Seq(Seq(Operation))
    BY <1>4 DEF WriterTypeOK
  <2> DEFINE S == Seq(Operation)
  <2> HIDE DEF S
  <2>3. pipeline' \in Seq(S)
    BY <1>2, <1>6, <2>1, <2>2 DEF S
  <2>4. QED
    BY <1>2, <1>6, <2>2, <2>3 DEF S
<1>11. \A j : KeyOf(j)' = KeyOf(j)
  BY <1>1 DEF KeyOf
<1>12. \A j \in DOMAIN pipeline : RecordInv(j)'
  <2> SUFFICES ASSUME NEW j \in DOMAIN pipeline PROVE RecordInv(j)'
    OBVIOUS
  <2>1. CASE j = i
    <3>1. KeyOf(i)' = k
      BY <1>5, <1>11
    <3>2. QED
      BY <1>9, <1>10, <2>1, <3>1 DEF RecordInv
  <2>2. CASE j # i
    <3>1. PICK x \in Key : x = KeyOf(j)
      BY <1>3
    <3>2. x # k
      BY <1>3, <1>5, <2>2, <3>1
    <3>3. \A a, b, c \in BOOLEAN : Progress(x, a, b, c) => Progress(x, a, b, c)'
      BY <1>1, <1>9, <3>2, OthersKeep
    <3>4. KeyOf(j)' = x /\ pipeline'[j] = pipeline[j]
      BY <1>10, <1>11, <2>2, <3>1
    <3>5. PICK a \in BOOLEAN, b \in BOOLEAN, c \in BOOLEAN :
            pipeline[j] = Todo(a, b, c) /\ Progress(x, a, b, c)
      BY <1>4, <3>1 DEF RecordInv
    <3>6. QED
      BY <3>3, <3>4, <3>5 DEF RecordInv
  <2>3. QED
    BY <2>1, <2>2
<1>13. PICK v \in Version : v = version
  BY <1>3
<1>14. \A n \in 1 .. written : Settled(Data[v].keys[n])'
  <2> SUFFICES ASSUME NEW n \in 1 .. written PROVE Settled(Data[v].keys[n])'
    OBVIOUS
  <2>1. n \in 1 .. Len(Data[v].keys)
    BY <1>3, <1>13, DataFacts
  <2>2. PICK x \in Key : x = Data[v].keys[n]
    BY <2>1, DataFacts
  <2>3. x # k /\ Settled(x)
    BY <1>3, <1>4, <1>5, <1>13, <2>2
  <2>4. Settled(x)'
    BY <1>1, <1>9, <2>3, OthersKeep
  <2>5. QED
    BY <2>2, <2>4
<1>15. JobInv'
  BY <1>1, <1>3, <1>4, <1>10, <1>12, <1>13, <1>14 DEF JobInv
<1>16. NoMixedNeighbors'
  <2>1. WriterTypeOK'
    BY <1>1, <1>4, <1>9, <1>10 DEF WriterTypeOK
  <2> SUFFICES ASSUME ReplaceExisting, NEW x \in Key, zset'[x] # Nothing
               PROVE  \E w \in 1 .. version : x \in Keys(w) /\ zset'[x] = Values(w, x)
    BY <1>1, <2>1 DEF NoMixedNeighbors
  <2>2. ASSUME zset'[x] = zset[x]
        PROVE  \E w \in 1 .. version : x \in Keys(w) /\ zset'[x] = Values(w, x)
    BY <2>2 DEF IInv, NoMixedNeighbors
  <2>3. ASSUME x = k, zset'[k] = Values(version, k)
        PROVE  \E w \in 1 .. version : x \in Keys(w) /\ zset'[x] = Values(w, x)
    <3>1. v \in 1 .. version
      BY <1>13, DataFacts
    <3>2. QED
      BY <1>3, <1>5, <1>13, <2>3, <3>1
  <2>4. QED
    BY <1>9, <2>2, <2>3
<1>17. QED
  BY <1>15, <1>16 DEF IInv

LEMMA JobFailsKeeps ==
  ASSUME IInv, JobFails
  PROVE  IInv'
<1>1. NoMixedNeighbors'
  BY DEF IInv, JobFails, NoMixedNeighbors, WriterTypeOK, database
<1>2. JobInv'
  BY DEF JobFails, JobInv
<1>3. QED
  BY <1>1, <1>2 DEF IInv

\* A key that expires is excepted until it is written again.
LEMMA KeyExpiresKeeps ==
  ASSUME IInv, NEW k \in Key, KeyExpires(k)
  PROVE  IInv'
<1>1. /\ job' = job /\ version' = version /\ written' = written
      /\ attempt' = attempt /\ pipeline' = pipeline
  BY DEF KeyExpires, writer
<1>2. zset \in [Key -> SortedSet] /\ volatile \in [Key -> BOOLEAN] /\ lapsed \subseteq Key
  BY DEF IInv, NoMixedNeighbors, WriterTypeOK
<1>3. /\ zset' \in [Key -> SortedSet] /\ volatile' \in [Key -> BOOLEAN]
      /\ lapsed' \subseteq Key /\ zset'[k] = Nothing /\ k \in lapsed'
      /\ \A x \in Key \ {k} : /\ zset'[x] = zset[x] /\ volatile'[x] = volatile[x]
                              /\ x \in lapsed' <=> x \in lapsed
  BY <1>2, NothingIsASet DEF KeyExpires
<1>4. NoMixedNeighbors'
  <2>1. WriterTypeOK'
    BY <1>1, <1>3 DEF IInv, NoMixedNeighbors, WriterTypeOK
  <2>2. QED
    BY <1>1, <1>3, <2>1 DEF IInv, NoMixedNeighbors
<1>5. \A x \in Key : /\ Settled(x) => Settled(x)'
                     /\ \A d, z, e \in BOOLEAN :
                          Progress(x, d, z, e) => Progress(x, d, z, e)'
  <2> SUFFICES ASSUME NEW x \in Key
               PROVE  /\ Settled(x) => Settled(x)'
                      /\ \A d, z, e \in BOOLEAN :
                           Progress(x, d, z, e) => Progress(x, d, z, e)'
    OBVIOUS
  <2>1. CASE x # k
    BY <1>1, <1>3, <2>1, OthersKeep
  <2>2. CASE x = k
    BY <1>1, <1>3, <2>2 DEF Settled, Has, Timed, Progress
  <2>3. QED
    BY <2>1, <2>2
<1>6. JobInv'
  <2>1. ASSUME job = "writing", NEW i \in DOMAIN pipeline
        PROVE  RecordInv(i)'
    <3>1. KeyOf(i) \in Key
      BY <2>1, RecordKeys DEF IInv
    <3>2. PICK x \in Key : x = KeyOf(i)
      BY <3>1
    <3>3. x = KeyOf(i)' /\ pipeline'[i] = pipeline[i]
      BY <1>1, <3>2 DEF KeyOf
    <3>4. PICK a \in BOOLEAN, b \in BOOLEAN, c \in BOOLEAN :
            pipeline[i] = Todo(a, b, c) /\ Progress(x, a, b, c)
      BY <2>1, <3>2 DEF IInv, JobInv, RecordInv
    <3>5. QED
      BY <1>5, <3>3, <3>4 DEF RecordInv
  <2>2. ASSUME job \in {"writing", "finished"}, NEW n \in 1 .. written
        PROVE  Settled(Data[version].keys[n])'
    <3>1. PICK v \in Version : v = version
      BY <2>2 DEF IInv, JobInv
    <3>2. n \in 1 .. Len(Data[v].keys) /\ Settled(Data[v].keys[n])
      BY <2>2, <3>1, DataFacts DEF IInv, JobInv
    <3>3. PICK x \in Key : x = Data[v].keys[n]
      BY <3>2, DataFacts
    <3>4. Settled(x)'
      BY <1>5, <3>2, <3>3
    <3>5. Data[version]'.keys[n] = x
      BY <1>1, <3>1, <3>3
    <3>6. QED
      BY <1>1, <3>1, <3>3, <3>4
  <2>3. QED
    BY <1>1, <2>1, <2>2 DEF IInv, JobInv
<1>7. QED
  BY <1>4, <1>6 DEF IInv

LEMMA FinishedJob == IInv => FinishedJobLeavesItsData
<1> SUFFICES ASSUME IInv, job = "finished", NEW k \in Keys(version) \ lapsed
             PROVE  /\ Includes(zset[k], Values(version, k))
                    /\ ReplaceExisting => zset[k] = Values(version, k)
                    /\ Expire => volatile[k] \/ zset[k] = Nothing
  BY DEF FinishedJobLeavesItsData
<1>1. PICK v \in Version : v = version
  BY DEF IInv, JobInv
<1>2. PICK n \in 1 .. Len(Data[v].keys) : k = Data[v].keys[n]
  BY <1>1, DataFacts
<1>3. Settled(k)
  BY <1>1, <1>2 DEF IInv, JobInv
<1>4. QED
  BY <1>3 DEF Settled, Has, Timed

\* A command changes one key of the data, to nothing or to all its values.
LEMMA ExecuteWrites ==
  ASSUME IInv, Execute
  PROVE  /\ version' = version /\ version \in Version
         /\ \E k \in Key \cap Keys(version) :
              /\ \A x \in Key \ {k} : zset'[x] = zset[x]
              /\ ReplaceExisting =>
                   zset'[k] \in {Nothing, zset[k], Values(version, k)}
<1>1. job = "writing" /\ version' = version
  BY DEF Execute
<1>2. PICK i \in DOMAIN pipeline :
        /\ pipeline[i] # <<>>
        /\ \/ Head(pipeline[i]) = "delete" /\ Delete(KeyOf(i))
           \/ Head(pipeline[i]) = "zadd" /\ ZAdd(KeyOf(i))
           \/ Head(pipeline[i]) = "expire" /\ ExpireKey(KeyOf(i))
  BY DEF Execute, IsNext
<1>3. version \in Version /\ KeyOf(i) \in Key \cap Keys(version)
  BY <1>1, RecordKeys DEF IInv
<1>4. PICK k \in Key : k = KeyOf(i)
  BY <1>3
<1>5. PICK rest : rest = pipeline[i]
  OBVIOUS
<1>6. WriterTypeOK /\ RecordInv(i)
  BY <1>1 DEF IInv, NoMixedNeighbors, JobInv
<1>7. PICK d \in BOOLEAN, z \in BOOLEAN, e \in BOOLEAN :
        rest = Todo(d, z, e) /\ Progress(k, d, z, e)
  BY <1>4, <1>5, <1>6 DEF RecordInv
<1>8. \/ Head(rest) = "delete" /\ Delete(k)
      \/ Head(rest) = "zadd" /\ ZAdd(k)
      \/ Head(rest) = "expire" /\ ExpireKey(k)
  BY <1>2, <1>4, <1>5
<1>9. /\ \A x \in Key \ {k} : zset'[x] = zset[x]
      /\ ReplaceExisting => zset'[k] \in {Nothing, zset[k], Values(version, k)}
  BY <1>1, <1>2, <1>3, <1>5, <1>6, <1>7, <1>8, CommandProgress
<1>10. QED
  BY <1>1, <1>3, <1>4, <1>9

-----------------------------------------------------------------------------
(***************************************************************************)
(* The invariant holds wherever jobs stop, batches are sent again and keys *)
(* expire.                                                                 *)
(***************************************************************************)
THEOREM WriterInvariant == WriterSpec => []IInv
<1>1. WriterInit => IInv
  <2> SUFFICES ASSUME WriterInit PROVE IInv
    OBVIOUS
  <2>1. WriterTypeOK
    <3>1. <<>> \in Seq(Seq(Operation)) /\ 0 \in 0 .. MaxWriteAttempts
      BY WriterAssumption
    <3>2. QED
      BY <3>1, NothingIsASet DEF WriterInit, WriterTypeOK
  <2>2. NoMixedNeighbors
    BY <2>1 DEF WriterInit, NoMixedNeighbors
  <2>3. QED
    BY <2>2 DEF WriterInit, IInv, JobInv
<1>2. IInv /\ [WriterNext]_<<database, writer>> => IInv'
  <2> SUFFICES ASSUME IInv, [WriterNext]_<<database, writer>> PROVE IInv'
    OBVIOUS
  <2>1. ASSUME NEW v \in Version, StartJob(v) PROVE IInv'
    BY <2>1, StartJobKeeps
  <2>2. CASE Execute
    BY <2>2, ExecuteKeeps
  <2>3. CASE NextBatch
    BY <2>3, NextBatchKeeps
  <2>4. CASE Resend
    BY <2>4, ResendKeeps
  <2>5. CASE JobFails
    BY <2>5, JobFailsKeeps
  <2>6. ASSUME NEW k \in Key, KeyExpires(k) PROVE IInv'
    BY <2>6, KeyExpiresKeeps
  <2>7. CASE UNCHANGED <<database, writer>>
    BY <2>7
      DEF IInv, NoMixedNeighbors, WriterTypeOK, JobInv, RecordInv, KeyOf, Progress,
          Settled, Has, Timed, database, writer
  <2>8. QED
    BY <2>1, <2>2, <2>3, <2>4, <2>5, <2>6, <2>7 DEF WriterNext, JobStep
<1>3. QED
  BY <1>1, <1>2, PTL DEF WriterSpec

(***************************************************************************)
(* With replace_existing every key is absent or has the neighbours of one  *)
(* version of the data, and all of them.                                   *)
(***************************************************************************)
THEOREM NoReaderSeesAMixture == WriterSpec => []NoMixedNeighbors
BY WriterInvariant, PTL DEF IInv

(***************************************************************************)
(* A finished job leaves its data behind, whatever earlier jobs left where *)
(* they stopped, and however often its own batches were sent.              *)
(***************************************************************************)
THEOREM FinishedMeansWritten == WriterSpec => []FinishedJobLeavesItsData
BY WriterInvariant, FinishedJob, PTL
-----------------------------------------------------------------------------
(***************************************************************************)
(* Readers change nothing: the composition has the behaviours of the jobs, *)
(* and keeps what they keep.                                               *)
(***************************************************************************)
THEOREM ReadersOnlyRead == Spec => WriterSpec
<1>1. Init => WriterInit
  BY DEF Init
<1>2. [Next]_vars => [WriterNext]_<<database, writer>>
  <2> SUFFICES ASSUME [Next]_vars PROVE [WriterNext]_<<database, writer>>
    OBVIOUS
  <2>1. CASE Write
    BY <2>1 DEF Write
  <2>2. ASSUME NEW t \in Thread,
               \/ \E list \in Requests : FindNeighborsByItemIds(t, list)
               \/ \E id \in SingleIds : FindNeighborsByUserId(t, id)
               \/ Lookup(t)
        PROVE  UNCHANGED <<database, writer>>
    BY <2>2 DEF FindNeighborsByItemIds, FindNeighborsByUserId, Lookup, Connect, PoolTimeout,
                ExecuteRead, Receive, AttemptFails
  <2>3. CASE UNCHANGED vars
    BY <2>3 DEF vars
  <2>4. QED
    BY <2>1, <2>2, <2>3 DEF Next
<1>3. QED
  BY <1>1, <1>2, PTL DEF Spec, WriterSpec

-----------------------------------------------------------------------------
(* The invariant: what a call that goes on has seen and may still see.     *)

\* What expired and has not been written since is not there.
LapsedAreGone == \A k \in lapsed : zset[k] = Nothing

SeesOnlyVisible(c) ==
  \A k \in Key :
    zset[k] # Nothing => \E v \in Visible(k, c.floor) : zset[k] = Values(v, k)

AnsweredSoFar(c) ==
  \A i \in valid_item_indexes(c.ids) :
    ReplyIndex(c.ids, i) <= Len(c.replies) =>
      IsAnswer(c.replies[ReplyIndex(c.ids, i)], c.ids[i], c)

CallInv(c) ==
  /\ c.floor <= version
  /\ ~c.disturbed =>
       job = "finished" /\ c.floor = version /\ lapsed \cap ToSet(c.ids) = {}
  /\ ReplaceExisting => SeesOnlyVisible(c) /\ AnsweredSoFar(c)

ThreadsInv == \A t \in Thread : pc[t] # "idle" => CallInv(call[t])

Justified(r) ==
  /\ ReplaceExisting /\ r.error = "none" =>
       /\ Len(r.lists) = Len(r.call.ids)
       /\ \A i \in DOMAIN r.lists :
            IF r.call.ids[i] = NoId
            THEN r.lists[i] = <<>>
            ELSE IsAnswer(r.lists[i], r.call.ids[i], r.call)
  /\ r.error \in Retryable => r.call.attempt = MaxAttempts

StoreInv == TypeOK /\ LapsedAreGone /\ ThreadsInv /\ \A r \in returned : Justified(r)

-----------------------------------------------------------------------------
LEMMA VersionFacts ==
  ASSUME WriterTypeOK
  PROVE  /\ version \in Nat /\ (version # 0 => version \in Version)
         /\ \A v \in Version \cup {0} : v \in Nat
<1>1. \A v \in Version : v \in Nat
  BY DataFacts
<1>2. QED
  BY <1>1 DEF WriterTypeOK

\* The commands of a pipeline have the places 1 .. n, one for each index.
LEMMA IndexFacts ==
  ASSUME NEW S, NEW list \in Seq(S)
  PROVE  /\ Cardinality(valid_item_indexes(list)) \in Nat
         /\ \A i \in valid_item_indexes(list) :
              ReplyIndex(list, i) \in 1 .. Cardinality(valid_item_indexes(list))
         /\ \A i, j \in valid_item_indexes(list) :
              ReplyIndex(list, i) = ReplyIndex(list, j) => i = j
<1> DEFINE V == valid_item_indexes(list)
<1> DEFINE Upto(i) == {j \in V : j <= i}
<1>1. V \subseteq 1 .. Len(list) /\ Len(list) \in Nat
  BY DEF valid_item_indexes
<1>2. \A i : ReplyIndex(list, i) = Cardinality(Upto(i))
  BY DEF ReplyIndex
<1>3. V \in SUBSET (1 .. Len(list))
  BY <1>1
<1> HIDE DEF V
<1>4. IsFiniteSet(1 .. Len(list))
  BY <1>1, FS_Interval
<1>5. IsFiniteSet(V)
  BY <1>3, <1>4, FS_Subset
<1>6. Cardinality(V) \in Nat
  BY <1>5, FS_CardinalityType
<1>7. ASSUME NEW i \in V
      PROVE  /\ IsFiniteSet(Upto(i)) /\ Cardinality(Upto(i)) \in 1 .. Cardinality(V)
  <2>1. Upto(i) \in SUBSET V /\ i \in Upto(i)
    BY <1>1
  <2> HIDE DEF Upto
  <2>2. IsFiniteSet(Upto(i)) /\ Cardinality(Upto(i)) <= Cardinality(V)
    BY <1>5, <2>1, FS_Subset
  <2>3. Cardinality(Upto(i)) \in Nat /\ Cardinality(Upto(i)) # 0
    BY <2>1, <2>2, FS_CardinalityType, FS_EmptySet
  <2>4. QED
    BY <1>6, <2>2, <2>3
<1>8. ASSUME NEW i \in V, NEW j \in V, i < j
      PROVE  Cardinality(Upto(i)) # Cardinality(Upto(j))
  <2>1. Upto(i) \in SUBSET Upto(j) /\ Upto(i) # Upto(j)
    <3>1. i \in Nat /\ j \in Nat /\ \A k \in V : k \in Nat
      BY <1>1
    <3>2. \A k \in V : k <= i => k <= j
      BY <1>8, <3>1
    <3>3. j \in Upto(j) /\ j \notin Upto(i)
      BY <1>8, <3>1
    <3>4. QED
      BY <3>2, <3>3
  <2>2. IsFiniteSet(Upto(j))
    BY <1>7
  <2> HIDE DEF Upto
  <2>3. QED
    BY <2>1, <2>2, FS_Subset
<1>9. ASSUME NEW i \in V, NEW j \in V, Cardinality(Upto(i)) = Cardinality(Upto(j))
      PROVE  i = j
  <2>1. i \in Nat /\ j \in Nat
    BY <1>1
  <2>2. ~(i < j) /\ ~(j < i)
    BY <1>8, <1>9
  <2>3. QED
    BY <2>1, <2>2
<1>10. QED
  BY <1>2, <1>6, <1>7, <1>9 DEF V

LEMMA NothingIsEmpty == ZRevRange(Nothing) = <<>>
<1>1. DOMAIN Nothing = {} /\ Cardinality({}) = 0
  BY FS_EmptySet DEF Nothing
<1> DEFINE n == IF 0 < MaxNeighbors THEN 0 ELSE MaxNeighbors
<1>2. 1 .. n = {}
  BY StoreAssumption
<1> HIDE DEF n
<1>3. \A S : 1 .. n = {} /\ S = 1 .. n => S = {}
  OBVIOUS
<1>4. DOMAIN ZRevRange(Nothing) = {}
  BY <1>1, <1>2 DEF ZRevRange, n
<1>5. \A s : s = [i \in DOMAIN s |-> s[i]] /\ DOMAIN s = {} => s = <<>>
  OBVIOUS
<1>6. ZRevRange(Nothing) = [i \in DOMAIN ZRevRange(Nothing) |-> ZRevRange(Nothing)[i]]
  BY DEF ZRevRange
<1>7. QED
  BY <1>4, <1>5, <1>6

LEMMA EmptyIsAReply == <<>> \in Reply
BY NothingIsASet, NothingIsEmpty DEF Reply

LEMMA NoCallIsACall == NoCall \in Call
BY StoreAssumption DEF NoCall, Call

-----------------------------------------------------------------------------
\* What the database allows a call to see stays when nothing is written.
LEMMA CallKeeps ==
  ASSUME UNCHANGED <<database, writer>>, NEW c
  PROVE  /\ CallInv(c) => CallInv(c)'
         /\ \A r : Justified(r) => Justified(r)'
BY DEF CallInv, SeesOnlyVisible, AnsweredSoFar, IsAnswer, Visible, Justified, database, writer

\* A step of thread t that leaves the call c, and the database as it is.
LEMMA ThreadStepKeeps ==
  ASSUME StoreInv, UNCHANGED <<database, writer>>, NEW t \in Thread,
         NEW p \in {"idle", "connect", "exec"}, NEW c \in Call,
         pc' = [pc EXCEPT ![t] = p], call' = [call EXCEPT ![t] = c],
         p # "idle" => CallInv(c),
         \A r \in returned' :
           r.error \in Error /\ r.lists \in Seq(Reply) /\ Justified(r)
  PROVE  StoreInv'
<1>1. TypeOK'
  BY DEF StoreInv, TypeOK, WriterTypeOK, database, writer
<1>2. LapsedAreGone'
  BY DEF StoreInv, LapsedAreGone, database
<1>3. ThreadsInv'
  <2> SUFFICES ASSUME NEW u \in Thread, pc'[u] # "idle" PROVE CallInv(call[u])'
    BY DEF ThreadsInv
  <2>1. PICK d : d = call'[u]
    OBVIOUS
  <2>2. CallInv(d)
    BY <2>1 DEF StoreInv, TypeOK, ThreadsInv
  <2>3. CallInv(d)'
    BY <2>2, CallKeeps
  <2>4. QED
    BY <2>1, <2>3
<1>4. \A r \in returned' : Justified(r)'
  BY CallKeeps
<1>5. QED
  BY <1>1, <1>2, <1>3, <1>4 DEF StoreInv

LEMMA ReturnKeeps ==
  ASSUME StoreInv, UNCHANGED <<database, writer>>, NEW t \in Thread, NEW c,
         NEW error \in Error, NEW lists \in Seq(Reply), Return(t, c, error, lists),
         Justified([call |-> c, error |-> error, lists |-> lists])
  PROVE  StoreInv'
<1>1. PICK r : r = [call |-> c, error |-> error, lists |-> lists]
  OBVIOUS
<1>2. r.error \in Error /\ r.lists \in Seq(Reply) /\ Justified(r) /\ returned' = {r}
  BY <1>1 DEF Return
<1>3. /\ pc' = [pc EXCEPT ![t] = "idle"] /\ call' = [call EXCEPT ![t] = NoCall]
  BY DEF Return
<1>4. \A q \in returned' :
        q.error \in Error /\ q.lists \in Seq(Reply) /\ Justified(q)
  BY <1>2
<1>5. QED
  BY <1>3, <1>4, NoCallIsACall, ThreadStepKeeps

\* A call that begins may see what the version has that is complete.
LEMMA NewCallIsFine ==
  ASSUME IInv, StoreInv, NEW list \in Seq(Key \cup {NoId}), NEW c, NEW b \in BOOLEAN,
         b <=> job # "finished" \/ lapsed \cap ToSet(list) # {},
         c = [ids |-> list, attempt |-> 1, replies |-> <<>>,
              floor |-> IF job = "finished" THEN version ELSE 0, disturbed |-> b]
  PROVE  c \in Call /\ CallInv(c)
<1>1. WriterTypeOK /\ version \in Nat
  BY VersionFacts DEF StoreInv, TypeOK
<1>2. 1 \in 0 .. MaxAttempts
  BY StoreAssumption
<1>3. PICK floor \in Version \cup {0} :
        floor = IF job = "finished" THEN version ELSE 0
  BY <1>1 DEF WriterTypeOK
<1>4. <<>> \in Seq(Reply)
  OBVIOUS
<1>5. c = [ids |-> list, attempt |-> 1, replies |-> <<>>, floor |-> floor, disturbed |-> b]
  BY <1>3
<1>6. c \in Call
  BY <1>2, <1>4, <1>5 DEF Call
<1>7. c.floor = floor /\ c.ids = list /\ c.replies = <<>> /\ c.disturbed = b
  BY <1>5
<1>8. ASSUME ReplaceExisting, NEW k \in Key, zset[k] # Nothing
      PROVE  \E v \in Visible(k, floor) : zset[k] = Values(v, k)
  <2>1. PICK v \in 1 .. version : k \in Keys(v) /\ zset[k] = Values(v, k)
    BY <1>8 DEF IInv, NoMixedNeighbors
  <2>2. CASE job # "finished"
    <3>1. v >= floor
      BY <1>1, <1>3, <2>2
    <3>2. QED
      BY <2>1, <3>1 DEF Visible
  <2>3. CASE job = "finished" /\ k \notin Keys(version)
    BY <1>3, <2>1, <2>3 DEF Visible
  <2>4. CASE job = "finished" /\ k \in Keys(version)
    <3>1. k \notin lapsed
      BY <1>8 DEF StoreInv, LapsedAreGone
    <3>2. zset[k] = Values(version, k)
      BY <1>8, <2>4, <3>1, FinishedJob DEF FinishedJobLeavesItsData
    <3>3. version \in 1 .. version
      BY <1>1, <2>1
    <3>4. QED
      BY <1>1, <1>3, <2>4, <3>2, <3>3 DEF Visible
  <2>5. QED
    BY <2>2, <2>3, <2>4
<1>9. AnsweredSoFar(c)
  <2> SUFFICES ASSUME NEW i \in valid_item_indexes(list)
               PROVE  ~(ReplyIndex(list, i) <= 0)
    BY <1>7 DEF AnsweredSoFar
  <2>1. QED
    BY IndexFacts
<1>10. floor <= version
  BY <1>1, <1>3
<1>11. ~b => job = "finished" /\ floor = version /\ lapsed \cap ToSet(list) = {}
  BY <1>3
<1>12. QED
  BY <1>6, <1>7, <1>8, <1>9, <1>10, <1>11 DEF CallInv, SeesOnlyVisible

LEMMA FindKeeps ==
  ASSUME IInv, StoreInv, NEW t \in Thread, NEW list \in Seq(Key \cup {NoId}),
         FindNeighborsByItemIds(t, list)
  PROVE  StoreInv'
<1>1. UNCHANGED <<database, writer>>
  BY DEF FindNeighborsByItemIds
<1>2. PICK b \in BOOLEAN : b = (job # "finished" \/ lapsed \cap ToSet(list) # {})
  OBVIOUS
<1>3. Disturbs(ToSet(list)) = b
  BY <1>1, <1>2 DEF Disturbs, database, writer
<1>4. PICK c : c = [ids |-> list, attempt |-> 1, replies |-> <<>>,
                    floor |-> IF job = "finished" THEN version ELSE 0, disturbed |-> b]
  OBVIOUS
<1>5. c \in Call /\ CallInv(c) /\ c.ids = list
  BY <1>2, <1>4, NewCallIsFine
<1>6. PICK lists : lists = [i \in DOMAIN list |-> <<>>]
  OBVIOUS
<1>7. IF valid_item_indexes(list) = {} \/ MaxNeighbors <= 0
      THEN Return(t, c, "none", lists)
      ELSE /\ pc' = [pc EXCEPT ![t] = "connect"]
           /\ call' = [call EXCEPT ![t] = c]
           /\ returned' = {}
  BY <1>3, <1>4, <1>6 DEF FindNeighborsByItemIds
<1>8. CASE valid_item_indexes(list) = {} \/ MaxNeighbors <= 0
  <2>1. "none" \in Error /\ "none" \notin Retryable
    BY DEF Error, Retryable
  <2>2. lists \in Seq(Reply) /\ Len(lists) = Len(list) /\ DOMAIN lists = DOMAIN list
    BY <1>6, EmptyIsAReply
  <2>3. \A i \in DOMAIN list : list[i] # NoId => MaxNeighbors <= 0
    BY <1>8 DEF valid_item_indexes
  <2>4. Justified([call |-> c, error |-> "none", lists |-> lists])
    BY <1>5, <1>6, <2>1, <2>2, <2>3 DEF Justified, IsAnswer
  <2>5. QED
    BY <1>1, <1>7, <1>8, <2>1, <2>2, <2>4, ReturnKeeps
<1>9. CASE ~(valid_item_indexes(list) = {} \/ MaxNeighbors <= 0)
  BY <1>1, <1>5, <1>7, <1>9, ThreadStepKeeps
<1>10. QED
  BY <1>8, <1>9

-----------------------------------------------------------------------------
LEMMA ReadKeeps ==
  ASSUME IInv, StoreInv, NEW t \in Thread, ExecuteRead(t)
  PROVE  StoreInv'
<1>1. UNCHANGED <<database, writer>> /\ pc[t] = "exec" /\ pc' = pc /\ returned' = {}
  BY DEF ExecuteRead
<1>2. PICK c \in Call : c = call[t] /\ CallInv(c)
  BY <1>1 DEF StoreInv, TypeOK, ThreadsInv
<1>3. PICK i \in valid_item_indexes(c.ids) :
        /\ ReplyIndex(c.ids, i) = Len(c.replies) + 1
        /\ call' = [call EXCEPT ![t].replies = Append(@, ZRevRange(zset[c.ids[i]]))]
  BY <1>2 DEF ExecuteRead
<1>4. c.ids \in Seq(Key \cup {NoId}) /\ c.replies \in Seq(Reply)
  BY <1>2 DEF Call
<1>5. PICK k \in Key : k = c.ids[i]
  BY <1>3, <1>4 DEF valid_item_indexes
<1>6. zset[k] \in SortedSet
  BY DEF StoreInv, TypeOK, WriterTypeOK
<1>7. PICK reply \in Reply : reply = ZRevRange(zset[k])
  BY <1>6 DEF Reply
<1>8. PICK d : d = [c EXCEPT !.replies = Append(@, reply)]
  OBVIOUS
<1>9. Append(c.replies, reply) \in Seq(Reply)
  BY <1>4
<1>10. /\ d \in Call /\ d.ids = c.ids /\ d.floor = c.floor /\ d.disturbed = c.disturbed
       /\ d.replies = Append(c.replies, reply)
  BY <1>2, <1>8, <1>9 DEF Call
<1>11. call' = [call EXCEPT ![t] = d]
  BY <1>2, <1>3, <1>5, <1>7, <1>8 DEF StoreInv, TypeOK
<1>12. ReplaceExisting => IsAnswer(reply, k, c)
  <2> SUFFICES ASSUME ReplaceExisting PROVE IsAnswer(reply, k, c)
    OBVIOUS
  <2>1. CASE zset[k] # Nothing
    BY <1>2, <1>7, <2>1 DEF CallInv, SeesOnlyVisible, IsAnswer
  <2>2. CASE zset[k] = Nothing /\ (c.disturbed \/ k \notin Keys(c.floor))
    BY <1>7, <2>2, NothingIsEmpty DEF IsAnswer
  <2>3. CASE zset[k] = Nothing /\ ~c.disturbed /\ k \in Keys(c.floor)
    <3>1. job = "finished" /\ c.floor = version /\ lapsed \cap ToSet(c.ids) = {}
      BY <1>2, <2>3 DEF CallInv
    <3>2. k \in ToSet(c.ids)
      BY <1>3, <1>5 DEF ToSet, valid_item_indexes
    <3>3. zset[k] = Values(version, k)
      BY <2>3, <3>1, <3>2, FinishedJob DEF FinishedJobLeavesItsData
    <3>4. version \in Nat \ {0}
      BY <3>1, DataFacts DEF IInv, JobInv
    <3>5. version \in Visible(k, c.floor)
      BY <2>3, <3>1, <3>4 DEF Visible
    <3>6. QED
      BY <1>7, <3>3, <3>5 DEF IsAnswer
  <2>4. QED
    BY <2>1, <2>2, <2>3
<1>13. ASSUME ReplaceExisting, NEW j \in valid_item_indexes(c.ids),
              ReplyIndex(c.ids, j) <= Len(d.replies)
       PROVE  IsAnswer(d.replies[ReplyIndex(c.ids, j)], c.ids[j], c)
  <2>1. /\ Len(d.replies) = Len(c.replies) + 1 /\ Len(c.replies) \in Nat
        /\ d.replies[Len(c.replies) + 1] = reply
        /\ \A n \in 1 .. Len(c.replies) : d.replies[n] = c.replies[n]
    BY <1>4, <1>7, <1>10
  <2>2. PICK n \in Nat \ {0} : n = ReplyIndex(c.ids, j)
    BY <1>4, IndexFacts
  <2>3. CASE n <= Len(c.replies)
    <3>1. IsAnswer(c.replies[n], c.ids[j], c)
      BY <1>2, <1>13, <2>2, <2>3 DEF CallInv, AnsweredSoFar
    <3>2. QED
      BY <2>1, <2>2, <2>3, <3>1
  <2>4. CASE n = Len(c.replies) + 1
    <3>1. j = i
      BY <1>3, <1>4, <2>2, <2>4, IndexFacts
    <3>2. QED
      BY <1>5, <1>12, <1>13, <2>1, <2>2, <2>4, <3>1
  <2>5. QED
    BY <1>13, <2>1, <2>2, <2>3, <2>4
<1>14. CallInv(d)
  <2>1. \A list, x : IsAnswer(list, x, c) => IsAnswer(list, x, d)
    BY <1>10 DEF IsAnswer
  <2>2. ReplaceExisting => AnsweredSoFar(d)
    BY <1>10, <1>13, <2>1 DEF AnsweredSoFar
  <2>3. QED
    BY <1>2, <1>10, <2>2 DEF CallInv, SeesOnlyVisible
<1>15. pc' = [pc EXCEPT ![t] = "exec"]
  BY <1>1 DEF StoreInv, TypeOK
<1>16. QED
  BY <1>1, <1>10, <1>11, <1>14, <1>15, ThreadStepKeeps

\* The lists of a call whose replies have all arrived.
LEMMA ReceiveKeeps ==
  ASSUME StoreInv, NEW t \in Thread, Receive(t)
  PROVE  StoreInv'
<1>1. UNCHANGED <<database, writer>> /\ pc[t] = "exec"
  BY DEF Receive
<1>2. PICK c \in Call : c = call[t] /\ CallInv(c)
  BY <1>1 DEF StoreInv, TypeOK, ThreadsInv
<1>3. PICK lists : lists = [i \in DOMAIN c.ids |-> ListOf(t, i)]
  OBVIOUS
<1>4. /\ Return(t, c, "none", lists)
      /\ Len(c.replies) = Cardinality(valid_item_indexes(c.ids))
  BY <1>2, <1>3 DEF Receive
<1>5. c.ids \in Seq(Key \cup {NoId}) /\ c.replies \in Seq(Reply)
  BY <1>2 DEF Call
<1>6. ASSUME NEW i \in DOMAIN c.ids
      PROVE  /\ lists[i] \in Reply
             /\ c.ids[i] = NoId => lists[i] = <<>>
             /\ ReplaceExisting /\ c.ids[i] # NoId => IsAnswer(lists[i], c.ids[i], c)
  <2>1. CASE i \in valid_item_indexes(c.ids)
    <3>1. PICK n \in 1 .. Len(c.replies) : n = ReplyIndex(c.ids, i)
      BY <1>4, <1>5, <2>1, IndexFacts
    <3>2. lists[i] = c.replies[n]
      BY <1>2, <1>3, <2>1, <3>1 DEF ListOf
    <3>3. c.replies[n] \in Reply
      BY <1>5, <3>1
    <3>4. ReplaceExisting => IsAnswer(c.replies[n], c.ids[i], c)
      BY <1>2, <2>1, <3>1 DEF CallInv, AnsweredSoFar
    <3>5. QED
      BY <2>1, <3>2, <3>3, <3>4 DEF valid_item_indexes
  <2>2. CASE i \notin valid_item_indexes(c.ids)
    <3>1. lists[i] = <<>>
      BY <1>2, <1>3, <2>2 DEF ListOf
    <3>2. c.ids[i] = NoId
      BY <2>2 DEF valid_item_indexes
    <3>3. QED
      BY <3>1, <3>2, EmptyIsAReply
  <2>3. QED
    BY <2>1, <2>2
<1>7. lists \in Seq(Reply) /\ Len(lists) = Len(c.ids) /\ DOMAIN lists = DOMAIN c.ids
  <2>1. \A i \in 1 .. Len(c.ids) : lists[i] \in Reply
    BY <1>5, <1>6
  <2>2. PICK n \in Nat : n = Len(c.ids) /\ DOMAIN c.ids = 1 .. n
    BY <1>5
  <2>3. lists \in [1 .. n -> Reply]
    BY <1>3, <2>1, <2>2
  <2>4. QED
    BY <2>2, <2>3
<1>8. "none" \in Error /\ "none" \notin Retryable
  BY DEF Error, Retryable
<1>9. Justified([call |-> c, error |-> "none", lists |-> lists])
  BY <1>6, <1>7, <1>8 DEF Justified
<1>10. QED
  BY <1>1, <1>4, <1>7, <1>8, <1>9, ReturnKeeps

\* An attempt that fails is followed by another one, or ends the call.
LEMMA FailureKeeps ==
  ASSUME StoreInv, NEW t \in Thread,
         \/ PoolTimeout(t)
         \/ \E error \in Retryable \cup Final : AttemptFails(t, error)
  PROVE  StoreInv'
<1>1. UNCHANGED <<database, writer>> /\ pc[t] # "idle"
  BY DEF PoolTimeout, AttemptFails
<1>2. PICK c \in Call : c = call[t] /\ CallInv(c)
  BY <1>1 DEF StoreInv, TypeOK, ThreadsInv
<1>3. <<>> \in Seq(Reply)
  OBVIOUS
<1>4. ASSUME NEW error \in Retryable \cup Final, Return(t, c, error, <<>>),
             error \in Retryable => ~(c.attempt < MaxAttempts)
      PROVE  StoreInv'
  <2>1. error \in Error /\ error # "none"
    BY DEF Error, Retryable, Final
  <2>2. c.attempt \in 0 .. MaxAttempts /\ MaxAttempts \in Nat
    BY <1>2, StoreAssumption DEF Call
  <2>3. Justified([call |-> c, error |-> error, lists |-> <<>>])
    BY <1>4, <2>1, <2>2 DEF Justified
  <2>4. QED
    BY <1>1, <1>3, <1>4, <2>1, <2>3, ReturnKeeps
<1>5. CASE PoolTimeout(t)
  <2>1. "other" \in Retryable \cup Final /\ "other" \notin Retryable
    BY DEF Retryable, Final
  <2>2. Return(t, c, "other", <<>>)
    BY <1>2, <1>5 DEF PoolTimeout
  <2>3. QED
    BY <1>4, <2>1, <2>2
<1>6. ASSUME NEW error \in Retryable \cup Final, AttemptFails(t, error)
      PROVE  StoreInv'
  <2>1. CASE error \in Retryable /\ c.attempt < MaxAttempts
    <3>1. PICK d : d = [c EXCEPT !.replies = <<>>, !.attempt = @ + 1]
      OBVIOUS
    <3>2. c.attempt \in 0 .. MaxAttempts /\ MaxAttempts \in Nat
      BY <1>2, StoreAssumption DEF Call
    <3>3. /\ d \in Call /\ d.ids = c.ids /\ d.floor = c.floor
          /\ d.disturbed = c.disturbed /\ d.replies = <<>>
      <4>1. PICK n \in 0 .. MaxAttempts : n = c.attempt + 1
        BY <2>1, <3>2
      <4>2. d = [c EXCEPT !.replies = <<>>, !.attempt = n]
        BY <3>1, <4>1
      <4>3. QED
        BY <1>2, <1>3, <4>2 DEF Call
    <3>4. /\ pc' = [pc EXCEPT ![t] = "connect"] /\ returned' = {}
          /\ call' = [call EXCEPT ![t] = d]
      BY <1>2, <1>6, <2>1, <3>1 DEF AttemptFails, StoreInv, TypeOK
    <3>5. AnsweredSoFar(d)
      <4>1. d.ids \in Seq(Key \cup {NoId})
        BY <3>3 DEF Call
      <4>2. \A i \in valid_item_indexes(d.ids) : ~(ReplyIndex(d.ids, i) <= Len(d.replies))
        BY <3>3, <4>1, IndexFacts
      <4>3. QED
        BY <4>2 DEF AnsweredSoFar
    <3>6. CallInv(d)
      BY <1>2, <3>3, <3>5 DEF CallInv, SeesOnlyVisible
    <3>7. QED
      BY <1>1, <3>3, <3>4, <3>6, ThreadStepKeeps
  <2>2. CASE ~(error \in Retryable /\ c.attempt < MaxAttempts)
    BY <1>2, <1>4, <1>6, <2>2 DEF AttemptFails
  <2>3. QED
    BY <2>1, <2>2
<1>7. QED
  BY <1>5, <1>6

-----------------------------------------------------------------------------
(* What a step of the jobs does to the calls that go on.                   *)

LEMMA WriterSteps ==
  ASSUME IInv, WriterNext, LapsedAreGone
  PROVE  /\ version' >= version
         /\ job' = "finished" => version' = version
         /\ LapsedAreGone'
         /\ ReplaceExisting =>
              \A k \in Key :
                \/ zset'[k] \in {Nothing, zset[k]}
                \/ /\ k \in Keys(version') /\ version' \in Version
                   /\ zset'[k] = Values(version', k)
<1>1. WriterTypeOK /\ version \in Nat
  BY VersionFacts DEF IInv, NoMixedNeighbors
<1>2. CASE Execute
  <2>1. PICK k \in Key \cap Keys(version) :
          /\ \A x \in Key \ {k} : zset'[x] = zset[x]
          /\ ReplaceExisting => zset'[k] \in {Nothing, zset[k], Values(version, k)}
    BY <1>2, ExecuteWrites
  <2>2. version' = version /\ version \in Version
    BY <1>2, ExecuteWrites
  <2>3. PICK v \in Version : v = version /\ v = version'
    BY <2>2
  <2>4. LapsedAreGone'
    <3>1. PICK i \in DOMAIN pipeline : \/ Delete(KeyOf(i))
                                       \/ ZAdd(KeyOf(i))
                                       \/ ExpireKey(KeyOf(i))
      BY <1>2 DEF Execute
    <3>2. PICK x : x = KeyOf(i)
      OBVIOUS
    <3>3. zset \in [Key -> SortedSet] /\ lapsed \subseteq Key
      BY <1>1 DEF WriterTypeOK
    <3>4. ASSUME Delete(x) PROVE LapsedAreGone'
      BY <3>3, <3>4 DEF Delete, LapsedAreGone
    <3>5. ASSUME ZAdd(x) PROVE LapsedAreGone'
      BY <3>3, <3>5 DEF ZAdd, LapsedAreGone
    <3>6. ASSUME ExpireKey(x) PROVE LapsedAreGone'
      BY <3>6 DEF ExpireKey, LapsedAreGone
    <3>7. QED
      BY <3>1, <3>2, <3>4, <3>5, <3>6
  <2>5. ASSUME ReplaceExisting, NEW x \in Key
        PROVE  \/ zset'[x] \in {Nothing, zset[x]}
               \/ x \in Keys(v) /\ zset'[x] = Values(v, x)
    BY <2>1, <2>3, <2>5
  <2>6. QED
    BY <1>1, <2>2, <2>3, <2>4, <2>5
<1>3. ASSUME NEW v \in Version, StartJob(v)
      PROVE  /\ version' >= version /\ job' # "finished"
             /\ zset' = zset /\ lapsed' = lapsed
  BY <1>3 DEF StartJob, database
<1>4. CASE NextBatch \/ Resend \/ JobFails
  <2>1. version' = version /\ zset' = zset /\ lapsed' = lapsed
    BY <1>4 DEF NextBatch, Resend, JobFails, database
  <2>2. QED
    BY <1>1, <2>1 DEF LapsedAreGone
<1>5. ASSUME NEW k \in Key, KeyExpires(k)
      PROVE  /\ version' = version /\ LapsedAreGone'
             /\ \A x \in Key : zset'[x] \in {Nothing, zset[x]}
  <2>1. zset \in [Key -> SortedSet] /\ lapsed \subseteq Key
    BY <1>1 DEF WriterTypeOK
  <2>2. /\ \A x \in Key : zset'[x] = IF x = k THEN Nothing ELSE zset[x]
        /\ lapsed' = lapsed \cup {k} /\ version' = version
    BY <1>5, <2>1 DEF KeyExpires, writer
  <2>3. QED
    BY <2>1, <2>2 DEF LapsedAreGone
<1>6. ASSUME NEW v \in Version, StartJob(v)
      PROVE  /\ version' >= version /\ job' # "finished" /\ LapsedAreGone'
             /\ \A x \in Key : zset'[x] \in {Nothing, zset[x]}
  BY <1>3, <1>6 DEF LapsedAreGone
<1>7. QED
  BY <1>1, <1>2, <1>4, <1>5, <1>6 DEF WriterNext, JobStep

\* d is the call c after a step of the jobs.
LEMMA CallGoesOn ==
  ASSUME IInv, IInv', WriterNext, LapsedAreGone, NEW c \in Call, CallInv(c), NEW d,
         d.ids = c.ids, d.floor = c.floor, d.replies = c.replies,
         c.disturbed => d.disturbed,
         ~d.disturbed => job' = "finished" /\ lapsed' \cap ToSet(c.ids) = {}
  PROVE  CallInv(d)'
<1>1. /\ version \in Nat /\ version' \in Nat /\ c.floor \in Nat /\ version' >= version
      /\ c.floor <= version
  <2>1. WriterTypeOK /\ WriterTypeOK'
    BY DEF IInv, NoMixedNeighbors
  <2>2. \A v \in Version \cup {0} : v \in Nat
    BY <2>1, VersionFacts
  <2>3. version \in Version \cup {0} /\ version' \in Version \cup {0}
    BY <2>1 DEF WriterTypeOK
  <2>4. c.floor \in Version \cup {0} /\ c.floor <= version
    BY DEF Call, CallInv
  <2>5. QED
    BY <2>2, <2>3, <2>4, WriterSteps
<1>2. ~d.disturbed => job' = "finished" /\ d.floor = version'
                        /\ lapsed' \cap ToSet(d.ids) = {}
  BY WriterSteps DEF CallInv
<1>3. \A k, v : v \in Visible(k, c.floor) => v \in Visible(k, c.floor)'
  BY <1>1 DEF Visible
<1>4. ASSUME ReplaceExisting PROVE SeesOnlyVisible(d)'
  <2> SUFFICES ASSUME NEW k \in Key, zset'[k] # Nothing
               PROVE  \E v \in Visible(k, c.floor)' : zset'[k] = Values(v, k)
    BY DEF SeesOnlyVisible, Visible
  <2>1. CASE zset'[k] = zset[k]
    <3>1. PICK v \in Visible(k, c.floor) : zset[k] = Values(v, k)
      BY <1>4, <2>1 DEF CallInv, SeesOnlyVisible
    <3>2. QED
      BY <1>3, <2>1, <3>1
  <2>2. CASE k \in Keys(version') /\ version' \in Version /\ zset'[k] = Values(version', k)
    <3>1. PICK v \in Version : v = version'
      BY <2>2
    <3>2. v \in 1 .. version' /\ v >= c.floor
      BY <1>1, <3>1, DataFacts
    <3>3. QED
      BY <2>2, <3>1, <3>2 DEF Visible
  <2>3. QED
    BY <1>4, <2>1, <2>2, WriterSteps
<1>5. ASSUME ReplaceExisting PROVE AnsweredSoFar(d)'
  <2>1. \A list, k : IsAnswer(list, k, c) => IsAnswer(list, k, d)'
    <3> SUFFICES ASSUME NEW list, NEW k, IsAnswer(list, k, c) PROVE IsAnswer(list, k, d)'
      OBVIOUS
    <3>1. ASSUME NEW v \in Visible(k, c.floor), list = ZRevRange(Values(v, k))
          PROVE  IsAnswer(list, k, d)'
      <4>1. v \in Visible(k, c.floor)'
        BY <1>3
      <4>2. QED
        BY <3>1, <4>1 DEF IsAnswer, Visible
    <3>2. QED
      BY <3>1 DEF IsAnswer
  <2>2. QED
    BY <1>5, <2>1 DEF CallInv, AnsweredSoFar
<1>6. QED
  BY <1>1, <1>2, <1>4, <1>5 DEF CallInv

LEMMA WriteKeeps ==
  ASSUME IInv, IInv', StoreInv, Write
  PROVE  StoreInv'
<1>1. /\ WriterNext /\ pc' = pc /\ returned' = {}
      /\ call' = [t \in Thread |->
           [call[t] EXCEPT !.disturbed =
              @ \/ (pc[t] # "idle" /\ Disturbs(ToSet(call[t].ids)))]]
  BY DEF Write
<1>2. ASSUME NEW t \in Thread
      PROVE  /\ call'[t] \in Call
             /\ pc[t] # "idle" => CallInv(call[t])'
  <2>1. PICK c \in Call : c = call[t]
    BY DEF StoreInv, TypeOK
  <2>2. PICK b \in BOOLEAN :
          b = (c.disturbed \/ (pc[t] # "idle" /\ Disturbs(ToSet(c.ids))))
    OBVIOUS
  <2>3. PICK d : d = [c EXCEPT !.disturbed = b]
    OBVIOUS
  <2>4. call'[t] = d
    BY <1>1, <2>1, <2>2, <2>3
  <2>5. /\ d \in Call /\ d.ids = c.ids /\ d.floor = c.floor /\ d.replies = c.replies
        /\ d.disturbed = b
    BY <2>1, <2>3 DEF Call
  <2>6. ASSUME pc[t] # "idle" PROVE CallInv(d)'
    <3>1. CallInv(c)
      BY <2>1, <2>6 DEF StoreInv, ThreadsInv
    <3>2. /\ c.disturbed => d.disturbed
          /\ ~d.disturbed => job' = "finished" /\ lapsed' \cap ToSet(c.ids) = {}
      BY <2>2, <2>5, <2>6 DEF Disturbs
    <3>3. QED
      BY <1>1, <2>1, <2>5, <3>1, <3>2, CallGoesOn DEF StoreInv
  <2>7. QED
    BY <2>4, <2>5, <2>6
<1>3. WriterTypeOK'
  BY DEF IInv, NoMixedNeighbors
<1>4. call' \in [Thread -> Call]
  BY <1>1, <1>2
<1>5. TypeOK'
  BY <1>1, <1>3, <1>4 DEF StoreInv, TypeOK
<1>6. ThreadsInv'
  BY <1>1, <1>2 DEF ThreadsInv
<1>7. LapsedAreGone'
  BY <1>1, WriterSteps DEF StoreInv
<1>8. QED
  BY <1>1, <1>5, <1>6, <1>7 DEF StoreInv

-----------------------------------------------------------------------------
(***************************************************************************)
(* Every call that goes on has seen only answers it may return, and a job  *)
(* at work cannot take that away from it.                                  *)
(***************************************************************************)
THEOREM StoreInvariant == Spec => []StoreInv
<1>1. Init => StoreInv
  <2> SUFFICES ASSUME Init PROVE StoreInv
    OBVIOUS
  <2>1. WriterTypeOK
    <3>1. <<>> \in Seq(Seq(Operation)) /\ 0 \in 0 .. MaxWriteAttempts
      BY WriterAssumption
    <3>2. QED
      BY <3>1, NothingIsASet DEF Init, WriterInit, WriterTypeOK
  <2>2. QED
    BY <2>1, NoCallIsACall
      DEF Init, WriterInit, StoreInv, TypeOK, LapsedAreGone, ThreadsInv
<1>2. IInv /\ IInv' /\ StoreInv /\ [Next]_vars => StoreInv'
  <2> SUFFICES ASSUME IInv, IInv', StoreInv, [Next]_vars PROVE StoreInv'
    OBVIOUS
  <2>1. CASE Write
    BY <2>1, WriteKeeps
  <2>2. ASSUME NEW t \in Thread, NEW list \in Requests, FindNeighborsByItemIds(t, list)
        PROVE  StoreInv'
    BY <2>2, FindKeeps, StoreAssumption
  <2>3. ASSUME NEW t \in Thread, NEW id \in SingleIds, FindNeighborsByUserId(t, id)
        PROVE  StoreInv'
    <3>1. <<id>> \in Seq(Key \cup {NoId})
      BY StoreAssumption
    <3>2. QED
      BY <2>3, <3>1, FindKeeps DEF FindNeighborsByUserId
  <2>4. ASSUME NEW t \in Thread, Connect(t) PROVE StoreInv'
    <3>1. PICK c \in Call : c = call[t] /\ CallInv(c)
      BY <2>4 DEF Connect, StoreInv, TypeOK, ThreadsInv
    <3>2. /\ pc' = [pc EXCEPT ![t] = "exec"] /\ call' = [call EXCEPT ![t] = c]
          /\ returned' = {} /\ UNCHANGED <<database, writer>>
      BY <2>4, <3>1 DEF Connect, StoreInv, TypeOK
    <3>3. QED
      BY <3>1, <3>2, ThreadStepKeeps
  <2>5. ASSUME NEW t \in Thread, ExecuteRead(t) PROVE StoreInv'
    BY <2>5, ReadKeeps
  <2>6. ASSUME NEW t \in Thread, Receive(t) PROVE StoreInv'
    BY <2>6, ReceiveKeeps
  <2>7. ASSUME NEW t \in Thread,
               PoolTimeout(t) \/ \E error \in Retryable \cup Final : AttemptFails(t, error)
        PROVE  StoreInv'
    BY <2>7, FailureKeeps
  <2>8. CASE UNCHANGED vars
    <3>1. UNCHANGED <<database, writer>> /\ pc' = pc /\ call' = call /\ returned' = returned
      BY <2>8 DEF vars, reader
    <3>2. TypeOK' /\ LapsedAreGone'
      BY <3>1 DEF StoreInv, TypeOK, LapsedAreGone, WriterTypeOK, database, writer
    <3>3. ASSUME NEW t \in Thread, pc[t] # "idle" PROVE CallInv(call[t])'
      <4>1. PICK c : c = call[t] /\ CallInv(c)
        BY <3>3 DEF StoreInv, ThreadsInv
      <4>2. QED
        BY <3>1, <4>1, CallKeeps
    <3>4. \A r \in returned' : Justified(r)'
      BY <3>1, CallKeeps DEF StoreInv
    <3>5. QED
      BY <3>1, <3>2, <3>3, <3>4 DEF StoreInv, ThreadsInv
  <2>9. QED
    BY <2>1, <2>2, <2>3, <2>4, <2>5, <2>6, <2>7, <2>8 DEF Next, Lookup
<1>3. Spec => []IInv
  BY ReadersOnlyRead, WriterInvariant
<1>4. QED
  BY <1>1, <1>2, <1>3, PTL DEF Spec

(***************************************************************************)
(* Whatever jobs do between the commands of a lookup, each id gets the     *)
(* whole neighbours of its own key, in no older version than was complete. *)
(***************************************************************************)
THEOREM LookupsAreWhole == Spec => []AnswersAreWhole
<1>1. StoreInv => AnswersAreWhole
  BY DEF StoreInv, Justified, AnswersAreWhole
<1>2. QED
  BY <1>1, StoreInvariant, PTL

(***************************************************************************)
(* A lookup that reports a failure of the connection has used all of its   *)
(* attempts.                                                               *)
(***************************************************************************)
THEOREM LookupsUseTheirRetries == Spec => []RetriesAreUsed
<1>1. StoreInv => RetriesAreUsed
  BY DEF StoreInv, Justified, RetriesAreUsed
<1>2. QED
  BY <1>1, StoreInvariant, PTL

(***************************************************************************)
(* With readers at work, too, no key ever has a mixture of two versions.   *)
(***************************************************************************)
THEOREM NoMixtureWithReaders == Spec => []NoMixedNeighbors
BY ReadersOnlyRead, NoReaderSeesAMixture

(***************************************************************************)
(* With readers at work, too, a finished job leaves its data.              *)
(***************************************************************************)
THEOREM FinishedMeansWrittenWithReaders == Spec => []FinishedJobLeavesItsData
BY ReadersOnlyRead, FinishedMeansWritten

-----------------------------------------------------------------------------
(***************************************************************************)
(* Why jobs end: what is ahead of one, in three numbers of which an        *)
(* earlier one outweighs the later ones.  The records that are not written;*)
(* how often their batch may be sent again; and the commands that the      *)
(* server has not executed.                                                *)
(***************************************************************************)
NotExecuted == {o \in (DOMAIN pipeline) \X Nat : o[2] \in 1 .. Len(pipeline[o[1]])}

AheadOfJob ==
  <<Len(Data[version].keys) - written, MaxWriteAttempts - attempt, Cardinality(NotExecuted)>>

LEMMA NotExecutedIsFinite ==
  ASSUME WriterTypeOK
  PROVE  IsFiniteSet(NotExecuted) /\ Cardinality(NotExecuted) \in Nat
<1> DEFINE length == [i \in DOMAIN pipeline |-> Len(pipeline[i])]
<1>1. /\ DOMAIN pipeline = 1 .. Len(pipeline) /\ Len(pipeline) \in Nat
      /\ \A i \in DOMAIN pipeline : pipeline[i] \in Seq(Operation)
  BY DEF WriterTypeOK
<1>2. length \in [DOMAIN pipeline -> Nat]
  BY <1>1
<1>3. IsFiniteSet(DOMAIN pipeline)
  BY <1>1, FS_Interval
<1>4. NotExecuted = {o \in (DOMAIN pipeline) \X Nat : o[2] \in 1 .. length[o[1]]}
  BY DEF NotExecuted
<1> HIDE DEF length
<1>5. IsFiniteSet(NotExecuted)
  BY <1>2, <1>3, <1>4, FinitelyManyPlaces
<1>6. QED
  BY <1>5, FS_CardinalityType

\* The server executes one command.
LEMMA ExecuteDescends ==
  ASSUME WriterTypeOK, Execute
  PROVE  Cardinality(NotExecuted)' < Cardinality(NotExecuted)
<1>1. PICK i \in DOMAIN pipeline :
        pipeline[i] # <<>> /\ pipeline' = [pipeline EXCEPT ![i] = Tail(@)]
  BY DEF Execute, IsNext
<1>2. PICK n \in Nat \ {0} : n = Len(pipeline[i]) /\ Len(pipeline'[i]) = n - 1
  <2>1. PICK rest \in Seq(Operation) : rest = pipeline[i]
    BY DEF WriterTypeOK
  <2>2. Len(rest) \in Nat \ {0} /\ Len(Tail(rest)) = Len(rest) - 1
    BY <1>1, <2>1
  <2>3. pipeline'[i] = Tail(rest)
    BY <1>1, <2>1 DEF WriterTypeOK
  <2>4. QED
    BY <2>1, <2>2, <2>3
<1>3. DOMAIN pipeline' = DOMAIN pipeline /\ \A j \in DOMAIN pipeline : j # i => pipeline'[j] = pipeline[j]
  BY <1>1 DEF WriterTypeOK
<1>4. <<i, n>> \in NotExecuted
  BY <1>2 DEF NotExecuted
<1>5. NotExecuted' = NotExecuted \ {<<i, n>>}
  <2>1. ASSUME NEW o \in (DOMAIN pipeline) \X Nat
        PROVE  o \in NotExecuted' <=> o \in NotExecuted /\ o # <<i, n>>
    <3>1. CASE o[1] = i
      <4>1. o # <<i, n>> <=> o[2] # n
        BY <3>1
      <4>2. o[2] \in 1 .. (n - 1) <=> o[2] \in 1 .. n /\ o[2] # n
        BY <1>2
      <4>3. QED
        BY <1>2, <1>3, <3>1, <4>1, <4>2 DEF NotExecuted
    <3>2. CASE o[1] # i
      BY <1>3, <3>2 DEF NotExecuted
    <3>3. QED
      BY <3>1, <3>2
  <2>2. NotExecuted \subseteq (DOMAIN pipeline) \X Nat
    BY DEF NotExecuted
  <2>3. NotExecuted' \subseteq (DOMAIN pipeline) \X Nat
    BY <1>3 DEF NotExecuted
  <2>4. QED
    BY <2>1, <2>2, <2>3
<1>6. Cardinality(NotExecuted \ {<<i, n>>}) = Cardinality(NotExecuted) - 1
  BY <1>4, NotExecutedIsFinite, FS_RemoveElement
<1>7. QED
  BY <1>5, <1>6, NotExecutedIsFinite

\* Every step of a job but its last brings down what is ahead of it, and a time
\* to live that is over adds nothing.
JobRunsDown ==
  [][job = "writing" /\ job' = "writing" =>
       writer' = writer \/ <<AheadOfJob', AheadOfJob>> \in Below(3)]_<<database, writer>>

(***************************************************************************)
(* No job goes on for ever, however often its batches are sent again: each *)
(* batch writes at least one record, is sent at most as often as the       *)
(* library may send it, and has so many commands.                          *)
(***************************************************************************)
THEOREM EveryJobRunsDown ==
  /\ IsWellFoundedOn(Below(3), [1 .. 3 -> Nat])
  /\ WriterSpec => JobRunsDown
<1>1. IInv /\ IInv' /\ [WriterNext]_<<database, writer>> =>
        [job = "writing" /\ job' = "writing" =>
           writer' = writer \/ <<AheadOfJob', AheadOfJob>> \in Below(3)]_<<database, writer>>
  <2> SUFFICES ASSUME IInv, IInv', WriterNext, job = "writing", job' = "writing",
                      writer' # writer
               PROVE  <<AheadOfJob', AheadOfJob>> \in Below(3)
    OBVIOUS
  <2>1. WriterTypeOK /\ WriterTypeOK'
    BY DEF IInv, NoMixedNeighbors
  <2>2. PICK now, later : now = AheadOfJob /\ later = AheadOfJob'
    OBVIOUS
  <2>3. /\ now[1] = Len(Data[version].keys) - written
        /\ now[2] = MaxWriteAttempts - attempt /\ now[3] = Cardinality(NotExecuted)
        /\ later[1] = Len(Data[version'].keys) - written'
        /\ later[2] = MaxWriteAttempts - attempt' /\ later[3] = Cardinality(NotExecuted)'
    BY <2>2 DEF AheadOfJob
  <2>4. /\ version \in Version /\ written \in 0 .. Len(Data[version].keys)
        /\ version' \in Version /\ written' \in 0 .. Len(Data[version'].keys)
    BY DEF IInv, JobInv
  <2>5. Len(Data[version].keys) \in Nat /\ Len(Data[version'].keys) \in Nat
    BY <2>4, DataFacts
  <2>6. Cardinality(NotExecuted) \in Nat
    BY <2>1, NotExecutedIsFinite
  <2>7. Cardinality(NotExecuted)' \in Nat
    <3>1. (WriterTypeOK => Cardinality(NotExecuted) \in Nat)'
      BY NotExecutedIsFinite, PTL
    <3>2. QED
      BY <2>1, <3>1
  <2>8. /\ attempt \in 0 .. MaxWriteAttempts /\ attempt' \in 0 .. MaxWriteAttempts
        /\ MaxWriteAttempts \in Nat
    BY <2>1, WriterAssumption DEF WriterTypeOK
  <2>9. now \in [1 .. 3 -> Nat] /\ later \in [1 .. 3 -> Nat]
    <3>1. /\ Len(Data[version].keys) - written \in Nat
          /\ Len(Data[version'].keys) - written' \in Nat
      BY <2>4, <2>5
    <3>2. \A a \in 0 .. MaxWriteAttempts : MaxWriteAttempts - a \in Nat
      BY <2>8
    <3>3. QED
      BY <2>2, <2>6, <2>7, <2>8, <3>1, <3>2, ThreeNumbers, Zenon DEF AheadOfJob
  <2>10. \/ later[1] < now[1]
         \/ later[1] = now[1] /\ later[2] < now[2]
         \/ later[1] = now[1] /\ later[2] = now[2] /\ later[3] < now[3]
    <3>1. CASE Execute
      <4>1. version' = version /\ written' = written /\ attempt' = attempt
        BY <3>1 DEF Execute
      <4>2. QED
        BY <2>1, <2>3, <3>1, <4>1, ExecuteDescends
    <3>2. CASE NextBatch
      <4>1. /\ version' = version /\ written' = BatchEnd(version, written)
            /\ written' < Len(Data[version].keys)
        BY <3>2 DEF NextBatch
      <4>2. written' > written
        <5>1. BatchSize \in Nat \ {0}
          BY WriterAssumption
        <5>2. QED
          BY <2>4, <2>5, <4>1, <5>1 DEF BatchEnd
      <4>3. QED
        BY <2>3, <2>4, <2>5, <4>1, <4>2
    <3>3. CASE Resend
      <4>1. version' = version /\ written' = written /\ attempt' = attempt + 1
        BY <3>3 DEF Resend
      <4>2. QED
        BY <2>3, <2>8, <4>1
    <3>4. QED
      BY <3>1, <3>2, <3>3 DEF WriterNext, JobStep, StartJob, JobFails, KeyExpires
  <2>11. <<later, now>> \in Below(3)
    BY <2>9, <2>10, ThreeNumbersDescend
  <2>12. QED
    BY <2>2, <2>11
<1>2. WriterSpec => JobRunsDown
  BY <1>1, WriterInvariant, PTL DEF WriterSpec, JobRunsDown
<1>3. IsWellFoundedOn(Below(3), [1 .. 3 -> Nat])
  BY NothingDescendsForever
<1>4. QED
  BY <1>2, <1>3
-----------------------------------------------------------------------------
(***************************************************************************)
(* Why lookups end: the attempts that are left, then the connection that   *)
(* this attempt has not got yet, then the ids whose reply it has not got.  *)
(***************************************************************************)
Unanswered(c) == {i \in valid_item_indexes(c.ids) : ReplyIndex(c.ids, i) > Len(c.replies)}

AheadOfLookup(t) ==
  <<MaxAttempts - call[t].attempt, IF pc[t] = "connect" THEN 1 ELSE 0,
    Cardinality(Unanswered(call[t]))>>

LEMMA UnansweredIsFinite ==
  ASSUME NEW c \in Call
  PROVE  IsFiniteSet(Unanswered(c)) /\ Cardinality(Unanswered(c)) \in Nat
<1>1. c.ids \in Seq(Key \cup {NoId})
  BY DEF Call
<1>2. PICK n \in Nat : n = Len(c.ids) /\ DOMAIN c.ids = 1 .. n
  BY <1>1
<1>3. Unanswered(c) \subseteq 1 .. n
  BY <1>2 DEF Unanswered, valid_item_indexes
<1>4. n \in Int /\ 1 \in Int
  BY <1>2
<1>5. IsFiniteSet(1 .. n)
  BY <1>4, FS_Interval
<1>6. IsFiniteSet(Unanswered(c))
  BY <1>3, <1>5, FS_Subset
<1>7. QED
  BY <1>6, FS_CardinalityType

\* The reply of one command is the answer for one id.
LEMMA ReplyAnswersOne ==
  ASSUME NEW c \in Call, NEW d \in Call, NEW i \in valid_item_indexes(c.ids),
         ReplyIndex(c.ids, i) = Len(c.replies) + 1,
         d.ids = c.ids, Len(d.replies) = Len(c.replies) + 1
  PROVE  Cardinality(Unanswered(d)) < Cardinality(Unanswered(c))
<1>1. PICK n : n = Len(c.replies) /\ n \in Nat
  <2>1. c.replies \in Seq(Reply)
    BY DEF Call
  <2>2. QED
    BY <2>1
<1>2. c.ids \in Seq(Key \cup {NoId})
  BY DEF Call
<1>3. PICK V : V = valid_item_indexes(c.ids)
  OBVIOUS
<1>4. /\ \A j \in V : ReplyIndex(c.ids, j) \in Int
      /\ \A j \in V : ReplyIndex(c.ids, j) = ReplyIndex(c.ids, i) => j = i
  <2>1. PICK m \in Nat : m = Cardinality(valid_item_indexes(c.ids))
    BY <1>2, IndexFacts
  <2>2. \A j \in V : ReplyIndex(c.ids, j) \in 1 .. m
    BY <1>2, <1>3, <2>1, IndexFacts
  <2>3. QED
    BY <1>2, <1>3, <2>2, IndexFacts
<1>5. /\ Unanswered(c) = {j \in V : ReplyIndex(c.ids, j) > n}
      /\ Unanswered(d) = {j \in V : ReplyIndex(c.ids, j) > n + 1}
  BY <1>1, <1>3 DEF Unanswered
<1>6. i \in Unanswered(c)
  BY <1>1, <1>3, <1>5
<1>7. Unanswered(d) = Unanswered(c) \ {i}
  BY <1>1, <1>3, <1>4, <1>5
<1>8. IsFiniteSet(Unanswered(c)) /\ Cardinality(Unanswered(c)) \in Nat
  BY UnansweredIsFinite
<1>9. Cardinality(Unanswered(c) \ {i}) = Cardinality(Unanswered(c)) - 1
  BY <1>6, <1>8, FS_RemoveElement
<1>10. QED
  BY <1>7, <1>8, <1>9

\* A step of t that is not its last brings down one of the numbers.
LEMMA LookupDescends ==
  ASSUME TypeOK, TypeOK', NEW t \in Thread, Lookup(t), pc'[t] # "idle"
  PROVE  <<AheadOfLookup(t)', AheadOfLookup(t)>> \in Below(3)
<1>1. PICK c, d \in Call : c = call[t] /\ d = call'[t]
  BY DEF TypeOK
<1>2. /\ c.attempt \in 0 .. MaxAttempts /\ d.attempt \in 0 .. MaxAttempts
      /\ MaxAttempts \in Nat
  BY StoreAssumption DEF Call
<1>3. /\ Cardinality(Unanswered(c)) \in Nat /\ Cardinality(Unanswered(d)) \in Nat
      /\ MaxAttempts - c.attempt \in Nat /\ MaxAttempts - d.attempt \in Nat
  BY <1>2, UnansweredIsFinite
<1>4. PICK now, later :
        /\ now = <<MaxAttempts - c.attempt, IF pc[t] = "connect" THEN 1 ELSE 0,
                  Cardinality(Unanswered(c))>>
        /\ later = <<MaxAttempts - d.attempt, IF pc'[t] = "connect" THEN 1 ELSE 0,
                    Cardinality(Unanswered(d))>>
  OBVIOUS
<1>5. now \in [1 .. 3 -> Nat] /\ later \in [1 .. 3 -> Nat]
  <2>1. (IF pc[t] = "connect" THEN 1 ELSE 0) \in Nat /\ (IF pc'[t] = "connect" THEN 1 ELSE 0) \in Nat
    OBVIOUS
  <2>2. QED
    BY <1>3, <1>4, <2>1, ThreeNumbers, Zenon
<1>6. \/ later[1] < now[1]
      \/ later[1] = now[1] /\ later[2] < now[2]
      \/ later[1] = now[1] /\ later[2] = now[2] /\ later[3] < now[3]
  <2>1. CASE Connect(t)
    <3>1. d = c /\ pc[t] = "connect" /\ pc'[t] = "exec"
      BY <1>1, <2>1 DEF Connect, TypeOK
    <3>2. QED
      BY <1>3, <1>4, <3>1
  <2>2. CASE ExecuteRead(t)
    <3>1. PICK i \in valid_item_indexes(c.ids) :
            /\ ReplyIndex(c.ids, i) = Len(c.replies) + 1
            /\ d = [c EXCEPT !.replies = Append(@, ZRevRange(zset[c.ids[i]]))]
            /\ pc' = pc
      BY <1>1, <2>2 DEF ExecuteRead, TypeOK
    <3>2. d.ids = c.ids /\ d.attempt = c.attempt /\ Len(d.replies) = Len(c.replies) + 1
      BY <3>1 DEF Call
    <3>3. Cardinality(Unanswered(d)) < Cardinality(Unanswered(c))
      BY <3>1, <3>2, ReplyAnswersOne
    <3>4. QED
      BY <1>4, <3>1, <3>2, <3>3
  <2>3. ASSUME NEW error \in Retryable \cup Final, AttemptFails(t, error)
        PROVE  later[1] < now[1]
    <3>1. d = [c EXCEPT !.replies = <<>>, !.attempt = @ + 1]
      BY <1>1, <2>3 DEF AttemptFails, Return, TypeOK
    <3>2. d.attempt = c.attempt + 1
      BY <3>1 DEF Call
    <3>3. QED
      BY <1>2, <1>4, <3>2
  <2>4. QED
    BY <2>1, <2>2, <2>3 DEF Lookup, PoolTimeout, Receive, Return, TypeOK
<1>7. <<later, now>> \in Below(3)
  BY <1>5, <1>6, ThreeNumbersDescend
<1>8. QED
  BY <1>1, <1>4, <1>7 DEF AheadOfLookup

\* The others, the jobs among them, leave what is ahead of t alone.
LEMMA OthersLeaveLookup ==
  ASSUME TypeOK, NEW t \in Thread, pc[t] # "idle",
         \/ Write
         \/ \E u \in Thread \ {t} :
              \/ \E list \in Requests : FindNeighborsByItemIds(u, list)
              \/ \E id \in SingleIds : FindNeighborsByUserId(u, id)
              \/ Lookup(u)
  PROVE  AheadOfLookup(t)' = AheadOfLookup(t)
<1>1. SUFFICES /\ pc'[t] = pc[t] /\ call'[t].attempt = call[t].attempt
               /\ call'[t].ids = call[t].ids /\ call'[t].replies = call[t].replies
  BY DEF AheadOfLookup, Unanswered
<1>2. CASE Write
  BY <1>2 DEF Write, TypeOK, Call
<1>3. ASSUME NEW u \in Thread \ {t},
             \/ \E list \in Requests : FindNeighborsByItemIds(u, list)
             \/ \E id \in SingleIds : FindNeighborsByUserId(u, id)
             \/ Lookup(u)
      PROVE  pc'[t] = pc[t] /\ call'[t] = call[t]
  BY <1>3 DEF TypeOK, FindNeighborsByItemIds, FindNeighborsByUserId, Lookup, Connect,
              PoolTimeout, ExecuteRead, Receive, AttemptFails, Return
<1>4. QED
  BY <1>2, <1>3

\* Every step of a lookup but its last brings down what is ahead of it, and what
\* the others do adds nothing.
LookupRunsDown ==
  [][\A t \in Thread : pc[t] # "idle" /\ pc'[t] # "idle" =>
       IF Lookup(t)
       THEN <<AheadOfLookup(t)', AheadOfLookup(t)>> \in Below(3)
       ELSE AheadOfLookup(t)' = AheadOfLookup(t)]_vars

(***************************************************************************)
(* No lookup goes on for ever, however often its connection is lost and    *)
(* whatever the jobs and the other threads do: it makes at most            *)
(* max_attempts attempts, of at most one command for each id.              *)
(***************************************************************************)
THEOREM EveryLookupRunsDown ==
  /\ IsWellFoundedOn(Below(3), [1 .. 3 -> Nat])
  /\ Spec => LookupRunsDown
<1>1. TypeOK /\ TypeOK' /\ [Next]_vars =>
        [\A t \in Thread : pc[t] # "idle" /\ pc'[t] # "idle" =>
           IF Lookup(t)
           THEN <<AheadOfLookup(t)', AheadOfLookup(t)>> \in Below(3)
           ELSE AheadOfLookup(t)' = AheadOfLookup(t)]_vars
  <2> SUFFICES ASSUME TypeOK, TypeOK', Next, NEW t \in Thread, pc[t] # "idle", pc'[t] # "idle"
               PROVE  IF Lookup(t)
                      THEN <<AheadOfLookup(t)', AheadOfLookup(t)>> \in Below(3)
                      ELSE AheadOfLookup(t)' = AheadOfLookup(t)
    OBVIOUS
  <2>1. CASE Lookup(t)
    BY <2>1, LookupDescends
  <2>2. CASE ~Lookup(t)
    <3>1. \/ Write
          \/ \E u \in Thread \ {t} :
               \/ \E list \in Requests : FindNeighborsByItemIds(u, list)
               \/ \E id \in SingleIds : FindNeighborsByUserId(u, id)
               \/ Lookup(u)
      BY <2>2 DEF Next, FindNeighborsByItemIds, FindNeighborsByUserId
    <3>2. QED
      BY <2>2, <3>1, OthersLeaveLookup
  <2>3. QED
    BY <2>1, <2>2
<1>2. StoreInv => TypeOK
  BY DEF StoreInv
<1>3. IsWellFoundedOn(Below(3), [1 .. 3 -> Nat])
  BY NothingDescendsForever
<1>4. Spec => LookupRunsDown
  BY <1>1, <1>2, StoreInvariant, PTL DEF Spec, LookupRunsDown
<1>5. QED
  BY <1>3, <1>4
=============================================================================
