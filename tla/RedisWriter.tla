----------------------------- MODULE RedisWriter -----------------------------
(***************************************************************************)
(* tools/offline_data_processing/src/writers/redis_writer.py with the Redis*)
(* server: offline jobs that write the neighbours of every item (or user)  *)
(* as a sorted set of its own.  RedisWriter sends its records in batches,  *)
(* each one pipeline without a transaction: the server executes one        *)
(* command after the other and anybody may read in between.  A pipeline    *)
(* may break off after any command; the client library sends it again, as  *)
(* a whole, a few times, and then the job fails.  A job may be killed at   *)
(* any time, and it may be run again, with the same or with newer data.    *)
(*                                                                         *)
(* Two things are assumed of the environment: one job runs at a time, and  *)
(* a connection that broke off executes nothing after its successor has    *)
(* been opened.                                                            *)
(***************************************************************************)
EXTENDS Integers, Sequences, FiniteSets, SequencesExt

CONSTANTS
  Key,              \* the keys of the entities
  Neighbor,         \* members of the sorted sets
  Score,            \* their scores
  Data,             \* Data[v]: the records that the builder wrote, version v
  ReplaceExisting,  \* the options replace_existing,
  Expire,           \* expire_seconds > 0,
  BatchSize,        \* and batch_size
  MaxWriteAttempts  \* how often the library sends a pipeline

Version == DOMAIN Data
Values(v, k) == Data[v].values[k]
Keys(v) == ToSet(Data[v].keys)

SortedSet == UNION {[N -> Score] : N \in SUBSET Neighbor}

Nothing == [n \in {} |-> 0]

ASSUME WriterAssumption ==
  /\ Data \in Seq([keys : Seq(Key), values : [Key -> SortedSet]])
  /\ \A v \in Version : IsInjective(Data[v].keys)
  /\ {ReplaceExisting, Expire} \subseteq BOOLEAN
  /\ {BatchSize, MaxWriteAttempts} \subseteq Nat \ {0}

VARIABLES
  zset,       \* the database: a sorted set per key, Nothing if it is absent
  volatile,   \* does the key have a time to live
  job,        \* none, writing, failed, finished
  version,    \* the data the job writes or has written
  written,    \* records in the batches that have been executed
  pipeline,   \* for each record of the current batch, the commands that the
              \* server has not executed
  attempt,    \* how often the current batch has been sent
  lapsed      \* keys that expired and have not been written since (history)

database == <<zset, volatile, lapsed>>
writer == <<job, version, written, pipeline, attempt>>

Operation == {"delete", "zadd", "expire"}

WriterTypeOK ==
  /\ zset \in [Key -> SortedSet]
  /\ volatile \in [Key -> BOOLEAN]
  /\ job \in {"none", "writing", "failed", "finished"}
  /\ version \in Version \cup {0}
  /\ written \in Nat
  /\ pipeline \in Seq(Seq(Operation))
  /\ attempt \in 0..MaxWriteAttempts
  /\ lapsed \subseteq Key

WriterInit ==
  /\ zset = [k \in Key |-> Nothing]
  /\ volatile = [k \in Key |-> FALSE]
  /\ job = "none"
  /\ version = 0
  /\ written = 0
  /\ pipeline = <<>>
  /\ attempt = 0
  /\ lapsed = {}

-----------------------------------------------------------------------------
Command(op, condition) == IF condition THEN <<op>> ELSE <<>>

\* Mutant of Commands: the time to live is set before the key exists.
CommandsExpireFirst(v, k) ==
  Command("delete", ReplaceExisting)
    \o Command("expire", Expire)
    \o Command("zadd", Values(v, k) # Nothing)

\* Mutant of Commands: what expires anyway need not be deleted.
CommandsTrustingExpiry(v, k) ==
  Command("delete", ReplaceExisting /\ ~Expire)
    \o Command("zadd", Values(v, k) # Nothing)
    \o Command("expire", Expire)

\* What _write_batch puts into the pipeline for the record of k.
Commands(v, k) ==
  Command("delete", ReplaceExisting)
    \o Command("zadd", Values(v, k) # Nothing)
    \o Command("expire", Expire)

\* The number of records that are written when the batch after the first n is.
BatchEnd(v, n) ==
  IF n + BatchSize <= Len(Data[v].keys) THEN n + BatchSize ELSE Len(Data[v].keys)

\* The batch of v that follows its first n records.
Batch(v, n) ==
  [i \in 1..(BatchEnd(v, n) - n) |-> Commands(v, Data[v].keys[n + i])]

Send(v, n) ==
  /\ pipeline' = Batch(v, n)
  /\ attempt' = 1

\* A job starts with version v of the data, the last one or a newer one.
StartJob(v) ==
  /\ job # "writing"
  /\ v >= version
  /\ job' = "writing"
  /\ version' = v
  /\ written' = 0
  /\ Send(v, 0)
  /\ UNCHANGED database

\* The members of s with their scores, and those of t that s does not have.
Over(s, t) ==
  [n \in DOMAIN s \cup DOMAIN t |-> IF n \in DOMAIN s THEN s[n] ELSE t[n]]

Delete(k) ==
  /\ zset' = [zset EXCEPT ![k] = Nothing]
  /\ volatile' = [volatile EXCEPT ![k] = FALSE]
  /\ UNCHANGED lapsed

ZAdd(k) ==
  /\ zset' = [zset EXCEPT ![k] = Over(Values(version, k), @)]
  /\ lapsed' = lapsed \ {k}
  /\ UNCHANGED volatile

ExpireKey(k) ==
  /\ volatile' = [volatile EXCEPT ![k] = zset[k] # Nothing]
  /\ UNCHANGED <<zset, lapsed>>

\* The key of record i of the current batch.
KeyOf(i) == Data[version].keys[written + i]

\* Record i is the first one with a command that has not been executed.
IsNext(i) == pipeline[i] # <<>> /\ \A j \in 1..(i - 1) : pipeline[j] = <<>>

\* The server executes the next command of the pipeline.
Execute ==
  /\ job = "writing"
  /\ \E i \in DOMAIN pipeline :
       /\ IsNext(i)
       /\ pipeline' = [pipeline EXCEPT ![i] = Tail(@)]
       /\ \/ Head(pipeline[i]) = "delete" /\ Delete(KeyOf(i))
          \/ Head(pipeline[i]) = "zadd" /\ ZAdd(KeyOf(i))
          \/ Head(pipeline[i]) = "expire" /\ ExpireKey(KeyOf(i))
  /\ UNCHANGED <<job, version, written, attempt>>

\* The replies of a batch have been read: the next batch, or the job is done.
NextBatch ==
  /\ job = "writing"
  /\ \A i \in DOMAIN pipeline : pipeline[i] = <<>>
  /\ written' = BatchEnd(version, written)
  /\ IF written' < Len(Data[version].keys)
     THEN Send(version, written') /\ UNCHANGED job
     ELSE job' = "finished" /\ UNCHANGED <<pipeline, attempt>>
  /\ UNCHANGED <<database, version>>

(***************************************************************************)
(* The connection breaks, or its timeout expires, after any number of      *)
(* commands, even all of them: the library sends the whole batch again.    *)
(***************************************************************************)
Resend ==
  /\ job = "writing"
  /\ attempt < MaxWriteAttempts
  /\ attempt' = attempt + 1
  /\ pipeline' = Batch(version, written)
  /\ UNCHANGED <<database, job, version, written>>

\* The attempts are used up, or the job is killed.
JobFails ==
  /\ job = "writing"
  /\ job' = "failed"
  /\ pipeline' = <<>>
  /\ UNCHANGED <<database, version, written, attempt>>

\* A time to live is over.
KeyExpires(k) ==
  /\ volatile[k]
  /\ zset' = [zset EXCEPT ![k] = Nothing]
  /\ volatile' = [volatile EXCEPT ![k] = FALSE]
  /\ lapsed' = lapsed \cup {k}
  /\ UNCHANGED writer

JobStep == Execute \/ NextBatch

WriterNext ==
  \/ \E v \in Version : StartJob(v)
  \/ JobStep
  \/ Resend
  \/ JobFails
  \/ \E k \in Key : KeyExpires(k)

WriterSpec == WriterInit /\ [][WriterNext]_<<database, writer>>

-----------------------------------------------------------------------------
Includes(s, t) == \A n \in DOMAIN t : n \in DOMAIN s /\ s[n] = t[n]

(***************************************************************************)
(* When a job has finished, every key of its data has its values and, with *)
(* replace_existing, no other ones, however often a batch was sent and     *)
(* whatever earlier jobs left behind where they stopped.  With an expiry   *)
(* configured, none of them is left without a time to live.  The keys      *)
(* whose time to live was over meanwhile are excepted.                     *)
(***************************************************************************)
FinishedJobLeavesItsData ==
  job = "finished" =>
    \A k \in Keys(version) \ lapsed :
      /\ Includes(zset[k], Values(version, k))
      /\ ReplaceExisting => zset[k] = Values(version, k)
      /\ Expire => volatile[k] \/ zset[k] = Nothing

(***************************************************************************)
(* With replace_existing no reader ever sees neighbours of two versions    *)
(* under one key, nor a part of one version: a key is absent or has all    *)
(* the values of one version of the data.                                  *)
(***************************************************************************)
NoMixedNeighbors ==
  /\ WriterTypeOK
  /\ ReplaceExisting =>
       \A k \in Key :
         zset[k] # Nothing =>
           \E v \in 1..version : k \in Keys(v) /\ zset[k] = Values(v, k)
=============================================================================
