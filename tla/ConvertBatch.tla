---------------------------- MODULE ConvertBatch ----------------------------
(***************************************************************************)
(* convertBatchAccounts: the addresses of a batch are replaced by the      *)
(* short byteIds of the table contract_cache.  The parent slices the batch *)
(* over worker processes (convertChild.js), which get their slice and the  *)
(* address cache through redis or through files, and puts the results      *)
(* together again.  Workers outlive a parent that exits, the address cache *)
(* in redis outlives even the database, and every redis access swallows    *)
(* its error: the answer is then undefined, as if the key were not there.  *)
(*                                                                         *)
(* A transaction is its one topic here: conversion treats each topic of    *)
(* each transaction by itself.                                             *)
(***************************************************************************)
EXTENDS Integers, Sequences, FiniteSets

CONSTANTS
  Accounts,     \* addresses
  None,         \* undefined or null: what redis answers for a key it does not have
  CacheMax,     \* contractCacheMax, the most entries of the table that are used
  Batches,      \* batches the caller may have
  ThreadCounts, \* MULTI_THREADS; 0 stands for USE_MULTI_THREADS=false
  MaxJobs,      \* bound on batches
  MaxFaults     \* bound on worker deaths, query errors and kills

ASSUME ConstantsAssumption ==
  /\ IsFiniteSet(Accounts) /\ Accounts \cap Int = {} /\ None \notin Seq(Accounts \cup Nat)
  /\ CacheMax \in Nat /\ Batches \subseteq Seq(Accounts) /\ ThreadCounts \subseteq Nat
  /\ MaxJobs \in Nat /\ MaxFaults \in Nat

Jobs    == 1..MaxJobs
Offsets == UNION {0 .. Len(q) - 1 : q \in Batches}
Workers == Jobs \X Offsets    \* ripper:child:jobId_i, or jobId_i.json
Topic   == Accounts \cup Nat  \* an address, or a byteId
Table   == {t \in UNION {[1..n -> Accounts] : n \in 0..Cardinality(Accounts)} :
              \A i, j \in DOMAIN t : t[i] = t[j] => i = j}

VARIABLES
  config,   \* .env: [threads, redisData]; and of the environment: [steady: redis
            \* answers, and keeps what it is given, and workers can write their files;
            \* flushes: a nuke of the database comes with a flush of redis]
  table,    \* contract_cache: the account of byteId i is table[i]
  cached,   \* redis ripper:contractCache
  store,    \* slices in redis or in files: [key -> data]
  archive,  \* what was imported: the account meant, and the topic stored for it
  pc, job, queue, addressCache, out,
  at,       \* offset of the result the parent reads next
  wpc, wcache,                 \* the workers
  used

parent  == <<pc, job, queue, addressCache, out, at>>
workers == <<wpc, wcache>>
vars == <<config, table, cached, store, archive, parent, workers, used>>

Keys == Workers \X {"in", "out"}

\* Without workers redisData means nothing; a redis that is neither steady nor
\* flushed keeps none of the promises below that another would break.
Configs == {c \in [threads : ThreadCounts, redisData : BOOLEAN,
                   steady : BOOLEAN, flushes : BOOLEAN] :
              /\ c.threads = 0 => ~c.redisData
              /\ c.steady \/ c.flushes}

Init ==
  /\ config \in Configs
  /\ table = <<>> /\ cached = None /\ archive = {}
  /\ store = [k \in Keys |-> None]
  /\ pc = "down" /\ job = 0 /\ queue = <<>> /\ addressCache = None /\ out = <<>> /\ at = 0
  /\ wpc = [w \in Workers |-> "off"]
  /\ wcache = [w \in Workers |-> None]
  /\ used = 0

Fault == used < MaxFaults /\ used' = used + 1

\* redis.get
Got(v) == IF config.steady THEN {v} ELSE {v, None}

\* Whether fs.writeFileSync writes the result of a worker; redis.set never throws.
Written == IF config.steady \/ config.redisData THEN {TRUE} ELSE BOOLEAN

Running(w) == wpc[w] \in {"boot", "look", "sleeping", "reinsert", "load"}

-----------------------------------------------------------------------------
(* Operators.  A definition whose comment begins with "Faulty" belongs to   *)
(* no behaviour: it is the definition below it with a plausible bug, which  *)
(* a property must notice.                                                  *)

\* Faulty: no worker more, even when the batch is not a multiple of the threads.
DivisorRoundedDown(n, threads) ==
  IF threads = 1 THEN n + 1 ELSE IF n < threads THEN 1 ELSE n \div (threads - 1)

\* How many transactions a worker gets: one thread is the parent's.  A division
\* by no threads is Infinity in the code, one slice with all of the batch.
Divisor(n, threads) == IF threads = 1 THEN n + 1 ELSE n \div (threads - 1) + 1

SliceStarts(n, threads) == {i \in 0 .. n - 1 : i % Divisor(n, threads) = 0}

\* Faulty: the end of the slice is taken for inclusive.
SliceShort(q, i, d) == SubSeq(q, i + 1, IF i + d > Len(q) THEN Len(q) ELSE i + d - 1)

Slice(q, i, d) == SubSeq(q, i + 1, IF i + d > Len(q) THEN Len(q) ELSE i + d)

\* getCache: the accounts of most weight.
Cache(t) == SubSeq(t, 1, IF Len(t) > CacheMax THEN CacheMax ELSE Len(t))

ByteId(t, a) == CHOOSE i \in DOMAIN t : t[i] = a

Convert(t, q) == [i \in DOMAIN q |-> IF \E j \in DOMAIN t : t[j] = q[i]
                                       THEN ByteId(t, q[i]) ELSE q[i]]

InKey(w)  == <<w, "in">>
OutKey(w) == <<w, IF config.redisData THEN "out" ELSE "in">>

\* The workers of the batch under way, in the order of their slices.
MyWorkers == {w \in Workers : /\ w[1] = job
                              /\ w[2] \in SliceStarts(Len(queue), config.threads)}

Exit == /\ pc' = "down" /\ queue' = <<>> /\ addressCache' = None /\ out' = <<>>
        /\ at' = 0 /\ UNCHANGED job

-----------------------------------------------------------------------------
(* The parent, between the awaits of convertBatchAccounts. *)

\* The caller has a batch; residual files of other jobs are gone (extractBatch).
Begin(q) ==
  /\ pc = "idle" /\ job < MaxJobs
  /\ job' = job + 1 /\ queue' = q /\ pc' = "lookup"
  /\ store' = IF config.redisData THEN store ELSE [k \in Keys |-> None]
  /\ UNCHANGED <<config, table, cached, archive, addressCache, out, at, workers, used>>

\* Faulty: what redis answers is taken as it is.
LookupUndefined ==
  /\ pc = "lookup"
  /\ \E c \in Got(cached) : addressCache' = c
  /\ pc' = IF config.threads = 0 THEN "convert" ELSE "clear"
  /\ UNCHANGED <<config, table, cached, store, archive, job, queue, out, at, workers, used>>

\* Faulty: the cache is fetched for the parent and not left for the workers.
LookupUnshared ==
  /\ pc = "lookup"
  /\ \E c \in Got(cached) : addressCache' = IF c = None THEN Cache(table) ELSE c
  /\ pc' = IF config.threads = 0 THEN "convert" ELSE "clear"
  /\ UNCHANGED <<config, table, cached, store, archive, job, queue, out, at, workers, used>>

\* The address cache comes from redis if it is there, else from the table.
Lookup ==
  /\ pc = "lookup"
  /\ \E c \in Got(cached) :
       IF c = None
         THEN addressCache' = Cache(table) /\ cached' = addressCache'
         ELSE addressCache' = c /\ UNCHANGED cached
  /\ pc' = IF config.threads = 0 THEN "convert" ELSE "clear"
  /\ UNCHANGED <<config, table, store, archive, job, queue, out, at, workers, used>>

\* getCache rejects: logError, process.exit.
LookupFails ==
  /\ pc = "lookup" /\ Fault /\ Exit
  /\ UNCHANGED <<config, table, cached, store, archive, workers>>

\* USE_MULTI_THREADS=false: one process does it all.
ConvertAll ==
  /\ pc = "convert"
  /\ out' = Convert(addressCache, queue) /\ pc' = "done"
  /\ UNCHANGED <<config, table, cached, store, archive, job, queue, addressCache,
                 at, workers, used>>

\* What earlier jobs left in redis goes: keys('ripper:child*'), which also finds
\* the slices and results of workers that still run.
Clear ==
  /\ pc = "clear" /\ pc' = "deploy"
  /\ store' = IF config.redisData THEN [k \in Keys |-> None] ELSE store
  /\ UNCHANGED <<config, table, cached, archive, job, queue, addressCache, out,
                 at, workers, used>>

Deploy ==
  /\ pc = "deploy" /\ pc' = "waiting"
  /\ store' = [k \in Keys |->
       IF \E w \in MyWorkers : k = InKey(w)
         THEN Slice(queue, k[1][2], Divisor(Len(queue), config.threads)) ELSE store[k]]
  /\ wpc' = [w \in Workers |-> IF w \in MyWorkers THEN "boot" ELSE wpc[w]]
  /\ UNCHANGED <<config, table, cached, archive, job, queue, addressCache, out,
                 at, wcache, used>>

\* Promise.all: every worker has exited, or one of them failed.
AllExited ==
  /\ pc = "waiting" /\ \A w \in MyWorkers : wpc[w] = "exited"
  /\ pc' = "collect"
  /\ UNCHANGED <<config, table, cached, store, archive, job, queue, addressCache,
                 out, at, workers, used>>

\* Faulty: the parent waits for the other workers, too.
AllFailed ==
  /\ pc = "waiting" /\ \A w \in MyWorkers : wpc[w] = "failed"
  /\ Exit
  /\ UNCHANGED <<config, table, cached, store, archive, workers, used>>

OneFailed ==
  /\ pc = "waiting" /\ \E w \in MyWorkers : wpc[w] = "failed"
  /\ Exit
  /\ UNCHANGED <<config, table, cached, store, archive, workers, used>>

\* Faulty: the results come out in reverse order.
CollectPrepended ==
  /\ pc = "collect" /\ at < Len(queue)
  /\ \E d \in Got(store[OutKey(<<job, at>>)]) :
       IF d = None
         THEN Exit /\ UNCHANGED store
         ELSE /\ out' = d \o out
              /\ at' = at + Divisor(Len(queue), config.threads)
              /\ store' = [store EXCEPT ![OutKey(<<job, at>>)] = None]
              /\ UNCHANGED <<pc, job, queue, addressCache>>
  /\ UNCHANGED <<config, table, cached, archive, workers, used>>

\* Read one result after the other, and put them together in the order of the
\* slices: one that is not there (null, ENOENT) throws.
Collect ==
  /\ pc = "collect" /\ at < Len(queue)
  /\ \E d \in Got(store[OutKey(<<job, at>>)]) :
       IF d = None
         THEN Exit /\ UNCHANGED store
         ELSE /\ out' = out \o d
              /\ at' = at + Divisor(Len(queue), config.threads)
              /\ store' = [store EXCEPT ![OutKey(<<job, at>>)] = None]
              /\ UNCHANGED <<pc, job, queue, addressCache>>
  /\ UNCHANGED <<config, table, cached, archive, workers, used>>

\* "files were munged during translation"
Combined ==
  /\ pc = "collect" /\ at >= Len(queue)
  /\ pc' = IF Len(out) = Len(queue) THEN "done" ELSE "munged"
  /\ UNCHANGED <<config, table, cached, store, archive, job, queue, addressCache,
                 out, at, workers, used>>

\* The caller imports the batch (module Synchronize).
Import ==
  /\ pc = "done"
  /\ archive' = archive \cup {[account |-> queue[i], topic |-> out[i]] : i \in DOMAIN queue}
  /\ pc' = "idle" /\ queue' = <<>> /\ addressCache' = None /\ out' = <<>> /\ at' = 0
  /\ wpc' = [w \in Workers |-> IF wpc[w] = "exited" THEN "off" ELSE wpc[w]]
  /\ UNCHANGED <<config, table, cached, store, job, wcache, used>>

\* The parent is killed; its workers go on.
Kill ==
  /\ pc # "down" /\ Fault /\ Exit
  /\ UNCHANGED <<config, table, cached, store, archive, workers>>

\* assignPopularAddresses fills an empty table, unless INDEX_CACHE_DISABLE is set.
Start ==
  /\ pc = "down" /\ pc' = "idle"
  /\ table' \in IF table = <<>> THEN Table ELSE {table}
  /\ UNCHANGED <<config, cached, store, archive, job, queue, addressCache, out, at,
                 workers, used>>

\* "Nuke the entire Database?", asked when nothing runs any more: the tables go,
\* redis is not touched by the program.
Nuke ==
  /\ pc = "down" /\ table # <<>> /\ ~\E w \in Workers : Running(w)
  /\ table' = <<>> /\ archive' = {}
  /\ cached' = IF config.flushes THEN None ELSE cached
  /\ UNCHANGED <<config, store, parent, workers, used>>

-----------------------------------------------------------------------------
(* A worker, between the awaits of convertChild.js.  An error is logged, but *)
(* its open redis connection keeps a worker that failed alive: "hung".       *)

WStep(w, from, to) == wpc[w] = from /\ wpc' = [wpc EXCEPT ![w] = to]

\* A file that is gone is an exit(1), for which execCmd rejects.
Boot(w) ==
  /\ WStep(w, "boot", IF ~config.redisData /\ store[InKey(w)] = None
                        THEN "failed" ELSE "look")
  /\ UNCHANGED <<config, table, cached, store, archive, parent, wcache, used>>

Look(w) ==
  /\ \E c \in Got(cached) :
       /\ WStep(w, "look", IF c = None THEN "sleeping" ELSE "load")
       /\ wcache' = [wcache EXCEPT ![w] = c]
  /\ UNCHANGED <<config, table, cached, store, archive, parent, used>>

\* Two seconds later: a cache that is found now is not parsed.
LookAgain(w) ==
  /\ \E c \in Got(cached) : WStep(w, "sleeping", IF c = None THEN "reinsert" ELSE "load")
  /\ UNCHANGED <<config, table, cached, store, archive, parent, wcache, used>>

\* From the table, back into redis.
Reinsert(w) ==
  /\ \/ /\ WStep(w, "reinsert", "load")
        /\ wcache' = [wcache EXCEPT ![w] = Cache(table)]
        /\ cached' = Cache(table) /\ UNCHANGED used
     \/ WStep(w, "reinsert", "hung") /\ Fault /\ UNCHANGED <<wcache, cached>>
  /\ UNCHANGED <<config, table, store, archive, parent>>

\* The slice is read and its key deleted; only then a slice or a cache that is
\* undefined throws, and so does a file that cannot be written.  No other process reads
\* or writes these keys, save Clear, so that reading, converting and writing are one step.
Translate(w) ==
  /\ \E d \in Got(store[InKey(w)]), written \in Written :
       LET stored == IF config.redisData THEN [store EXCEPT ![InKey(w)] = None] ELSE store
       IN IF d = None \/ wcache[w] = None \/ ~written
            THEN WStep(w, "load", "hung") /\ store' = stored
            ELSE /\ WStep(w, "load", "exited")
                 /\ store' = [stored EXCEPT ![OutKey(w)] = Convert(wcache[w], d)]
  /\ wcache' = [wcache EXCEPT ![w] = None]
  /\ UNCHANGED <<config, table, cached, archive, parent, used>>

\* The process dies, or writes to stderr: exec reports it either way.
Die(w) ==
  /\ Running(w) /\ Fault
  /\ wpc' = [wpc EXCEPT ![w] = "failed"]
  /\ UNCHANGED <<config, table, cached, store, archive, parent, wcache>>

-----------------------------------------------------------------------------
Work(w) == Boot(w) \/ Look(w) \/ LookAgain(w) \/ Reinsert(w) \/ Translate(w)

Proceed == Lookup \/ ConvertAll \/ Clear \/ Deploy \/ AllExited \/ OneFailed
           \/ Collect \/ Combined \/ Import

Next == \/ \E q \in Batches : Begin(q)
        \/ Proceed \/ LookupFails \/ Kill \/ Start \/ Nuke
        \/ \E w \in Workers : Work(w) \/ Die(w)

Spec == Init /\ [][Next]_vars

\* The event loop goes on, and so does every worker process.
FairSpec == Spec /\ WF_vars(Proceed) /\ \A w \in Workers : WF_vars(Work(w))

-----------------------------------------------------------------------------
(* Properties *)

Data == Seq(Topic) \cup {None}

\* Every variable keeps its type, and the parent has an address cache from its
\* look-up to the import.
TypeOK ==
  /\ config \in Configs
  /\ table \in Table /\ cached \in Table \cup {None} /\ addressCache \in Table \cup {None}
  /\ store \in [Keys -> Data]
  /\ archive \subseteq [account : Accounts, topic : Topic]
  /\ pc \in {"down", "idle", "lookup", "convert", "clear", "deploy", "waiting",
             "collect", "munged", "done"}
  /\ addressCache # None <=> pc \notin {"down", "idle", "lookup"}
  /\ job \in 0..MaxJobs /\ at \in Nat
  /\ queue \in Seq(Accounts) /\ out \in Seq(Topic)
  /\ wpc \in [Workers -> {"off", "boot", "look", "sleeping", "reinsert", "load",
                          "exited", "failed", "hung"}]
  /\ wcache \in [Workers -> Table \cup {None}]
  /\ used \in 0..MaxFaults

\* translateS2L finds the account that was meant behind every stored topic, and in
\* the place it belongs to: no batch is mixed up, by its own workers or by those an
\* earlier batch left behind.  It takes a flush of redis with every nuke of the
\* database, which cli/index.js does not do.
Translated ==
  config.flushes =>
    \A r \in archive : \/ r.topic = r.account
                       \/ r.topic \in DOMAIN table /\ table[r.topic] = r.account

\* The slices of a batch need no more workers than there are threads to spare.
FewWorkers ==
  pc \in {"deploy", "waiting"} =>
    Cardinality(MyWorkers) <= IF config.threads = 1 THEN 1 ELSE config.threads - 1

\* "files were munged during translation" never happens: whatever the workers, the
\* faults and redis do, results that are all there are as long as the batch.
NotMunged == pc # "munged"

\* While redis answers and keeps what it is given, and files can be written, no worker of the batch under way
\* ends up waiting for nothing, so that the parent does not either.
NoHang == config.steady /\ pc = "waiting" => \A w \in MyWorkers : wpc[w] # "hung"

\* Then the conversion comes to its end, one way or another.
WaitEnds == config.steady /\ pc = "waiting" ~> pc # "waiting"
=============================================================================
