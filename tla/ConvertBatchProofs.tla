------------------------- MODULE ConvertBatchProofs -------------------------
(***************************************************************************)
(* Theorems about the conversion of batches, for any accounts, batches,    *)
(* numbers of threads, killed parents and dying workers.  The inductive    *)
(* invariant follows the data of the batch under way: wherever it is, in   *)
(* a slice, in a result or in what has been put together, each topic still *)
(* means the account it meant in the queue.                                *)
(***************************************************************************)
EXTENDS ConvertBatch, FiniteSetTheorems, SequenceTheorems, TLAPS

D      == Divisor(Len(queue), config.threads)
Cut(i) == IF i > Len(queue) THEN Len(queue) ELSE i   \* where a slice that goes to i ends

\* A batch is at work from Begin to its import, in workers from clear to collect.
Threaded == pc \in {"clear", "deploy", "waiting", "collect"}

Shape ==
  /\ pc \notin {"down", "idle"} => queue \in Batches /\ job \in Jobs
  /\ Threaded => config.threads # 0
  /\ pc # "munged"
  /\ pc \notin {"collect", "done"} => at = 0 /\ out = <<>>
  /\ pc = "done" => Len(out) = Len(queue)

\* The keys and the workers of a job that is not deployed yet have not been used.
Unused ==
  \A w \in Workers :
    w[1] > job \/ (w[1] = job /\ pc \in {"lookup", "convert", "clear", "deploy"}) =>
      wpc[w] = "off" /\ wcache[w] = None /\ store[<<w, "in">>] = None /\ store[<<w, "out">>] = None

\* Every copy of the address cache agrees with the table.
Sound(c) == c # None => \A i \in DOMAIN c : i \in DOMAIN table /\ table[i] = c[i]

CachesSound ==
  config.flushes =>
    /\ Sound(cached) /\ Sound(addressCache)
    /\ \A w \in Workers : Running(w) => Sound(wcache[w])

Meant(t, a) == t = a \/ (t \in DOMAIN table /\ table[t] = a)

\* d stands for the queue from i + 1 to j.
Means(d, i, j) ==
  /\ Len(d) = j - i
  /\ config.flushes => \A k \in 1 .. j - i : Meant(d[k], queue[i + k])

StoreMeans ==
  pc \in {"waiting", "collect"} =>
    \A i \in Offsets, s \in {"in", "out"} :
      store[<<<<job, i>>, s>>] # None => i < Len(queue) /\ Means(store[<<<<job, i>>, s>>], i, Cut(i + D))

OutMeans ==
  /\ pc = "collect" => Means(out, 0, Cut(at))
  /\ pc = "done"    => Means(out, 0, Len(queue))

Archived == config.flushes => \A r \in archive : Meant(r.topic, r.account)

IInv == TypeOK /\ Shape /\ Unused /\ CachesSound /\ StoreMeans /\ OutMeans /\ Archived

\* No worker of the batch is without its cache or its slice.
Supplied ==
  config.steady =>
    /\ pc \notin {"down", "idle", "lookup"} => cached # None
    /\ pc = "waiting" => \A w \in MyWorkers :
         /\ wpc[w] \in {"boot", "look", "load", "exited", "failed"}
         /\ wpc[w] \in {"boot", "look", "load"} => store[InKey(w)] # None
         /\ wpc[w] = "load" => wcache[w] # None

-----------------------------------------------------------------------------
(* The operators *)

\* There are as many workers as the division says, and it never says none.
LEMMA DivisorType ==
  ASSUME NEW n \in Nat, NEW threads \in Nat, threads # 0
  PROVE  Divisor(n, threads) \in Nat \ {0}
<1>1. CASE threads = 1
  BY <1>1 DEF Divisor
<1>2. CASE threads # 1
  <2>1. threads - 1 \in Nat \ {0}
    BY <1>2
  <2>2. n \div (threads - 1) \in Nat
    BY <2>1
  <2> QED
    BY <1>2, <2>2 DEF Divisor
<1> QED
  BY <1>1, <1>2

LEMMA TableSeq ==
  ASSUME NEW t \in Table
  PROVE  /\ t \in Seq(Accounts) /\ Len(t) \in 0..Cardinality(Accounts)
         /\ DOMAIN t = 1..Len(t) /\ t # None
<1>1. PICK n \in 0..Cardinality(Accounts) : t \in [1..n -> Accounts]
  BY DEF Table
<1>2. n \in Nat
  BY <1>1, FS_CardinalityType, ConstantsAssumption
<1>3. t \in Seq(Accounts)
  BY <1>1, <1>2
<1>4. t \in Seq(Accounts \cup Nat)
  BY <1>1, <1>2
<1> QED
  BY <1>1, <1>2, <1>3, <1>4, ConstantsAssumption

\* The address cache is the beginning of the table.
LEMMA CacheIsTable ==
  ASSUME NEW t \in Table
  PROVE  /\ Cache(t) \in Table /\ Cache(t) # None
         /\ \A i \in DOMAIN Cache(t) : i \in DOMAIN t /\ t[i] = Cache(t)[i]
<1> DEFINE n == IF Len(t) > CacheMax THEN CacheMax ELSE Len(t)
<1>1. n \in 0..Len(t) /\ Len(t) \in Nat /\ t \in Seq(Accounts) /\ DOMAIN t = 1..Len(t)
  BY TableSeq, ConstantsAssumption
<1>2. /\ Cache(t) \in Seq(Accounts) /\ Len(Cache(t)) = n
      /\ \A i \in 1..n : Cache(t)[i] = t[i]
  BY <1>1 DEF Cache
<1>3. Cache(t) \in [1..n -> Accounts]
  BY <1>2
<1>4. n \in 0..Cardinality(Accounts)
  BY <1>1, TableSeq, FS_CardinalityType, ConstantsAssumption
<1>5. \A i, j \in 1..n : Cache(t)[i] = Cache(t)[j] => i = j
  <2>1. \A i, j \in DOMAIN t : t[i] = t[j] => i = j
    BY DEF Table
  <2> QED
    BY <1>1, <1>2, <2>1
<1>6. Cache(t) \in Table
  BY <1>3, <1>4, <1>5 DEF Table
<1> QED
  BY <1>1, <1>2, <1>3, <1>6, TableSeq

\* Conversion keeps the places, and puts a byteId only in the place of its account.
LEMMA ConvertPlaces ==
  ASSUME NEW t \in Table, NEW d \in Seq(Topic)
  PROVE  /\ Convert(t, d) \in Seq(Topic) /\ Len(Convert(t, d)) = Len(d)
         /\ Convert(t, d) # None
         /\ \A k \in 1..Len(d) :
              \/ Convert(t, d)[k] = d[k]
              \/ Convert(t, d)[k] \in DOMAIN t /\ t[Convert(t, d)[k]] = d[k]
<1>1. DOMAIN t \subseteq Nat
  BY TableSeq
<1>2. \A k \in 1..Len(d) :
        /\ Convert(t, d)[k] \in Topic
        /\ \/ Convert(t, d)[k] = d[k]
           \/ Convert(t, d)[k] \in DOMAIN t /\ t[Convert(t, d)[k]] = d[k]
  <2> SUFFICES ASSUME NEW k \in 1..Len(d)
               PROVE  /\ Convert(t, d)[k] \in Topic
                      /\ \/ Convert(t, d)[k] = d[k]
                         \/ Convert(t, d)[k] \in DOMAIN t /\ t[Convert(t, d)[k]] = d[k]
    OBVIOUS
  <2>1. k \in DOMAIN d /\ d[k] \in Topic
    OBVIOUS
  <2>2. CASE \E j \in DOMAIN t : t[j] = d[k]
    BY <1>1, <2>1, <2>2 DEF Convert, ByteId, Topic
  <2>3. CASE ~\E j \in DOMAIN t : t[j] = d[k]
    BY <2>1, <2>3 DEF Convert
  <2> QED
    BY <2>2, <2>3
<1>3. DOMAIN Convert(t, d) = 1..Len(d)
  BY DEF Convert
<1>4. Convert(t, d) \in Seq(Topic) /\ Len(Convert(t, d)) = Len(d)
  <2>1. Convert(t, d) = [k \in 1..Len(d) |-> Convert(t, d)[k]]
    BY DEF Convert
  <2>2. Convert(t, d) \in [1..Len(d) -> Topic]
    BY <1>2, <2>1
  <2> QED
    BY <2>2
<1> QED
  BY <1>2, <1>4, ConstantsAssumption DEF Topic

LEMMA SlicePlaces ==
  ASSUME NEW q \in Seq(Accounts), NEW i \in Nat, i < Len(q), NEW d \in Nat \ {0}
  PROVE  LET j == IF i + d > Len(q) THEN Len(q) ELSE i + d
         IN /\ Slice(q, i, d) \in Seq(Topic) /\ Len(Slice(q, i, d)) = j - i
            /\ Slice(q, i, d) # None
            /\ \A k \in 1 .. j - i : Slice(q, i, d)[k] = q[i + k]
<1> DEFINE j == IF i + d > Len(q) THEN Len(q) ELSE i + d
<1>1. j \in 1..Len(q) /\ i + 1 \in 1..Len(q) /\ i + 1 <= j
  OBVIOUS
<1>2. q \in Seq(Topic)
  BY DEF Topic
<1>3. /\ SubSeq(q, i + 1, j) \in Seq(Topic) /\ Len(SubSeq(q, i + 1, j)) = j - i
      /\ \A k \in 1 .. j - i : SubSeq(q, i + 1, j)[k] = q[i + k]
  BY <1>1, <1>2
<1> QED
  BY <1>3, ConstantsAssumption DEF Slice, Topic

LEMMA WorkersType ==
  ASSUME NEW w \in Workers
  PROVE  w = <<w[1], w[2]>> /\ w[1] \in Nat /\ w[2] \in Nat /\ w[2] \in Offsets
         /\ InKey(w) \in Keys /\ OutKey(w) \in Keys
<1>1. w[1] \in Jobs /\ w[2] \in Offsets /\ w = <<w[1], w[2]>>
  BY DEF Workers
<1>2. \A i \in Offsets : i \in Nat
  BY DEF Offsets
<1>3. \A i \in Jobs : i \in Nat
  BY ConstantsAssumption DEF Jobs
<1> QED
  BY <1>1, <1>2, <1>3 DEF InKey, OutKey, Keys

LEMMA QueueType ==
  ASSUME queue \in Batches
  PROVE  queue \in Seq(Accounts) /\ queue \in Seq(Topic) /\ Len(queue) \in Nat
         /\ \A i \in 0 .. Len(queue) - 1 : i \in Offsets
<1>1. queue \in Seq(Accounts)
  BY ConstantsAssumption
<1>2. \A i \in 0 .. Len(queue) - 1 : i \in Offsets
  BY DEF Offsets
<1> QED
  BY <1>1, <1>2 DEF Topic

LEMMA EmptyTable == <<>> \in Table
<1>1. <<>> \in [1..0 -> Accounts] /\ 0 \in 0..Cardinality(Accounts)
  BY FS_CardinalityType, ConstantsAssumption
<1> QED
  BY <1>1 DEF Table

LEMMA TypeInit == Init => TypeOK
PROOF BY EmptyTable, ConstantsAssumption DEF Init, TypeOK, Data

LEMMA TypeStep == TypeOK /\ Shape /\ [Next]_vars => TypeOK'
<1> SUFFICES ASSUME TypeOK, Shape, [Next]_vars PROVE TypeOK'
  OBVIOUS
<1>a. config.threads \in Nat /\ (Threaded => config.threads # 0)
  BY ConstantsAssumption DEF TypeOK, Configs, Shape
<1>b. MaxJobs \in Nat /\ MaxFaults \in Nat
  BY ConstantsAssumption
<1>c. Cache(table) \in Table /\ Cache(table) # None
  BY CacheIsTable DEF TypeOK
<1>d. \A w \in Workers : InKey(w) \in Keys /\ OutKey(w) \in Keys
  BY WorkersType
<1>e. queue \in Seq(Topic)
  BY DEF TypeOK, Topic
<1>f. None \in Data /\ \A q \in Seq(Topic) : q \in Data
  BY DEF Data
<1> USE DEF TypeOK, vars, parent, workers, Fault, Exit
<1>1. CASE UNCHANGED vars
  BY <1>1
<1>2. ASSUME NEW q \in Batches, Begin(q) PROVE TypeOK'
  <2>1. q \in Seq(Accounts)
    BY ConstantsAssumption
  <2> QED
    BY <1>2, <2>1, <1>b, <1>f DEF Begin
<1>3. CASE Lookup
  BY <1>3, <1>c DEF Lookup, Got
<1>4. CASE LookupFails
  BY <1>4, <1>b DEF LookupFails
<1>5. CASE ConvertAll
  <2>1. addressCache \in Table
    BY <1>5 DEF ConvertAll
  <2> QED
    BY <1>5, <2>1, <1>e, ConvertPlaces DEF ConvertAll
<1>6. CASE Clear
  BY <1>6, <1>f DEF Clear
<1>7. CASE Deploy
  <2>1. queue \in Batches /\ config.threads # 0
    BY <1>7, <1>a DEF Deploy, Shape, Threaded
  <2>2. \A w \in MyWorkers : Slice(queue, w[2], D) \in Data
    <3> SUFFICES ASSUME NEW w \in MyWorkers PROVE Slice(queue, w[2], D) \in Data
      OBVIOUS
    <3>1. D \in Nat \ {0} /\ Len(queue) \in Nat /\ queue \in Seq(Accounts)
      BY <2>1, <1>a, DivisorType, QueueType DEF D
    <3>2. w[2] \in Nat /\ w[2] < Len(queue)
      BY <3>1 DEF MyWorkers, SliceStarts
    <3>3. Slice(queue, w[2], D) \in Seq(Topic)
      BY <3>1, <3>2, SlicePlaces
    <3> QED
      BY <3>3, <1>f
  <2>3. \A k \in Keys : (\E w \in MyWorkers : k = InKey(w)) => k[1] \in MyWorkers
    BY DEF InKey
  <2>4. store' \in [Keys -> Data]
    BY <1>7, <2>2, <2>3 DEF Deploy, D
  <2> QED
    BY <1>7, <2>4 DEF Deploy
<1>8. CASE AllExited
  BY <1>8 DEF AllExited
<1>9. CASE OneFailed
  BY <1>9 DEF OneFailed
<1>10. CASE Collect
  <2>1. queue \in Batches /\ config.threads # 0
    BY <1>10, <1>a DEF Collect, Shape, Threaded
  <2>2. Divisor(Len(queue), config.threads) \in Nat
    BY <2>1, <1>a, DivisorType, QueueType
  <2>3. PICK d \in Got(store[OutKey(<<job, at>>)]) :
          IF d = None
            THEN Exit /\ UNCHANGED store
            ELSE /\ out' = out \o d
                 /\ at' = at + Divisor(Len(queue), config.threads)
                 /\ store' = [store EXCEPT ![OutKey(<<job, at>>)] = None]
                 /\ UNCHANGED <<pc, job, queue, addressCache>>
    BY <1>10 DEF Collect
  <2>4. CASE d = None
    BY <1>10, <2>3, <2>4 DEF Collect
  <2>5. CASE d # None
    <3>1. <<job, at>> \in Workers
      <4>1. at \in Offsets
        BY <1>10, <2>1, QueueType DEF Collect
      <4>2. pc = "collect" /\ job \in Jobs
        BY <1>10 DEF Collect, Shape
      <4> QED
        BY <4>1, <4>2 DEF Workers
    <3>2. d \in Seq(Topic)
      BY <2>5, <3>1, <1>d DEF Got, Data
    <3>3. out \o d \in Seq(Topic)
      BY <3>2
    <3>4. store' \in [Keys -> Data]
      BY <2>3, <2>5, <1>f
    <3>5. at' \in Nat
      BY <2>2, <2>3, <2>5
    <3> QED
      BY <1>10, <2>3, <2>5, <3>3, <3>4, <3>5 DEF Collect
  <2> QED
    BY <2>4, <2>5
<1>11. CASE Combined
  BY <1>11 DEF Combined
<1>12. CASE Import
  <2>1. \A i \in DOMAIN queue : queue[i] \in Accounts
    OBVIOUS
  <2>2. Len(out) = Len(queue)
    BY <1>12 DEF Import, Shape
  <2>3. \A i \in DOMAIN queue : out[i] \in Topic
    BY <2>2
  <2>4. archive' \subseteq [account : Accounts, topic : Topic]
    BY <1>12, <2>1, <2>3 DEF Import
  <2>5. <<>> \in Seq(Accounts) /\ <<>> \in Seq(Topic)
    OBVIOUS
  <2> QED
    BY <1>12, <2>4, <2>5 DEF Import
<1>13. CASE Kill
  BY <1>13, <1>b DEF Kill
<1>14. CASE Start
  BY <1>14 DEF Start
<1>15. CASE Nuke
  <2>1. <<>> \in Table
    BY EmptyTable
  <2> QED
    BY <1>15, <2>1 DEF Nuke
<1>16. ASSUME NEW w \in Workers, Boot(w) PROVE TypeOK'
  BY <1>16 DEF Boot, WStep
<1>17. ASSUME NEW w \in Workers, Look(w) PROVE TypeOK'
  BY <1>17 DEF Look, WStep, Got
<1>18. ASSUME NEW w \in Workers, LookAgain(w) PROVE TypeOK'
  BY <1>18 DEF LookAgain, WStep
<1>19. ASSUME NEW w \in Workers, Reinsert(w) PROVE TypeOK'
  BY <1>19, <1>b, <1>c, SMTT(30) DEF Reinsert, WStep
<1>20. ASSUME NEW w \in Workers, Translate(w) PROVE TypeOK'
  <2>1. PICK d \in Got(store[InKey(w)]), written \in Written :
          LET stored == IF config.redisData THEN [store EXCEPT ![InKey(w)] = None] ELSE store
          IN IF d = None \/ wcache[w] = None \/ ~written
               THEN WStep(w, "load", "hung") /\ store' = stored
               ELSE /\ WStep(w, "load", "exited")
                    /\ store' = [stored EXCEPT ![OutKey(w)] = Convert(wcache[w], d)]
    BY <1>20 DEF Translate
  <2>2. d \in Data
    BY <1>d DEF Got, Data
  <2>3. d # None /\ wcache[w] # None => Convert(wcache[w], d) \in Data
    BY <1>f, <2>2, ConvertPlaces DEF Data
  <2>4. store' \in [Keys -> Data]
    BY <1>f, <2>1, <2>3
  <2>5. wpc' \in [Workers -> {"off", "boot", "look", "sleeping", "reinsert", "load",
                             "exited", "failed", "hung"}]
    BY <2>1 DEF WStep
  <2> QED
    BY <1>20, <2>4, <2>5 DEF Translate
<1>21. ASSUME NEW w \in Workers, Die(w) PROVE TypeOK'
  BY <1>21, <1>b DEF Die
<1> QED
  BY <1>1, <1>2, <1>3, <1>4, <1>5, <1>6, <1>7, <1>8, <1>9, <1>10, <1>11, <1>12, <1>13, <1>14,
     <1>15, <1>16, <1>17, <1>18, <1>19, <1>20, <1>21 DEF Next, Proceed, Work

LEMMA ShapeStep == TypeOK /\ Shape /\ OutMeans /\ [Next]_vars => Shape'
<1> SUFFICES ASSUME TypeOK, Shape, OutMeans, [Next]_vars PROVE Shape'
  OBVIOUS
<1> USE DEF Shape, Threaded, vars, parent, workers, Exit
<1>1. ASSUME NEW q \in Batches, Begin(q) PROVE Shape'
  BY <1>1, ConstantsAssumption DEF Begin, TypeOK, Jobs
<1>2. CASE ConvertAll
  <2>1. addressCache \in Table /\ queue \in Seq(Topic)
    BY <1>2 DEF ConvertAll, TypeOK, Topic
  <2> QED
    BY <1>2, <2>1, ConvertPlaces DEF ConvertAll
<1>3. CASE Collect
  BY <1>3 DEF Collect
<1>4. CASE Combined
  <2>1. Len(out) = Len(queue)
    BY <1>4 DEF Combined, OutMeans, Means, Cut, TypeOK
  <2> QED
    BY <1>4, <2>1 DEF Combined
<1>5. CASE Import
  BY <1>5 DEF Import
<1>6. CASE UNCHANGED <<config, parent>>
  BY <1>6
<1>7. CASE Lookup \/ Clear \/ Deploy \/ AllExited
  BY <1>7 DEF Lookup, Clear, Deploy, AllExited
<1>8. CASE OneFailed \/ LookupFails \/ Kill \/ Start
  BY <1>8 DEF OneFailed, LookupFails, Kill, Start
<1> QED
  BY <1>1, <1>2, <1>3, <1>4, <1>5, <1>6, <1>7, <1>8
     DEF Next, Proceed, Work, Nuke, Boot, Look, LookAgain, Reinsert, Translate, Die

LEMMA UnusedStep == TypeOK /\ Unused /\ [Next]_vars => Unused'
<1> SUFFICES ASSUME TypeOK, Unused, [Next]_vars, NEW w \in Workers,
                    w[1] > job' \/ (w[1] = job' /\ pc' \in {"lookup", "convert", "clear", "deploy"})
             PROVE  /\ wpc'[w] = "off" /\ wcache'[w] = None
                    /\ store'[<<w, "in">>] = None /\ store'[<<w, "out">>] = None
  BY DEF Unused
<1>0. w[1] \in Nat /\ job \in Nat /\ \A s \in {"in", "out"} : <<w, s>> \in Keys
  BY WorkersType, ConstantsAssumption DEF TypeOK, Keys
<1> USE DEF vars, parent, workers, Exit
<1>1. CASE Lookup \/ LookupFails \/ ConvertAll \/ AllExited \/ OneFailed \/ Combined
           \/ Kill \/ Start \/ Nuke \/ UNCHANGED vars
  BY <1>0, <1>1 DEF Unused, Lookup, LookupFails, ConvertAll, AllExited, OneFailed, Combined,
     Kill, Start, Nuke
<1>2. ASSUME NEW q \in Batches, Begin(q) PROVE w[1] > job /\ UNCHANGED <<wpc, wcache>>
                                               /\ \A k \in Keys : store'[k] \in {store[k], None}
  BY <1>0, <1>2 DEF Begin
<1>3. CASE Clear
  BY <1>0, <1>3 DEF Unused, Clear
<1>4. CASE Deploy
  BY <1>0, <1>4 DEF Unused, Deploy, MyWorkers, InKey
<1>5. CASE Collect
  BY <1>0, <1>5 DEF Unused, Collect, OutKey, TypeOK
<1>6. CASE Import
  BY <1>0, <1>6 DEF Unused, Import, TypeOK
<1>7. ASSUME NEW v \in Workers, Work(v) \/ Die(v)
      PROVE  /\ wpc'[w] = "off" /\ wcache'[w] = None
             /\ store'[<<w, "in">>] = None /\ store'[<<w, "out">>] = None
  <2>1. wpc[w] = "off" /\ wcache[w] = None /\ store[<<w, "in">>] = None /\ store[<<w, "out">>] = None
    BY <1>7 DEF Unused, Work, Die, Boot, Look, LookAgain, Reinsert, Translate
  <2>2. v # w
    BY <1>7, <2>1 DEF Work, Die, Running, Boot, Look, LookAgain, Reinsert, Translate, WStep
  <2>3. wpc'[w] = wpc[w] /\ wcache'[w] = wcache[w]
    BY <1>7, <2>2 DEF Work, Die, Boot, Look, LookAgain, Reinsert, Translate, WStep, TypeOK
  <2>4. \A s \in {"in", "out"} : store'[<<w, s>>] = store[<<w, s>>]
    BY <1>0, <1>7, <2>2 DEF Work, Die, Boot, Look, LookAgain, Reinsert, Translate, InKey, OutKey, TypeOK
  <2> QED
    BY <2>1, <2>3, <2>4
<1> QED
  BY <1>0, <1>1, <1>2, <1>3, <1>4, <1>5, <1>6, <1>7 DEF Next, Proceed, Unused

LEMMA ConfigStep == [Next]_vars => UNCHANGED config
<1> USE DEF vars
<1>1. Proceed => UNCHANGED config
  BY DEF Proceed, Lookup, ConvertAll, Clear, Deploy, AllExited, OneFailed, Collect, Combined, Import
<1>2. \A w \in Workers : Work(w) => UNCHANGED config
  BY DEF Work, Boot, Look, LookAgain, Reinsert, Translate
<1> QED
  BY <1>1, <1>2 DEF Next, Begin, LookupFails, Kill, Start, Nuke, Die

\* The table changes only when it was empty or nothing of its cache is in use.
LEMMA CachesStep == TypeOK /\ Unused /\ CachesSound /\ [Next]_vars => CachesSound'
<1> SUFFICES ASSUME TypeOK, Unused, CachesSound, [Next]_vars PROVE CachesSound'
  OBVIOUS
<1>c. config' = config
  BY ConfigStep
<1> SUFFICES ASSUME config.flushes
             PROVE  /\ Sound(cached)' /\ Sound(addressCache)'
                    /\ \A w \in Workers : Running(w)' => Sound(wcache[w])'
  BY <1>c DEF CachesSound
<1>0. /\ Sound(cached) /\ Sound(addressCache) /\ Sound(Cache(table)) /\ Sound(None)
      /\ \A w \in Workers : Running(w) => Sound(wcache[w])
  BY CacheIsTable DEF CachesSound, Sound, TypeOK
<1> USE DEF vars, parent, workers, Exit
<1>1. CASE Lookup
  BY <1>0, <1>1 DEF Lookup, Got, Sound, Running
<1>2. CASE Deploy
  <2>1. \A w \in Workers : wpc'[w] = wpc[w] \/ wcache[w] = None
    BY <1>2 DEF Deploy, Unused, MyWorkers, TypeOK
  <2> QED
    BY <1>0, <1>2, <2>1 DEF Deploy, Sound, Running
<1>3. CASE Start
  <2>1. table' = table \/ DOMAIN table = {}
    BY <1>3 DEF Start
  <2> QED
    BY <1>0, <1>3, <2>1 DEF Start, Sound, Running
<1>4. CASE Nuke
  BY <1>0, <1>4 DEF Nuke, Sound, Running, TypeOK
<1>5. CASE Import
  BY <1>0, <1>5 DEF Import, Sound, Running, TypeOK
<1>6. ASSUME NEW v \in Workers, Boot(v) \/ LookAgain(v) \/ Die(v)
      PROVE  /\ Sound(cached)' /\ Sound(addressCache)'
             /\ \A w \in Workers : Running(w)' => Sound(wcache[w])'
  BY <1>0, <1>6 DEF Boot, LookAgain, Die, WStep, Sound, Running, TypeOK
<1>7. ASSUME NEW v \in Workers, Look(v) \/ Translate(v)
      PROVE  /\ Sound(cached)' /\ Sound(addressCache)'
             /\ \A w \in Workers : Running(w)' => Sound(wcache[w])'
  <2>1. UNCHANGED <<table, cached, addressCache>> /\ wcache'[v] \in {cached, None}
    BY <1>7 DEF Look, Translate, Got, TypeOK
  <2>2. \A w \in Workers \ {v} : wcache'[w] = wcache[w] /\ wpc'[w] = wpc[w]
    BY <1>7 DEF Look, Translate, WStep, TypeOK
  <2> QED
    BY <1>0, <2>1, <2>2 DEF Sound, Running
<1>8. ASSUME NEW v \in Workers, Reinsert(v)
      PROVE  /\ Sound(cached)' /\ Sound(addressCache)'
             /\ \A w \in Workers : Running(w)' => Sound(wcache[w])'
  BY <1>0, <1>8 DEF Reinsert, WStep, Sound, Running, TypeOK
<1>9. CASE UNCHANGED <<table, cached, workers>> /\ addressCache' \in {addressCache, None}
  BY <1>0, <1>9 DEF Sound, Running
<1> QED
  BY <1>1, <1>2, <1>3, <1>4, <1>5, <1>6, <1>7, <1>8, <1>9
     DEF Next, Proceed, Work, Begin, LookupFails, ConvertAll, Clear, AllExited, OneFailed,
         Collect, Combined, Kill

\* What a worker makes of its slice means what the slice means, whichever copy of the
\* address cache it has.
LEMMA ConvertMeans ==
  ASSUME NEW t \in Table, NEW d \in Seq(Topic), NEW i \in Nat, NEW j \in Nat, queue \in Seq(Accounts),
         i <= j, j <= Len(queue), Means(d, i, j), table \in Table, config.flushes => Sound(t)
  PROVE  Means(Convert(t, d), i, j)
<1>1. Len(Convert(t, d)) = Len(d) /\ Len(d) = j - i
  BY ConvertPlaces DEF Means
<1>2. ASSUME config.flushes, NEW k \in 1 .. j - i PROVE Meant(Convert(t, d)[k], queue[i + k])
  <2>1. Meant(d[k], queue[i + k]) /\ d[k] \in Topic /\ queue[i + k] \in Accounts
    BY <1>1, <1>2 DEF Means
  <2>2. CASE Convert(t, d)[k] = d[k]
    BY <2>1, <2>2
  <2>3. CASE Convert(t, d)[k] \in DOMAIN t /\ t[Convert(t, d)[k]] = d[k]
    <3>1. d[k] \in Accounts
      BY <2>3, TableSeq
    <3>2. d[k] \notin DOMAIN table
      BY <3>1, TableSeq, ConstantsAssumption
    <3>3. d[k] = queue[i + k]
      BY <2>1, <3>2 DEF Meant
    <3> QED
      BY <1>2, <2>3, <3>3, TableSeq DEF Sound, Meant
  <2> QED
    BY <1>1, <2>2, <2>3, ConvertPlaces
<1> QED
  BY <1>1, <1>2 DEF Means

\* The queue, the table, and with them all meanings, stand while a batch is at work.
LEMMA QueueStands ==
  ASSUME TypeOK, pc \notin {"down", "idle"}, [Next]_vars, pc' \notin {"down", "idle"}
  PROVE  UNCHANGED <<config, queue, table, job>>
<1> USE DEF vars, parent, Exit
<1>1. Proceed => UNCHANGED <<config, queue, table, job>>
  BY DEF Proceed, Lookup, ConvertAll, Clear, Deploy, AllExited, OneFailed, Collect, Combined, Import
<1>2. \A w \in Workers : Work(w) => UNCHANGED <<config, queue, table, job>>
  BY DEF Work, Boot, Look, LookAgain, Reinsert, Translate
<1> QED
  BY <1>1, <1>2 DEF Next, Begin, LookupFails, Kill, Start, Nuke, Die

LEMMA StoreStep == IInv /\ [Next]_vars => StoreMeans'
<1> SUFFICES ASSUME IInv, [Next]_vars, pc' \in {"waiting", "collect"},
                    NEW i \in Offsets, NEW s \in {"in", "out"}, store'[<<<<job', i>>, s>>] # None
             PROVE  (i < Len(queue) /\ Means(store[<<<<job, i>>, s>>], i, Cut(i + D)))'
  BY DEF StoreMeans
<1> DEFINE w == <<job, i>>
           k == <<w, s>>
<1>0. pc \in {"deploy", "waiting", "collect"}
  <2> USE DEF vars, parent, Exit
  <2>1. Proceed => pc \in {"deploy", "waiting", "collect"}
    BY DEF Proceed, Lookup, ConvertAll, Clear, Deploy, AllExited, OneFailed, Collect, Combined, Import
  <2>2. (\E v \in Workers : Work(v)) => pc' = pc
    BY DEF Work, Boot, Look, LookAgain, Reinsert, Translate
  <2> QED
    BY <2>1, <2>2 DEF Next, Begin, LookupFails, Kill, Start, Nuke, Die
<1>1. UNCHANGED <<config, queue, table, job>> /\ w \in Workers /\ k \in Keys
  <2>1. job \in Jobs
    BY <1>0 DEF IInv, Shape
  <2> QED
    BY <1>0, <2>1, QueueStands DEF IInv, Workers, Keys
<1>2. queue \in Seq(Accounts) /\ D \in Nat \ {0} /\ i \in Nat /\ Len(queue) \in Nat
  <2>1. queue \in Batches /\ config.threads # 0 /\ config.threads \in Nat
    BY <1>0, ConstantsAssumption DEF IInv, Shape, Threaded, TypeOK, Configs
  <2> QED
    BY <2>1, <1>1, QueueType, WorkersType, DivisorType DEF D
<1>3. SUFFICES i < Len(queue) /\ Means(store'[k], i, Cut(i + D))
  BY <1>1 DEF Means, Meant, Cut, D
<1>4. CASE store'[k] = store[k]
  <2>1. CASE pc = "deploy"
    BY <1>1, <1>4, <2>1 DEF IInv, Unused
  <2>2. CASE pc # "deploy"
    BY <1>0, <1>1, <1>4, <2>2 DEF IInv, StoreMeans
  <2> QED
    BY <2>1, <2>2
<1>5. CASE Deploy
  <2>1. CASE \E v \in MyWorkers : k = InKey(v)
    <3>1. i \in SliceStarts(Len(queue), config.threads) /\ k = InKey(w) /\ w \in MyWorkers
      BY <1>1, <2>1 DEF MyWorkers, InKey
    <3>2. i < Len(queue)
      BY <1>2, <3>1 DEF SliceStarts
    <3>3. store'[k] = Slice(queue, i, D)
      BY <1>1, <1>5, <2>1 DEF Deploy, D
    <3>4. /\ Len(Slice(queue, i, D)) = Cut(i + D) - i
          /\ \A n \in 1 .. Cut(i + D) - i : Slice(queue, i, D)[n] = queue[i + n]
      BY <1>2, <3>2, SlicePlaces DEF Cut
    <3> QED
      BY <3>2, <3>3, <3>4 DEF Means, Meant
  <2>2. CASE ~\E v \in MyWorkers : k = InKey(v)
    <3>1. store'[k] = store[k]
      BY <1>1, <1>5, <2>2 DEF Deploy
    <3> QED
      BY <1>4, <3>1
  <2> QED
    BY <2>1, <2>2
<1>6. ASSUME NEW v \in Workers, Translate(v)
      PROVE  i < Len(queue) /\ Means(store'[k], i, Cut(i + D))
  <2>1. PICK d \in Got(store[InKey(v)]), written \in Written :
          LET stored == IF config.redisData THEN [store EXCEPT ![InKey(v)] = None] ELSE store
          IN IF d = None \/ wcache[v] = None \/ ~written
               THEN WStep(v, "load", "hung") /\ store' = stored
               ELSE /\ WStep(v, "load", "exited")
                    /\ store' = [stored EXCEPT ![OutKey(v)] = Convert(wcache[v], d)]
    BY <1>6 DEF Translate
  <2>2. InKey(v) \in Keys /\ OutKey(v) \in Keys /\ store \in [Keys -> Data]
    BY WorkersType DEF IInv, TypeOK
  <2>3. CASE store'[k] \in {store[k], None}
    BY <1>1, <1>4, <2>3
  <2>4. CASE /\ d # None /\ wcache[v] # None
             /\ k = OutKey(v) /\ store'[k] = Convert(wcache[v], d)
    <3>1. v = w /\ d = store[<<w, "in">>]
      BY <2>4 DEF OutKey, InKey, Got
    <3>2. pc # "deploy"
      BY <1>1, <2>1, <3>1 DEF IInv, Unused, WStep
    <3>3. i < Len(queue) /\ Means(d, i, Cut(i + D))
      BY <1>0, <2>4, <3>1, <3>2 DEF IInv, StoreMeans
    <3>4. d \in Seq(Topic) /\ wcache[v] \in Table
      BY <1>1, <2>2, <2>4, <3>1 DEF Data, InKey, IInv, TypeOK
    <3>5. Cut(i + D) \in Nat /\ i <= Cut(i + D) /\ Cut(i + D) <= Len(queue)
      BY <1>2, <3>3 DEF Cut
    <3>6. config.flushes => Sound(wcache[v])
      BY <2>1, <2>4 DEF IInv, CachesSound, Running, WStep
    <3>7. Means(Convert(wcache[v], d), i, Cut(i + D))
      BY <1>2, <3>3, <3>4, <3>5, <3>6, ConvertMeans DEF IInv, TypeOK
    <3> QED
      BY <2>4, <3>3, <3>7
  <2> QED
    BY <1>1, <2>1, <2>2, <2>3, <2>4
<1>7. CASE Collect
  <2>1. store'[k] \in {store[k], None}
    BY <1>1, <1>7 DEF Collect, Exit, IInv, TypeOK
  <2> QED
    BY <1>1, <1>4, <2>1
<1>8. CASE UNCHANGED store
  BY <1>4, <1>8
<1> QED
  BY <1>0, <1>4, <1>5, <1>6, <1>7, <1>8
     DEF Next, Proceed, Begin, Lookup, LookupFails, ConvertAll, Clear, AllExited, OneFailed, Combined,
         Import, Kill, Start, Nuke, Work, Boot, Look, LookAgain, Reinsert, Die, vars

LEMMA OutStep == IInv /\ [Next]_vars => OutMeans'
<1> SUFFICES ASSUME IInv, [Next]_vars PROVE OutMeans'
  OBVIOUS
<1> USE DEF vars, parent, Exit
<1>1. CASE ConvertAll
  <2>1. /\ addressCache \in Table /\ queue \in Seq(Accounts) /\ queue \in Seq(Topic)
        /\ table \in Table /\ (config.flushes => Sound(addressCache))
    BY <1>1 DEF ConvertAll, IInv, TypeOK, CachesSound, Topic
  <2>2. Means(queue, 0, Len(queue))
    BY <2>1 DEF Means, Meant
  <2>3. Means(Convert(addressCache, queue), 0, Len(queue))
    <3>1. Len(queue) \in Nat /\ 0 \in Nat /\ 0 <= Len(queue) /\ Len(queue) <= Len(queue)
      BY <2>1
    <3> QED
      BY <2>1, <2>2, <3>1, ConvertMeans
  <2> QED
    BY <1>1, <2>3 DEF ConvertAll, OutMeans, Means, Meant
<1>2. CASE AllExited
  <2>1. at = 0 /\ out = <<>> /\ Len(queue) \in Nat
    BY <1>2 DEF AllExited, IInv, Shape, TypeOK
  <2>2. Means(out, 0, Cut(at))
    BY <2>1 DEF Means, Cut
  <2> QED
    BY <1>2, <2>2 DEF AllExited, OutMeans, Means, Meant, Cut
<1>3. CASE Collect
  <2>1. PICK d \in Got(store[OutKey(<<job, at>>)]) :
          IF d = None
            THEN Exit /\ UNCHANGED store
            ELSE /\ out' = out \o d
                 /\ at' = at + Divisor(Len(queue), config.threads)
                 /\ store' = [store EXCEPT ![OutKey(<<job, at>>)] = None]
                 /\ UNCHANGED <<pc, job, queue, addressCache>>
    BY <1>3 DEF Collect
  <2>2. CASE d = None
    BY <2>1, <2>2 DEF OutMeans
  <2>3. CASE d # None
    <3>1. /\ queue \in Batches /\ job \in Jobs /\ at < Len(queue) /\ pc = "collect"
          /\ config.threads \in Nat /\ config.threads # 0 /\ at \in Nat
      BY <1>3, ConstantsAssumption DEF Collect, IInv, Shape, Threaded, TypeOK, Configs
    <3>2. D \in Nat \ {0} /\ Len(queue) \in Nat
      BY <3>1, DivisorType, QueueType DEF D
    <3>3. at \in Offsets /\ <<job, at>> \in Workers
      BY <3>1, QueueType DEF Workers
    <3>4. OutKey(<<job, at>>) \in Keys
      BY <3>3, WorkersType
    <3>5. d = store[OutKey(<<job, at>>)] /\ d \in Seq(Topic)
      BY <2>3, <3>4 DEF Got, IInv, TypeOK, Data
    <3>6. Means(d, at, Cut(at + D))
      BY <2>3, <3>1, <3>3, <3>5 DEF IInv, StoreMeans, OutKey
    <3>7. Means(out, 0, at)
      BY <3>1 DEF IInv, OutMeans, Cut
    <3>8. Means(out \o d, 0, Cut(at + D))
      <4>1. out \in Seq(Topic) /\ Len(out) = at /\ Len(d) = Cut(at + D) - at
        BY <3>6, <3>7 DEF Means, IInv, TypeOK
      <4>2. Cut(at + D) \in Nat /\ at <= Cut(at + D)
        BY <3>1, <3>2 DEF Cut
      <4>3. Len(out \o d) = Cut(at + D)
        BY <3>5, <4>1, <4>2
      <4>4. ASSUME config.flushes, NEW n \in 1 .. Cut(at + D)
            PROVE  Meant((out \o d)[n], queue[n])
        <5>1. CASE n <= at
          BY <3>1, <3>5, <3>7, <4>1, <4>4, <5>1 DEF Means
        <5>2. CASE n > at
          <6>1. n - at \in 1 .. Cut(at + D) - at /\ at + (n - at) = n
            BY <3>1, <4>2, <5>2
          <6>2. Meant(d[n - at], queue[n])
            BY <3>6, <4>4, <6>1 DEF Means
          <6>3. (out \o d)[n] = d[n - at]
            BY <3>1, <3>5, <4>1, <4>2, <5>2
          <6> QED
            BY <6>2, <6>3
        <5>3. n <= at \/ n > at
          BY <3>1, <4>2, <4>4
        <5> QED
          BY <5>1, <5>2, <5>3, Zenon
      <4> QED
        BY <4>2, <4>3, <4>4 DEF Means
    <3>9. Cut(at') = Cut(at + D) /\ UNCHANGED <<config, queue, table, pc>>
      BY <1>3, <2>1, <2>3 DEF Collect, Cut, D
    <3> QED
      BY <2>1, <2>3, <3>1, <3>8, <3>9 DEF OutMeans, Means, Meant, Cut
  <2> QED
    BY <2>2, <2>3
<1>4. CASE Combined
  <2>1. pc = "collect" /\ Cut(at) = Len(queue)
    BY <1>4 DEF Combined, Cut, IInv, TypeOK
  <2>2. Means(out, 0, Len(queue))
    BY <2>1 DEF IInv, OutMeans
  <2> QED
    BY <1>4, <2>2 DEF Combined, OutMeans, Means, Meant
<1>5. CASE UNCHANGED <<config, parent, table>>
  BY <1>5 DEF IInv, OutMeans, Means, Meant, Cut
<1>6. CASE pc' \notin {"collect", "done"}
  BY <1>6 DEF OutMeans
<1> QED
  BY <1>1, <1>2, <1>3, <1>4, <1>5, <1>6
     DEF Next, Proceed, Begin, Lookup, LookupFails, Clear, Deploy, OneFailed,
         Import, Kill, Start, Nuke, Work, Boot, Look, LookAgain, Reinsert, Translate, Die

LEMMA ArchivedStep == IInv /\ [Next]_vars => Archived'
<1> SUFFICES ASSUME IInv, [Next]_vars PROVE Archived'
  OBVIOUS
<1>c. config' = config
  BY ConfigStep
<1> SUFFICES ASSUME config.flushes, NEW r \in archive' PROVE Meant(r.topic, r.account)'
  BY <1>c DEF Archived
<1> USE DEF vars, parent, Exit
<1>1. CASE UNCHANGED <<archive, table>>
  BY <1>1 DEF IInv, Archived, Meant
<1>2. CASE Import
  <2>1. CASE r \in archive
    BY <1>2, <2>1 DEF Import, IInv, Archived, Meant
  <2>2. CASE \E i \in DOMAIN queue : r = [account |-> queue[i], topic |-> out[i]]
    <3>1. PICK i \in 1..Len(queue) : r = [account |-> queue[i], topic |-> out[i]]
      BY <2>2 DEF IInv, TypeOK
    <3>2. Means(out, 0, Len(queue)) /\ Len(queue) \in Nat
      BY <1>2 DEF Import, IInv, OutMeans, TypeOK
    <3>3. Meant(out[i], queue[i])
      BY <3>1, <3>2 DEF Means
    <3> QED
      BY <1>2, <3>1, <3>3 DEF Import, Meant
  <2> QED
    BY <1>2, <2>1, <2>2 DEF Import
<1>3. CASE Start
  BY <1>3 DEF Start, IInv, Archived, Meant
<1>4. CASE Nuke
  BY <1>4 DEF Nuke
<1> QED
  BY <1>1, <1>2, <1>3, <1>4
     DEF Next, Proceed, Begin, Lookup, LookupFails, ConvertAll, Clear, Deploy, AllExited, OneFailed,
         Collect, Combined, Kill, Work, Boot, Look, LookAgain, Reinsert, Translate, Die

LEMMA IInvInit == Init => IInv
<1> SUFFICES ASSUME Init PROVE IInv
  OBVIOUS
<1>1. TypeOK
  BY TypeInit
<1>2. \A w \in Workers : <<w, "in">> \in Keys /\ <<w, "out">> \in Keys
  BY DEF Keys
<1> QED
  BY <1>1, <1>2
     DEF Init, IInv, Shape, Threaded, Unused, CachesSound, Sound, Running, StoreMeans, OutMeans, Archived

LEMMA IInvStep == IInv /\ [Next]_vars => IInv'
PROOF BY TypeStep, ShapeStep, UnusedStep, CachesStep, StoreStep, OutStep, ArchivedStep DEF IInv

LEMMA IInvHolds == Spec => []IInv
PROOF BY IInvInit, IInvStep, PTL DEF Spec

-----------------------------------------------------------------------------
\* The variables of the conversion keep their types, and the parent has its address
\* cache from the look-up (convertBatch.js:35) to the import.
THEOREM ConversionTypeCorrect == Spec => []TypeOK
<1>1. IInv => TypeOK
  BY DEF IInv
<1> QED
  BY <1>1, IInvHolds, PTL

\* A byteId that is imported stands for the account the block named, and in its place,
\* whatever workers of earlier jobs do, if a nuke comes with a flush of redis
\* (convertBatch.js:36).
THEOREM ArchiveIsTranslated == Spec => []Translated
<1>1. IInv => Translated
  BY DEF IInv, Archived, Translated, Meant
<1> QED
  BY <1>1, IInvHolds, PTL

\* "files were munged during translation" (convertBatch.js:101) is dead code: results
\* that are all there have the length of the batch.
THEOREM NeverMunged == Spec => []NotMunged
<1>1. IInv => NotMunged
  BY DEF IInv, Shape, NotMunged
<1> QED
  BY <1>1, IInvHolds, PTL

-----------------------------------------------------------------------------
(* How many workers there are. *)

\* A divisor that leaves a remainder is made one larger: as many slices as there are
\* threads to spare always hold the batch.
LEMMA SlicesSuffice ==
  ASSUME NEW n \in Nat, NEW m \in Nat \ {0}
  PROVE  n < (n \div m + 1) * m
<1> DEFINE c == n \div m
<1>1. c \in Nat /\ n = m * c + (n % m) /\ n % m < m /\ n % m \in Nat
  OBVIOUS
<1>2. (c + 1) * m = m * c + m
  BY <1>1
<1> QED
  BY <1>1, <1>2

\* A slice starts at a multiple of the divisor: the multiple tells it from the others.
LEMMA SliceMultiples ==
  ASSUME NEW n \in Nat, NEW threads \in Nat, threads \notin {0, 1},
         NEW i \in SliceStarts(n, threads)
  PROVE  /\ i \in Nat /\ i \div Divisor(n, threads) \in 0 .. threads - 2
         /\ i = Divisor(n, threads) * (i \div Divisor(n, threads))
<1> DEFINE d == Divisor(n, threads)
           k == i \div d
           m == threads - 1
<1>1. m \in Nat \ {0} /\ d \in Nat \ {0} /\ d = n \div m + 1
  BY DivisorType DEF Divisor
<1>2. i \in Nat /\ i < n /\ i % d = 0
  BY DEF SliceStarts
<1> HIDE DEF d
<1>3. k \in Nat /\ i = d * k
  BY <1>1, <1>2
<1>4. d * k < d * m
  BY <1>1, <1>2, <1>3, SlicesSuffice
<1>5. k < m
  <2>1. ASSUME k >= m PROVE FALSE
    <3>1. k - m \in Nat /\ d * (k - m) \in Nat
      BY <1>1, <1>3, <2>1
    <3>2. d * (k - m) = d * k - d * m
      BY <1>1, <1>3
    <3>3. d * k \in Int /\ d * m \in Int
      BY <1>1, <1>3
    <3> QED
      BY <1>4, <3>1, <3>2, <3>3
  <2> QED
    BY <1>1, <1>3, <2>1
<1> QED
  BY <1>2, <1>3, <1>5 DEF d

\* MULTI_THREADS is kept, one thread being the parent's: a batch is never cut in more
\* slices than that, whatever its length and the rounding (convertBatch.js:54-66).
THEOREM WorkersAreFew == Spec => []FewWorkers
<1>1. IInv => FewWorkers
  <2> SUFFICES ASSUME IInv, pc \in {"deploy", "waiting"}
               PROVE  Cardinality(MyWorkers) <= IF config.threads = 1 THEN 1 ELSE config.threads - 1
    BY DEF FewWorkers
  <2> DEFINE n == Len(queue)
             t == config.threads
  <2>1. t \in Nat /\ t # 0 /\ n \in Nat
    BY ConstantsAssumption, QueueType DEF IInv, Shape, Threaded, TypeOK, Configs
  <2>2. \A w \in MyWorkers : w = <<job, w[2]>> /\ w[2] \in SliceStarts(n, t)
    BY WorkersType DEF MyWorkers
  <2> HIDE DEF n, t
  <2>3. CASE t = 1
    <3>1. ASSUME NEW w \in MyWorkers PROVE w = <<job, 0>>
      <4>1. w[2] \in 0 .. n - 1 /\ w[2] % (n + 1) = 0
        BY <2>2, <2>3 DEF SliceStarts, Divisor
      <4>2. w[2] = 0
        BY <4>1, <2>1
      <4> QED
        BY <2>2, <4>2
    <3>2. MyWorkers \in SUBSET {<<job, 0>>}
      BY <3>1
    <3>3. IsFiniteSet({<<job, 0>>}) /\ Cardinality({<<job, 0>>}) = 1
      BY FS_Singleton
    <3>4. Cardinality(MyWorkers) <= 1
      BY <3>2, <3>3, FS_Subset
    <3> QED
      BY <2>3, <3>4 DEF t
  <2>4. CASE t # 1
    <3> DEFINE multiple == [w \in MyWorkers |-> w[2] \div Divisor(n, t)]
    <3>1. multiple \in [MyWorkers -> 0 .. t - 2]
      BY <2>1, <2>2, <2>4, SliceMultiples
    <3>2. ASSUME NEW v \in MyWorkers, NEW w \in MyWorkers, multiple[v] = multiple[w]
          PROVE  v = w
      <4>1. v[2] = Divisor(n, t) * multiple[v] /\ w[2] = Divisor(n, t) * multiple[w]
        BY <2>1, <2>2, <2>4, SliceMultiples
      <4> QED
        BY <2>2, <3>2, <4>1
    <3>3. multiple \in Injection(MyWorkers, 0 .. t - 2)
      BY <3>1, <3>2 DEF Injection, IsInjective
    <3>4. IsFiniteSet(0 .. t - 2) /\ Cardinality(0 .. t - 2) = t - 1
      BY <2>1, <2>4, FS_Interval
    <3>5. Cardinality(MyWorkers) <= t - 1
      BY <3>3, <3>4, FS_Injection
    <3> QED
      BY <2>4, <3>5 DEF t
  <2> QED
    BY <2>3, <2>4
<1> QED
  BY <1>1, IInvHolds, PTL

-----------------------------------------------------------------------------
(* Nobody hangs while redis is steady. *)

LEMMA SuppliedStep == IInv /\ Supplied /\ [Next]_vars => Supplied'
<1> SUFFICES ASSUME IInv, Supplied, [Next]_vars PROVE Supplied'
  OBVIOUS
<1>c. config' = config
  BY ConfigStep
<1> SUFFICES ASSUME config.steady
             PROVE  /\ pc' \notin {"down", "idle", "lookup"} => cached' # None
                    /\ pc' = "waiting" => \A w \in MyWorkers' :
                         /\ wpc'[w] \in {"boot", "look", "load", "exited", "failed"}
                         /\ wpc'[w] \in {"boot", "look", "load"} => store'[InKey(w)] # None
                         /\ wpc'[w] = "load" => wcache'[w] # None
  BY <1>c DEF Supplied, InKey
<1> USE DEF vars, parent, workers, Exit
<1>0. Cache(table) # None
  BY CacheIsTable DEF IInv, TypeOK
<1>1. pc' \notin {"down", "idle", "lookup"} => cached' # None
  <2>1. CASE cached' = cached \/ cached' = Cache(table)
    <3>1. pc \notin {"down", "idle", "lookup"} => cached # None
      BY DEF Supplied
    <3>2. pc' \in {"down", "idle", "lookup"} \/ pc \notin {"down", "idle", "lookup"} \/ Lookup
      <4>1. Proceed => Lookup \/ pc \notin {"down", "idle", "lookup"}
        BY DEF Proceed, ConvertAll, Clear, Deploy, AllExited, OneFailed, Collect, Combined, Import
      <4>2. (\E w \in Workers : Work(w)) => pc' = pc
        BY DEF Work, Boot, Look, LookAgain, Reinsert, Translate
      <4> QED
        BY <4>1, <4>2 DEF Next, Begin, LookupFails, Kill, Start, Nuke, Die
    <3> QED
      BY <1>0, <2>1, <3>1, <3>2 DEF Lookup, Got
  <2>2. CASE Nuke
    BY <2>2 DEF Nuke
  <2>3. cached' = cached \/ cached' = Cache(table) \/ Nuke
    <3>1. Proceed => cached' = cached \/ cached' = Cache(table)
      BY DEF Proceed, Lookup, ConvertAll, Clear, Deploy, AllExited, OneFailed, Collect, Combined, Import
    <3>2. (\E w \in Workers : Work(w)) => cached' = cached \/ cached' = Cache(table)
      BY DEF Work, Boot, Look, LookAgain, Reinsert, Translate
    <3> QED
      BY <3>1, <3>2 DEF Next, Begin, LookupFails, Kill, Start, Die
  <2> QED
    BY <2>1, <2>2, <2>3
<1>2. SUFFICES ASSUME pc' = "waiting", NEW w \in MyWorkers'
               PROVE  /\ wpc'[w] \in {"boot", "look", "load", "exited", "failed"}
                      /\ wpc'[w] \in {"boot", "look", "load"} => store'[InKey(w)] # None
                      /\ wpc'[w] = "load" => wcache'[w] # None
  BY <1>1
<1>3. pc \in {"deploy", "waiting"} /\ UNCHANGED <<queue, table, job>>
  <2>1. Proceed => pc \in {"deploy", "waiting"}
    BY <1>2 DEF Proceed, Lookup, ConvertAll, Clear, Deploy, AllExited, OneFailed, Collect, Combined, Import
  <2>2. (\E v \in Workers : Work(v)) => pc' = pc
    BY DEF Work, Boot, Look, LookAgain, Reinsert, Translate
  <2>3. pc \in {"deploy", "waiting"}
    BY <1>2, <2>1, <2>2 DEF Next, Begin, LookupFails, Kill, Start, Nuke, Die
  <2> QED
    BY <1>2, <2>3, QueueStands DEF IInv
<1>4. w \in MyWorkers /\ w \in Workers /\ w[1] = job /\ InKey(w) \in Keys
  BY <1>c, <1>3, WorkersType DEF MyWorkers
<1>5. CASE Deploy
  <2>1. queue \in Seq(Accounts) /\ D \in Nat \ {0} /\ Len(queue) \in Nat
    <3>1. queue \in Batches /\ config.threads # 0 /\ config.threads \in Nat
      BY <1>3, ConstantsAssumption DEF IInv, Shape, Threaded, TypeOK, Configs
    <3> QED
      BY <3>1, QueueType, DivisorType DEF D
  <2>2. w[2] \in Nat /\ w[2] < Len(queue)
    BY <1>4, <2>1 DEF MyWorkers, SliceStarts
  <2>3. store'[InKey(w)] # None
    <3>1. store'[InKey(w)] = Slice(queue, w[2], D)
      BY <1>4, <1>5 DEF Deploy, InKey, D
    <3> QED
      BY <2>1, <2>2, <3>1, SlicePlaces
  <2> QED
    BY <1>4, <1>5, <2>3 DEF Deploy
<1>6. CASE pc = "waiting"
  <2>0. /\ wpc[w] \in {"boot", "look", "load", "exited", "failed"}
        /\ wpc[w] \in {"boot", "look", "load"} => store[InKey(w)] # None
        /\ wpc[w] = "load" => wcache[w] # None
        /\ cached # None
    BY <1>4, <1>6 DEF Supplied
  <2>1. CASE UNCHANGED <<workers, store>>
    BY <2>0, <2>1
  <2>2. ASSUME NEW v \in Workers \ {w}, Work(v) \/ Die(v)
        PROVE  wpc'[w] = wpc[w] /\ wcache'[w] = wcache[w] /\ store'[InKey(w)] = store[InKey(w)]
    <3>1. wpc'[w] = wpc[w] /\ wcache'[w] = wcache[w]
      BY <1>4, <2>2 DEF Work, Die, Boot, Look, LookAgain, Reinsert, Translate, WStep, IInv, TypeOK
    <3>2. InKey(w) \notin {InKey(v), OutKey(v)}
      BY <2>2 DEF InKey, OutKey
    <3>3. store'[InKey(w)] = store[InKey(w)]
      BY <1>4, <2>2, <3>2 DEF Work, Die, Boot, Look, LookAgain, Reinsert, Translate, IInv, TypeOK
    <3> QED
      BY <3>1, <3>3
  <2>3. CASE Boot(w) \/ Look(w) \/ Die(w)
    BY <1>4, <2>0, <2>3 DEF Boot, Look, Die, WStep, Got, IInv, TypeOK
  <2>4. CASE Translate(w)
    <3>1. Got(store[InKey(w)]) = {store[InKey(w)]} /\ wpc[w] = "load"
      BY <2>4 DEF Got, Translate, WStep
    <3>0. Written = {TRUE}
      BY DEF Written
    <3>2. wpc'[w] = "exited"
      BY <1>4, <2>0, <2>4, <3>0, <3>1 DEF Translate, WStep, IInv, TypeOK
    <3> QED
      BY <3>2
  <2>5. ~LookAgain(w) /\ ~Reinsert(w)
    BY <2>0 DEF LookAgain, Reinsert, WStep
  <2>6. Proceed => UNCHANGED <<workers, store>>
    BY <1>2, <1>6 DEF Proceed, Lookup, ConvertAll, Clear, Deploy, AllExited, OneFailed, Collect, Combined, Import
  <2> QED
    BY <1>2, <1>4, <1>6, <2>0, <2>1, <2>2, <2>3, <2>4, <2>5, <2>6
       DEF Next, Begin, LookupFails, Kill, Start, Nuke, Work
<1>7. CASE pc = "deploy" /\ ~Deploy
  <2>1. ~Proceed
    BY <1>2, <1>7 DEF Proceed, Lookup, ConvertAll, Clear, AllExited, OneFailed, Collect, Combined, Import
  <2>2. (\E v \in Workers : Work(v)) => pc' = pc
    BY DEF Work, Boot, Look, LookAgain, Reinsert, Translate
  <2> QED
    BY <1>2, <1>7, <2>1, <2>2 DEF Next, Begin, LookupFails, Kill, Start, Nuke, Die
<1> QED
  BY <1>3, <1>5, <1>6, <1>7

\* While redis keeps what it is given and files can be written, Promise.all (convertBatch.js:85) never waits for a
\* worker that has lost its cache (convertChild.js:72) or its slice.
THEOREM NobodyHangs == Spec => []NoHang
<1>1. Init => Supplied
  BY DEF Init, Supplied
<1>2. Supplied => NoHang
  BY DEF Supplied, NoHang
<1> QED
  BY <1>1, <1>2, IInvHolds, SuppliedStep, PTL DEF Spec
=============================================================================
