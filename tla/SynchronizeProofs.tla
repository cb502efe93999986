-------------------------- MODULE SynchronizeProofs --------------------------
(***************************************************************************)
(* Theorems about the synchronization cycle, for every value of the        *)
(* constants.  Each rests on an inductive invariant that says what the     *)
(* local variables mean at each point of the cycle.                        *)
(***************************************************************************)
EXTENDS Synchronize, TLAPS

\* Where the loop of extractBatch stands: it never goes past the confirmed top,
\* and it only runs from a sync point that was really read.
CursorOK ==
  /\ height <= tip
  /\ pc = "extracting" => cursor < Top(height)
  /\ pc \in {"committing", "polling"} => cursor <= Top(height)
  /\ pc \in {"extracting", "committing", "polling", "lastCommit"} => cursor \in Nat

TypeInv == TypeOK /\ CursorOK

LEMMA TypeInit == Init => TypeInv
PROOF BY ConstantsAssumption, SMTT(60)
      DEF Init, TypeInv, TypeOK, FlagsOK, CursorOK, Blocks, Undefined, NoImport, Import, Entry, Top

LEMMA NoImportType == NoImport \in Import
PROOF BY DEF NoImport, Import, Undefined

LEMMA RowsType ==
  ASSUME NEW p \in Import, p.base # Undefined
  PROVE  /\ \A r \in RowsOf(p) : r.id \in Nat /\ r.block \in Blocks /\ r.fork \in Nat
         /\ InsertId(p) \in Nat
<1>1. p.txs \in Seq(Entry) /\ p.base \in Nat /\ Len(p.txs) \in Nat
  BY DEF Import
<1>2. ASSUME NEW i \in DOMAIN p.txs
      PROVE  p.base + i - 1 \in Nat /\ p.txs[i].block \in Blocks /\ p.txs[i].fork \in Nat
  <2>1. i \in 1..Len(p.txs) /\ p.txs[i] \in Entry
    BY <1>1
  <2> QED
    BY <1>1, <2>1 DEF Entry
<1> QED
  BY <1>1, <1>2 DEF RowsOf, InsertId

LEMMA AppendType == ASSUME NEW S, NEW q \in Seq(S), NEW e \in S
                    PROVE  Append(q, e) \in Seq(S)
PROOF OBVIOUS

LEMMA LaunchType ==
  ASSUME txQueue \in Seq(Entry), psql \in Import,
         NEW id \in Nat \cup {Undefined}, Launch(id)
  PROVE  psql' \in Import /\ pc' \in {"finalizing", "importing"}
PROOF BY DEF Launch, Import

\* Queries on a Boolean row leave a Boolean in it.
LEMMA FlagsStep == FlagsOK /\ [Next]_vars => FlagsOK'
<1> SUFFICES ASSUME FlagsOK, [Next]_vars PROVE FlagsOK'
  OBVIOUS
<1>1. CASE UNCHANGED <<working, pause>>
  BY <1>1 DEF FlagsOK
<1>2. CASE working' \in BOOLEAN /\ pause' \in BOOLEAN
  BY <1>2 DEF FlagsOK
<1> QED
  BY <1>1, <1>2, ZenonT(60) DEF FlagsOK, Next, Cycle, Imports, Grow, Reorg, Pause, NewBlock, CheckPause, Plan,
     ExtractBlock, Deliver, Commit, PollPause, LastCommit, StoreScanMark, Convert,
     ReadTransactionId, InitTransactionId, PsqlCommits, PsqlFails, OrphanCommits,
     OrphanFails, FinalizeRead, Publish, PublishAs, CleanupSync, LastPause,
     Close, ExitOnError, PowerFail, Kill, Start, Store, vars

LEMMA TypeStep == TypeInv /\ [Next]_vars => TypeInv'
<1> SUFFICES ASSUME TypeInv, [Next]_vars PROVE TypeInv'
  OBVIOUS
<1> FlagsOK'
  BY FlagsStep DEF TypeInv, TypeOK
<1> USE ConstantsAssumption DEF TypeInv, TypeOK, CursorOK, Blocks, Undefined, Entry
<1>1. CASE Grow
  BY <1>1 DEF Grow, Top, marks, archive, locals, children
<1>2. ASSUME NEW d \in 1..MaxReorg, Reorg(d) PROVE TypeInv'
  BY <1>2 DEF Reorg, Fault, Top, marks, archive, locals, children
<1>3. CASE Pause
  BY <1>3 DEF Pause, Fault, Top, node, marks, archive, locals, children
<1>4. ASSUME NEW n \in 1..tip, NewBlock(n) PROVE TypeInv'
  BY <1>4 DEF NewBlock, Query, Fault, Store, node, marks, archive, children
<1>5. CASE CheckPause
  BY <1>5 DEF CheckPause, Query, Fault, Leave, node, marks, archive, locals, children
<1>6. CASE Plan
  BY <1>6, SMTT(60) DEF Plan, Query, Fault, Leave, Top, node, marks, archive, children
<1>7. CASE ExtractBlock
  <2> DEFINE b == cursor + 1
  <2>1. b \in Blocks /\ b <= Top(height)
    BY <1>7 DEF ExtractBlock, Top
  <2>2. routed' \subseteq Blocks /\ used' \in 0..MaxFaults
    <3>1. routed' = routed \/ routed' = routed \cup {b}
      BY <1>7 DEF ExtractBlock, Deliver
    <3>2. used' = used \/ Fault("trace")
      BY <1>7 DEF ExtractBlock
    <3>3. used' \in 0..MaxFaults
      BY <3>2 DEF Fault
    <3>4. routed' \subseteq Blocks
      BY <2>1, <3>1
    <3> QED
      BY <3>3, <3>4
  <2>3. [block |-> b, fork |-> fork[b]] \in Entry
    BY <2>1
  <2>4. txQueue' = txQueue \/ txQueue' = Append(txQueue, [block |-> b, fork |-> fork[b]])
    BY <1>7 DEF ExtractBlock, Deliver
  <2>5. txQueue' \in Seq(Entry)
    <3> HIDE DEF Entry
    <3> QED
      BY <2>3, <2>4, AppendType, SMTT(30)
  <2> QED
    BY <1>7, <2>1, <2>2, <2>5, SMTT(60) DEF ExtractBlock, Top, node, marks, children
<1>8. CASE Commit
  BY <1>8, SMTT(30) DEF Commit, StoreScanMark, Query, Fault, Store, Top, node, archive, locals, children
<1>9. CASE PollPause
  BY <1>9 DEF PollPause, Query, Fault, Top, node, marks, archive, locals, children
<1>10. CASE LastCommit
  BY <1>10 DEF LastCommit, StoreScanMark, Query, Fault, Store, node, archive, locals, children
<1>11. CASE Convert
  BY <1>11 DEF Convert, node, marks, archive, locals, children
<1>12. CASE ReadTransactionId
  <2>1. psql' \in Import /\ pc' \in {"finalizing", "importing", "initId"}
    BY <1>12, LaunchType DEF ReadTransactionId
  <2> QED
    BY <1>12, <2>1, SMTT(30) DEF ReadTransactionId, Query, Fault, node, marks, archive, locals
<1>13. CASE InitTransactionId
  <2>1. psql' \in Import /\ pc' \in {"finalizing", "importing"}
    BY <1>13, LaunchType DEF InitTransactionId
  <2> QED
    BY <1>13, <2>1, SMTT(30) DEF InitTransactionId, Query, Fault, Store, node, archive, locals
<1>14. CASE PsqlCommits
  <2>1. /\ \A r \in rows' : r.id \in Nat /\ r.block \in Blocks /\ r.fork \in Nat
        /\ transactionId' \in Nat
    BY <1>14, RowsType DEF PsqlCommits
  <2> QED
    BY <1>14, <2>1, NoImportType, SMTT(30) DEF PsqlCommits, Fault, Leave, node, locals
<1>15. CASE PsqlFails
  BY <1>15, NoImportType DEF PsqlFails, Fault, Leave, node, marks, archive, locals
<1>16. CASE OrphanCommits
  <2>1. /\ \A r \in rows' : r.id \in Nat /\ r.block \in Blocks /\ r.fork \in Nat
        /\ transactionId' \in Nat
    BY <1>16, RowsType DEF OrphanCommits
  <2> QED
    BY <1>16, <2>1, NoImportType DEF OrphanCommits, Top, node, locals
<1>17. CASE OrphanFails
  BY <1>17, NoImportType DEF OrphanFails, Fault, Top, node, marks, archive, locals
<1>18. CASE FinalizeRead
  BY <1>18 DEF FinalizeRead, Query, Fault, node, marks, archive, children
<1>19. CASE Publish
  BY <1>19 DEF Publish, PublishAs, Query, Fault, Store, Leave, node, archive, locals, children
<1>20. CASE CleanupSync
  BY <1>20, SMTT(30) DEF CleanupSync, Query, Fault, Store, node, marks, archive, locals, children
<1>21. CASE LastPause
  BY <1>21 DEF LastPause, Query, Fault, node, marks, archive, locals, children
<1>22. CASE Close
  BY <1>22 DEF Close, Query, Fault, Store, node, marks, archive, locals, children
<1>23. CASE ExitOnError
  BY <1>23 DEF ExitOnError, Fault, node, marks, archive, locals, children
<1>24. CASE PowerFail
  BY <1>24, NoImportType DEF PowerFail, Fault, node, marks, archive, locals
<1>25. CASE Kill
  BY <1>25, NoImportType DEF Kill, Fault, node, marks, archive, locals
<1>26. CASE Start
  BY <1>26 DEF Start, node, marks, archive, children
<1>27. CASE UNCHANGED vars
  BY <1>27 DEF vars, Top, node, marks, archive, locals, children
<1> QED
  BY <1>1, <1>2, <1>3, <1>4, <1>5, <1>6, <1>7, <1>8, <1>9, <1>10, <1>11, <1>12,
     <1>13, <1>14, <1>15, <1>16, <1>17, <1>18, <1>19, <1>20, <1>21, <1>22, <1>23,
     <1>24, <1>25, <1>26, <1>27 DEF Next, Cycle, Imports

\* Every variable keeps its type, whichever faults happen: no read that failed
\* leaks an undefined or a NaN into the sync point or the id counter.
THEOREM TypeCorrect == Spec => []TypeOK
<1>1. TypeInv => TypeOK
  BY DEF TypeInv
<1> QED
  BY <1>1, TypeInit, TypeStep, PTL DEF Spec

-----------------------------------------------------------------------------
(* Canonical: whatever waits to be indexed is confirmed already. *)

Confirmed(e) == e.block <= tip - Confirmations /\ e.fork = fork[e.block]

AllConfirmed(q) == \A i \in DOMAIN q : Confirmed(q[i])

CanonInv ==
  /\ AllConfirmed(txQueue) /\ AllConfirmed(psql.txs) /\ AllConfirmed(orphan.txs)
  /\ \A r \in rows : Confirmed(r)

LEMMA CanonInit == Init => CanonInv
PROOF BY DEF Init, CanonInv, AllConfirmed, NoImport

\* The INSERT carries over what is known of the queue.
LEMMA RowsConfirmed ==
  ASSUME NEW p \in Import, AllConfirmed(p.txs)
  PROVE  \A r \in RowsOf(p) : Confirmed(r)
PROOF BY DEF RowsOf, AllConfirmed, Confirmed

\* A confirmed transaction stays so while the chain grows and reorganizes.
LEMMA StaysConfirmed ==
  ASSUME TypeInv, NEW e, e.block \in Blocks, Confirmed(e),
         Grow \/ \E d \in 1..MaxReorg : Reorg(d)
  PROVE  Confirmed(e)'
<1> USE ConstantsAssumption DEF TypeInv, TypeOK, Blocks, Confirmed
<1>1. CASE Grow
  BY <1>1 DEF Grow
<1>2. ASSUME NEW d \in 1..MaxReorg, Reorg(d) PROVE Confirmed(e)'
  <2>1. ~(e.block > tip - d)
    BY <1>2
  <2> QED
    BY <1>2, <2>1 DEF Reorg
<1> QED
  BY <1>1, <1>2

LEMMA EntriesTyped ==
  ASSUME NEW q \in Seq(Entry), NEW i \in DOMAIN q
  PROVE  q[i].block \in Blocks
<1>1. q[i] \in Entry
  OBVIOUS
<1> QED
  BY <1>1 DEF Entry

LEMMA CanonStep == TypeInv /\ CanonInv /\ [Next]_vars => CanonInv'
<1> SUFFICES ASSUME TypeInv, CanonInv, [Next]_vars PROVE CanonInv'
  OBVIOUS
<1> USE DEF CanonInv, AllConfirmed
<1>1. CASE UNCHANGED <<node, rows, txQueue, children>>
  BY <1>1 DEF Confirmed, node, children
<1>2. CASE Grow \/ \E d \in 1..MaxReorg : Reorg(d)
  <2>1. UNCHANGED <<rows, txQueue, psql, orphan>>
    BY <1>2 DEF Grow, Reorg, archive, locals, children
  <2>2. \A r \in rows : Confirmed(r)'
    BY <1>2, StaysConfirmed DEF TypeInv, TypeOK
  <2>3. ASSUME NEW q \in {txQueue, psql.txs, orphan.txs}, NEW i \in DOMAIN q
        PROVE  Confirmed(q[i])'
    <3>1. q \in Seq(Entry) /\ Confirmed(q[i])
      BY DEF TypeInv, TypeOK, Import
    <3> QED
      BY <1>2, <3>1, EntriesTyped, StaysConfirmed
  <2> QED
    BY <2>1, <2>2, <2>3
<1>3. CASE Plan
  BY <1>3 DEF Plan, Confirmed, node, archive, children
<1>4. CASE ExtractBlock
  <2> DEFINE e == [block |-> cursor + 1, fork |-> fork[cursor + 1]]
  <2>1. Confirmed(e)
    BY <1>4, ConstantsAssumption DEF ExtractBlock, TypeInv, TypeOK, CursorOK, Top, Confirmed, Blocks
  <2>2. txQueue' = txQueue \/ txQueue' = Append(txQueue, e)
    BY <1>4 DEF ExtractBlock, Deliver
  <2>3. txQueue \in Seq(Entry) /\ e \in Entry
    BY <1>4, ConstantsAssumption DEF ExtractBlock, TypeInv, TypeOK, CursorOK, Top, Entry, Blocks
  <2>4. \A i \in DOMAIN txQueue' : Confirmed(txQueue'[i])
    BY <2>1, <2>2, <2>3
  <2> QED
    BY <1>4, <2>4 DEF ExtractBlock, Confirmed, node, children
<1>5. CASE ReadTransactionId \/ InitTransactionId
  <2>1. psql' = psql \/ psql'.txs = txQueue
    BY <1>5 DEF ReadTransactionId, InitTransactionId, Launch
  <2> QED
    BY <1>5, <2>1 DEF ReadTransactionId, InitTransactionId, Confirmed, node, archive, locals
<1>6. CASE PsqlCommits
  BY <1>6, RowsConfirmed DEF PsqlCommits, NoImport, Confirmed, TypeInv, TypeOK, node, locals
<1>7. CASE OrphanCommits
  BY <1>7, RowsConfirmed DEF OrphanCommits, NoImport, Confirmed, TypeInv, TypeOK, node, locals
<1>8. CASE PsqlFails \/ OrphanFails \/ PowerFail \/ Kill
  BY <1>8 DEF PsqlFails, OrphanFails, PowerFail, Kill, NoImport, Confirmed, node, archive, locals
<1>9. CASE Start
  BY <1>9 DEF Start, Confirmed, node, archive, children
<1> QED
  BY <1>1, <1>2, <1>3, <1>4, <1>5, <1>6, <1>7, <1>8, <1>9
     DEF Next, Cycle, Imports, Pause, NewBlock, CheckPause, Commit, PollPause, LastCommit,
         StoreScanMark, Convert, FinalizeRead, Publish, PublishAs, CleanupSync,
         LastPause, Close, ExitOnError, vars, archive, locals

\* No reorganization within MaxReorg ever reaches an indexed transaction, under
\* any faults: the queue, a running psql and an orphan hold confirmed blocks only.
THEOREM AlwaysCanonical == Spec => []Canonical
<1>1. CanonInv => Canonical
  BY DEF CanonInv, Canonical, Confirmed
<1> QED
  BY <1>1, TypeInit, TypeStep, CanonInit, CanonStep, PTL DEF Spec

-----------------------------------------------------------------------------
(* UniqueIds: the counter is at or above every id in the table, and the file *)
(* psql runs starts right above it.                                          *)

IdInv ==
  /\ orphan = NoImport
  /\ \A r \in rows : r.id <= transactionId
  /\ pc = "initId" => transactionId = Undefined
  /\ pc = "importing" => transactionId \in Nat /\ psql.base = transactionId + 1
  /\ UniqueIds

\* No query fails and no parent of a psql dies before it: without either, ids
\* are unique (the run SynchronizeIdReset shows one with a failed query).
NoIdFault == Faults \cap {"query", "kill"} = {}

LEMMA IdInit == Init => IdInv
PROOF BY DEF Init, IdInv, UniqueIds, NoImport

\* The ids of one file are distinct, and lie between its base and its insertId.
LEMMA RowIds ==
  ASSUME NEW p \in Import, p.base # Undefined
  PROVE  /\ \A r \in RowsOf(p) : p.base <= r.id /\ r.id <= InsertId(p)
         /\ \A r, s \in RowsOf(p) : r.id = s.id => r = s
<1>1. p.base \in Nat /\ Len(p.txs) \in Nat /\ DOMAIN p.txs = 1..Len(p.txs)
  BY DEF Import
<1> QED
  BY <1>1, SMTT(30) DEF RowsOf, InsertId

LEMMA IdStep == ASSUME NoIdFault PROVE TypeInv /\ IdInv /\ [Next]_vars => IdInv'
<1> SUFFICES ASSUME TypeInv, IdInv, [Next]_vars PROVE IdInv'
  OBVIOUS
<1>0. ~Fault("query") /\ ~Fault("kill")
  BY DEF NoIdFault, Fault
<1>1. CASE UNCHANGED <<rows, transactionId, orphan>> /\ pc' \notin {"initId", "importing"}
  BY <1>1 DEF IdInv, UniqueIds
<1>2. CASE UNCHANGED <<rows, transactionId, children, pc>>
  BY <1>2 DEF IdInv, UniqueIds, children
<1>3. CASE ReadTransactionId
  <2>1. UNCHANGED <<rows, transactionId, orphan>>
    BY <1>3 DEF ReadTransactionId, marks, archive
  <2>2. \/ transactionId # Undefined /\ Launch(transactionId + 1)
        \/ transactionId = Undefined /\ pc' = "initId"
    BY <1>0, <1>3 DEF ReadTransactionId, Query
  <2> QED
    BY <2>1, <2>2 DEF Launch, IdInv, UniqueIds, TypeInv, TypeOK, Undefined
<1>4. CASE InitTransactionId
  <2>1. transactionId = Undefined /\ transactionId' = 0 /\ Launch(1)
    BY <1>0, <1>4 DEF InitTransactionId, Query, Store, IdInv
  <2>2. UNCHANGED <<rows, orphan>>
    BY <1>4 DEF InitTransactionId, archive
  <2>3. \A r \in rows : FALSE
    BY <2>1 DEF IdInv, TypeInv, TypeOK, Undefined
  <2> QED
    BY <2>1, <2>2, <2>3 DEF Launch, IdInv, UniqueIds
<1>5. CASE PsqlCommits
  <2>1. /\ psql \in Import /\ psql.base = transactionId + 1
        /\ transactionId \in Nat /\ InsertId(psql) \in Nat
        /\ \A r \in rows : r.id \in Nat /\ r.id <= transactionId
        /\ \A r \in RowsOf(psql) : r.id \in Nat
    BY <1>5, RowsType DEF PsqlCommits, IdInv, TypeInv, TypeOK
  <2>2. /\ \A r \in RowsOf(psql) : transactionId + 1 <= r.id /\ r.id <= InsertId(psql)
        /\ \A r, s \in RowsOf(psql) : r.id = s.id => r = s
    BY <2>1, <1>5, RowIds DEF PsqlCommits
  <2>3. transactionId <= InsertId(psql)
    BY <2>1 DEF InsertId, Import
  <2>4. /\ rows' = rows \cup RowsOf(psql) /\ transactionId' = InsertId(psql)
        /\ orphan' = orphan /\ pc' \in {"finalizing", "leaving"}
    BY <1>5 DEF PsqlCommits, Leave
  <2>5. \A r \in rows' : r.id <= transactionId'
    BY <2>1, <2>2, <2>3, <2>4
  <2>6. UniqueIds'
    BY <2>1, <2>2, <2>4 DEF IdInv, UniqueIds
  <2> QED
    BY <2>4, <2>5, <2>6 DEF IdInv
<1>6. CASE OrphanCommits \/ OrphanFails \/ Kill
  BY <1>0, <1>6 DEF OrphanCommits, OrphanFails, Kill, IdInv
<1>7. CASE PowerFail
  BY <1>7 DEF PowerFail, IdInv, UniqueIds, marks, archive
<1> QED
  BY <1>1, <1>2, <1>3, <1>4, <1>5, <1>6, <1>7
     DEF Next, Cycle, Imports, Grow, Reorg, Pause, NewBlock, CheckPause, Plan, ExtractBlock,
         Commit, PollPause, LastCommit, StoreScanMark, Convert, PsqlFails,
         FinalizeRead, Publish, PublishAs, CleanupSync, LastPause, Close,
         ExitOnError, Start, Leave, vars, marks, archive, children

\* topic.parent names one transaction, over any power failures, psql failures
\* and misreported commits: the id counter is stored by the transaction that
\* uses it, so that both survive or neither does.
THEOREM IdsAreUnique == ASSUME NoIdFault PROVE Spec => []UniqueIds
<1>1. IdInv => UniqueIds
  BY DEF IdInv
<1> QED
  BY <1>1, TypeInit, TypeStep, IdInit, IdStep, PTL DEF Spec

-----------------------------------------------------------------------------
(* SyncedIndexed: what the locals say about the blocks past the sync point.  *)

Indexed(b) == \E r \in rows : r.block = b

Queued(b) == \E i \in DOMAIN txQueue : txQueue[i].block = b

BeforeImport == {"extracting", "committing", "polling", "lastCommit",
                 "converting", "numbering", "initId", "importing"}

Scanned == {"polling", "converting", "numbering", "initId", "importing", "finalizing"}

IndexInv ==
  /\ SyncedIndexed
  /\ pc \in BeforeImport =>
       /\ syncPoint = blockSync
       /\ \A b \in syncPoint + 1 .. cursor : HasTx(b) => Queued(b)
  /\ pc = "importing" => psql.txs = txQueue
  /\ pc \in Scanned => lastScanned = cursor
  /\ pc = "publishing" => scanned = cursor
  /\ pc \in {"finalizing", "publishing"} =>
       \A b \in blockSync + 1 .. cursor : HasTx(b) => Indexed(b)

\* In sync mode, as long as queries answer and every block can be traced.
NoLoss == Mode = "sync" /\ Faults \cap {"query", "trace"} = {}

LEMMA IndexInit == Init => IndexInv
PROOF BY ConstantsAssumption DEF Init, IndexInv, SyncedIndexed, BeforeImport, Scanned, Undefined

\* Importing a queue indexes every block that is queued.
LEMMA QueuedIsImported ==
  ASSUME NEW b, Queued(b), psql.txs = txQueue
  PROVE  \E r \in RowsOf(psql) : r.block = b
<1>1. PICK i \in DOMAIN psql.txs : psql.txs[i].block = b
  BY DEF Queued
<1> DEFINE r == [id |-> psql.base + i - 1, block |-> psql.txs[i].block, fork |-> psql.txs[i].fork]
<1>2. r \in RowsOf(psql) /\ r.block = b
  BY <1>1 DEF RowsOf
<1> QED
  BY <1>2

LEMMA IndexStep == ASSUME NoLoss PROVE TypeInv /\ IndexInv /\ [Next]_vars => IndexInv'
<1> SUFFICES ASSUME TypeInv, IndexInv, [Next]_vars PROVE IndexInv'
  OBVIOUS
<1>0. ~Fault("query") /\ ~Fault("trace") /\ Mode = "sync"
  BY DEF NoLoss, Fault
<1> USE DEF IndexInv, BeforeImport, Scanned
<1>1. CASE UNCHANGED <<blockSync, rows, lastScanned>> /\ pc' \notin BeforeImport \cup {"finalizing", "publishing"}
  BY <1>1 DEF SyncedIndexed
<1>2. CASE UNCHANGED <<marks, archive, pc, locals, psql>>
  BY <1>2 DEF SyncedIndexed, Queued, Indexed, marks, archive, locals
<1>3. CASE Plan
  BY <1>0, <1>3 DEF Plan, Query, Leave, SyncedIndexed, marks, archive, TypeInv, TypeOK
<1>4. CASE ExtractBlock
  <2> DEFINE e == [block |-> cursor + 1, fork |-> fork[cursor + 1]]
  <2>1. /\ cursor' = cursor + 1 /\ syncPoint' = syncPoint /\ syncPoint = blockSync
        /\ pc = "extracting" /\ pc' \in {"committing", "lastCommit", "extracting"}
        /\ UNCHANGED <<blockSync, rows>>
    BY <1>4 DEF ExtractBlock, marks
  <2>2. IF HasTx(cursor + 1) THEN txQueue' = Append(txQueue, e) ELSE txQueue' = txQueue
    BY <1>0, <1>4 DEF ExtractBlock, Deliver
  <2>3. txQueue \in Seq(Entry) /\ cursor \in Int /\ syncPoint \in Int
    BY DEF TypeInv, TypeOK
  <2>4. ASSUME NEW b \in syncPoint + 1 .. cursor + 1, HasTx(b) PROVE Queued(b)'
    <3>1. CASE b = cursor + 1
      <4>1. txQueue' = Append(txQueue, e)
        BY <2>2, <2>4, <3>1
      <4>2. Len(txQueue) + 1 \in DOMAIN txQueue' /\ txQueue'[Len(txQueue) + 1] = e
        BY <2>3, <4>1
      <4> QED
        BY <3>1, <4>2 DEF Queued
    <3>2. CASE b \in syncPoint + 1 .. cursor
      <4>1. PICK i \in DOMAIN txQueue : txQueue[i].block = b
        BY <2>1, <2>4, <3>2 DEF Queued
      <4>2. i \in DOMAIN txQueue' /\ txQueue'[i] = txQueue[i]
        BY <2>2, <2>3, <4>1
      <4> QED
        BY <4>1, <4>2 DEF Queued
    <3> QED
      BY <2>3, <3>1, <3>2
  <2> QED
    BY <2>1, <2>4 DEF SyncedIndexed
<1>5. CASE Commit \/ LastCommit
  BY <1>0, <1>5 DEF Commit, LastCommit, StoreScanMark, Query, Store, SyncedIndexed,
                    Queued, archive, locals, children
<1>6. CASE PollPause \/ Convert
  BY <1>0, <1>6 DEF PollPause, Convert, SyncedIndexed, Queued, marks, archive, locals, children
<1>7. CASE ReadTransactionId \/ InitTransactionId
  <2>1. /\ UNCHANGED <<blockSync, lastScanned, rows, locals>> /\ pc \in {"numbering", "initId"}
        /\ \/ pc' = "finalizing" /\ txQueue = <<>>
           \/ pc' = "importing" /\ psql'.txs = txQueue
           \/ pc' = "initId"
    BY <1>7 DEF ReadTransactionId, InitTransactionId, Launch, marks, archive
  <2>2. txQueue = <<>> => \A b \in syncPoint + 1 .. cursor : ~HasTx(b)
    BY <2>1 DEF Queued
  <2> QED
    BY <2>1, <2>2 DEF SyncedIndexed, Queued, locals
<1>8. CASE PsqlCommits
  <2>1. /\ rows' = rows \cup RowsOf(psql) /\ UNCHANGED <<blockSync, lastScanned, locals>>
        /\ pc' \in {"finalizing", "leaving"} /\ pc = "importing"
    BY <1>8 DEF PsqlCommits, Leave
  <2>2. \A b \in blockSync + 1 .. cursor : HasTx(b) => \E r \in rows' : r.block = b
    BY <2>1, QueuedIsImported
  <2> QED
    BY <2>1, <2>2 DEF SyncedIndexed, Indexed, locals
<1>9. CASE OrphanCommits
  <2>1. rows \subseteq rows' /\ UNCHANGED <<blockSync, lastScanned, locals, pc, psql>>
    BY <1>9 DEF OrphanCommits
  <2> QED
    BY <2>1 DEF SyncedIndexed, Indexed, Queued, locals
<1>10. CASE FinalizeRead
  BY <1>0, <1>10 DEF FinalizeRead, Query, SyncedIndexed, Indexed, marks, archive
<1>11. CASE Publish
  <2>1. blockSync' = IF scanned = Undefined THEN 0 ELSE scanned
    BY <1>0, <1>11 DEF Publish, PublishAs, Query, Store
  <2>2. scanned = cursor /\ scanned \in Nat \cup {Undefined} /\ rows' = rows /\ pc' = "leaving"
        /\ \A b \in blockSync + 1 .. cursor : HasTx(b) => Indexed(b)
    BY <1>11 DEF Publish, PublishAs, Leave, archive, TypeInv, TypeOK
  <2>3. ASSUME NEW b \in FirstSync + 1 .. blockSync', HasTx(b) PROVE \E r \in rows : r.block = b
    BY <2>1, <2>2, <2>3, ConstantsAssumption DEF SyncedIndexed, Indexed, Undefined, TypeInv, TypeOK
  <2> QED
    BY <2>2, <2>3 DEF SyncedIndexed
<1> QED
  BY <1>1, <1>2, <1>3, <1>4, <1>5, <1>6, <1>7, <1>8, <1>9, <1>10, <1>11
     DEF Next, Cycle, Imports, Grow, Reorg, Pause, NewBlock, CheckPause, OrphanFails,
         PsqlFails, CleanupSync, LastPause, Close, ExitOnError, PowerFail, Kill,
         Start, Leave, vars, marks, archive, locals, children

\* The archive has no hole below the sync point, over any crashes, kills and
\* psql failures: the sync point moves only to the block up to which the queue
\* psql committed reaches.
THEOREM ArchiveHasNoHole == ASSUME NoLoss PROVE Spec => []SyncedIndexed
<1>1. IndexInv => SyncedIndexed
  BY DEF IndexInv
<1> QED
  BY <1>1, TypeInit, TypeStep, IndexInit, IndexStep, PTL DEF Spec

-----------------------------------------------------------------------------
(* SyncedRouted: like IndexInv, with notifications for rows, in either mode. *)

\* Every block from lo + 1 to hi that has a transaction has been routed.
RoutedRange(lo, hi) == \A b \in lo + 1 .. hi : HasTx(b) => b \in routed

RouteInv ==
  /\ SyncedRouted
  /\ pc \in BeforeImport => syncPoint = blockSync /\ RoutedRange(syncPoint, cursor)
  /\ pc \in Scanned => lastScanned = cursor
  /\ pc = "publishing" => scanned = cursor
  /\ pc \in {"finalizing", "publishing"} => RoutedRange(blockSync, cursor)

\* Queries answer and every block can be traced.
NoMiss == Faults \cap {"query", "trace"} = {}

LEMMA RouteInit == Init => RouteInv
PROOF BY ConstantsAssumption DEF Init, RouteInv, SyncedRouted, BeforeImport, Scanned, Undefined

LEMMA RouteStep == ASSUME NoMiss PROVE TypeInv /\ RouteInv /\ [Next]_vars => RouteInv'
<1> SUFFICES ASSUME TypeInv, RouteInv, [Next]_vars PROVE RouteInv'
  OBVIOUS
<1>0. ~Fault("query") /\ ~Fault("trace")
  BY DEF NoMiss, Fault
<1> USE DEF RouteInv, BeforeImport, Scanned
<1>1. CASE UNCHANGED <<blockSync, routed, lastScanned>> /\ pc' \notin BeforeImport \cup {"finalizing", "publishing"}
  BY <1>1 DEF SyncedRouted
<1>2. CASE UNCHANGED <<blockSync, routed, lastScanned, pc, locals>>
  BY <1>2 DEF SyncedRouted, RoutedRange, locals
<1>3. CASE Plan
  BY <1>0, <1>3 DEF Plan, Query, Leave, SyncedRouted, RoutedRange, marks, archive, TypeInv, TypeOK
<1>4. CASE ExtractBlock
  <2>1. /\ cursor' = cursor + 1 /\ syncPoint' = syncPoint /\ syncPoint = blockSync
        /\ pc = "extracting" /\ pc' \in {"committing", "lastCommit", "extracting"}
        /\ UNCHANGED blockSync
    BY <1>4 DEF ExtractBlock, marks
  <2>2. routed \subseteq routed' /\ (HasTx(cursor + 1) => cursor + 1 \in routed')
    BY <1>0, <1>4 DEF ExtractBlock, Deliver
  <2>3. cursor \in Int /\ syncPoint \in Int
    BY DEF TypeInv, TypeOK
  <2> QED
    BY <2>1, <2>2, <2>3 DEF SyncedRouted, RoutedRange
<1>5. CASE Commit \/ LastCommit
  BY <1>0, <1>5 DEF Commit, LastCommit, StoreScanMark, Query, Store, SyncedRouted,
                    RoutedRange, archive, locals
<1>6. CASE PollPause \/ Convert
  BY <1>0, <1>6 DEF PollPause, Convert, SyncedRouted, RoutedRange, marks, archive, locals
<1>7. CASE ReadTransactionId \/ InitTransactionId
  BY <1>7 DEF ReadTransactionId, InitTransactionId, Launch, SyncedRouted, RoutedRange, marks,
     archive, locals
<1>8. CASE PsqlCommits
  BY <1>8 DEF PsqlCommits, Leave, SyncedRouted, RoutedRange, locals
<1>9. CASE OrphanCommits
  BY <1>9, <1>2 DEF OrphanCommits
<1>10. CASE FinalizeRead
  BY <1>0, <1>10 DEF FinalizeRead, Query, SyncedRouted, RoutedRange, marks, archive
<1>11. CASE Publish
  <2>1. blockSync' = IF scanned = Undefined THEN 0 ELSE scanned
    BY <1>0, <1>11 DEF Publish, PublishAs, Query, Store
  <2>2. scanned = cursor /\ scanned \in Nat \cup {Undefined} /\ routed' = routed /\ pc' = "leaving"
        /\ RoutedRange(blockSync, cursor)
    BY <1>11 DEF Publish, PublishAs, Leave, archive, TypeInv, TypeOK
  <2>3. SyncedRouted'
    BY <2>1, <2>2, ConstantsAssumption DEF SyncedRouted, RoutedRange, Undefined, TypeInv, TypeOK
  <2> QED
    BY <2>2, <2>3
<1> QED
  BY <1>1, <1>2, <1>3, <1>4, <1>5, <1>6, <1>7, <1>8, <1>9, <1>10, <1>11
     DEF Next, Cycle, Imports, Grow, Reorg, Pause, NewBlock, CheckPause, OrphanFails,
         PsqlFails, CleanupSync, LastPause, Close, ExitOnError, PowerFail, Kill,
         Start, Leave, vars, marks, archive, locals, children

\* "Even through application downtime or restarts": in either mode, over any crashes,
\* kills and imports that fail, no subscriber misses a block below the sync point, for
\* a block is routed before anything about it is stored.
THEOREM NobodyMissesABlock == ASSUME NoMiss PROVE Spec => []SyncedRouted
<1>1. RouteInv => SyncedRouted
  BY DEF RouteInv
<1> QED
  BY <1>1, TypeInit, TypeStep, RouteInit, RouteStep, PTL DEF Spec

-----------------------------------------------------------------------------
(* IndexedOnce and IdsFollowBlocks: the batch lies past the sync point, the  *)
(* rows do not, and the batch is in the order of the chain.                  *)

\* The queue is in order, between the sync point and the cursor.
QueueInOrder ==
  /\ \A i \in DOMAIN txQueue : blockSync < txQueue[i].block /\ txQueue[i].block <= cursor
  /\ \A i, j \in DOMAIN txQueue : i < j => txQueue[i].block < txQueue[j].block

\* How far the archive reaches: the sync point, or where it is about to go.
Reach == IF pc \in {"finalizing", "publishing"} THEN cursor ELSE blockSync

ExactInv ==
  /\ IdInv
  /\ pc \in BeforeImport => syncPoint = blockSync /\ QueueInOrder
  /\ pc = "importing" => psql.txs = txQueue
  /\ pc \in Scanned => lastScanned = cursor
  /\ pc = "publishing" => scanned = cursor
  /\ pc \in BeforeImport \cup {"finalizing", "publishing"} => blockSync <= cursor
  /\ \A r \in rows : r.block <= Reach
  /\ IndexedOnce /\ IdsFollowBlocks

\* Nothing comes between a batch and its sync point.
NoSplit == Faults \cap {"query", "kill", "powerFail", "report"} = {}

LEMMA ExactInit == Init => ExactInv
PROOF BY IdInit DEF Init, ExactInv, BeforeImport, Scanned, IndexedOnce, IdsFollowBlocks, Reach

\* What psql commits, next to what is there.
LEMMA CommitOrder ==
  ASSUME TypeInv, ExactInv, pc = "importing", psql.base # Undefined,
         rows' = rows \cup RowsOf(psql)
  PROVE  /\ \A r \in rows' : r.block <= cursor
         /\ IndexedOnce' /\ IdsFollowBlocks'
<1>1. /\ psql \in Import /\ psql.txs = txQueue /\ psql.base = transactionId + 1
      /\ transactionId \in Nat /\ QueueInOrder /\ blockSync <= cursor
      /\ blockSync \in Nat /\ cursor \in Int /\ txQueue \in Seq(Entry)
  BY DEF ExactInv, IdInv, BeforeImport, TypeInv, TypeOK
<1>2. \A r \in rows : /\ r.id <= transactionId /\ r.block <= blockSync
                      /\ r.id \in Nat /\ r.block \in Nat
  BY DEF ExactInv, IdInv, Reach, TypeInv, TypeOK, Blocks
<1>3. ASSUME NEW r \in RowsOf(psql)
      PROVE  \E i \in DOMAIN txQueue : r.id = transactionId + i /\ r.block = txQueue[i].block
                                       /\ r = [id |-> psql.base + i - 1, block |-> txQueue[i].block,
                                               fork |-> txQueue[i].fork]
  BY <1>1 DEF RowsOf
<1>4. \A i \in DOMAIN txQueue : i \in Nat \ {0} /\ txQueue[i].block \in Nat
  <2>1. ASSUME NEW i \in DOMAIN txQueue PROVE i \in 1..Len(txQueue) /\ txQueue[i] \in Entry
    BY <1>1
  <2> QED
    BY <1>1, <2>1 DEF Entry, Blocks
<1>5. \A r \in RowsOf(psql) : transactionId < r.id /\ blockSync < r.block /\ r.block <= cursor
                              /\ r.id \in Nat /\ r.block \in Nat
  BY <1>1, <1>3, <1>4 DEF QueueInOrder
<1>6. ASSUME NEW r \in RowsOf(psql), NEW s \in RowsOf(psql)
      PROVE  (r.block = s.block => r = s) /\ (r.id < s.id => r.block < s.block)
  <2>1. PICK i \in DOMAIN txQueue : r.id = transactionId + i /\ r.block = txQueue[i].block
                                    /\ r = [id |-> psql.base + i - 1, block |-> txQueue[i].block,
                                            fork |-> txQueue[i].fork]
    BY <1>3
  <2>2. PICK j \in DOMAIN txQueue : s.id = transactionId + j /\ s.block = txQueue[j].block
                                    /\ s = [id |-> psql.base + j - 1, block |-> txQueue[j].block,
                                            fork |-> txQueue[j].fork]
    BY <1>3
  <2>3. txQueue[i].block = txQueue[j].block => i = j
    BY <1>1, <1>4 DEF QueueInOrder
  <2>4. r.block = s.block => r = s
    BY <2>1, <2>2, <2>3
  <2>5. r.id < s.id => i < j
    BY <1>1, <1>4, <2>1, <2>2
  <2> QED
    BY <1>1, <2>1, <2>2, <2>4, <2>5 DEF QueueInOrder
<1>7. IndexedOnce /\ IdsFollowBlocks
  BY DEF ExactInv
<1>8. \A r \in rows' : r.block <= cursor
  BY <1>1, <1>2, <1>5
<1>9. IndexedOnce'
  BY <1>1, <1>2, <1>5, <1>6, <1>7 DEF IndexedOnce
<1>10. IdsFollowBlocks'
  BY <1>1, <1>2, <1>5, <1>6, <1>7 DEF IdsFollowBlocks
<1> QED
  BY <1>8, <1>9, <1>10

LEMMA ExactStep == ASSUME NoSplit PROVE TypeInv /\ ExactInv /\ [Next]_vars => ExactInv'
<1> SUFFICES ASSUME TypeInv, ExactInv, [Next]_vars PROVE ExactInv'
  OBVIOUS
<1>0. ~Fault("query") /\ ~Fault("kill") /\ ~Fault("powerFail") /\ ~Fault("report")
  BY DEF NoSplit, Fault
<1>i. IdInv'
  BY IdStep DEF NoIdFault, NoSplit, ExactInv
<1> USE <1>i DEF ExactInv, BeforeImport, Scanned
<1>1. CASE /\ UNCHANGED <<blockSync, rows, lastScanned>>
           /\ pc \notin {"finalizing", "publishing"}
           /\ pc' \notin BeforeImport \cup {"finalizing", "publishing"}
  BY <1>1 DEF Reach, IndexedOnce, IdsFollowBlocks
<1>2. CASE UNCHANGED <<blockSync, lastScanned, rows, pc, locals, psql>>
  BY <1>2 DEF Reach, IndexedOnce, IdsFollowBlocks, QueueInOrder, locals
<1>3. CASE Plan
  <2>1. UNCHANGED <<blockSync, lastScanned, rows>> /\ pc = "planning" /\ txQueue' = <<>>
        /\ pc' \in {"leaving", "extracting"} /\ syncPoint' = blockSync /\ cursor' = syncPoint'
    BY <1>0, <1>3 DEF Plan, Query, Leave, marks, archive
  <2> QED
    BY <2>1 DEF Reach, IndexedOnce, IdsFollowBlocks, QueueInOrder, TypeInv, TypeOK
<1>4. CASE ExtractBlock
  <2> DEFINE e == [block |-> cursor + 1, fork |-> fork[cursor + 1]]
  <2>1. /\ cursor' = cursor + 1 /\ syncPoint' = syncPoint /\ syncPoint = blockSync
        /\ pc = "extracting" /\ pc' \in {"committing", "lastCommit", "extracting"}
        /\ UNCHANGED <<blockSync, lastScanned, rows>>
    BY <1>4 DEF ExtractBlock, marks
  <2>2. txQueue' = Append(txQueue, e) \/ txQueue' = txQueue
    BY <1>4 DEF ExtractBlock, Deliver
  <2>3. txQueue \in Seq(Entry) /\ cursor \in Int /\ blockSync \in Nat /\ blockSync <= cursor
    BY <2>1 DEF TypeInv, TypeOK
  <2>4. ASSUME NEW i \in DOMAIN txQueue
        PROVE  i \in 1..Len(txQueue) /\ txQueue[i].block \in Nat
    <3>1. i \in 1..Len(txQueue) /\ txQueue[i] \in Entry
      BY <2>3
    <3> QED
      BY <3>1 DEF Entry, Blocks
  <2>5. QueueInOrder /\ Len(txQueue) \in Nat
    BY <2>1, <2>3
  <2>6. QueueInOrder'
    <3>1. CASE txQueue' = txQueue
      BY <2>1, <2>3, <2>4, <2>5, <3>1 DEF QueueInOrder
    <3>2. CASE txQueue' = Append(txQueue, e)
      <4>1. DOMAIN txQueue' = 1 .. Len(txQueue) + 1 /\ DOMAIN txQueue = 1 .. Len(txQueue)
            /\ txQueue'[Len(txQueue) + 1] = e
            /\ \A i \in 1 .. Len(txQueue) : txQueue'[i] = txQueue[i]
        BY <2>3, <3>2
      <4>2. e.block = cursor + 1
        OBVIOUS
      <4> HIDE DEF e
      <4> QED
        BY <2>1, <2>3, <2>4, <2>5, <4>1, <4>2, SMTT(30) DEF QueueInOrder
    <3> QED
      BY <2>2, <3>1, <3>2
  <2> QED
    BY <2>1, <2>3, <2>6 DEF Reach, IndexedOnce, IdsFollowBlocks
<1>5. CASE Commit \/ LastCommit
  BY <1>0, <1>5 DEF Commit, LastCommit, StoreScanMark, Query, Store, QueueInOrder, Reach,
     IndexedOnce, IdsFollowBlocks, archive, locals
<1>6. CASE PollPause
  BY <1>0, <1>6 DEF PollPause, QueueInOrder, Reach, IndexedOnce, IdsFollowBlocks, marks,
     archive, locals
<1>7. CASE Convert
  <2>1. UNCHANGED <<blockSync, lastScanned, rows, locals>> /\ pc = "converting"
        /\ pc' \in {"finalizing", "numbering"}
    BY <1>7 DEF Convert, marks, archive
  <2> QED
    BY <2>1 DEF QueueInOrder, Reach, IndexedOnce, IdsFollowBlocks, locals, TypeInv, TypeOK, Blocks
<1>8. CASE ReadTransactionId \/ InitTransactionId
  <2>1. /\ UNCHANGED <<blockSync, lastScanned, rows, locals>> /\ pc \in {"numbering", "initId"}
        /\ \/ pc' = "finalizing"
           \/ pc' = "importing" /\ psql'.txs = txQueue
           \/ pc' = "initId"
    BY <1>8 DEF ReadTransactionId, InitTransactionId, Launch, marks, archive
  <2> QED
    BY <2>1 DEF QueueInOrder, Reach, IndexedOnce, IdsFollowBlocks, locals, TypeInv, TypeOK, Blocks
<1>9. CASE PsqlCommits
  <2>1. /\ rows' = rows \cup RowsOf(psql) /\ UNCHANGED <<blockSync, lastScanned, locals>>
        /\ pc' = "finalizing" /\ pc = "importing" /\ psql.base # Undefined
    BY <1>0, <1>9 DEF PsqlCommits
  <2>2. /\ \A r \in rows' : r.block <= cursor
        /\ IndexedOnce' /\ IdsFollowBlocks'
    BY <2>1, CommitOrder
  <2> QED
    BY <2>1, <2>2 DEF Reach, locals
<1>10. CASE OrphanCommits
  BY <1>10 DEF OrphanCommits, IdInv
<1>11. CASE FinalizeRead
  BY <1>0, <1>11 DEF FinalizeRead, Query, Reach, IndexedOnce, IdsFollowBlocks, marks, archive
<1>12. CASE Publish
  <2>1. blockSync' = IF scanned = Undefined THEN 0 ELSE scanned
    BY <1>0, <1>12 DEF Publish, PublishAs, Query, Store
  <2>2. scanned = cursor /\ rows' = rows /\ pc = "publishing" /\ pc' = "leaving"
        /\ blockSync <= cursor /\ blockSync \in Nat
    BY <1>12 DEF Publish, PublishAs, Leave, archive, TypeInv, TypeOK
  <2> QED
    BY <2>1, <2>2 DEF Reach, IndexedOnce, IdsFollowBlocks, Undefined
<1> QED
  BY <1>0, <1>1, <1>2, <1>3, <1>4, <1>5, <1>6, <1>7, <1>8, <1>9, <1>10, <1>11, <1>12
     DEF Next, Cycle, Imports, Grow, Reorg, Pause, NewBlock, CheckPause, OrphanFails,
         PsqlFails, CleanupSync, LastPause, Close, ExitOnError, PowerFail, Kill,
         Start, Leave, vars, marks, archive, locals, children

\* The archive is exact, over failed imports, RPC and worker errors, reorganizations,
\* pauses and the restarts after them: no block is indexed twice.  A crash between the
\* commit of a batch and its sync point is what breaks it (the run sync_duplicates).
THEOREM EachBlockOnce == ASSUME NoSplit PROVE Spec => []IndexedOnce
<1>1. ExactInv => IndexedOnce
  BY DEF ExactInv
<1> QED
  BY <1>1, TypeInit, TypeStep, ExactInit, ExactStep, PTL DEF Spec

\* Nor is it ever out of order: ids grow with the blocks, over all batches.
THEOREM IdsInBlockOrder == ASSUME NoSplit PROVE Spec => []IdsFollowBlocks
<1>1. ExactInv => IdsFollowBlocks
  BY DEF ExactInv
<1> QED
  BY <1>1, TypeInit, TypeStep, ExactInit, ExactStep, PTL DEF Spec
=============================================================================
