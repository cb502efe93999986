----------------------------- MODULE Synchronize -----------------------------
(***************************************************************************)
(* One synchronization cycle of txTheRipper, over and over: a new block    *)
(* starts application/sync.js, which extracts the blocks past the sync     *)
(* point into an in-memory queue, has psql import the queue in one SQL     *)
(* transaction, and only then moves the sync point.  The sync point, the   *)
(* scan mark and the transaction id counter are rows of the table          *)
(* application_data, written by separate statements: what can fail between *)
(* two of them is what the properties below are about.                     *)
(*                                                                         *)
(* One handler runs at a time here; RipperMain composes several.           *)
(***************************************************************************)
EXTENDS Integers, Sequences, FiniteSets

CONSTANTS
  FirstSync,      \* block_sync as initialInit leaves it
  MaxHeight,      \* bound on the height of the chain
  Confirmations,  \* CONFIRMATIONS
  MaxReorg,       \* deepest reorganization of the node's chain
  CommitEvery,    \* COMMIT_EVERYN_BLOCKS
  BatchMax,       \* JSON_TX_FILE_MAX, in transactions
  EmptyBlocks,    \* blocks without a transaction
  Mode,           \* OPERATION_MODE ("pruned" differs from "sync" in FirstSync only)
  Faults,         \* the kinds of fault that may happen
  MaxFaults       \* bound on how many do

Undefined == -1
Blocks == 0..MaxHeight

ASSUME ConstantsAssumption ==
  /\ FirstSync \in Nat /\ MaxHeight \in Nat /\ FirstSync <= MaxHeight
  /\ Confirmations \in Nat /\ MaxReorg \in Nat /\ MaxReorg <= Confirmations
  /\ CommitEvery \in Nat \ {0}
  /\ BatchMax \in Nat /\ MaxFaults \in Nat
  /\ EmptyBlocks \subseteq Nat
  /\ Mode \in {"sync", "subscription"}
  /\ Faults \subseteq {"powerFail", "kill", "query", "psql", "report",
                       "rpc", "trace", "worker", "reorg", "pause"}

VARIABLES
  \* the archive node
  tip,            \* its block height
  fork,           \* fork[b]: the version of block b on its canonical chain
  \* PostgreSQL: application_data and the archive
  blockSync, lastScanned, transactionId, working, pause,
  rows,           \* table transactions: a set of [id, block, fork]
  routed,         \* blocks whose transactions subscribers were notified of
  \* the Node process
  pc, response,
  height,         \* blockHeight, the argument of synchronize
  syncPoint,      \* lastSyncPoint
  cursor,         \* the block extracted last
  txQueue,
  scanned,        \* lastScanned, the local of updateAppData
  \* psql processes: the one the cycle waits for, one a dead parent left behind
  psql, orphan,
  used            \* faults so far

node     == <<tip, fork>>
marks    == <<blockSync, lastScanned, transactionId>>
archive  == <<rows, routed>>
locals   == <<height, syncPoint, cursor, txQueue, scanned>>
children == <<psql, orphan>>
vars == <<node, marks, working, pause, archive, pc, response, locals,
          children, used>>

-----------------------------------------------------------------------------
\* Faulty: the node's head is taken for confirmed.
TopUnconfirmed(h) == h

\* The last block the cycle may extract.
Top(h) == h - Confirmations

HasTx(b) == b \notin EmptyBlocks

\* A psql process: the SQL file it was given.
NoImport == [base |-> Undefined, txs |-> <<>>]

\* Faulty: the parts of the batch come back in the wrong order.
RowsReversed(p) == {[id |-> p.base + Len(p.txs) - i, block |-> p.txs[i].block,
                     fork |-> p.txs[i].fork] : i \in DOMAIN p.txs}

\* The INSERT of the generated file: ids are consecutive from base.
RowsOf(p) == {[id |-> p.base + i - 1, block |-> p.txs[i].block,
               fork |-> p.txs[i].fork] : i \in DOMAIN p.txs}

\* Faulty: the counter does not move past the batch.
InsertIdStale(p) == p.base

\* The UPDATE of transactionId in the same file (insertId).
InsertId(p) == p.base + Len(p.txs) + 1

Fault(kind) ==
  /\ kind \in Faults
  /\ used < MaxFaults
  /\ used' = used + 1

\* A query of db/application_data.js: it catches its own error, and a getter
\* then returns undefined.
Query(ok) == \/ ok /\ used' = used
             \/ ~ok /\ Fault("query")

Store(ok, old, new) == IF ok THEN new ELSE old

Init ==
  /\ tip = FirstSync /\ fork = [b \in Blocks |-> 0]
  /\ blockSync = FirstSync /\ lastScanned = Undefined
  /\ transactionId = Undefined
  /\ working = FALSE /\ pause = FALSE
  /\ rows = {} /\ routed = {}
  /\ pc = "idle" /\ response = "ok"
  /\ height = 0 /\ syncPoint = 0 /\ cursor = 0 /\ txQueue = <<>> /\ scanned = 0
  /\ psql = NoImport /\ orphan = NoImport
  /\ used = 0

-----------------------------------------------------------------------------
(* The environment: the node's chain, and the operator's pause. *)

Grow ==
  /\ tip < MaxHeight /\ tip' = tip + 1
  /\ UNCHANGED <<fork, marks, working, pause, archive, pc, response, locals,
                 children, used>>

Reorg(d) ==
  /\ Fault("reorg")
  /\ fork' = [b \in Blocks |-> IF b > tip - d THEN fork[b] + 1 ELSE fork[b]]
  /\ UNCHANGED <<tip, marks, working, pause, archive, pc, response, locals,
                 children>>

Pause ==
  /\ Fault("pause") /\ ~pause /\ pause' = TRUE
  /\ UNCHANGED <<node, marks, working, archive, pc, response, locals, children>>

-----------------------------------------------------------------------------
(* The cycle.  Every action is the code between two awaits that touch       *)
(* shared or durable state.  A definition whose comment begins with         *)
(* "Faulty" belongs to no behaviour: it is the definition below it with a   *)
(* plausible bug, which a property must notice.                             *)

Leave(r) == pc' = "leaving" /\ response' = r

\* The block handler: doSynchronize and the head of synchronize.
NewBlock(n) ==
  /\ pc = "idle" /\ ~working
  /\ \E ok \in BOOLEAN : Query(ok) /\ working' = Store(ok, working, TRUE)
  /\ height' = n /\ pc' = "entered"
  /\ UNCHANGED <<node, marks, pause, archive, response, syncPoint, cursor,
                 txQueue, scanned, children>>

\* Faulty: the pause flag is not looked at when a cycle begins.
CheckPauseIgnored ==
  /\ pc = "entered" /\ pc' = "planning" /\ used' = used
  /\ UNCHANGED <<node, marks, working, pause, archive, response, locals, children>>

CheckPause ==
  /\ pc = "entered"
  /\ \E ok \in BOOLEAN :
       /\ Query(ok)
       /\ IF pause /\ ok THEN Leave("exit")
                         ELSE pc' = "planning" /\ UNCHANGED response
  /\ UNCHANGED <<node, marks, working, pause, archive, locals, children>>

\* Faulty: a cycle starts where the last extraction stopped.
PlanFromScan ==
  /\ pc = "planning"
  /\ syncPoint' = IF lastScanned = Undefined THEN blockSync ELSE lastScanned
  /\ cursor' = syncPoint' /\ txQueue' = <<>>
  /\ IF Top(height) <= syncPoint' THEN Leave("ok")
                                  ELSE pc' = "extracting" /\ UNCHANGED response
  /\ UNCHANGED <<node, marks, working, pause, archive, height, scanned, children, used>>

\* block_sync decides what there is to do; undefined turns startBlock into
\* NaN, so that the loop of extractBatch never runs.
Plan ==
  /\ pc = "planning"
  /\ \E ok \in BOOLEAN :
       /\ Query(ok)
       /\ syncPoint' = IF ok THEN blockSync ELSE Undefined
       /\ cursor' = syncPoint'
       /\ \/ ok /\ Top(height) <= blockSync /\ Leave("ok")
          \/ ok /\ Top(height) > blockSync /\ pc' = "extracting" /\ UNCHANGED response
          \/ ~ok /\ pc' = "converting" /\ UNCHANGED response
  /\ txQueue' = <<>>
  /\ UNCHANGED <<node, marks, working, pause, archive, height, scanned, children>>

\* processBlock hands the transactions of the block to the subscriptions and to
\* the queue.
Deliver(b) ==
  IF HasTx(b) THEN /\ txQueue' = Append(txQueue, [block |-> b, fork |-> fork[b]])
                   /\ routed' = routed \cup {b}
              ELSE UNCHANGED <<txQueue, routed>>

\* One round of the loop of extractBatch.  A block neither trace_block nor
\* trace_transaction can deliver goes on with no transaction at all.
ExtractBlock ==
  /\ pc = "extracting"
  /\ cursor' = cursor + 1
  /\ \/ Deliver(cursor') /\ used' = used
     \/ HasTx(cursor') /\ Fault("trace") /\ UNCHANGED <<txQueue, routed>>
  /\ pc' = IF (cursor' - syncPoint) % CommitEvery = 0 THEN "committing"
           ELSE IF cursor' = Top(height) THEN "lastCommit" ELSE "extracting"
  /\ UNCHANGED <<node, marks, working, pause, rows, response, height,
                 syncPoint, scanned, children>>

\* getBlock rejects, or a conversion worker fails: process.exit() on the spot.
ExitOnError ==
  /\ \/ pc = "extracting" /\ Fault("rpc")
     \/ pc = "converting" /\ Mode = "sync" /\ Fault("worker")
  /\ pc' = "down"
  /\ UNCHANGED <<node, marks, working, pause, archive, response, locals, children>>

StoreScanMark(b) ==
  /\ \E ok \in BOOLEAN : Query(ok) /\ lastScanned' = Store(ok, lastScanned, b)
  /\ UNCHANGED <<node, blockSync, transactionId, working, pause, archive,
                 response, locals, children>>

\* commit and commitMem: every CommitEvery blocks the scan mark is stored, and
\* a queue over its limit ends the batch.
Commit ==
  /\ pc = "committing" /\ StoreScanMark(cursor)
  /\ pc' = IF Len(txQueue) > BatchMax THEN "converting" ELSE "polling"

\* A pause ends the batch early too; the cycle still imports what it has.
PollPause ==
  /\ pc = "polling"
  /\ \E ok \in BOOLEAN :
       /\ Query(ok)
       /\ pc' = IF pause /\ ok THEN "converting"
                ELSE IF cursor = Top(height) THEN "lastCommit" ELSE "extracting"
  /\ UNCHANGED <<node, marks, working, pause, archive, response, locals, children>>

\* Faulty: blockRef, which lags by one block when the last round ends a batch.
LastCommitLagging ==
  pc = "lastCommit" /\ StoreScanMark(cursor - 1) /\ pc' = "converting"

\* Faulty: the height of the chain instead of the last block extracted.
LastCommitHeight ==
  pc = "lastCommit" /\ StoreScanMark(height) /\ pc' = "converting"

LastCommit ==
  pc = "lastCommit" /\ StoreScanMark(cursor) /\ pc' = "converting"

\* convertBatchAccounts replaces addresses inside the entries; the entries and
\* their order are the input's (module ConvertBatch).  Subscription mode skips
\* it and the import.
Convert ==
  /\ pc = "converting"
  /\ pc' = IF Mode = "subscription" THEN "finalizing" ELSE "numbering"
  /\ UNCHANGED <<node, marks, working, pause, archive, response, locals,
                 children, used>>

-----------------------------------------------------------------------------
(* The import: number the queue, write the SQL file, wait for psql. *)

\* An empty queue counts as imported; any other is handed to psql.
Launch(id) ==
  IF txQueue = <<>> THEN pc' = "finalizing" /\ UNCHANGED psql
  ELSE pc' = "importing" /\ psql' = [base |-> id, txs |-> txQueue]

ReadTransactionId ==
  /\ pc = "numbering"
  /\ \E ok \in BOOLEAN :
       /\ Query(ok)
       /\ IF ok /\ transactionId # Undefined
            THEN Launch(transactionId + 1)
            ELSE pc' = "initId" /\ UNCHANGED psql
  /\ UNCHANGED <<node, marks, working, pause, archive, response, locals, orphan>>

\* The counter is started at 0 when the read returned undefined.  setInt that
\* fails returns undefined too (the ids are NaN then), wherever it failed.
InitTransactionId ==
  /\ pc = "initId"
  /\ \E ok \in BOOLEAN, stored \in BOOLEAN :
       /\ Query(ok) /\ (ok => stored)
       /\ transactionId' = Store(stored, transactionId, 0)
       /\ Launch(IF ok THEN 1 ELSE Undefined)
  /\ UNCHANGED <<node, blockSync, lastScanned, working, pause, archive,
                 response, locals, orphan>>

\* The whole file is one SQL transaction.  psql may still report an error or
\* write to stderr after its COMMIT, which addDb takes for a failure.
PsqlCommits ==
  /\ pc = "importing" /\ psql.base # Undefined
  /\ rows' = rows \cup RowsOf(psql)
  /\ transactionId' = InsertId(psql)
  /\ psql' = NoImport
  /\ \/ pc' = "finalizing" /\ UNCHANGED <<response, used>>
     \/ Fault("report") /\ Leave("error")
  /\ UNCHANGED <<node, blockSync, lastScanned, working, pause, routed, locals, orphan>>

\* Faulty: the result of the import is not looked at.
PsqlFailsIgnored ==
  /\ pc = "importing" /\ Fault("psql")
  /\ psql' = NoImport /\ pc' = "finalizing"
  /\ UNCHANGED <<node, marks, working, pause, archive, response, locals, orphan>>

PsqlFails ==
  /\ pc = "importing"
  /\ \/ psql.base = Undefined /\ UNCHANGED used
     \/ Fault("psql")
  /\ psql' = NoImport /\ Leave("error")
  /\ UNCHANGED <<node, marks, working, pause, archive, locals, orphan>>

\* What a killed Node process left running.
OrphanCommits ==
  /\ orphan # NoImport /\ orphan.base # Undefined
  /\ rows' = rows \cup RowsOf(orphan)
  /\ transactionId' = InsertId(orphan)
  /\ orphan' = NoImport
  /\ UNCHANGED <<node, blockSync, lastScanned, working, pause, routed, pc,
                 response, locals, psql, used>>

OrphanFails ==
  /\ orphan # NoImport
  /\ \/ orphan.base = Undefined /\ UNCHANGED used
     \/ Fault("psql")
  /\ orphan' = NoImport
  /\ UNCHANGED <<node, marks, working, pause, archive, pc, response, locals, psql>>

-----------------------------------------------------------------------------
(* updateAppData, and the way out of the cycle. *)

FinalizeRead ==
  /\ pc = "finalizing"
  /\ \E ok \in BOOLEAN : Query(ok) /\ scanned' = IF ok THEN lastScanned ELSE Undefined
  /\ pc' = "publishing"
  /\ UNCHANGED <<node, marks, working, pause, archive, response, height,
                 syncPoint, cursor, txQueue, children>>

PublishAs(b) ==
  /\ pc = "publishing"
  /\ \E ok \in BOOLEAN : Query(ok) /\ blockSync' = Store(ok, blockSync, b)
  /\ Leave("done")
  /\ UNCHANGED <<node, lastScanned, transactionId, working, pause, archive,
                 locals, children>>

\* Faulty: an undefined mark is stored as it is.
PublishUndefined == PublishAs(scanned)

\* Faulty: the height of the chain, confirmed or not.
PublishHeight == PublishAs(height)

\* undefined is stored as NULL, which getInt reads back as 0.
Publish == PublishAs(IF scanned = Undefined THEN 0 ELSE scanned)

\* Faulty: a cycle that failed keeps the working flag.
CleanupKeepsWorking ==
  /\ pc = "leaving"
  /\ working' = (response = "error") /\ used' = used
  /\ pc' = CASE response = "exit" -> "closing"
             [] response = "done" -> "lastPause"
             [] OTHER -> "idle"
  /\ UNCHANGED <<node, marks, pause, archive, response, locals, children>>

CleanupSync ==
  /\ pc = "leaving"
  /\ \E ok \in BOOLEAN : Query(ok) /\ working' = Store(ok, working, FALSE)
  /\ pc' = CASE response = "exit" -> "closing"
             [] response = "done" -> "lastPause"
             [] OTHER -> "idle"
  /\ UNCHANGED <<node, marks, pause, archive, response, locals, children>>

LastPause ==
  /\ pc = "lastPause"
  /\ \E ok \in BOOLEAN :
       /\ Query(ok)
       /\ pc' = IF pause /\ ok THEN "closing" ELSE "idle"
  /\ UNCHANGED <<node, marks, working, pause, archive, response, locals, children>>

\* The listener of 'close' lifts the pause and exits.
Close ==
  /\ pc = "closing"
  /\ \E ok \in BOOLEAN : Query(ok) /\ pause' = Store(ok, pause, FALSE)
  /\ pc' = "down"
  /\ UNCHANGED <<node, marks, working, archive, response, locals, children>>

-----------------------------------------------------------------------------
(* Crashes.  A power failure takes psql along; a kill of the Node process   *)
(* does not.  At most one orphan at a time is modelled.                     *)

PowerFail ==
  /\ pc # "down" /\ Fault("powerFail")
  /\ pc' = "down" /\ psql' = NoImport /\ orphan' = NoImport
  /\ UNCHANGED <<node, marks, working, pause, archive, response, locals>>

Kill ==
  /\ pc # "down" /\ orphan = NoImport /\ Fault("kill")
  /\ pc' = "down" /\ psql' = NoImport /\ orphan' = psql
  /\ UNCHANGED <<node, marks, working, pause, archive, response, locals>>

\* The end of init in ripper.js lifts both flags.
Start ==
  /\ pc = "down"
  /\ pc' = "idle" /\ response' = "ok" /\ txQueue' = <<>>
  /\ working' = FALSE /\ pause' = FALSE
  /\ UNCHANGED <<node, marks, archive, height, syncPoint, cursor, scanned,
                 children, used>>

-----------------------------------------------------------------------------
Cycle == \/ CheckPause \/ Plan \/ ExtractBlock \/ Commit \/ PollPause
         \/ LastCommit \/ Convert \/ ReadTransactionId \/ InitTransactionId
         \/ FinalizeRead \/ Publish \/ CleanupSync \/ LastPause \/ Close

Imports == PsqlCommits \/ PsqlFails \/ OrphanCommits \/ OrphanFails

Next == \/ Grow \/ Pause \/ \E d \in 1..MaxReorg : Reorg(d)
        \/ \E n \in 1..tip : NewBlock(n)
        \/ Cycle \/ Imports \/ ExitOnError
        \/ PowerFail \/ Kill \/ Start

Spec == Init /\ [][Next]_vars

\* The event loop runs the cycle, psql ends, the chain grows and the node
\* announces it (a handler may be given an older block, but not for ever),
\* and the operator starts the program again.
Fairness == /\ WF_vars(Grow)
            /\ SF_vars(NewBlock(tip))
            /\ WF_vars(Cycle)
            /\ WF_vars(PsqlCommits \/ PsqlFails)
            /\ WF_vars(OrphanCommits \/ OrphanFails)
            /\ WF_vars(Start)

FairSpec == Spec /\ Fairness

-----------------------------------------------------------------------------
(* Properties *)

Entry == [block : Blocks, fork : Nat]
Import == [base : Nat \cup {Undefined}, txs : Seq(Entry)]

FlagsOK == working \in BOOLEAN /\ pause \in BOOLEAN

\* Every variable keeps its type.  block_sync may fall to 0 (a stored NULL) but
\* never to undefined, and the transaction id counter is never NaN.
TypeOK ==
  /\ tip \in Blocks /\ fork \in [Blocks -> Nat]
  /\ blockSync \in Nat /\ lastScanned \in Nat \cup {Undefined}
  /\ transactionId \in Nat \cup {Undefined}
  /\ FlagsOK
  /\ \A r \in rows : r.id \in Nat /\ r.block \in Blocks /\ r.fork \in Nat
  /\ routed \subseteq Blocks
  /\ pc \in {"idle", "entered", "planning", "extracting", "committing", "polling",
             "lastCommit", "converting", "numbering", "initId", "importing",
             "finalizing", "publishing", "leaving", "lastPause", "closing", "down"}
  /\ response \in {"ok", "exit", "error", "done"}
  /\ height \in Blocks /\ syncPoint \in Int /\ cursor \in Int
  /\ txQueue \in Seq(Entry)
  /\ scanned \in Nat \cup {Undefined}
  /\ psql \in Import /\ orphan \in Import
  /\ used \in 0..MaxFaults

\* No hole in the archive: every transaction up to the sync point is indexed,
\* whatever crashed, was killed or failed in psql on the way (sync mode).
SyncedIndexed ==
  \A b \in FirstSync + 1 .. blockSync :
    HasTx(b) => \E r \in rows : r.block = b

\* No block below the sync point is missing from what was handed to the router of the
\* subscriptions, in either mode: what the README promises "even through application
\* downtime or restarts".
SyncedRouted == \A b \in FirstSync + 1 .. blockSync : HasTx(b) => b \in routed

\* A block is indexed once.
IndexedOnce == \A r, s \in rows : r.block = s.block => r = s

\* Ids grow with the block number over all batches: the order in which the
\* archive was written is the order of the chain.
IdsFollowBlocks == \A r, s \in rows : r.id < s.id => r.block < s.block

\* topic.parent names one transaction: no id is given out twice.
UniqueIds == \A r, s \in rows : r.id = s.id => r = s

\* What is indexed stays on the canonical chain: the confirmations keep every
\* batch, even one a dead process left behind, out of a reorganization's reach.
Canonical == \A r \in rows : r.fork = fork[r.block]

Archive == INSTANCE Ledger WITH synced <- blockSync, done <- {r.block : r \in rows}
Feed    == INSTANCE Ledger WITH synced <- blockSync, done <- routed

\* The cycle implements the ledger: the archive grows by whole ranges after the
\* sync point, and the sync point moves over indexed blocks only.
ArchiveIsLedger == Archive!Spec

\* So do the notifications, which go out block by block during extraction.
FeedIsLedger == Feed!Spec

\* Every block that gets its confirmations is synced in the end.
EventuallySynced ==
  \A h \in Blocks : (tip >= h) ~> (blockSync >= h - Confirmations)

\* A pause, whenever it is set, makes the program stop.
PauseEnds == pause ~> (pc = "down")
=============================================================================
