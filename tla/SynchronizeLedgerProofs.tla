----------------------- MODULE SynchronizeLedgerProofs -----------------------
(***************************************************************************)
(* The synchronization cycle implements the ledger, twice: the archive and *)
(* the notifications each grow by whole ranges that begin after the sync   *)
(* point, and the sync point moves over what is there.                     *)
(***************************************************************************)
EXTENDS SynchronizeProofs

Busy == BeforeImport \cup {"finalizing", "publishing"}

\* The sync point never goes back, and the cursor runs ahead of it inside the chain.
BoundInv ==
  /\ FirstSync <= blockSync /\ blockSync <= MaxHeight
  /\ pc \in Busy => blockSync <= cursor /\ cursor <= MaxHeight
  /\ pc \in BeforeImport => syncPoint = blockSync
  /\ pc \in Scanned => lastScanned = cursor
  /\ pc = "publishing" => scanned = cursor

NoQueryFault == Faults \cap {"query"} = {}

LEMMA BoundInit == Init => BoundInv
PROOF BY ConstantsAssumption DEF Init, BoundInv, Busy, BeforeImport, Scanned

LEMMA BoundStep == ASSUME NoQueryFault PROVE TypeInv /\ BoundInv /\ [Next]_vars => BoundInv'
<1> SUFFICES ASSUME TypeInv, BoundInv, [Next]_vars PROVE BoundInv'
  OBVIOUS
<1>0. ~Fault("query")
  BY DEF NoQueryFault, Fault
<1>c. /\ FirstSync \in Nat /\ MaxHeight \in Nat /\ Confirmations \in Nat
      /\ blockSync \in Nat /\ cursor \in Int /\ height \in Nat /\ height <= MaxHeight
  BY ConstantsAssumption DEF TypeInv, TypeOK, Blocks
<1> USE <1>c DEF BoundInv, Busy, BeforeImport, Scanned
<1>1. CASE UNCHANGED <<blockSync, lastScanned>> /\ pc' \notin Busy
  BY <1>1
<1>2. CASE UNCHANGED <<blockSync, lastScanned, pc, locals>>
  BY <1>2 DEF locals
<1>3. CASE Plan
  BY <1>0, <1>3 DEF Plan, Query, Leave, Top, marks
<1>4. CASE ExtractBlock
  <2>1. cursor < Top(height)
    BY <1>4 DEF ExtractBlock, TypeInv, CursorOK
  <2> QED
    BY <1>4, <2>1 DEF ExtractBlock, Top, marks
<1>5. CASE Commit \/ LastCommit
  BY <1>0, <1>5 DEF Commit, LastCommit, StoreScanMark, Query, Store, locals
<1>6. CASE PollPause \/ Convert
  BY <1>6 DEF PollPause, Convert, marks, locals
<1>7. CASE ReadTransactionId \/ InitTransactionId
  BY <1>7 DEF ReadTransactionId, InitTransactionId, Launch, marks, locals
<1>8. CASE PsqlCommits \/ OrphanCommits
  BY <1>8 DEF PsqlCommits, OrphanCommits, Leave, locals
<1>9. CASE FinalizeRead
  BY <1>0, <1>9 DEF FinalizeRead, Query, marks
<1>10. CASE Publish
  BY <1>0, <1>10 DEF Publish, PublishAs, Query, Store, Leave, Undefined
<1> QED
  BY <1>1, <1>2, <1>3, <1>4, <1>5, <1>6, <1>7, <1>8, <1>9, <1>10
     DEF Next, Cycle, Imports, Grow, Reorg, Pause, NewBlock, CheckPause, OrphanFails,
         PsqlFails, CleanupSync, LastPause, Close, ExitOnError, PowerFail, Kill,
         Start, Leave, vars, marks, locals

\* Where the sync point moves, whichever collection it is kept for.
LEMMA SyncPointMoves ==
  ASSUME NoQueryFault, TypeInv, BoundInv, Publish
  PROVE  /\ blockSync' = cursor /\ blockSync <= cursor /\ cursor <= MaxHeight
         /\ blockSync \in Nat /\ cursor \in Nat /\ UNCHANGED <<rows, routed>>
<1>0. ~Fault("query")
  BY DEF NoQueryFault, Fault
<1>1. /\ blockSync' = IF scanned = Undefined THEN 0 ELSE scanned
      /\ pc = "publishing" /\ UNCHANGED <<rows, routed>>
  BY <1>0 DEF Publish, PublishAs, Query, Store, archive
<1>2. scanned = cursor /\ blockSync \in Nat /\ cursor \in Int /\ blockSync <= cursor /\ cursor <= MaxHeight
  BY <1>1 DEF BoundInv, Busy, TypeInv, TypeOK
<1> QED
  BY <1>1, <1>2 DEF Undefined

LEMMA SyncPointStays ==
  ASSUME [Next]_vars, ~Publish PROVE blockSync' = blockSync
BY DEF Next, Cycle, Imports, Grow, Reorg, Pause, NewBlock, CheckPause, Plan, ExtractBlock,
   Commit, PollPause, LastCommit, StoreScanMark, Convert, ReadTransactionId,
   InitTransactionId, PsqlCommits, PsqlFails, OrphanCommits, OrphanFails, FinalizeRead,
   CleanupSync, LastPause, Close, ExitOnError, PowerFail, Kill, Start, vars, marks

-----------------------------------------------------------------------------
(* The notifications *)

LEMMA FeedStep ==
  ASSUME NoMiss, TypeInv, RouteInv, BoundInv, [Next]_vars
  PROVE  [Feed!Next]_(Feed!ledger)
<1>c. /\ MaxHeight \in Nat /\ FirstSync \in Nat /\ blockSync \in Nat /\ cursor \in Int
      /\ FirstSync <= blockSync /\ height <= MaxHeight /\ height \in Nat /\ Confirmations \in Nat
  BY ConstantsAssumption DEF TypeInv, TypeOK, BoundInv, Blocks
<1> USE <1>c DEF Feed!Next, Feed!ledger
<1>1. CASE UNCHANGED <<blockSync, routed>>
  BY <1>1
<1>2. CASE ExtractBlock
  <2>1. ~Fault("trace")
    BY DEF NoMiss, Fault
  <2>2. /\ blockSync' = blockSync /\ pc = "extracting" /\ syncPoint = blockSync
        /\ routed' = IF HasTx(cursor + 1) THEN routed \cup {cursor + 1} ELSE routed
    BY <1>2, <2>1 DEF ExtractBlock, Deliver, marks, RouteInv, BeforeImport
  <2>3. RoutedRange(blockSync, cursor) /\ blockSync <= cursor /\ cursor + 1 <= MaxHeight
    BY <2>2 DEF RouteInv, BoundInv, Busy, BeforeImport, TypeInv, CursorOK, Top
  <2>4. CASE ~HasTx(cursor + 1)
    BY <1>1, <2>2, <2>4
  <2>5. CASE HasTx(cursor + 1)
    <3>1. cursor + 1 \in blockSync + 1 .. MaxHeight
      BY <2>3
    <3>2. routed' = routed \cup Feed!TxBlocks(blockSync + 1, cursor + 1)
      BY <2>2, <2>3, <2>5 DEF Feed!TxBlocks, RoutedRange, HasTx
    <3> QED
      BY <2>2, <3>1, <3>2 DEF Feed!Process
  <2> QED
    BY <2>4, <2>5
<1>3. CASE Publish
  <2>1. /\ blockSync' = cursor /\ blockSync <= cursor /\ cursor <= MaxHeight /\ routed' = routed
    BY <1>3, SyncPointMoves DEF NoMiss, NoQueryFault
  <2>2. Feed!TxBlocks(blockSync + 1, cursor) \subseteq routed
    BY <1>3 DEF Publish, PublishAs, RouteInv, RoutedRange, Feed!TxBlocks, HasTx
  <2>3. CASE cursor = blockSync
    BY <1>1, <2>1, <2>3
  <2>4. CASE cursor \in blockSync + 1 .. MaxHeight
    BY <2>1, <2>2, <2>4 DEF Feed!Advance
  <2> QED
    BY <2>1, <2>3, <2>4
<1> QED
  BY <1>1, <1>2, <1>3
     DEF Next, Cycle, Imports, Grow, Reorg, Pause, NewBlock, CheckPause, Plan,
         Commit, PollPause, LastCommit, StoreScanMark, Convert, ReadTransactionId,
         InitTransactionId, PsqlCommits, PsqlFails, OrphanCommits, OrphanFails, FinalizeRead,
         CleanupSync, LastPause, Close, ExitOnError, PowerFail, Kill, Start, vars, marks, archive

\* What subscribers were notified of is a ledger of the chain, in both modes and over
\* any crashes: no step of the program takes back, skips or reorders a block.
THEOREM FeedImplementsLedger == ASSUME NoMiss PROVE Spec => FeedIsLedger
<1>1. Init => Feed!Init
  BY DEF Init, Feed!Init
<1>2. NoQueryFault
  BY DEF NoMiss, NoQueryFault
<1>3. TypeInv /\ RouteInv /\ BoundInv /\ [Next]_vars => [Feed!Next]_(Feed!ledger)
  BY FeedStep
<1> QED
  BY <1>1, <1>2, <1>3, TypeInit, TypeStep, RouteInit, RouteStep, BoundInit, BoundStep, PTL
     DEF Spec, FeedIsLedger, Feed!Spec

-----------------------------------------------------------------------------
(* The archive.  A batch is a whole range that begins after a sync point:    *)
(* the one of the cycle, or, for what a killed parent left behind, an        *)
(* earlier one.                                                              *)

\* txs has the blocks with transactions from lo + 1 to hi, and no others.
Covers(txs, lo, hi) == {txs[i].block : i \in DOMAIN txs} = {b \in lo + 1 .. hi : HasTx(b)}

BatchInv ==
  /\ pc \in BeforeImport => Covers(txQueue, blockSync, cursor)
  /\ IF pc = "importing" THEN psql.txs = txQueue ELSE psql = NoImport
  /\ \E lo \in FirstSync .. blockSync, hi \in 0 .. MaxHeight : Covers(orphan.txs, lo, hi)

LEMMA NothingCovers == Covers(NoImport.txs, FirstSync, 0)
BY ConstantsAssumption DEF NoImport, Covers

LEMMA BatchInit == Init => BatchInv
<1> SUFFICES ASSUME Init PROVE BatchInv
  OBVIOUS
<1>1. FirstSync \in FirstSync .. blockSync /\ 0 \in 0 .. MaxHeight
  BY ConstantsAssumption DEF Init
<1>2. Covers(orphan.txs, FirstSync, 0)
  BY NothingCovers DEF Init
<1> QED
  BY <1>1, <1>2 DEF Init, BatchInv, BeforeImport

LEMMA RowBlocks ==
  ASSUME NEW p
  PROVE  {r.block : r \in RowsOf(p)} = {p.txs[i].block : i \in DOMAIN p.txs}
<1> DEFINE row(i) == [id |-> p.base + i - 1, block |-> p.txs[i].block, fork |-> p.txs[i].fork]
<1>1. RowsOf(p) = {row(i) : i \in DOMAIN p.txs}
  BY DEF RowsOf
<1>2. \A i : row(i).block = p.txs[i].block
  OBVIOUS
<1> HIDE DEF row
<1> QED
  BY <1>1, <1>2

LEMMA BatchStep ==
  ASSUME NoLoss PROVE TypeInv /\ BoundInv /\ BatchInv /\ [Next]_vars => BatchInv'
<1> SUFFICES ASSUME TypeInv, BoundInv, BatchInv, [Next]_vars PROVE BatchInv'
  OBVIOUS
<1>0. ~Fault("query") /\ ~Fault("trace") /\ NoQueryFault
  BY DEF NoLoss, Fault, NoQueryFault
<1>c. /\ FirstSync \in Nat /\ MaxHeight \in Nat /\ blockSync \in Nat /\ cursor \in Int
      /\ FirstSync <= blockSync /\ txQueue \in Seq(Entry)
  BY ConstantsAssumption DEF TypeInv, TypeOK, BoundInv
<1>m. blockSync' \in Nat /\ blockSync <= blockSync'
  <2>1. CASE Publish
    BY <1>0, <2>1, SyncPointMoves
  <2> QED
    BY <2>1, <1>c, SyncPointStays
<1>o. ASSUME orphan' \in {orphan, NoImport}
      PROVE  \E lo \in FirstSync .. blockSync', hi \in 0 .. MaxHeight : Covers(orphan'.txs, lo, hi)
  <2>1. CASE orphan' = orphan
    <3>1. PICK lo \in FirstSync .. blockSync, hi \in 0 .. MaxHeight : Covers(orphan.txs, lo, hi)
      BY DEF BatchInv
    <3>2. lo \in FirstSync .. blockSync'
      BY <1>c, <1>m
    <3> QED
      BY <2>1, <3>1, <3>2
  <2>2. CASE orphan' = NoImport
    BY <1>c, <1>m, <2>2, NothingCovers
  <2> QED
    BY <1>o, <2>1, <2>2
<1> USE DEF BeforeImport
<1>1. CASE /\ orphan' \in {orphan, NoImport} /\ psql' = NoImport
           /\ pc' \notin BeforeImport
  BY <1>1, <1>o DEF BatchInv
<1>2. CASE /\ UNCHANGED <<blockSync, pc, locals, psql>> /\ orphan' \in {orphan, NoImport}
  BY <1>2, <1>o DEF BatchInv, locals
<1>3. CASE Plan
  <2>1. /\ UNCHANGED <<blockSync, psql, orphan>> /\ pc = "planning" /\ txQueue' = <<>>
        /\ pc' \in {"leaving", "extracting"} /\ cursor' = blockSync
    BY <1>0, <1>3 DEF Plan, Query, Leave, marks, children
  <2>2. Covers(txQueue', blockSync', cursor')
    BY <1>c, <2>1 DEF Covers
  <2> QED
    BY <2>1, <2>2, <1>o DEF BatchInv
<1>4. CASE ExtractBlock
  <2> DEFINE e == [block |-> cursor + 1, fork |-> fork[cursor + 1]]
  <2>1. /\ cursor' = cursor + 1 /\ UNCHANGED <<blockSync, psql, orphan>> /\ pc = "extracting"
        /\ pc' \in {"committing", "lastCommit", "extracting"}
        /\ txQueue' = IF HasTx(cursor + 1) THEN Append(txQueue, e) ELSE txQueue
    BY <1>0, <1>4 DEF ExtractBlock, Deliver, marks, children
  <2>2. Covers(txQueue, blockSync, cursor) /\ blockSync <= cursor
    BY <2>1 DEF BatchInv, BoundInv, Busy
  <2>3. Covers(txQueue', blockSync', cursor')
    <3>1. {b \in blockSync + 1 .. cursor + 1 : HasTx(b)} =
            IF HasTx(cursor + 1) THEN {b \in blockSync + 1 .. cursor : HasTx(b)} \cup {cursor + 1}
                                 ELSE {b \in blockSync + 1 .. cursor : HasTx(b)}
      BY <1>c, <2>2
    <3>2. CASE ~HasTx(cursor + 1)
      BY <2>1, <2>2, <3>1, <3>2 DEF Covers
    <3>3. CASE HasTx(cursor + 1)
      <4>1. /\ DOMAIN txQueue' = DOMAIN txQueue \cup {Len(txQueue) + 1}
            /\ \A i \in DOMAIN txQueue : txQueue'[i] = txQueue[i]
            /\ txQueue'[Len(txQueue) + 1] = e
        BY <1>c, <2>1, <3>3
      <4>2. e.block = cursor + 1
        OBVIOUS
      <4> HIDE DEF e
      <4>3. {txQueue'[i].block : i \in DOMAIN txQueue'} =
              {txQueue[i].block : i \in DOMAIN txQueue} \cup {cursor + 1}
        BY <4>1, <4>2
      <4> QED
        BY <2>1, <2>2, <3>1, <3>3, <4>3 DEF Covers
    <3> QED
      BY <3>2, <3>3
  <2> QED
    BY <2>1, <2>3, <1>o DEF BatchInv
<1>5. CASE Commit \/ LastCommit \/ PollPause \/ Convert
  <2>1. /\ UNCHANGED <<blockSync, txQueue, cursor, psql, orphan>>
        /\ pc \in BeforeImport \ {"importing"} /\ pc' # "importing"
    BY <1>5 DEF Commit, LastCommit, StoreScanMark, PollPause, Convert, marks, locals, children
  <2> QED
    BY <2>1, <1>o DEF BatchInv
<1>6. CASE ReadTransactionId \/ InitTransactionId
  <2>1. /\ UNCHANGED <<blockSync, txQueue, cursor, orphan>> /\ pc \in {"numbering", "initId"}
        /\ \/ pc' = "finalizing" /\ psql' = psql
           \/ pc' = "importing" /\ psql'.txs = txQueue
           \/ pc' = "initId" /\ psql' = psql
    BY <1>6 DEF ReadTransactionId, InitTransactionId, Launch, marks, locals
  <2> QED
    BY <2>1, <1>o DEF BatchInv
<1>7. CASE Kill
  <2>1. pc' = "down" /\ psql' = NoImport /\ orphan' = psql /\ blockSync' = blockSync
    BY <1>7 DEF Kill, marks
  <2>2. \E lo \in FirstSync .. blockSync, hi \in 0 .. MaxHeight : Covers(psql.txs, lo, hi)
    <3>1. CASE pc = "importing"
      <4>1. Covers(psql.txs, blockSync, cursor) /\ blockSync <= cursor /\ cursor <= MaxHeight
        BY <3>1 DEF BatchInv, BoundInv, Busy
      <4> QED
        BY <4>1, <1>c
    <3>2. CASE psql = NoImport
      BY <3>2, <1>c, NothingCovers
    <3> QED
      BY <3>1, <3>2 DEF BatchInv
  <2> QED
    BY <2>1, <2>2 DEF BatchInv
<1> QED
  BY <1>1, <1>2, <1>3, <1>4, <1>5, <1>6, <1>7
     DEF Next, Cycle, Imports, Grow, Reorg, Pause, NewBlock, CheckPause, OrphanFails,
         OrphanCommits, PsqlCommits, PsqlFails, FinalizeRead, Publish, PublishAs,
         CleanupSync, LastPause, Close, ExitOnError, PowerFail, Start, Leave, vars, marks,
         locals, children, BatchInv

\* The import of a batch that begins at or before the sync point is a step of the ledger.
LEMMA ImportIsProcess ==
  ASSUME TypeInv, BoundInv, IndexInv, NEW p, rows' = rows \cup RowsOf(p), blockSync' = blockSync,
         NEW lo \in FirstSync .. blockSync, NEW hi \in 0 .. MaxHeight, Covers(p.txs, lo, hi)
  PROVE  [Archive!Next]_(Archive!ledger)
<1> DEFINE done == {r.block : r \in rows}
<1>c. MaxHeight \in Nat /\ FirstSync \in Nat /\ blockSync \in Nat
  BY ConstantsAssumption DEF TypeInv, TypeOK
<1>1. {r.block : r \in RowsOf(p)} = {b \in lo + 1 .. hi : HasTx(b)}
  BY RowBlocks DEF Covers
<1>2. {r.block : r \in rows'} = done \cup {b \in lo + 1 .. hi : HasTx(b)}
  BY <1>1
<1>3. \A b \in FirstSync + 1 .. blockSync : HasTx(b) => b \in done
  BY DEF IndexInv, SyncedIndexed
<1>4. CASE hi <= blockSync
  <2>1. {b \in lo + 1 .. hi : HasTx(b)} \subseteq done
    BY <1>c, <1>3, <1>4
  <2> QED
    BY <1>2, <2>1 DEF Archive!ledger
<1>5. CASE hi \in blockSync + 1 .. MaxHeight
  <2>1. {r.block : r \in rows'} = done \cup Archive!TxBlocks(blockSync + 1, hi)
    BY <1>c, <1>2, <1>3, <1>5 DEF Archive!TxBlocks, HasTx
  <2> QED
    BY <1>5, <2>1 DEF Archive!Next, Archive!Process
<1> QED
  BY <1>c, <1>4, <1>5

LEMMA ArchiveStep ==
  ASSUME NoLoss, TypeInv, IndexInv, BoundInv, BatchInv, [Next]_vars
  PROVE  [Archive!Next]_(Archive!ledger)
<1>c. MaxHeight \in Nat /\ FirstSync \in Nat /\ blockSync \in Nat /\ cursor \in Int
      /\ FirstSync <= blockSync
  BY ConstantsAssumption DEF TypeInv, TypeOK, BoundInv
<1>1. CASE UNCHANGED <<blockSync, rows>>
  BY <1>1 DEF Archive!ledger
<1>2. CASE PsqlCommits
  <2>1. rows' = rows \cup RowsOf(psql) /\ blockSync' = blockSync /\ pc = "importing"
    BY <1>2 DEF PsqlCommits
  <2>2. Covers(psql.txs, blockSync, cursor) /\ blockSync <= cursor /\ cursor <= MaxHeight
    BY <2>1 DEF BatchInv, BoundInv, Busy, BeforeImport
  <2>3. blockSync \in FirstSync .. blockSync /\ cursor \in 0 .. MaxHeight
    BY <1>c, <2>2
  <2> QED
    BY <2>1, <2>2, <2>3, ImportIsProcess
<1>3. CASE OrphanCommits
  <2>1. rows' = rows \cup RowsOf(orphan) /\ blockSync' = blockSync
    BY <1>3 DEF OrphanCommits
  <2> QED
    BY <2>1, ImportIsProcess DEF BatchInv
<1>4. CASE Publish
  <2>1. /\ blockSync' = cursor /\ blockSync <= cursor /\ cursor <= MaxHeight /\ rows' = rows
    BY <1>4, SyncPointMoves DEF NoLoss, NoQueryFault
  <2>2. Archive!TxBlocks(blockSync + 1, cursor) \subseteq {r.block : r \in rows}
    BY <1>4 DEF Publish, PublishAs, IndexInv, Indexed, Archive!TxBlocks, HasTx
  <2>3. CASE cursor = blockSync
    BY <1>1, <2>1, <2>3
  <2>4. CASE cursor \in blockSync + 1 .. MaxHeight
    BY <2>1, <2>2, <2>4 DEF Archive!Next, Archive!Advance
  <2> QED
    BY <1>c, <2>1, <2>3, <2>4
<1> QED
  BY <1>1, <1>2, <1>3, <1>4
     DEF Next, Cycle, Imports, Grow, Reorg, Pause, NewBlock, CheckPause, Plan, ExtractBlock,
         Commit, PollPause, LastCommit, StoreScanMark, Convert, ReadTransactionId,
         InitTransactionId, PsqlFails, OrphanFails, FinalizeRead,
         CleanupSync, LastPause, Close, ExitOnError, PowerFail, Kill, Start, vars, marks, archive

\* The archive is a ledger of the chain, over any crashes, kills, misreported imports and
\* psql processes that outlive their parents: it grows by whole ranges from the sync point
\* on, and the sync point moves forward, over blocks that are there.
THEOREM ArchiveImplementsLedger == ASSUME NoLoss PROVE Spec => ArchiveIsLedger
<1>1. Init => Archive!Init
  BY DEF Init, Archive!Init
<1>2. NoQueryFault
  BY DEF NoLoss, NoQueryFault
<1>3. TypeInv /\ IndexInv /\ BoundInv /\ BatchInv /\ [Next]_vars => [Archive!Next]_(Archive!ledger)
  BY ArchiveStep
<1> QED
  BY <1>1, <1>2, <1>3, TypeInit, TypeStep, IndexInit, IndexStep, BoundInit, BoundStep,
     BatchInit, BatchStep, PTL DEF Spec, ArchiveIsLedger, Archive!Spec
=============================================================================
