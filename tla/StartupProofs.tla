---------------------------- MODULE StartupProofs ----------------------------
(***************************************************************************)
(* Theorems about the start of an installation, for any number of          *)
(* processes, any chain, any files and any faults: the pid file, the       *)
(* indexes, and the mode that is stored.  A step that changes neither pc   *)
(* nor pidFile concerns the first no more than one that changes neither    *)
(* app nor built does the second, which is why each has an invariant of    *)
(* its own.                                                                *)
(***************************************************************************)
EXTENDS Startup, FiniteSetTheorems, WellFoundedInduction, NaturalsInduction, TLAPS

LEMMA OddStep == [Next]_vars => odd' = odd
<1> SUFFICES ASSUME [Next]_vars PROVE odd' = odd
  OBVIOUS
<1> USE DEF world
<1>1. CASE UNCHANGED vars
  BY <1>1 DEF vars
<1>2. ASSUME NEW p \in Procs, \/ \E k \in BOOLEAN : StartProcess(p, k)
                              \/ CheckPid(p) \/ WritePid(p) \/ Kill(p)
      PROVE odd' = odd
  BY <1>2 DEF StartProcess, CheckPid, Pass, WritePid, Kill
<1>3. CASE Boot
  BY <1>3 DEF Boot, InitTables, InitDefaults, CheckMode, CheckInit, InitBlockSync,
     MarkInit, FirstBlock, StoreMode, InitPartitions, KickstartCache,
     PopularAccounts, InitIndexId, AssignAddresses, AssignAfterText,
     KickstartBegin, KickstartFlag, KickstartList, KickstartLoad, KickstartMark,
     KickstartMove, KickstartEnd, ResetFlags, LookFlags
<1>4. CASE Run
  BY <1>4 DEF Run, Synchronize, ExtractBatch, ImportBatch, FinalizeBatch, OrphanCommits,
     OrphanEnds, IndexBuild, IndexMark, Pause, PauseExit, Unpause
<1>5. CASE Operate
  BY <1>5 DEF Operate, ChangeMode, Nuke, ExportBegin, ExportFile, ExportEnd
<1>6. CASE Grow
  BY <1>6 DEF Grow
<1> QED
  BY <1>1, <1>2, <1>3, <1>4, <1>5, <1>6 DEF Next

-----------------------------------------------------------------------------
(* The pid file *)

Status == {"off", "check", "write", "in"}

\* Whoever is past the check is alone but for the one that is in, and that one is named
\* by the file.  The check of the file is sound only because of the last two.
PidInv ==
  /\ pc \in [Procs -> Status]
  /\ odd # "race" => \A p \in Procs :
       /\ pc[p] = "in" => pidFile = p
       /\ pc[p] = "check" => \A q \in Procs \ {p} : pc[q] \in {"off", "in"}
       /\ pc[p] = "write" => \A q \in Procs \ {p} : pc[q] = "off"

\* What a step of the process that is in, or of the operator, may do to pc.
Quiet == UNCHANGED <<pc, pidFile>>
Exits == ExitProcess /\ UNCHANGED pidFile

LEMMA BootPc == Boot => Quiet \/ Exits
<1> SUFFICES ASSUME Boot PROVE Quiet \/ Exits
  OBVIOUS
<1> USE DEF Goto, disk, procs, Quiet, Exits
<1>1. CASE InitTables \/ InitDefaults \/ CheckMode \/ CheckInit \/ InitBlockSync \/ MarkInit
  BY <1>1 DEF InitTables, InitDefaults, CheckMode, CheckInit, InitBlockSync, MarkInit
<1>2. CASE FirstBlock \/ StoreMode \/ InitPartitions \/ KickstartCache \/ PopularAccounts
           \/ InitIndexId \/ AssignAddresses \/ AssignAfterText
  BY <1>2 DEF FirstBlock, StoreMode, InitPartitions, KickstartCache, PopularAccounts,
     InitIndexId, AssignAddresses, AssignAfterText
<1>3. CASE KickstartBegin \/ KickstartFlag \/ KickstartList \/ KickstartLoad \/ KickstartMark
           \/ KickstartMove \/ KickstartEnd \/ ResetFlags \/ LookFlags
  BY <1>3 DEF KickstartBegin, KickstartFlag, KickstartList, KickstartLoad, KickstartMark,
     KickstartMove, KickstartEnd, ResetFlags, LookFlags
<1> QED
  BY <1>1, <1>2, <1>3 DEF Boot

LEMMA OtherPc == Run \/ Operate \/ Grow => Quiet \/ Exits
BY DEF Run, Synchronize, ExtractBatch, ImportBatch, FinalizeBatch, OrphanCommits, OrphanEnds,
   IndexBuild, IndexMark, Pause, PauseExit, Unpause, Operate, ChangeMode, Nuke, ExportBegin, ExportFile, ExportEnd, Grow, Goto, disk, procs, Quiet, Exits

LEMMA PidStep == PidInv /\ [Next]_vars => PidInv'
<1> SUFFICES ASSUME PidInv, [Next]_vars PROVE PidInv'
  OBVIOUS
<1> USE DEF PidInv, Status
<1>o. odd' = odd
  BY OddStep
<1>1. CASE Quiet
  BY <1>1, <1>o DEF Quiet
<1>2. CASE Exits
  BY <1>2, <1>o DEF Exits, ExitProcess, Inside
<1>3. ASSUME NEW p \in Procs, NEW k \in BOOLEAN, StartProcess(p, k) PROVE PidInv'
  BY <1>3, <1>o DEF StartProcess, disk
<1>4. ASSUME NEW p \in Procs, CheckPid(p) PROVE PidInv'
  BY <1>4, <1>o DEF CheckPid, Pass, disk
<1>5. ASSUME NEW p \in Procs, WritePid(p) PROVE PidInv'
  BY <1>5, <1>o DEF WritePid
<1>6. ASSUME NEW p \in Procs, Kill(p) PROVE PidInv'
  BY <1>6, <1>o DEF Kill, disk
<1>7. CASE UNCHANGED vars
  BY <1>7, <1>1 DEF vars, procs, disk, Quiet
<1> QED
  BY <1>1, <1>2, <1>3, <1>4, <1>5, <1>6, <1>7, BootPc, OtherPc DEF Next

\* "Only one process may run at a time!": however many are started, killed and started
\* again, under whatever pids, one at most gets past the pid file, unless two of them
\* are between the check and the write at once.
THEOREM OnlyOneProcess == Spec => []OneProcess
<1>1. Init => PidInv
  BY DEF Init, PidInv, Status
<1>2. PidInv => OneProcess
  <2> SUFFICES ASSUME PidInv, odd # "race" PROVE Cardinality(Inside) <= 1
    BY DEF OneProcess
  <2>1. CASE Inside = {}
    BY <2>1, FS_EmptySet
  <2>2. ASSUME NEW p \in Inside PROVE Cardinality(Inside) <= 1
    <3>1. Inside = {p}
      BY DEF Inside, PidInv
    <3>2. Cardinality({p}) = 1
      BY FS_Singleton, Zenon
    <3> QED
      BY <3>1, <3>2
  <2> QED
    BY <2>1, <2>2
<1> QED
  BY <1>1, <1>2, PidStep, PTL DEF Spec

-----------------------------------------------------------------------------
(* The indexes *)

\* While a start is under way somebody is in.  Between the build of an index and its
\* mark, the next index is the one that is built.
IndexInv ==
  /\ pc \in [Procs -> Status]
  /\ at # "off" => Inside # {}
  /\ "indexed" \in DOMAIN app
  /\ odd # "psql" =>
       /\ app.indexed \subseteq built
       /\ at = "building" /\ tables = "all" => NextIndex \in built

\* Most steps know nothing of indexes.
Aside ==
  /\ at = at' \/ at # "off"
  /\ pc' = pc \/ (ExitProcess /\ at' = "off")
  /\ "indexed" \in DOMAIN app' /\ app'.indexed = app.indexed
  /\ built' = built
  /\ at' # "building" \/ (at' = at /\ tables' = tables)

LEMMA BootAside == IndexInv /\ Boot => Aside
<1> SUFFICES ASSUME IndexInv, Boot PROVE Aside
  OBVIOUS
<1> USE DEF IndexInv, Aside, Proceed, Goto, ExitProcess, world, db, disk, procs
<1>1. CASE InitTables \/ InitDefaults \/ CheckMode \/ CheckInit \/ InitBlockSync \/ MarkInit
  BY <1>1 DEF InitTables, InitDefaults, CheckMode, CheckInit, InitBlockSync, MarkInit,
     Put, Stored
<1>2. CASE FirstBlock \/ StoreMode \/ InitPartitions \/ KickstartCache \/ PopularAccounts
           \/ InitIndexId \/ AssignAddresses \/ AssignAfterText
  BY <1>2 DEF FirstBlock, StoreMode, InitPartitions, KickstartCache, PopularAccounts,
     InitIndexId, AssignAddresses, AssignAfterText, Put, Stored, AfterCache
<1>3. CASE KickstartBegin \/ KickstartFlag \/ KickstartList \/ KickstartLoad \/ KickstartMark
           \/ KickstartMove \/ KickstartEnd
  BY <1>3 DEF KickstartBegin, KickstartFlag, KickstartList, KickstartLoad, KickstartMark,
     KickstartMove, KickstartEnd, Put, Stored
<1>4. CASE ResetFlags \/ LookFlags
  BY <1>4 DEF ResetFlags, LookFlags, Reset
<1> QED
  BY <1>1, <1>2, <1>3, <1>4 DEF Boot

LEMMA IndexStep == IndexInv /\ [Next]_vars => IndexInv'
<1> SUFFICES ASSUME IndexInv, [Next]_vars PROVE IndexInv'
  OBVIOUS
<1> USE DEF IndexInv, Status
<1>o. odd' = odd
  BY OddStep
<1>1. CASE Aside
  <2>1. pc' \in [Procs -> Status] /\ (at' # "off" => Inside' # {})
    BY <1>1 DEF Aside, ExitProcess, Inside
  <2>2. ASSUME odd # "psql", at' = "building", tables' = "all" PROVE NextIndex' \in built'
    BY <1>1, <2>2 DEF Aside, NextIndex
  <2> QED
    BY <1>1, <1>o, <2>1, <2>2 DEF Aside
<1>2. CASE Boot
  BY <1>1, <1>2, BootAside
<1>3. CASE Synchronize \/ Pause \/ PauseExit \/ Unpause
  BY <1>3, <1>1 DEF Aside, Synchronize, Pause, PauseExit, Unpause, ExitProcess, Proceed,
     world, db, disk, procs
<1>13. CASE ExtractBatch \/ ImportBatch \/ FinalizeBatch
  BY <1>13, <1>1 DEF Aside, ExtractBatch, ImportBatch, FinalizeBatch, Commit, Put, Stored, Goto,
     Proceed, world, db, disk
<1>14. CASE \E s \in orphans : OrphanCommits(s) \/ OrphanEnds(s)
  BY <1>14, <1>1 DEF Aside, OrphanCommits, OrphanEnds, Commit, world, db, disk, procs
<1>4. CASE IndexBuild
  <2>1. tables' = tables /\ app' = app /\ pc' = pc /\ at = "ready" /\ at' = "building"
    BY <1>4 DEF IndexBuild, Proceed, Goto
  <2>2. NextIndex' = NextIndex
    BY <2>1 DEF NextIndex
  <2>3. odd # "psql" => built' = built \cup {NextIndex} \/ (tables # "all" /\ built' = built)
    BY <1>4 DEF IndexBuild, Psql, Fault
  <2> QED
    BY <1>o, <2>1, <2>2, <2>3 DEF Inside
<1>5. CASE IndexMark
  <2>1. tables' = tables /\ built' = built /\ pc' = pc /\ at = "building" /\ at' = "ready"
    BY <1>5 DEF IndexMark, Proceed, Goto
  <2>2. app' = app \/ (tables = "all" /\ app' = [app EXCEPT !.indexed = app.indexed \cup {NextIndex}])
    BY <1>5 DEF IndexMark, Put, Stored
  <2>3. "indexed" \in DOMAIN app' /\ app'.indexed \subseteq app.indexed \cup {NextIndex}
    BY <2>2
  <2> QED
    BY <1>o, <2>1, <2>2, <2>3 DEF Inside
<1>6. CASE Nuke
  BY <1>6, <1>o DEF Nuke, Inside, NoneRuns, Fresh, disk, procs
<1>7. CASE (\E m \in Modes : ChangeMode(m)) \/ ExportBegin \/ ExportFile \/ ExportEnd \/ Grow
  BY <1>7, <1>1 DEF Aside, ChangeMode, ExportBegin, ExportFile, ExportEnd, Grow, world, db,
     disk, procs
<1>8. ASSUME NEW p \in Procs, NEW k \in BOOLEAN, StartProcess(p, k) PROVE IndexInv'
  <2>1. pc' = [pc EXCEPT ![p] = "check"] /\ pc[p] = "off"
    BY <1>8 DEF StartProcess
  <2>2. UNCHANGED <<at, app, built, tables>>
    BY <1>8 DEF StartProcess, db
  <2> QED
    BY <1>o, <2>1, <2>2 DEF Inside, NextIndex
<1>9. ASSUME NEW p \in Procs, CheckPid(p) PROVE IndexInv'
  <2>1. pc' \in [Procs -> Status] /\ Inside' = Inside
    BY <1>9 DEF CheckPid, Pass, Inside
  <2>2. UNCHANGED <<at, app, built, tables>>
    BY <1>9 DEF CheckPid, Pass, db
  <2> QED
    BY <1>o, <2>1, <2>2 DEF NextIndex
<1>10. ASSUME NEW p \in Procs, WritePid(p) PROVE IndexInv'
  BY <1>10, <1>o DEF WritePid, Inside, db
<1>11. ASSUME NEW p \in Procs, Kill(p) PROVE IndexInv'
  <2>1. pc' = [pc EXCEPT ![p] = "off"] /\ UNCHANGED <<built, tables>>
    BY <1>11 DEF Kill
  <2>2. "indexed" \in DOMAIN app' /\ app'.indexed = app.indexed
    BY <1>11 DEF Kill, Stored
  <2>3. \/ at' = "off"
        \/ pc[p] # "in" /\ at' = at
    BY <1>11 DEF Kill
  <2> QED
    BY <1>o, <2>1, <2>2, <2>3 DEF Inside, NextIndex
<1>12. CASE UNCHANGED vars
  BY <1>12, <1>1 DEF Aside, vars, db, procs
<1> QED
  BY <1>2, <1>3, <1>4, <1>5, <1>6, <1>7, <1>8, <1>9, <1>10, <1>11, <1>12,
     <1>13, <1>14 DEF Next, Run, Operate

\* "The application will keep trying until all indexes are installed": whatever is
\* killed, nuked, paused or not stored, an index that is marked as built has been built,
\* as long as psql, whose failures initIndexes does not see, does what it is told.
THEOREM MarkedIndexesExist == Spec => []IndexesBuilt
<1>1. Init => IndexInv
  BY DEF Init, IndexInv, Status, Fresh
<1>2. IndexInv => IndexesBuilt
  BY DEF IndexInv, IndexesBuilt
<1> QED
  BY <1>1, <1>2, IndexStep, PTL DEF Spec


-----------------------------------------------------------------------------
(* The mode *)

LEMMA LeastIn == ASSUME NEW s \in SUBSET Nat, s # {} PROVE Least(s) \in s
<1>1. \E m \in s : \A k \in s : ~(<<k, m>> \in OpToRel(<, Nat))
  BY NatLessThanWellFounded, WFMin
<1>2. \A k, m \in Nat : k < m => <<k, m>> \in OpToRel(<, Nat)
  BY DEF OpToRel
<1>3. \E m \in s : \A k \in s : ~(k < m)
  BY <1>1, <1>2
<1>4. \E m \in s : \A k \in s : m <= k
  BY <1>3
<1> QED
  BY <1>4 DEF Least

LEMMA TopsType == Tops \subseteq Nat
BY ConstantsAssumption DEF Tops

\* A block that is in the archive has a transaction.
Past(r) == "block" \in DOMAIN r /\ r.block \in Nat /\ r.block > Genesis

\* What the rows of application_data say of the start of the chain.  The first four of
\* the last part hold while initialInit runs: it has not been done, or the database
\* has no tables, or the block the mode starts at is there before the mode is.
AppInv ==
  /\ app.blockSync # None => app.blockSync \in Nat
  /\ app.mode # None => app.init = TRUE
  /\ app.mode \in {"pruned", "subscription"} => app.blockSync # None /\ app.blockSync > Genesis

PlaceInv ==
  /\ at \in {"genesis", "initialized"} => app.mode = None
  /\ at \in {"first", "storeMode"} /\ tables = "all" => app.init = TRUE
  /\ at = "storeMode" /\ tables = "all" /\ env # "sync" =>
       app.blockSync # None /\ app.blockSync > Genesis
  /\ at \in {"mark", "move"} => list # {}

PastBatch(s) == /\ {"rows", "top"} \subseteq DOMAIN s /\ s.top \in Nat /\ s.top > Genesis
                /\ \A r \in s.rows : Past(r)

JobInv == /\ at \in {"import", "finalize"} => PastBatch(sql)
          /\ \A s \in orphans : PastBatch(s)

FileInv ==
  /\ \A r \in rows : Past(r)
  /\ DOMAIN files = Tops
  /\ \A t \in Tops : files[t] # {} => t > Genesis /\ \A r \in files[t] : Past(r)
  /\ \A t \in list : t \in Tops /\ t > Genesis /\ \A r \in files[t] : Past(r)

ModeInv ==
  /\ pc \in [Procs -> Status] /\ (at # "off" => Inside # {})
  /\ DOMAIN app = DOMAIN Fresh
  /\ tip \in Nat /\ tip >= FirstTip /\ env \in Modes
  /\ odd \notin {"query", "unclean"} => AppInv /\ PlaceInv /\ JobInv /\ FileInv

\* Most steps know nothing of all this, and take the start to a place where PlaceInv
\* promises nothing.
Still ==
  /\ at = at' \/ at # "off"
  /\ pc' = pc \/ (ExitProcess /\ at' = "off")
  /\ DOMAIN app' = DOMAIN app
  /\ app'.init = app.init /\ app'.mode = app.mode /\ app'.blockSync = app.blockSync
  /\ UNCHANGED <<tip, env, rows, files>> /\ list' \subseteq list /\ orphans' \subseteq orphans
  /\ \/ UNCHANGED <<at, list, tables, sql>>
     \/ at' \notin {"genesis", "initialized", "first", "storeMode", "mark", "move",
                    "import", "finalize"}

LEMMA StillStep ==
  ASSUME ModeInv, Still, odd' = odd PROVE ModeInv'
<1> USE DEF ModeInv, Still
<1>1. pc' \in [Procs -> Status] /\ (at' # "off" => Inside' # {})
  BY DEF ExitProcess, Inside, Status
<1>2. odd \notin {"query", "unclean"} => AppInv'
  BY DEF AppInv
<1>3. odd \notin {"query", "unclean"} => PlaceInv'
  BY DEF PlaceInv
<1>4. odd \notin {"query", "unclean"} => FileInv'
  BY DEF FileInv, Past
<1>5. odd \notin {"query", "unclean"} => JobInv'
  BY DEF JobInv, PastBatch, Past
<1> QED
  BY <1>1, <1>2, <1>3, <1>4, <1>5

LEMMA BootStill ==
  ASSUME ModeInv,
         \/ InitTables \/ InitDefaults \/ CheckMode \/ InitPartitions \/ KickstartCache
         \/ PopularAccounts \/ InitIndexId \/ AssignAddresses \/ AssignAfterText
         \/ KickstartBegin \/ KickstartFlag \/ KickstartEnd \/ ResetFlags \/ LookFlags
  PROVE Still
<1>a. {"init", "mode", "blockSync"} \subseteq DOMAIN app
  BY DEF ModeInv, Fresh
<1> USE <1>a DEF Still, Proceed, Goto, ExitProcess, world, db, disk, procs, job
<1>1. CASE InitTables \/ InitDefaults \/ CheckMode
  BY <1>1 DEF InitTables, InitDefaults, CheckMode, Put, Stored
<1>2. CASE InitPartitions \/ KickstartCache \/ PopularAccounts
  BY <1>2 DEF InitPartitions, KickstartCache, PopularAccounts, AfterCache
<1>3. CASE InitIndexId \/ AssignAddresses \/ AssignAfterText
  BY <1>3 DEF InitIndexId, AssignAddresses, AssignAfterText, Put, Stored, AfterCache
<1>4. CASE KickstartBegin \/ KickstartFlag \/ KickstartEnd
  BY <1>4 DEF KickstartBegin, KickstartFlag, KickstartEnd, Put, Stored
<1>5. CASE ResetFlags \/ LookFlags
  BY <1>5 DEF ResetFlags, LookFlags, Reset
<1> QED
  BY <1>1, <1>2, <1>3, <1>4, <1>5

LEMMA RunStill ==
  ASSUME ModeInv, \/ IndexBuild \/ IndexMark \/ Pause \/ PauseExit \/ Unpause
                  \/ ExportBegin \/ ExportEnd \/ \E s \in orphans : OrphanEnds(s)
  PROVE Still
<1>a. {"init", "mode", "blockSync"} \subseteq DOMAIN app
  BY DEF ModeInv, Fresh
<1> QED
  BY <1>a DEF Still, Proceed, Goto, ExitProcess, world, db, disk, procs, job,
     IndexBuild, IndexMark, Pause, PauseExit, Unpause, ExportBegin, ExportEnd, OrphanEnds, Put, Stored

LEMMA DomainStep == DOMAIN app = DOMAIN Fresh /\ [Next]_vars => DOMAIN app' = DOMAIN Fresh
<1> SUFFICES ASSUME DOMAIN app = DOMAIN Fresh, [Next]_vars PROVE DOMAIN app' = DOMAIN Fresh
  OBVIOUS
<1> USE DEF Put, Stored, db
<1>1. CASE UNCHANGED vars
  BY <1>1 DEF vars
<1>2. ASSUME NEW p \in Procs, \/ \E k \in BOOLEAN : StartProcess(p, k)
                              \/ CheckPid(p) \/ WritePid(p) \/ Kill(p)
      PROVE DOMAIN app' = DOMAIN Fresh
  BY <1>2 DEF StartProcess, CheckPid, Pass, WritePid, Kill
<1>3. CASE Boot
  BY <1>3 DEF Boot, InitTables, InitDefaults, CheckMode, CheckInit, InitBlockSync,
     MarkInit, FirstBlock, StoreMode, InitPartitions, KickstartCache,
     PopularAccounts, InitIndexId, AssignAddresses, AssignAfterText,
     KickstartBegin, KickstartFlag, KickstartList, KickstartLoad, KickstartMark,
     KickstartMove, KickstartEnd, ResetFlags, Reset, LookFlags
<1>4. CASE Run
  BY <1>4 DEF Run, Synchronize, ExtractBatch, ImportBatch, FinalizeBatch, OrphanCommits, Commit,
     OrphanEnds, IndexBuild, IndexMark, Pause, PauseExit, Unpause
<1>5. CASE Operate \/ Grow
  BY <1>5 DEF Operate, ChangeMode, Nuke, ExportBegin, ExportFile, ExportEnd, Grow
<1> QED
  BY <1>1, <1>2, <1>3, <1>4, <1>5 DEF Next

LEMMA ModeInvStep == ModeInv /\ [Next]_vars => ModeInv'
<1> SUFFICES ASSUME ModeInv, [Next]_vars PROVE ModeInv'
  OBVIOUS
<1>o. odd' = odd /\ DOMAIN app' = DOMAIN Fresh
  BY OddStep, DomainStep DEF ModeInv
<1> DEFINE Known == odd \notin {"query", "unclean"}
<1> USE DEF job
<1>j. ASSUME Known, orphans' \subseteq orphans,
             UNCHANGED <<at, sql>> \/ at' \notin {"import", "finalize"}
      PROVE  JobInv'
  BY <1>j DEF ModeInv, JobInv, PastBatch, Past
<1>f. DOMAIN Fresh = {"init", "mode", "blockSync", "nextId", "indexId", "kickData",
                      "kickImport", "pause", "working", "indexed"}
  BY DEF Fresh
<1>c. None \notin Int /\ Genesis \in Nat /\ FirstTip \in Nat
      /\ Depth \in Nat /\ Genesis < FirstTip - Depth /\ FileMax \in Nat \ {0} /\ Chunk \in Nat \ {0}
  BY ConstantsAssumption
<1>m. None \notin Modes
  BY ConstantsAssumption
<1>t. Tops \subseteq Nat
  BY TopsType
<1>1. CASE Still
  BY <1>1, <1>o, StillStep
<1> DEFINE Frame == /\ pc' \in [Procs -> Status] /\ (at' # "off" => Inside' # {})
                    /\ tip' \in Nat /\ tip' >= FirstTip /\ env' \in Modes
<1>b. Proceed("init") \/ Proceed("genesis") \/ Proceed("initialized") \/ Proceed("first")
      \/ Proceed("storeMode") \/ Proceed("kickList") \/ Proceed("load") \/ Proceed("mark")
      \/ Proceed("move") \/ Proceed("ready")
      => at # "off"
  BY DEF Proceed
<1>2. CASE CheckInit
  <2>1. at = "init" /\ pc' = pc /\ UNCHANGED <<tip, env, app, rows, files, list, tables, orphans>>
    BY <1>2 DEF CheckInit, Proceed, Goto, world, db, disk
  <2>2. Known => at' = "partitions" \/ (at' = "genesis" /\ app.init # TRUE)
    BY <1>2 DEF CheckInit, Goto, Read, Fault
  <2> QED
    BY <1>o, <1>j, <2>1, <2>2 DEF ModeInv, AppInv, PlaceInv, FileInv, Past, Inside
<1>3. CASE InitBlockSync \/ MarkInit \/ FirstBlock \/ StoreMode
  <2>1. pc' = pc \/ (ExitProcess /\ at' = "off")
    BY <1>3 DEF InitBlockSync, MarkInit, FirstBlock, StoreMode, Goto, ExitProcess
  <2>2. Frame
    <3>1. at # "off" /\ tip' = tip /\ env' = env
      BY <1>3, <1>b DEF InitBlockSync, MarkInit, FirstBlock, StoreMode, world
    <3>2. pc' \in [Procs -> Status]
      BY <2>1 DEF ModeInv, ExitProcess, Status
    <3> QED
      BY <2>1, <3>1, <3>2 DEF ModeInv, Inside
  <2>3. /\ UNCHANGED <<tip, env, rows, files, tables, orphans>> /\ list' \subseteq list
        /\ at' \notin {"import", "finalize"}
    BY <1>3 DEF InitBlockSync, MarkInit, FirstBlock, StoreMode, Goto, ExitProcess, world, disk
  <2>j. Known => JobInv'
    BY <1>j, <2>3
  <2>4. CASE InitBlockSync
    <3>1. at = "genesis" /\ at' = "initialized"
      BY <2>4 DEF InitBlockSync, Proceed, Goto
    <3>2. Known => app' \in {app, [app EXCEPT !.blockSync = Genesis]}
      BY <2>4 DEF InitBlockSync, Put, Stored
    <3>3. Known => AppInv' /\ PlaceInv'
      BY <3>1, <3>2, <2>3, <1>c, <1>f, <1>m DEF ModeInv, AppInv, PlaceInv, Modes
    <3> QED
      BY <3>3, <2>2, <2>3, <2>j, <1>o DEF ModeInv, FileInv, Past
  <2>5. CASE MarkInit
    BY <2>5, <2>2, <2>3, <2>j, <1>o, <1>c, <1>f DEF MarkInit, Proceed, Goto, Put, Stored, Fault,
       ModeInv, AppInv, PlaceInv, FileInv, Past
  <2>6. CASE FirstBlock
    BY <2>6, <2>2, <2>3, <2>j, <1>o, <1>c, <1>f DEF FirstBlock, Proceed, Goto, Put, Stored, Fault,
       ModeInv, AppInv, PlaceInv, FileInv, Past, ExitProcess
  <2>7. CASE StoreMode
    BY <2>7, <2>2, <2>3, <2>j, <1>o, <1>c, <1>f DEF StoreMode, Proceed, Goto, Put, Stored, Fault,
       ModeInv, AppInv, PlaceInv, FileInv, Past, Modes
  <2> QED
    BY <1>3, <2>4, <2>5, <2>6, <2>7
<1>4. CASE KickstartList
  <2>1. pc' = pc /\ UNCHANGED <<tip, env, app, rows, files, tables, orphans>> /\ at' = "load" /\ at # "off"
    BY <1>4, <1>b DEF KickstartList, world, db, disk
  <2>2. list' \subseteq {t \in Tops : files[t] # {}}
    BY <1>4 DEF KickstartList, ToLoad
  <2> QED
    BY <1>o, <1>j, <2>1, <2>2 DEF ModeInv, AppInv, PlaceInv, FileInv, Past, Inside
<1>5. CASE KickstartLoad
  <2>1. pc' = pc /\ UNCHANGED <<tip, env, app, files, tables, orphans>> /\ at = "load"
    BY <1>5 DEF KickstartLoad, Proceed, Goto, world, disk
  <2>2. list' \subseteq list /\ at' \in {"flags", "mark", "load"} /\ (at' = "mark" => list' # {})
    BY <1>5 DEF KickstartLoad, Goto
  <2>3. ASSUME Known PROVE \A r \in rows' : Past(r)
    <3>1. CASE rows' = rows
      BY <3>1, <2>3 DEF ModeInv, FileInv
    <3>2. CASE list # {} /\ rows' = rows \cup Loaded(files[Least(list)]) /\ tables = "all"
      <4> DEFINE t == Least(list)
      <4>1. t \in list /\ t \in Tops
        BY <3>2, <2>3, <1>t, LeastIn DEF ModeInv, FileInv
      <4>2. \A r \in files[t] : Past(r)
        BY <2>3, <4>1 DEF ModeInv, FileInv
      <4>3. \A r \in Loaded(files[t]) : Past(r)
        BY <4>2 DEF Loaded, Past
      <4> QED
        BY <3>2, <4>3, <2>3 DEF ModeInv, FileInv
    <3> QED
      BY <3>1, <3>2, <1>5 DEF KickstartLoad, Psql
  <2> QED
    BY <1>o, <1>j, <2>1, <2>2, <2>3 DEF ModeInv, AppInv, PlaceInv, FileInv, Past, Inside
<1>6. CASE KickstartMark
  BY <1>6, <1>j, <1>o, <1>f DEF KickstartMark, Proceed, Goto, Put, Stored, world, disk,
     ModeInv, AppInv, PlaceInv, FileInv, Past, Inside
<1>7. CASE KickstartMove
  <2>1. pc' = pc /\ UNCHANGED <<tip, env, rows, files, tables, orphans>> /\ list' \subseteq list
        /\ at = "move" /\ at' \in {"load", "loaded"}
    BY <1>7 DEF KickstartMove, Proceed, world, disk
  <2>2. Known => Least(list) \in Nat /\ Least(list) > Genesis
    <3>1. ASSUME Known PROVE list \in SUBSET Nat /\ list # {} /\ list \subseteq {t \in Tops : t > Genesis}
      BY <3>1, <1>t, <2>1 DEF ModeInv, PlaceInv, FileInv
    <3> QED
      BY <3>1, LeastIn
  <2>3. Known => app' \in {app, [app EXCEPT !.blockSync = Least(list)]}
    BY <1>7 DEF KickstartMove, Put, Stored
  <2> QED
    BY <1>o, <1>j, <1>c, <1>f, <2>1, <2>2, <2>3 DEF ModeInv, AppInv, PlaceInv, FileInv, Past, Inside
<1>8. CASE Synchronize
  <2>1. at = "ready" /\ pc' = pc
        /\ UNCHANGED <<tip, env, files, tables, list, at, rows, sql, orphans>>
    BY <1>8 DEF Synchronize, Proceed, world, disk, procs, job
  <2>2. \/ app.blockSync = None /\ app' = [app EXCEPT !.blockSync = 0]
        \/ /\ app.blockSync # None /\ app.blockSync < tip
           /\ app' = [app EXCEPT !.blockSync = tip]
    BY <1>8 DEF Synchronize
  <2>3. ASSUME Known PROVE AppInv'
    <3>1. DOMAIN app' = DOMAIN app /\ app'.mode = app.mode /\ app'.init = app.init
      BY <2>2, <2>3, <1>f DEF ModeInv, AppInv
    <3>2. app'.blockSync \in {0, tip} /\ (app.blockSync # None => app'.blockSync = tip /\ app.blockSync < tip)
      BY <2>2, <2>3, <1>f DEF ModeInv, AppInv
    <3> QED
      BY <3>1, <3>2, <2>3, <1>c DEF ModeInv, AppInv
  <2> QED
    BY <1>o, <1>j, <2>1, <2>3 DEF ModeInv, PlaceInv, FileInv, Past, Inside
<1>19. CASE ExtractBatch
  <2> DEFINE batch == {b \in app.blockSync + 1 .. tip : b > Genesis}
  <2>1. at # "off" /\ at' = "import" /\ pc' = pc
        /\ UNCHANGED <<tip, env, files, tables, list, rows, app, orphans>>
    BY <1>19 DEF ExtractBatch, Proceed, Goto, world, disk, db
  <2>2. /\ app.blockSync # None /\ {"rows", "top"} \subseteq DOMAIN sql' /\ sql'.top = tip
        /\ \A r \in sql'.rows : "block" \in DOMAIN r /\ r.block \in batch
    <3>1. PICK n : sql' = [rows |-> {[block |-> b, id |-> n + Cardinality({c \in batch : c <= b}),
                                     codes |-> AddressCache, kicked |-> 0, late |-> 0] : b \in batch},
                           next |-> NextId(n, Cardinality(batch)), top |-> tip]
      BY <1>19, Zenon DEF ExtractBatch
    <3> DEFINE id(b) == n + Cardinality({c \in batch : c <= b})
    <3>2. sql' = [rows |-> {[block |-> b, id |-> id(b), codes |-> AddressCache,
                             kicked |-> 0, late |-> 0] : b \in batch},
                  next |-> NextId(n, Cardinality(batch)), top |-> tip]
      BY <3>1
    <3>3. app.blockSync # None
      BY <1>19 DEF ExtractBatch
    <3> HIDE DEF id, batch
    <3> QED
      BY <3>2, <3>3
  <2>3. ASSUME Known PROVE PastBatch(sql)'
    <3>1. batch \subseteq {b \in Nat : b > Genesis}
      BY <2>2, <2>3 DEF ModeInv, AppInv
    <3>2. tip \in Nat /\ tip > Genesis
      BY <1>c DEF ModeInv
    <3> QED
      BY <2>2, <3>1, <3>2 DEF PastBatch, Past
  <2> QED
    BY <1>o, <2>1, <2>3 DEF ModeInv, AppInv, PlaceInv, FileInv, JobInv, PastBatch, Past, Inside
<1>20. CASE ImportBatch
  <2>1. at = "import" /\ at' \in {"ready", "finalize"} /\ pc' = pc
        /\ UNCHANGED <<tip, env, files, tables, list, orphans>>
    BY <1>20 DEF ImportBatch, Proceed, Goto, world, disk
  <2>2. /\ rows' = rows \/ rows' = rows \cup sql.rows
        /\ app' = app \/ app' = [app EXCEPT !.nextId = sql.next]
        /\ sql' = sql \/ at' = "ready"
    BY <1>20 DEF ImportBatch, Commit, Goto
  <2>3. ASSUME Known PROVE (\A r \in rows' : Past(r)) /\ AppInv' /\ JobInv'
    <3>1. (\A r \in rows' : Past(r)) /\ JobInv'
      BY <2>1, <2>2, <2>3 DEF ModeInv, FileInv, JobInv, PastBatch
    <3>2. AppInv'
      BY <2>2, <2>3, <1>f DEF ModeInv, AppInv
    <3> QED
      BY <3>1, <3>2
  <2> QED
    BY <1>o, <2>1, <2>3 DEF ModeInv, PlaceInv, FileInv, Inside
<1>21. CASE FinalizeBatch
  <2>1. at = "finalize" /\ at' = "ready" /\ pc' = pc
        /\ UNCHANGED <<tip, env, files, tables, list, rows, orphans>>
    BY <1>21 DEF FinalizeBatch, Proceed, Goto, world, disk
  <2>2. app' \in {app, [app EXCEPT !.blockSync = sql.top]}
    BY <1>21 DEF FinalizeBatch, Put, Stored
  <2>3. ASSUME Known PROVE AppInv'
    BY <2>1, <2>2, <2>3, <1>c, <1>f DEF ModeInv, AppInv, JobInv, PastBatch
  <2> QED
    BY <1>o, <2>1, <2>3 DEF ModeInv, PlaceInv, FileInv, JobInv, PastBatch, Past, Inside
<1>22. ASSUME NEW s \in orphans, OrphanCommits(s) PROVE ModeInv'
  <2>1. UNCHANGED <<at, pc, tip, env, files, tables, list, sql>> /\ orphans' \subseteq orphans
    BY <1>22 DEF OrphanCommits, world, disk, procs
  <2>2. rows' = rows \cup s.rows /\ app' = [app EXCEPT !.nextId = s.next]
    BY <1>22 DEF OrphanCommits, Commit
  <2>3. ASSUME Known PROVE (\A r \in rows' : Past(r)) /\ JobInv'
    BY <2>1, <2>2, <2>3 DEF ModeInv, FileInv, JobInv, PastBatch, Past
  <2>4. ASSUME Known PROVE AppInv' /\ PlaceInv'
    BY <2>1, <2>2, <2>4, <1>f DEF ModeInv, AppInv, PlaceInv
  <2> QED
    BY <1>o, <2>1, <2>3, <2>4 DEF ModeInv, FileInv, Inside
<1>9. ASSUME NEW m \in Modes, ChangeMode(m) PROVE ModeInv'
  BY <1>9, <1>o, <1>j DEF ChangeMode, NoneRuns, db, disk, procs, ModeInv, AppInv, PlaceInv,
     FileInv, Past, Inside
<1>10. CASE Nuke
  BY <1>10, <1>o, <1>j, <1>m DEF Nuke, NoneRuns, Fresh, world, disk, procs, ModeInv, AppInv, PlaceInv,
     FileInv, Past, Inside, Modes
<1>11. CASE ExportFile
  <2>1. UNCHANGED <<pc, tip, env, app, rows, tables, list, at, sql, orphans>>
    BY <1>11 DEF ExportFile, world, db, procs
  <2>2. PICK t \in Tops : /\ Cardinality(RowsIn(importHeight, t)) >= FileMax
                          /\ files' = [files EXCEPT ![t] =
                               {[r EXCEPT !.kicked = 1] : r \in RowsIn(importHeight, t)}]
    <3> DEFINE full == {t \in Tops : /\ t >= importHeight /\ t - Chunk + 1 < app.blockSync
                                     /\ Cardinality(RowsIn(importHeight, t)) >= FileMax}
    <3>1. full \in SUBSET Nat /\ full # {}
      BY <1>11, <1>t DEF ExportFile
    <3>2. Least(full) \in full
      BY <3>1, LeastIn
    <3> QED
      BY <1>11, <3>2 DEF ExportFile
  <2>3. ASSUME Known PROVE FileInv'
    <3>1. \A r \in RowsIn(importHeight, t) : Past(r) /\ r.block <= t
      BY <2>3, <1>t DEF RowsIn, ModeInv, FileInv, Past
    <3>2. RowsIn(importHeight, t) # {}
      BY <2>2, <1>c, FS_EmptySet
    <3>3. t > Genesis
      BY <3>1, <3>2, <1>t, <1>c DEF Past
    <3>4. \A r \in files'[t] : Past(r)
      BY <2>2, <2>3, <3>1 DEF ModeInv, FileInv, Past
    <3> QED
      BY <2>1, <2>2, <2>3, <3>3, <3>4 DEF ModeInv, FileInv
  <2> QED
    BY <1>o, <1>j, <2>1, <2>3 DEF ModeInv, AppInv, PlaceInv, Inside
<1>12. CASE Grow
  BY <1>12, <1>o, <1>j, <1>c DEF Grow, db, disk, procs, ModeInv, AppInv, PlaceInv, FileInv, Past, Inside
<1>13. ASSUME NEW p \in Procs, NEW k \in BOOLEAN, StartProcess(p, k) PROVE ModeInv'
  BY <1>13, <1>o, <1>j DEF StartProcess, world, db, disk, ModeInv, AppInv, PlaceInv, FileInv,
     Past, Inside, Status
<1>14. ASSUME NEW p \in Procs, CheckPid(p) PROVE ModeInv'
  <2>1. pc' \in [Procs -> Status] /\ Inside' = Inside
    BY <1>14 DEF CheckPid, Pass, Inside, ModeInv, Status
  <2> QED
    BY <1>14, <1>o, <1>j, <2>1 DEF CheckPid, Pass, world, db, disk, ModeInv, AppInv, PlaceInv,
       FileInv, Past
<1>15. ASSUME NEW p \in Procs, WritePid(p) PROVE ModeInv'
  BY <1>15, <1>o, <1>j DEF WritePid, world, db, ModeInv, AppInv, PlaceInv, FileInv, Past, Inside, Status
<1>16. ASSUME NEW p \in Procs, Kill(p) PROVE ModeInv'
  <2>1. pc' = [pc EXCEPT ![p] = "off"] /\ UNCHANGED <<tip, env, rows, files, tables>>
    BY <1>16 DEF Kill, world, disk
  <2>2. \/ at' = "off" /\ list' = {}
        \/ pc[p] # "in" /\ at' = at /\ list' = list
    BY <1>16 DEF Kill
  <2>3. app' \in {app, [app EXCEPT !.working = TRUE]}
    BY <1>16 DEF Kill, Stored
  \* An orphan has the batch its parent was at.
  <2>4. ASSUME Known PROVE JobInv'
    <3>1. /\ at' \notin {"import", "finalize"} \/ UNCHANGED <<at, sql>>
          /\ \/ orphans' = orphans
             \/ at = "import" /\ orphans' = orphans \cup {Orphaned(sql)}
      BY <1>16 DEF Kill
    <3>2. at = "import" => PastBatch(Orphaned(sql))
      BY <2>4 DEF ModeInv, JobInv, PastBatch, Orphaned, Past
    <3>3. (\A s \in orphans' : PastBatch(s)) /\ (at' \in {"import", "finalize"} => PastBatch(sql'))
      BY <2>4, <3>1, <3>2, Zenon DEF ModeInv, JobInv
    <3> QED
      BY <3>3 DEF JobInv, PastBatch, Past
  <2>5. ASSUME Known PROVE AppInv' /\ PlaceInv' /\ FileInv'
    BY <1>f, <2>1, <2>2, <2>3, <2>5 DEF ModeInv, AppInv, PlaceInv, FileInv, Past
  <2> QED
    BY <1>o, <2>1, <2>2, <2>4, <2>5 DEF ModeInv, Inside, Status
<1>17. CASE UNCHANGED vars
  BY <1>17, <1>1 DEF Still, vars, world, db, disk, procs
<1>18. CASE IndexBuild \/ IndexMark \/ Pause \/ PauseExit \/ Unpause \/ ExportBegin \/ ExportEnd
           \/ \E s \in orphans : OrphanEnds(s)
  BY <1>18, <1>1, RunStill
<1> QED
  BY <1>2, <1>3, <1>4, <1>5, <1>6, <1>7, <1>8, <1>9, <1>10, <1>11, <1>12, <1>13, <1>14,
     <1>15, <1>16, <1>17, <1>18, <1>19, <1>20, <1>21, <1>22, <1>1, BootStill DEF Next, Boot, Run, Operate

\* The mode that is stored vouches for the block the archive starts at: wherever
\* initialInit is killed, and however often it is begun again, in whatever mode.
THEOREM StoredModeVouches == Spec => []ModeVouches
<1>1. Init => ModeInv
  BY ConstantsAssumption DEF Init, Fresh, ModeInv, AppInv, PlaceInv, JobInv, FileInv, Status, Modes
<1>2. ModeInv => ModeVouches
  BY DEF ModeInv, AppInv, ModeVouches
<1> QED
  BY <1>1, <1>2, ModeInvStep, PTL DEF Spec

=============================================================================
