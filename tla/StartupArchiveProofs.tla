------------------------- MODULE StartupArchiveProofs -------------------------
(***************************************************************************)
(* Theorems about what a start leaves in the database, for any number of   *)
(* processes, any chain, any files and any faults: its types, the mode,    *)
(* the address cache, and the archive, which is indexed, exported, nuked   *)
(* and kickstarted.  Each property has an invariant of its own; they share *)
(* the types and two facts about who is where in a start.                  *)
(***************************************************************************)
EXTENDS StartupProofs

-----------------------------------------------------------------------------
(* Types *)

AppType ==
  /\ DOMAIN app = DOMAIN Fresh
  /\ app.init \in {TRUE, None} /\ app.mode \in Modes \cup {None}
  /\ app.blockSync \in Nat \cup {None} /\ app.nextId \in Nat \cup {None}
  /\ app.indexId \in {0, None} /\ app.kickImport \in Tops \cup {None}
  /\ app.kickData \in Flag /\ app.pause \in Flag /\ app.working \in Flag
  /\ app.indexed \subseteq Indexes

\* Every set of rows is finite, so that rows can be counted.
DataType ==
  /\ odd \in Oddities /\ used \in 0..MaxFaults
  /\ tip \in Nat /\ tip >= FirstTip /\ env \in Modes
  /\ tables \in {"none", "some", "all"}
  /\ rows \subseteq Row /\ IsFiniteSet(rows)
  /\ codes \in 0..MaxTables /\ made \in 0..MaxTables /\ parts \in Nat /\ built \subseteq Indexes
  /\ indexFile \in (0..MaxTables) \cup {None} /\ importHeight \in Nat
  /\ files \in [Tops -> SUBSET Row] /\ \A t \in Tops : IsFiniteSet(files[t])
  /\ exporting \in BOOLEAN

\* A start is somebody's, its list is of files that are there, and one that kickstarts
\* has an index file.
ControlType ==
  /\ pidFile \in Procs \cup {None}
  /\ pc \in [Procs -> Status] /\ kick \in [Procs -> BOOLEAN] /\ at \in Locations
  /\ IsFiniteSet(Inside) /\ (at # "off" => Inside # {})
  /\ list \subseteq Tops /\ (at \in {"mark", "move"} => list # {})
  /\ \A t \in list : files[t] # {}
  /\ \A p \in Procs : kick[p] => pc[p] # "off" /\ indexFile # None
  /\ at = "kickCache" => indexFile # None
  /\ at = "building" => Indexes \ app.indexed # {}

\* What psql is to import was taken from the database.
JobType ==
  /\ redis \in (0..MaxTables) \cup {None}
  /\ sql \in SqlFile \cup {None}
  /\ at \in {"import", "finalize"} => sql \in SqlFile /\ IsFiniteSet(sql.rows)
  /\ orphans \subseteq SqlFile /\ \A s \in orphans : IsFiniteSet(s.rows)

TypeInv == AppType /\ DataType /\ ControlType /\ JobType

LEMMA BatchInHand ==
  ASSUME TypeInv, at \in {"import", "finalize"}
  PROVE  sql \in SqlFile /\ sql.rows \subseteq Row /\ sql.next \in Nat /\ sql.top \in Nat
BY DEF TypeInv, JobType, SqlFile

LEMMA OrphanInHand ==
  ASSUME TypeInv, NEW s \in orphans
  PROVE  s.rows \subseteq Row /\ s.next \in Nat /\ s.top \in Nat
BY DEF TypeInv, JobType, SqlFile

LEMMA LeastTop == ASSUME TypeInv, list # {} PROVE Least(list) \in list /\ Least(list) \in Tops
BY TopsType, LeastIn DEF TypeInv, ControlType

LEMMA NextIndexIn == ASSUME Indexes \ app.indexed # {} PROVE NextIndex \in Indexes
BY ConstantsAssumption, LeastIn DEF NextIndex

\* The blocks a cycle indexes, in a batch whose ids are counted.
Batch(lo, hi) == {b \in lo + 1 .. hi : b > Genesis}

LEMMA BatchFinite ==
  ASSUME NEW lo \in Int, NEW hi \in Int
  PROVE  IsFiniteSet(Batch(lo, hi)) /\ Cardinality(Batch(lo, hi)) \in Nat
<1>1. IsFiniteSet(lo + 1 .. hi)
  BY FS_Interval
<1>2. Batch(lo, hi) \subseteq lo + 1 .. hi
  BY DEF Batch
<1> QED
  BY <1>1, <1>2, FS_Subset, FS_CardinalityType

LEMMA AppTypeStep == TypeInv /\ [Next]_vars => AppType'
<1> SUFFICES ASSUME TypeInv, [Next]_vars PROVE AppType'
  OBVIOUS
<1>f. DOMAIN Fresh = {"init", "mode", "blockSync", "nextId", "indexId", "kickData",
                      "kickImport", "pause", "working", "indexed"}
  BY DEF Fresh
<1>a. AppType
  BY DEF TypeInv
<1>c. Genesis \in Nat /\ FirstTip \in Nat /\ Depth \in Nat /\ Genesis < FirstTip - Depth
  BY ConstantsAssumption
<1>t. tip \in Nat /\ tip >= FirstTip /\ env \in Modes
  BY DEF TypeInv, DataType
<1>1. CASE app' = app
  BY <1>a, <1>1 DEF AppType
<1> USE DEF Put, Stored, Flag
<1>2. CASE InitDefaults \/ KickstartFlag \/ KickstartEnd \/ MarkInit \/ InitBlockSync
  BY <1>2, <1>a, <1>f, <1>c DEF InitDefaults, KickstartFlag, KickstartEnd, MarkInit,
     InitBlockSync, AppType
<1>3. CASE FirstBlock \/ StoreMode \/ InitIndexId
  <2>1. tip - Depth \in Nat
    BY <1>c, <1>t
  <2>2. \/ app' = app \/ app' = [app EXCEPT !.mode = env] \/ app' = [app EXCEPT !.indexId = 0]
        \/ app' = [app EXCEPT !.blockSync = tip - Depth]
    BY <1>3 DEF FirstBlock, StoreMode, InitIndexId
  <2> QED
    BY <2>1, <2>2, <1>a, <1>f, <1>t DEF AppType
<1>4. CASE KickstartMark \/ KickstartMove
  <2>1. Least(list) \in Tops /\ Least(list) \in Nat
    BY <1>4, LeastTop, TopsType DEF KickstartMark, KickstartMove, Proceed, TypeInv, ControlType
  <2> QED
    BY <1>4, <2>1, <1>a, <1>f DEF KickstartMark, KickstartMove, AppType
<1>5. CASE ResetFlags
  BY <1>5, <1>a, <1>f DEF ResetFlags, Reset, AppType
<1>6. CASE IndexMark
  <2>1. app' = app \/ app' = [app EXCEPT !.indexed = app.indexed \cup {NextIndex}]
    BY <1>6 DEF IndexMark
  <2>2. NextIndex \in Indexes
    BY <1>6, NextIndexIn DEF IndexMark, Proceed, TypeInv, ControlType
  <2> QED
    BY <2>1, <2>2, <1>a, <1>f DEF AppType
<1>7. CASE Synchronize \/ FinalizeBatch
  <2>1. app' = app \/ \E v \in Nat : app' = [app EXCEPT !.blockSync = v]
    <3>1. CASE Synchronize
      BY <3>1, <1>t DEF Synchronize
    <3>2. CASE FinalizeBatch
      <4>1. sql.top \in Nat
        BY <3>2, BatchInHand DEF FinalizeBatch, Proceed
      <4> QED
        BY <3>2, <4>1 DEF FinalizeBatch
    <3> QED
      BY <1>7, <3>1, <3>2
  <2> QED
    BY <2>1, <1>a, <1>f DEF AppType
<1>13. CASE ImportBatch \/ \E s \in orphans : OrphanCommits(s)
  <2>1. app' = app \/ \E v \in Nat : app' = [app EXCEPT !.nextId = v]
    <3>1. CASE ImportBatch
      <4>1. sql.next \in Nat
        BY <3>1, BatchInHand DEF ImportBatch, Proceed
      <4> QED
        BY <3>1, <4>1 DEF ImportBatch, Commit
    <3>2. CASE \E s \in orphans : OrphanCommits(s)
      BY <3>2, OrphanInHand DEF OrphanCommits, Commit
    <3> QED
      BY <1>13, <3>1, <3>2
  <2> QED
    BY <2>1, <1>a, <1>f DEF AppType
<1>8. CASE Pause \/ PauseExit \/ Unpause
  BY <1>8, <1>a, <1>f DEF Pause, PauseExit, Unpause, AppType
<1>9. CASE Nuke
  BY <1>9 DEF Nuke, AppType, Fresh
<1>10. ASSUME NEW p \in Procs, Kill(p) PROVE AppType'
  BY <1>10, <1>a, <1>f DEF Kill, AppType
<1>11. CASE \/ InitTables \/ CheckMode \/ CheckInit \/ InitPartitions \/ KickstartCache
            \/ PopularAccounts \/ AssignAddresses \/ AssignAfterText \/ KickstartBegin
            \/ KickstartList \/ KickstartLoad \/ LookFlags \/ IndexBuild
            \/ ExtractBatch \/ (\E s \in orphans : OrphanEnds(s))
            \/ \E m \in Modes : ChangeMode(m)
            \/ ExportBegin \/ ExportFile \/ ExportEnd \/ Grow \/ UNCHANGED vars
  BY <1>11, <1>1 DEF InitTables, CheckMode, CheckInit, InitPartitions, KickstartCache,
     PopularAccounts, AssignAddresses, AssignAfterText, KickstartBegin, KickstartList,
     KickstartLoad, LookFlags, IndexBuild, ExtractBatch, OrphanEnds, ChangeMode, ExportBegin,
     ExportFile, ExportEnd, Grow, vars, db
<1>12. ASSUME NEW p \in Procs, NEW k \in BOOLEAN, StartProcess(p, k) \/ CheckPid(p) \/ WritePid(p)
       PROVE AppType'
  BY <1>12, <1>1 DEF StartProcess, CheckPid, Pass, WritePid, db
<1> QED
  BY <1>2, <1>3, <1>4, <1>5, <1>6, <1>7, <1>8, <1>9, <1>10, <1>11, <1>12, <1>13 DEF Next, Boot,
     Run, Operate

LEMMA ImageFinite ==
  ASSUME NEW S, IsFiniteSet(S), NEW f
  PROVE  IsFiniteSet({f[x] : x \in S})
<1> DEFINE T == {f[x] : x \in S}
           g == [x \in S |-> f[x]]
<1>1. g \in Surjection(S, T)
  BY DEF Surjection
<1> HIDE DEF g, T
<1>2. IsFiniteSet(T)
  BY <1>1, FS_Surjection
<1> QED
  BY <1>2 DEF T

\* What psql makes of a file is rows, one for each of the file.
LEMMA LoadedType ==
  ASSUME rows \subseteq Row, IsFiniteSet(rows), NEW file \in SUBSET Row, IsFiniteSet(file)
  PROVE  /\ Loaded(file) \subseteq Row /\ IsFiniteSet(Loaded(file))
         /\ \A r \in Loaded(file) : r.kicked > 0 /\ \E s \in file : r = [s EXCEPT !.kicked = r.kicked]
         /\ \A s \in file : \E r \in Loaded(file) : r.block = s.block
         /\ (\A s, u \in file : s.block = u.block => s = u) =>
              \A r, q \in Loaded(file) : r.block = q.block => r = q
<1> DEFINE kicked(r) == 1 + Cardinality({s \in rows : s.block = r.block /\ s.kicked > 0})
           f == [r \in file |-> [r EXCEPT !.kicked = kicked(r)]]
<1>1. ASSUME NEW r \in file PROVE kicked(r) \in Nat /\ kicked(r) > 0
  <2>1. {s \in rows : s.block = r.block /\ s.kicked > 0} \subseteq rows
    OBVIOUS
  <2> QED
    BY <2>1, FS_Subset, FS_CardinalityType
<1>2. Loaded(file) = {f[r] : r \in file}
  BY DEF Loaded
<1>3. IsFiniteSet(Loaded(file))
  <2> HIDE DEF f
  <2> QED
    BY <1>2, ImageFinite
<1> HIDE DEF kicked
<1>4. \A r \in file : f[r] \in Row /\ f[r] = [r EXCEPT !.kicked = kicked(r)] /\ f[r].kicked = kicked(r)
  BY <1>1 DEF Row
<1> HIDE DEF f
<1>5. ASSUME NEW r \in Loaded(file)
      PROVE r \in Row /\ r.kicked > 0 /\ \E s \in file : r = [s EXCEPT !.kicked = r.kicked]
  <2>1. PICK s \in file : r = f[s]
    BY <1>2
  <2>2. r = [s EXCEPT !.kicked = r.kicked]
    BY <1>4, <2>1
  <2> QED
    BY <1>1, <1>4, <2>1, <2>2
<1>6. \A s \in file : f[s].block = s.block /\ f[s] \in Loaded(file)
  BY <1>2, <1>4 DEF Row
<1>7. ASSUME \A s, u \in file : s.block = u.block => s = u,
             NEW r \in Loaded(file), NEW q \in Loaded(file), r.block = q.block
      PROVE r = q
  <2>1. PICK s \in file : r = f[s]
    BY <1>2
  <2>2. PICK u \in file : q = f[u]
    BY <1>2
  <2> QED
    BY <1>6, <1>7, <2>1, <2>2
<1> QED
  BY <1>3, <1>5, <1>6, <1>7

\* A cycle makes a row of each block of its batch.
Indexed(lo, hi, n, c) ==
  {[block |-> b, id |-> n + Cardinality({d \in Batch(lo, hi) : d <= b}), codes |-> c,
    kicked |-> 0, late |-> 0] : b \in Batch(lo, hi)}

LEMMA IndexedType ==
  ASSUME NEW lo \in Nat, NEW hi \in Nat, NEW n \in Nat, NEW c \in Nat
  PROVE  /\ Indexed(lo, hi, n, c) \subseteq Row /\ IsFiniteSet(Indexed(lo, hi, n, c))
         /\ \A r \in Indexed(lo, hi, n, c) : r.kicked = 0 /\ r.codes = c /\ r.block \in Batch(lo, hi)
         /\ \A b \in Batch(lo, hi) : \E r \in Indexed(lo, hi, n, c) : r.block = b
         /\ \A r, s \in Indexed(lo, hi, n, c) : r.block = s.block => r = s
<1> DEFINE id(b) == n + Cardinality({d \in Batch(lo, hi) : d <= b})
           f == [b \in Batch(lo, hi) |->
                   [block |-> b, id |-> id(b), codes |-> c, kicked |-> 0, late |-> 0]]
<1>0. IsFiniteSet(Batch(lo, hi))
  BY BatchFinite
<1>1. ASSUME NEW b \in Batch(lo, hi) PROVE id(b) \in Nat
  <2>1. {d \in Batch(lo, hi) : d <= b} \subseteq Batch(lo, hi)
    OBVIOUS
  <2> QED
    BY <2>1, <1>0, FS_Subset, FS_CardinalityType
<1>2. Indexed(lo, hi, n, c) = {f[b] : b \in Batch(lo, hi)}
  BY DEF Indexed
<1>3. IsFiniteSet(Indexed(lo, hi, n, c))
  <2> HIDE DEF f
  <2> QED
    BY <1>2, <1>0, ImageFinite
<1>4. Batch(lo, hi) \subseteq Nat
  BY DEF Batch
<1> HIDE DEF id
<1>5. \A b \in Batch(lo, hi) :
        f[b] \in Row /\ f[b].kicked = 0 /\ f[b].codes = c /\ f[b].block = b
  BY <1>1, <1>4 DEF Row
<1> HIDE DEF f
<1> QED
  BY <1>2, <1>3, <1>5

\* The batch a cycle takes from the database.
LEMMA Extracted ==
  ASSUME TypeInv, ExtractBatch
  PROVE  \E n \in Nat :
           /\ n = (IF app.nextId = None THEN 0 ELSE app.nextId) \/ odd = "query"
           /\ sql' = [rows |-> Indexed(app.blockSync, tip, n, AddressCache),
                      next |-> n + Cardinality(Batch(app.blockSync, tip)) + 2, top |-> tip]
<1> DEFINE File(n) == [rows |-> Indexed(app.blockSync, tip, n, AddressCache),
                       next |-> n + Cardinality(Batch(app.blockSync, tip)) + 2, top |-> tip]
<1>1. PICK i \in {app.nextId, None} :
        Read("nextId", i) /\ sql' = File(IF i = None THEN 0 ELSE i)
  BY Zenon DEF ExtractBatch, Indexed, Batch, NextId
<1> HIDE DEF File
<1>2. i = app.nextId \/ (i = None /\ odd = "query")
  BY <1>1 DEF Read, Fault
<1>3. (IF i = None THEN 0 ELSE i) \in Nat
  BY DEF TypeInv, AppType
<1> QED
  BY <1>1, <1>2, <1>3 DEF File

LEMMA ExtractedType ==
  ASSUME TypeInv, ExtractBatch
  PROVE  /\ sql' \in SqlFile /\ IsFiniteSet(sql'.rows) /\ sql'.top = tip
         /\ app.blockSync \in Nat /\ app.blockSync < tip
         /\ \A r \in sql'.rows : /\ r.kicked = 0 /\ r.codes = AddressCache
                                 /\ r.block \in Batch(app.blockSync, tip)
         /\ \A b \in Batch(app.blockSync, tip) : \E r \in sql'.rows : r.block = b
         /\ \A r, s \in sql'.rows : r.block = s.block => r = s
<1>1. PICK n \in Nat : sql' = [rows |-> Indexed(app.blockSync, tip, n, AddressCache),
                              next |-> n + Cardinality(Batch(app.blockSync, tip)) + 2, top |-> tip]
  BY Extracted
<1>2. app.blockSync \in Nat /\ tip \in Nat /\ app.blockSync < tip
  BY DEF ExtractBatch, TypeInv, AppType, DataType
<1>3. AddressCache \in Nat
  BY ConstantsAssumption DEF AddressCache, TypeInv, DataType, JobType
<1>4. Cardinality(Batch(app.blockSync, tip)) \in Nat
  <2>1. app.blockSync \in Int /\ tip \in Int
    BY <1>2
  <2> QED
    BY <2>1, BatchFinite
<1> DEFINE new == Indexed(app.blockSync, tip, n, AddressCache)
<1>5. /\ new \subseteq Row /\ IsFiniteSet(new)
      /\ \A r \in new : r.kicked = 0 /\ r.codes = AddressCache /\ r.block \in Batch(app.blockSync, tip)
      /\ \A b \in Batch(app.blockSync, tip) : \E r \in new : r.block = b
      /\ \A r, s \in new : r.block = s.block => r = s
  BY <1>2, <1>3, IndexedType
<1> HIDE DEF new
<1>6. sql'.rows = new /\ sql'.top = tip
  BY <1>1 DEF new
<1>7. sql' \in SqlFile
  BY <1>1, <1>2, <1>4, <1>5 DEF SqlFile, new
<1> QED
  BY <1>2, <1>5, <1>6, <1>7

LEMMA UsedStep == [Next]_vars => used' = used \/ (used < MaxFaults /\ used' = used + 1)
<1> SUFFICES ASSUME [Next]_vars PROVE used' = used \/ (used < MaxFaults /\ used' = used + 1)
  OBVIOUS
<1> USE DEF Put, Read, Psql, NoFault, Fault
<1>1. ASSUME NEW p \in Procs, \/ \E k \in BOOLEAN : StartProcess(p, k)
                              \/ CheckPid(p) \/ WritePid(p) \/ Kill(p)
      PROVE used' = used \/ (used < MaxFaults /\ used' = used + 1)
  BY <1>1 DEF StartProcess, CheckPid, Pass, WritePid, Kill
<1>2. CASE InitTables \/ InitDefaults \/ CheckMode \/ CheckInit \/ InitBlockSync \/ MarkInit
           \/ FirstBlock \/ StoreMode
  BY <1>2 DEF InitTables, InitDefaults, CheckMode, CheckInit, InitBlockSync, MarkInit,
     FirstBlock, StoreMode
<1>3. CASE InitPartitions \/ KickstartCache \/ PopularAccounts \/ InitIndexId \/ AssignAddresses
           \/ AssignAfterText
  BY <1>3 DEF InitPartitions, KickstartCache, PopularAccounts, InitIndexId, AssignAddresses,
     AssignAfterText
<1>4. CASE KickstartBegin \/ KickstartFlag \/ KickstartList \/ KickstartLoad \/ KickstartMark
           \/ KickstartMove \/ KickstartEnd \/ ResetFlags \/ LookFlags
  BY <1>4 DEF KickstartBegin, KickstartFlag, KickstartList, KickstartLoad, KickstartMark,
     KickstartMove, KickstartEnd, ResetFlags, LookFlags
<1>5. CASE Run
  BY <1>5 DEF Run, Synchronize, ExtractBatch, ImportBatch, FinalizeBatch, OrphanCommits, OrphanEnds,
     IndexBuild, IndexMark, Pause, PauseExit, Unpause
<1>6. CASE Operate \/ Grow \/ UNCHANGED vars
  BY <1>6 DEF Operate, ChangeMode, Nuke, ExportBegin, ExportFile, ExportEnd, Grow, vars
<1> QED
  BY <1>1, <1>2, <1>3, <1>4, <1>5, <1>6 DEF Next, Boot

\* What a step of the start leaves of the data, if all it does is to store a value in
\* application_data and to go on.
Data == <<tip, env, tables, rows, codes, made, parts, built, indexFile, importHeight, files,
          exporting>>

LEMMA SameData ==
  ASSUME \/ InitDefaults \/ CheckMode \/ CheckInit \/ InitBlockSync \/ MarkInit \/ FirstBlock
         \/ StoreMode \/ PopularAccounts \/ InitIndexId \/ AssignAfterText \/ KickstartBegin
         \/ KickstartFlag \/ KickstartList \/ KickstartMark \/ KickstartMove \/ KickstartEnd
         \/ ResetFlags \/ LookFlags \/ IndexMark \/ Pause \/ PauseExit \/ Unpause
         \/ Synchronize \/ ExtractBatch \/ FinalizeBatch \/ (\E s \in orphans : OrphanEnds(s))
         \/ (\E p \in Procs : \/ \E k \in BOOLEAN : StartProcess(p, k)
                              \/ CheckPid(p) \/ WritePid(p) \/ Kill(p))
         \/ UNCHANGED vars
  PROVE  UNCHANGED Data
<1> USE DEF Data, world, db, disk
<1>1. CASE InitDefaults \/ CheckMode \/ CheckInit \/ InitBlockSync \/ MarkInit \/ FirstBlock
           \/ StoreMode
  BY <1>1 DEF InitDefaults, CheckMode, CheckInit, InitBlockSync, MarkInit, FirstBlock, StoreMode
<1>2. CASE PopularAccounts \/ InitIndexId \/ AssignAfterText \/ KickstartBegin \/ KickstartFlag
           \/ KickstartList \/ KickstartMark \/ KickstartMove \/ KickstartEnd
  BY <1>2 DEF PopularAccounts, InitIndexId, AssignAfterText, KickstartBegin, KickstartFlag,
     KickstartList, KickstartMark, KickstartMove, KickstartEnd
<1>3. CASE ResetFlags \/ LookFlags \/ IndexMark \/ Pause \/ PauseExit \/ Unpause
  BY <1>3 DEF ResetFlags, LookFlags, IndexMark, Pause, PauseExit, Unpause
<1>4. ASSUME NEW p \in Procs, \/ \E k \in BOOLEAN : StartProcess(p, k)
                              \/ CheckPid(p) \/ WritePid(p) \/ Kill(p)
      PROVE UNCHANGED Data
  BY <1>4 DEF StartProcess, CheckPid, Pass, WritePid, Kill
<1>5. CASE Synchronize \/ ExtractBatch \/ FinalizeBatch \/ \E s \in orphans : OrphanEnds(s)
  BY <1>5 DEF Synchronize, ExtractBatch, FinalizeBatch, OrphanEnds
<1> QED
  BY <1>1, <1>2, <1>3, <1>4, <1>5 DEF vars

\* What the code takes for a file to be written, of the rows there are.
LEMMA ExportStep ==
  ASSUME TypeInv, ExportFile
  PROVE  \E t \in Tops :
           /\ t >= importHeight /\ exporting
           /\ odd \in {"ragged", "unclean"} \/ t <= app.blockSync
           /\ files' = [files EXCEPT ![t] = {[r EXCEPT !.kicked = 1] : r \in RowsIn(importHeight, t)}]
           /\ importHeight' = t + 1
           /\ RowsIn(importHeight, t) # {}
<1> DEFINE full == {t \in Tops : /\ t >= importHeight /\ t - Chunk + 1 < app.blockSync
                                 /\ Cardinality(RowsIn(importHeight, t)) >= FileMax}
<1>1. full \in SUBSET Nat /\ full # {}
  BY TopsType DEF ExportFile
<1>2. Least(full) \in full
  BY <1>1, LeastIn
<1>3. /\ odd \in {"ragged", "unclean"} \/ Least(full) <= app.blockSync
      /\ files' = [files EXCEPT ![Least(full)] =
                     {[r EXCEPT !.kicked = 1] : r \in RowsIn(importHeight, Least(full))}]
      /\ importHeight' = Least(full) + 1 /\ exporting
  BY DEF ExportFile, NextHeight
<1>4. ASSUME NEW t, Cardinality(RowsIn(importHeight, t)) >= FileMax
      PROVE RowsIn(importHeight, t) # {}
  BY <1>4, FS_EmptySet, ConstantsAssumption
<1> HIDE DEF full
<1>5. /\ Least(full) \in Tops /\ Least(full) >= importHeight
      /\ Cardinality(RowsIn(importHeight, Least(full))) >= FileMax
  BY <1>2 DEF full
<1> QED
  BY <1>3, <1>4, <1>5

LEMMA FileType ==
  ASSUME TypeInv, NEW t \in Tops
  PROVE  LET file == {[r EXCEPT !.kicked = 1] : r \in RowsIn(importHeight, t)}
         IN file \in SUBSET Row /\ IsFiniteSet(file)
<1> DEFINE f == [r \in rows |-> [r EXCEPT !.kicked = 1]]
           some == RowsIn(importHeight, t)
<1>1. some \subseteq rows /\ IsFiniteSet(some)
  BY FS_Subset DEF TypeInv, DataType, RowsIn
<1>2. {[r EXCEPT !.kicked = 1] : r \in some} = {f[r] : r \in some}
  BY <1>1
<1>3. \A r \in rows : f[r] \in Row
  BY DEF TypeInv, DataType, Row
<1> HIDE DEF f, some
<1>4. IsFiniteSet({f[r] : r \in some})
  BY <1>1, ImageFinite
<1>5. {f[r] : r \in some} \subseteq Row
  BY <1>1, <1>3
<1> QED
  BY <1>2, <1>4, <1>5 DEF some

LEMMA DataTypeStep == TypeInv /\ [Next]_vars => DataType'
<1> SUFFICES ASSUME TypeInv, [Next]_vars PROVE DataType'
  OBVIOUS
<1>d. DataType
  BY DEF TypeInv
<1>o. odd' \in Oddities /\ used' \in 0..MaxFaults
  BY <1>d, OddStep, UsedStep, ConstantsAssumption DEF DataType
<1>1. CASE UNCHANGED Data
  BY <1>1, <1>d, <1>o DEF Data, DataType
<1>2. CASE InitTables \/ InitPartitions
  <2>1. Partitions(tip) \in Nat
    <3>1. (tip + PartSize - 1) \div PartSize \in Nat
      BY <1>d, ConstantsAssumption DEF DataType
    <3> QED
      BY <3>1, ConstantsAssumption DEF Partitions
  <2> QED
    BY <1>2, <2>1, <1>d, <1>o DEF InitTables, InitPartitions, Psql, DataType, world, disk
<1>3. CASE KickstartCache
  <2>1. indexFile # None
    BY <1>3 DEF KickstartCache, Proceed, TypeInv, ControlType
  <2> QED
    BY <1>3, <2>1, <1>d, <1>o DEF KickstartCache, Psql, DataType, world, disk
<1>4. CASE AssignAddresses
  BY <1>4, <1>d, <1>o, ConstantsAssumption DEF AssignAddresses, Psql, DataType, disk
<1>5. CASE KickstartLoad
  <2>1. rows' \subseteq Row /\ IsFiniteSet(rows')
    <3>1. CASE rows' = rows
      BY <3>1, <1>d DEF DataType
    <3>2. CASE list # {} /\ rows' = rows \cup Loaded(files[Least(list)])
      <4>1. Least(list) \in Tops
        BY <3>2, LeastTop
      <4>2. Loaded(files[Least(list)]) \subseteq Row /\ IsFiniteSet(Loaded(files[Least(list)]))
        BY <4>1, <1>d, LoadedType DEF DataType
      <4> QED
        BY <3>2, <4>2, <1>d, FS_Union DEF DataType
    <3> QED
      BY <3>1, <3>2, <1>5 DEF KickstartLoad, Psql
  <2> QED
    BY <1>5, <2>1, <1>d, <1>o DEF KickstartLoad, DataType, world, disk
<1>6. CASE ImportBatch \/ \E s \in orphans : OrphanCommits(s)
  <2>1. PICK new \in SUBSET Row : IsFiniteSet(new) /\ (rows' = rows \/ rows' = rows \cup new)
    <3>1. CASE ImportBatch
      BY <3>1, BatchInHand DEF ImportBatch, Proceed, Commit, TypeInv, JobType
    <3>2. CASE \E s \in orphans : OrphanCommits(s)
      BY <3>2, OrphanInHand DEF OrphanCommits, Commit, TypeInv, JobType
    <3> QED
      BY <1>6, <3>1, <3>2
  <2>2. rows' \subseteq Row /\ IsFiniteSet(rows')
    BY <2>1, <1>d, FS_Union DEF DataType
  <2> QED
    BY <1>6, <2>2, <1>d, <1>o DEF ImportBatch, OrphanCommits, DataType, world, disk
<1>7. CASE IndexBuild
  <2>1. NextIndex \in Indexes
    BY <1>7, NextIndexIn DEF IndexBuild
  <2> QED
    BY <1>7, <2>1, <1>d, <1>o DEF IndexBuild, Psql, DataType, world, disk
<1>8. CASE (\E m \in Modes : ChangeMode(m)) \/ ExportBegin \/ ExportEnd \/ Grow
  <2>1. FirstTip \in Nat
    BY ConstantsAssumption
  <2>2. CASE \E m \in Modes : ChangeMode(m)
    BY <2>2, <1>d, <1>o DEF ChangeMode, DataType, db, disk
  <2>3. CASE ExportBegin
    BY <2>3, <1>d, <1>o DEF ExportBegin, DataType, world, db
  <2>4. CASE ExportEnd
    BY <2>4, <1>d, <1>o DEF ExportEnd, DataType, world, db, disk
  <2>5. CASE Grow
    BY <2>5, <2>1, <1>d, <1>o DEF Grow, DataType, db, disk
  <2> QED
    BY <1>8, <2>2, <2>3, <2>4, <2>5
<1>9. CASE Nuke
  BY <1>9, <1>d, <1>o, FS_EmptySet, ConstantsAssumption DEF Nuke, DataType, world, disk
<1>10. CASE ExportFile
  <2>1. PICK t \in Tops :
          /\ files' = [files EXCEPT ![t] = {[r EXCEPT !.kicked = 1] : r \in RowsIn(importHeight, t)}]
          /\ importHeight' = t + 1
    BY <1>10, ExportStep
  <2> DEFINE file == {[r EXCEPT !.kicked = 1] : r \in RowsIn(importHeight, t)}
  <2>2. file \in SUBSET Row /\ IsFiniteSet(file)
    BY FileType
  <2> HIDE DEF file
  <2>3. files' \in [Tops -> SUBSET Row] /\ \A u \in Tops : IsFiniteSet(files'[u])
    BY <2>1, <2>2, <1>d DEF DataType, file
  <2>4. importHeight' \in Nat
    BY <2>1, TopsType
  <2> QED
    BY <1>10, <2>3, <2>4, <1>d, <1>o DEF ExportFile, DataType, world, db
<1> QED
  BY <1>1, <1>2, <1>3, <1>4, <1>5, <1>6, <1>7, <1>8, <1>9, <1>10, SameData DEF Next, Boot, Run,
     Operate

\* Most steps of a start end it, or go to a place that asks for nothing.
Passing ==
  /\ UNCHANGED <<pidFile, indexFile, files>>
  /\ \/ ExitProcess
     \/ /\ UNCHANGED <<pc, kick>> /\ list' \subseteq list /\ at # "off"
        /\ at' \in Locations \ {"kickCache", "mark", "move", "building"}

LEMMA PassingStep == TypeInv /\ Passing => ControlType'
<1> SUFFICES ASSUME TypeInv, Passing PROVE ControlType'
  OBVIOUS
<1> USE DEF TypeInv, ControlType, Passing
<1>1. CASE ExitProcess
  <2>1. Inside' = {} /\ pc' \in [Procs -> Status] /\ kick' \in [Procs -> BOOLEAN]
    BY <1>1 DEF ExitProcess, Inside, Status
  <2>2. IsFiniteSet(Inside')
    BY <2>1, FS_EmptySet
  <2>3. \A p \in Procs : kick'[p] => kick[p] /\ pc'[p] = pc[p]
    BY <1>1 DEF ExitProcess
  <2> QED
    BY <1>1, <2>1, <2>2, <2>3 DEF ExitProcess, Locations
<1>2. CASE ~ExitProcess
  <2>1. Inside' = Inside
    BY <1>2 DEF Inside
  <2> QED
    BY <1>2, <2>1
<1> QED
  BY <1>1, <1>2

LEMMA BootPassing ==
  ASSUME TypeInv,
         \/ InitTables \/ InitDefaults \/ CheckMode \/ CheckInit \/ InitBlockSync \/ MarkInit
         \/ FirstBlock \/ StoreMode \/ KickstartCache \/ PopularAccounts \/ InitIndexId
         \/ AssignAddresses \/ AssignAfterText \/ KickstartBegin \/ KickstartFlag \/ KickstartEnd
         \/ KickstartMove \/ ResetFlags \/ LookFlags \/ IndexMark \/ PauseExit \/ Unpause
         \/ ExtractBatch \/ ImportBatch \/ FinalizeBatch
  PROVE  Passing
<1> USE DEF Passing, Proceed, Goto, Locations, ExitProcess, disk, AfterCache
<1>1. CASE InitTables \/ InitDefaults \/ CheckMode
  BY <1>1 DEF InitTables, InitDefaults, CheckMode
<1>2. CASE CheckInit \/ InitBlockSync \/ MarkInit
  BY <1>2 DEF CheckInit, InitBlockSync, MarkInit
<1>3. CASE FirstBlock \/ StoreMode
  BY <1>3 DEF FirstBlock, StoreMode
<1>4. CASE KickstartCache \/ PopularAccounts \/ InitIndexId \/ AssignAddresses \/ AssignAfterText
  BY <1>4 DEF KickstartCache, PopularAccounts, InitIndexId, AssignAddresses, AssignAfterText
<1>5. CASE KickstartBegin \/ KickstartFlag \/ KickstartEnd \/ KickstartMove
  BY <1>5 DEF KickstartBegin, KickstartFlag, KickstartEnd, KickstartMove
<1>6. CASE ResetFlags \/ LookFlags \/ IndexMark \/ PauseExit \/ Unpause
  BY <1>6 DEF ResetFlags, LookFlags, IndexMark, PauseExit, Unpause
<1>7. CASE ExtractBatch \/ ImportBatch \/ FinalizeBatch
  BY <1>7 DEF ExtractBatch, ImportBatch, FinalizeBatch
<1> QED
  BY <1>1, <1>2, <1>3, <1>4, <1>5, <1>6, <1>7

LEMMA ControlTypeStep == TypeInv /\ [Next]_vars => ControlType'
<1> SUFFICES ASSUME TypeInv, [Next]_vars PROVE ControlType'
  OBVIOUS
<1> USE DEF TypeInv, ControlType
<1>1. CASE Passing
  BY <1>1, PassingStep
<1>2. CASE InitPartitions
  <2>1. Kicked => indexFile # None
    BY DEF Kicked, Inside
  <2> QED
    BY <1>2, <2>1 DEF InitPartitions, Proceed, Goto, Inside, Locations, disk
<1>3. CASE KickstartList
  BY <1>3 DEF KickstartList, Proceed, Inside, Locations, disk, ToLoad
<1>4. CASE KickstartLoad \/ KickstartMark
  BY <1>4 DEF KickstartLoad, KickstartMark, Proceed, Goto, Inside, Locations, disk
<1>5. CASE IndexBuild
  BY <1>5 DEF IndexBuild, Proceed, Goto, Inside, Locations, disk
<1>6. CASE Synchronize \/ Pause \/ \E s \in orphans : OrphanCommits(s) \/ OrphanEnds(s)
  <2>1. app'.indexed = app.indexed
    BY <1>6 DEF Synchronize, Pause, OrphanCommits, Commit, OrphanEnds, db, AppType, Fresh
  <2>2. UNCHANGED <<disk, procs>>
    BY <1>6 DEF Synchronize, Pause, OrphanCommits, OrphanEnds
  <2> QED
    BY <2>1, <2>2 DEF Inside, disk, procs
<1>7. CASE (\E m \in Modes : ChangeMode(m)) \/ ExportEnd \/ Grow \/ UNCHANGED vars
  BY <1>7 DEF ChangeMode, ExportEnd, Grow, vars, db, Inside, disk, procs
<1>8. CASE Nuke
  <2>1. Inside = {}
    BY <1>8 DEF Nuke, NoneRuns, Inside
  <2> QED
    BY <1>8, <2>1 DEF Nuke, Inside, disk, procs
<1>9. CASE ExportBegin
  <2>1. codes # None
    BY ConstantsAssumption DEF DataType
  <2> QED
    BY <1>9, <2>1 DEF ExportBegin, Inside, db, procs
<1>10. CASE ExportFile
  <2>1. PICK t \in Tops :
          /\ files' = [files EXCEPT ![t] = {[r EXCEPT !.kicked = 1] : r \in RowsIn(importHeight, t)}]
          /\ RowsIn(importHeight, t) # {}
    BY <1>10, ExportStep
  <2> DEFINE file == {[r EXCEPT !.kicked = 1] : r \in RowsIn(importHeight, t)}
  <2>3. file # {}
    <3>1. PICK r \in RowsIn(importHeight, t) : TRUE
      BY <2>1
    <3>2. [r EXCEPT !.kicked = 1] \in file
      BY <3>1
    <3> QED
      BY <3>2
  <2> HIDE DEF file
  <2>2. \A u \in Tops : files[u] # {} => files'[u] # {}
    BY <2>1, <2>3 DEF DataType, file
  <2> QED
    BY <1>10, <2>2 DEF ExportFile, Inside, db, procs
<1>11. ASSUME NEW p \in Procs, NEW k \in BOOLEAN, StartProcess(p, k) PROVE ControlType'
  <2>1. /\ pc' = [pc EXCEPT ![p] = "check"] /\ kick' = [kick EXCEPT ![p] = k] /\ pc[p] = "off"
        /\ k => indexFile # None
    BY <1>11 DEF StartProcess, MayKickstart
  <2>2. Inside' = Inside
    BY <2>1 DEF Inside
  <2> QED
    BY <1>11, <2>1, <2>2 DEF StartProcess, db, disk, Status
<1>12. ASSUME NEW p \in Procs, CheckPid(p) PROVE ControlType'
  <2>1. PICK taken \in BOOLEAN : Pass(p, taken) /\ pc[p] = "check"
    BY <1>12 DEF CheckPid
  <2>2. Inside' = Inside /\ pc' \in [Procs -> Status]
    BY <2>1 DEF Pass, Inside, Status
  <2>3. kick' \in [Procs -> BOOLEAN] /\ \A q \in Procs : kick'[q] => kick[q] /\ pc'[q] # "off"
    BY <2>1 DEF Pass
  <2> QED
    BY <2>1, <2>2, <2>3 DEF Pass, db, disk
<1>13. ASSUME NEW p \in Procs, WritePid(p) PROVE ControlType'
  <2>1. Inside' = Inside \cup {p} /\ pc' \in [Procs -> Status]
    BY <1>13 DEF WritePid, Inside, Status
  <2>2. IsFiniteSet(Inside')
    BY <2>1, FS_AddElement
  <2> QED
    BY <1>13, <2>1, <2>2 DEF WritePid, db, Locations
<1>14. ASSUME NEW p \in Procs, Kill(p) PROVE ControlType'
  <2>1. Inside' = Inside \ {p} /\ pc' \in [Procs -> Status] /\ pc' = [pc EXCEPT ![p] = "off"]
    BY <1>14 DEF Kill, Inside, Status
  <2>2. IsFiniteSet(Inside')
    BY <2>1, FS_RemoveElement
  <2>3. kick' \in [Procs -> BOOLEAN] /\ \A q \in Procs : kick'[q] => kick[q] /\ pc'[q] # "off"
    BY <1>14, <2>1 DEF Kill
  <2>4. (at' = "off" /\ list' = {}) \/ (pc[p] # "in" /\ UNCHANGED <<at, list>>)
    BY <1>14 DEF Kill
  <2>5. app'.indexed = app.indexed /\ UNCHANGED <<pidFile, indexFile, files>>
    BY <1>14 DEF Kill, Stored, AppType, Fresh, disk
  <2>6. at' # "off" => Inside' = Inside
    BY <2>1, <2>4 DEF Inside
  <2> QED
    BY <2>1, <2>2, <2>3, <2>4, <2>5, <2>6 DEF Locations
<1> QED
  BY <1>1, <1>2, <1>3, <1>4, <1>5, <1>6, <1>7, <1>8, <1>9, <1>10, <1>11, <1>12, <1>13, <1>14,
     BootPassing DEF Next, Boot, Run, Operate

\* What becomes of a batch: a cycle takes it, imports it and marks it, or is killed and
\* leaves it to the psql it started.
LEMMA JobWriters ==
  ASSUME [Next]_vars
  PROVE  /\ redis' = redis \/ ExtractBatch \/ Nuke
         /\ sql' = sql \/ sql' = None \/ ExtractBatch
         /\ \/ orphans' \subseteq orphans
            \/ /\ odd = "orphan" /\ at = "import" /\ orphans' = orphans \cup {Orphaned(sql)}
               /\ \E p \in Procs : Kill(p)
         /\ at' \in {"import", "finalize"} =>
              \/ UNCHANGED <<at, sql>>
              \/ ExtractBatch /\ at' = "import"
              \/ ImportBatch /\ Commit(sql) /\ at = "import" /\ at' = "finalize" /\ sql' = sql
<1> DEFINE Nothing == UNCHANGED job /\ (at' = at \/ at' \notin {"import", "finalize"})
<1> USE DEF Goto, Proceed, ExitProcess, job, procs
<1>2. CASE InitTables \/ InitDefaults \/ CheckMode \/ CheckInit \/ InitBlockSync \/ MarkInit
           \/ FirstBlock \/ StoreMode
  BY <1>2 DEF InitTables, InitDefaults, CheckMode, CheckInit, InitBlockSync, MarkInit,
     FirstBlock, StoreMode
<1>3. CASE InitPartitions \/ KickstartCache \/ PopularAccounts \/ InitIndexId \/ AssignAddresses
           \/ AssignAfterText
  BY <1>3 DEF InitPartitions, KickstartCache, PopularAccounts, InitIndexId, AssignAddresses,
     AssignAfterText, AfterCache
<1>4. CASE KickstartBegin \/ KickstartFlag \/ KickstartList \/ KickstartLoad \/ KickstartMark
           \/ KickstartMove \/ KickstartEnd \/ ResetFlags \/ LookFlags
  BY <1>4 DEF KickstartBegin, KickstartFlag, KickstartList, KickstartLoad, KickstartMark,
     KickstartMove, KickstartEnd, ResetFlags, LookFlags
<1>5. CASE Synchronize \/ ExtractBatch \/ ImportBatch \/ FinalizeBatch
           \/ \E s \in orphans : OrphanCommits(s) \/ OrphanEnds(s)
  BY <1>5 DEF Synchronize, ExtractBatch, ImportBatch, FinalizeBatch, OrphanCommits, OrphanEnds
<1>6. CASE IndexBuild \/ IndexMark \/ Pause \/ PauseExit \/ Unpause
  BY <1>6 DEF IndexBuild, IndexMark, Pause, PauseExit, Unpause
<1>7. CASE Operate \/ Grow \/ UNCHANGED vars
  BY <1>7 DEF Operate, ChangeMode, Nuke, ExportBegin, ExportFile, ExportEnd, Grow, vars
<1>8. ASSUME NEW p \in Procs, \/ \E k \in BOOLEAN : StartProcess(p, k)
                              \/ CheckPid(p) \/ WritePid(p)
      PROVE Nothing
  BY <1>8 DEF StartProcess, CheckPid, Pass, WritePid
<1>9. ASSUME NEW p \in Procs, Kill(p)
      PROVE /\ redis' = redis /\ (UNCHANGED <<at, sql>> \/ (at' = "off" /\ sql' = None))
            /\ orphans' = orphans \/ (odd = "orphan" /\ at = "import"
                                      /\ orphans' = orphans \cup {Orphaned(sql)})
  BY <1>9 DEF Kill
<1> HIDE DEF Goto, Proceed, ExitProcess, job, procs
<1>10. CASE \E p \in Procs : \/ \E k \in BOOLEAN : StartProcess(p, k)
                              \/ CheckPid(p) \/ WritePid(p)
  BY <1>8, <1>10 DEF job
<1>11. CASE \E p \in Procs : Kill(p)
  BY <1>9, <1>11
<1> QED
  BY <1>2, <1>3, <1>4, <1>5, <1>6, <1>7, <1>10, <1>11 DEF Next, Boot, Run

LEMMA OrphanedType ==
  ASSUME TypeInv, at = "import"
  PROVE  /\ Orphaned(sql) \in SqlFile /\ IsFiniteSet(Orphaned(sql).rows)
         /\ Orphaned(sql).next = sql.next /\ Orphaned(sql).top = sql.top
         /\ \A r \in Orphaned(sql).rows : \E s \in sql.rows : r = [s EXCEPT !.late = r.late]
<1>1. sql \in SqlFile /\ IsFiniteSet(sql.rows) /\ sql.rows \subseteq Row
  BY BatchInHand DEF TypeInv, JobType
<1>2. used + 1 \in Nat
  BY ConstantsAssumption DEF TypeInv, DataType
<1> DEFINE f == [r \in sql.rows |-> [r EXCEPT !.late = used + 1]]
<1>3. \A r \in sql.rows : f[r] \in Row /\ f[r] = [r EXCEPT !.late = f[r].late]
  BY <1>1, <1>2 DEF Row
<1>4. Orphaned(sql) = [sql EXCEPT !.rows = {f[r] : r \in sql.rows}]
  BY DEF Orphaned
<1> HIDE DEF f
<1> DEFINE new == {f[r] : r \in sql.rows}
<1>5. IsFiniteSet(new)
  BY <1>1, ImageFinite
<1>6. new \in SUBSET Row /\ \A r \in new : \E s \in sql.rows : r = [s EXCEPT !.late = r.late]
  BY <1>3
<1> HIDE DEF new
<1>7. [sql EXCEPT !.rows = new] \in SqlFile
  BY <1>1, <1>6 DEF SqlFile
<1> QED
  BY <1>1, <1>4, <1>5, <1>6, <1>7 DEF SqlFile, new

LEMMA JobTypeStep == TypeInv /\ [Next]_vars => JobType'
<1> SUFFICES ASSUME TypeInv, [Next]_vars PROVE JobType'
  OBVIOUS
<1>1. redis' \in (0..MaxTables) \cup {None}
  <2>1. CASE ExtractBatch
    BY <2>1 DEF ExtractBatch, AddressCache, TypeInv, DataType, JobType
  <2>2. CASE Nuke
    BY <2>2 DEF Nuke, TypeInv, JobType
  <2> QED
    BY <2>1, <2>2, JobWriters DEF TypeInv, JobType
<1>2. sql' \in SqlFile \cup {None}
  BY JobWriters, ExtractedType DEF TypeInv, JobType
<1>3. at' \in {"import", "finalize"} => sql' \in SqlFile /\ IsFiniteSet(sql'.rows)
  BY JobWriters, ExtractedType DEF TypeInv, JobType
<1>4. orphans' \subseteq SqlFile /\ \A s \in orphans' : IsFiniteSet(s.rows)
  BY JobWriters, OrphanedType DEF TypeInv, JobType
<1> QED
  BY <1>1, <1>2, <1>3, <1>4 DEF JobType

LEMMA TypeInvStep == TypeInv /\ [Next]_vars => TypeInv'
BY AppTypeStep, DataTypeStep, ControlTypeStep, JobTypeStep DEF TypeInv

LEMMA TypeInvInit == Init => TypeInv
<1> SUFFICES ASSUME Init PROVE TypeInv
  OBVIOUS
<1>1. AppType
  BY DEF Init, AppType, Fresh, Flag
<1>2. DataType
  <2>1. FirstTip \in Nat /\ MaxTables \in Nat /\ MaxFaults \in Nat
    BY ConstantsAssumption
  <2>2. IsFiniteSet({})
    BY FS_EmptySet
  <2>3. rows = {} /\ files = [t \in Tops |-> {}]
    BY DEF Init
  <2>4. files \in [Tops -> SUBSET Row] /\ \A t \in Tops : IsFiniteSet(files[t])
    BY <2>2, <2>3
  <2>5. rows \subseteq Row /\ IsFiniteSet(rows)
    BY <2>2, <2>3
  <2>6. /\ odd \in Oddities /\ used = 0 /\ tip = FirstTip /\ env \in Modes /\ tables = "none"
        /\ codes = 0 /\ made = 0 /\ parts = 0 /\ built = {} /\ indexFile = None
        /\ importHeight = 0
    BY DEF Init
  <2>7. exporting \in BOOLEAN
    BY DEF Init
  <2> HIDE DEF Init
  <2> QED
    BY <2>1, <2>4, <2>5, <2>6, <2>7 DEF DataType
<1>3. ControlType
  BY FS_EmptySet DEF Init, ControlType, Inside, Locations, Status
<1>4. JobType
  BY DEF Init, JobType
<1> QED
  BY <1>1, <1>2, <1>3, <1>4 DEF TypeInv

LEMMA TypeInvHolds == Spec => []TypeInv
BY TypeInvInit, TypeInvStep, PTL DEF Spec

\* Whatever is killed, nuked, kickstarted or fails, every variable keeps its type: the sync
\* point is a block, the files left to load are there, and initialInit is never undone by a
\* start.
THEOREM StartupTypeCorrect == Spec => []TypeOK
<1>1. TypeInv => TypeOK
  BY DEF TypeInv, AppType, DataType, ControlType, JobType, TypeOK, Status
<1> QED
  BY <1>1, TypeInvHolds, PTL

-----------------------------------------------------------------------------
(* Where a start is *)

\* A start that came past InitTables has its tables.
TablesInv == odd # "psql" /\ at \notin {"off", "tables"} => tables = "all"

LEMMA TablesStep == TypeInv /\ TablesInv /\ [Next]_vars => TablesInv'
<1> SUFFICES ASSUME TypeInv, TablesInv, [Next]_vars PROVE TablesInv'
  OBVIOUS
<1>o. odd' = odd
  BY OddStep
<1> USE <1>o DEF TablesInv, Proceed, Goto, ExitProcess
<1>1. ASSUME tables' = tables, at' \in {"off", "tables"} \/ at \notin {"off", "tables"}
      PROVE TablesInv'
  BY <1>1
<1>2. CASE InitTables
  BY <1>2 DEF InitTables, Fault
<1>3. CASE Nuke
  BY <1>3 DEF Nuke, procs, NoneRuns, TypeInv, ControlType, Inside
<1>4. CASE InitDefaults \/ CheckMode \/ CheckInit \/ InitBlockSync \/ MarkInit \/ FirstBlock
           \/ StoreMode
  BY <1>4, <1>1 DEF InitDefaults, CheckMode, CheckInit, InitBlockSync, MarkInit, FirstBlock,
     StoreMode, db
<1>5. CASE InitPartitions \/ KickstartCache \/ PopularAccounts \/ InitIndexId \/ AssignAddresses
           \/ AssignAfterText
  BY <1>5, <1>1 DEF InitPartitions, KickstartCache, PopularAccounts, InitIndexId,
     AssignAddresses, AssignAfterText, db
<1>6. CASE KickstartBegin \/ KickstartFlag \/ KickstartList \/ KickstartLoad \/ KickstartMark
           \/ KickstartMove \/ KickstartEnd \/ ResetFlags \/ LookFlags
  BY <1>6, <1>1 DEF KickstartBegin, KickstartFlag, KickstartList, KickstartLoad, KickstartMark,
     KickstartMove, KickstartEnd, ResetFlags, LookFlags, db
<1>7. CASE Run
  BY <1>7, <1>1 DEF Run, Synchronize, ExtractBatch, ImportBatch, FinalizeBatch, OrphanCommits,
     OrphanEnds, db, IndexBuild, IndexMark, Pause, PauseExit, Unpause, procs
<1>8. CASE \/ \E m \in Modes : ChangeMode(m)
           \/ ExportBegin \/ ExportFile \/ ExportEnd \/ Grow \/ UNCHANGED vars
  BY <1>8, <1>1 DEF ChangeMode, ExportBegin, ExportFile, ExportEnd, Grow, db, procs, vars
<1>9. ASSUME NEW p \in Procs, \/ \E k \in BOOLEAN : StartProcess(p, k)
                              \/ CheckPid(p) \/ WritePid(p) \/ Kill(p)
      PROVE TablesInv'
  BY <1>9, <1>1 DEF StartProcess, CheckPid, Pass, WritePid, Kill, db
<1> QED
  BY <1>2, <1>3, <1>4, <1>5, <1>6, <1>7, <1>8, <1>9 DEF Next, Boot, Operate

LEMMA TablesHold == Spec => []TablesInv
<1>1. Init => TablesInv
  BY DEF Init, TablesInv
<1> QED
  BY <1>1, TypeInvHolds, TablesStep, PTL DEF Spec

\* One that kickstarts found nobody else there when it came, and nobody else comes before
\* it is in.
KickInv ==
  odd \notin {"race", "unclean"} =>
    \A p \in Procs : kick[p] /\ pc[p] \in {"check", "write"} =>
      \A q \in Procs \ {p} : pc[q] = "off"

LEMMA KickStep == TypeInv /\ KickInv /\ [Next]_vars => KickInv'
<1> SUFFICES ASSUME TypeInv, KickInv, [Next]_vars PROVE KickInv'
  OBVIOUS
<1>o. odd' = odd
  BY OddStep
<1> USE <1>o DEF KickInv, TypeInv, ControlType, Status
<1>1. CASE UNCHANGED <<pc, kick>>
  BY <1>1
<1>2. CASE ExitProcess
  BY <1>2 DEF ExitProcess, Inside
<1>3. ASSUME NEW p \in Procs, NEW k \in BOOLEAN, StartProcess(p, k) PROVE KickInv'
  BY <1>3 DEF StartProcess, MayKickstart, NoneRuns
<1>4. ASSUME NEW p \in Procs, CheckPid(p) \/ WritePid(p) \/ Kill(p) PROVE KickInv'
  <2>1. CASE CheckPid(p)
    <3>1. PICK taken \in BOOLEAN : Pass(p, taken) /\ pc[p] = "check"
      BY <2>1 DEF CheckPid
    <3>2. \A q \in Procs : /\ kick'[q] => kick[q]
                           /\ pc'[q] # pc[q] => q = p /\ pc'[q] \in {"off", "write"}
      BY <3>1 DEF Pass
    <3> QED
      BY <3>1, <3>2
  <2>2. CASE WritePid(p)
    <3>1. /\ kick' = kick /\ pc[p] = "write"
          /\ \A q \in Procs : pc'[q] = IF q = p THEN "in" ELSE pc[q]
      BY <2>2 DEF WritePid
    <3> QED
      BY <3>1
  <2>3. CASE Kill(p)
    <3>1. \A q \in Procs : /\ kick'[q] = (q # p /\ kick[q])
                           /\ pc'[q] = IF q = p THEN "off" ELSE pc[q]
      BY <2>3 DEF Kill
    <3> QED
      BY <3>1
  <2> QED
    BY <1>4, <2>1, <2>2, <2>3
<1>5. CASE Passing
  BY <1>1, <1>2, <1>5 DEF Passing
<1>6. CASE \/ InitPartitions \/ KickstartList \/ KickstartLoad \/ KickstartMark \/ Synchronize
           \/ (\E s \in orphans : OrphanCommits(s) \/ OrphanEnds(s))
           \/ IndexBuild \/ Pause \/ Operate \/ Grow \/ UNCHANGED vars
  BY <1>6, <1>1 DEF InitPartitions, KickstartList, KickstartLoad, KickstartMark, Synchronize,
     OrphanCommits, OrphanEnds, IndexBuild, Pause, Operate, ChangeMode, Nuke, ExportBegin, ExportFile, ExportEnd, Grow,
     Goto, procs, vars
<1> QED
  BY <1>3, <1>4, <1>5, <1>6, BootPassing DEF Next, Boot, Run

\* With the pid file: one that kickstarts is alone with what was there when it came.
WhereInv == TypeInv /\ TablesInv /\ PidInv /\ KickInv

LEMMA WhereStep == WhereInv /\ [Next]_vars => WhereInv'
BY TypeInvStep, TablesStep, PidStep, KickStep DEF WhereInv

LEMMA WhereInit == Init => WhereInv
<1> SUFFICES ASSUME Init PROVE TablesInv /\ PidInv /\ KickInv
  BY TypeInvInit DEF WhereInv
<1> QED
  BY DEF Init, TablesInv, PidInv, KickInv, Status

\* Whoever kickstarts while another one is in is not on its way.
LEMMA KickedIsIn ==
  ASSUME WhereInv, odd \notin {"race", "unclean"}, NEW p \in Procs, kick[p], NEW q \in Inside
  PROVE  p = q
BY DEF WhereInv, TypeInv, ControlType, PidInv, KickInv, Inside, Status

-----------------------------------------------------------------------------
(* The mode *)

KeptInv ==
  odd # "query" /\ at \notin {"off", "tables", "defaults", "mode"} => app.mode \in {env, None}

LEMMA KeptStep == TypeInv /\ KeptInv /\ [Next]_vars => KeptInv'
<1> SUFFICES ASSUME TypeInv, KeptInv, [Next]_vars PROVE KeptInv'
  OBVIOUS
<1>o. odd' = odd
  BY OddStep
<1>f. {"init", "mode", "blockSync"} \subseteq DOMAIN app
  BY DEF TypeInv, AppType, Fresh
<1> USE <1>o, <1>f DEF KeptInv, Proceed, Goto, ExitProcess, Put, Stored
<1> DEFINE Early == {"off", "tables", "defaults", "mode"}
<1>1. ASSUME env' = env, app'.mode = app.mode, at' \in Early \/ at \notin Early
      PROVE KeptInv'
  BY <1>1
<1>2. CASE CheckMode
  BY <1>2 DEF CheckMode, Read, Fault, world, db
<1>3. CASE StoreMode
  BY <1>3 DEF StoreMode, world
<1>4. CASE Nuke \/ \E m \in Modes : ChangeMode(m)
  BY <1>4 DEF Nuke, ChangeMode, procs, NoneRuns, TypeInv, ControlType, Inside
<1>5. CASE InitTables \/ InitDefaults \/ CheckInit \/ InitBlockSync \/ MarkInit \/ FirstBlock
  BY <1>5, <1>1 DEF InitTables, InitDefaults, CheckInit, InitBlockSync, MarkInit, FirstBlock, db,
     world
<1>6. CASE InitPartitions \/ KickstartCache \/ PopularAccounts \/ InitIndexId \/ AssignAddresses
           \/ AssignAfterText
  BY <1>6, <1>1 DEF InitPartitions, KickstartCache, PopularAccounts, InitIndexId,
     AssignAddresses, AssignAfterText, db, world
<1>7. CASE KickstartBegin \/ KickstartFlag \/ KickstartList \/ KickstartLoad \/ KickstartMark
           \/ KickstartMove \/ KickstartEnd
  BY <1>7, <1>1 DEF KickstartBegin, KickstartFlag, KickstartList, KickstartLoad, KickstartMark,
     KickstartMove, KickstartEnd, db, world
<1>8. CASE ResetFlags \/ LookFlags \/ Run
  BY <1>8, <1>1 DEF ResetFlags, Reset, LookFlags, Run, Synchronize, ExtractBatch, ImportBatch,
     FinalizeBatch, OrphanCommits, OrphanEnds, Commit, IndexBuild, IndexMark, Pause, PauseExit,
     Unpause, procs, db, world
<1>9. CASE ExportBegin \/ ExportFile \/ ExportEnd \/ Grow \/ UNCHANGED vars
  BY <1>9, <1>1 DEF ExportBegin, ExportFile, ExportEnd, Grow, db, procs, vars, world
<1>10. ASSUME NEW p \in Procs, \/ \E k \in BOOLEAN : StartProcess(p, k)
                               \/ CheckPid(p) \/ WritePid(p) \/ Kill(p)
       PROVE KeptInv'
  BY <1>10, <1>1 DEF StartProcess, CheckPid, Pass, WritePid, Kill, db, world
<1> QED
  BY <1>2, <1>3, <1>4, <1>5, <1>6, <1>7, <1>8, <1>9, <1>10 DEF Next, Boot, Operate

\* "Once you set the mode of the application you are not allowed to modify it": whenever
\* .env is changed, whatever is killed or nuked in between, and even if two processes come
\* past the pid file at once, a program that is up runs in the mode of its database.
THEOREM ModeIsKept == Spec => []ModeKept
<1>1. Init => KeptInv
  BY DEF Init, KeptInv
<1>2. KeptInv => ModeKept
  BY DEF KeptInv, ModeKept
<1> QED
  BY <1>1, <1>2, TypeInvHolds, KeptStep, PTL DEF Spec

-----------------------------------------------------------------------------
(* Who changes what *)

LEMMA Writers ==
  ASSUME TypeInv, [Next]_vars
  PROVE  /\ tip' # tip => Grow
         /\ env' # env => \E m \in Modes : ChangeMode(m)
         /\ tables' # tables => InitTables \/ Nuke
         /\ rows' # rows =>
              KickstartLoad \/ ImportBatch \/ (\E s \in orphans : OrphanCommits(s)) \/ Nuke
         /\ codes' # codes => KickstartCache \/ AssignAddresses \/ Nuke
         /\ files' # files \/ importHeight' # importHeight => ExportFile
         /\ indexFile' # indexFile => ExportBegin
         /\ exporting' # exporting => ExportBegin \/ ExportEnd
<1>1. CASE UNCHANGED Data
  BY <1>1 DEF Data
<1>2. CASE InitTables \/ InitPartitions \/ KickstartCache
  BY <1>2 DEF InitTables, InitPartitions, KickstartCache, world, disk
<1>3. CASE \/ AssignAddresses \/ KickstartLoad \/ ImportBatch \/ IndexBuild
           \/ \E s \in orphans : OrphanCommits(s)
  BY <1>3 DEF AssignAddresses, KickstartLoad, ImportBatch, OrphanCommits, IndexBuild, world, disk
<1>4. CASE (\E m \in Modes : ChangeMode(m)) \/ Nuke \/ ExportBegin
  BY <1>4 DEF ChangeMode, Nuke, ExportBegin, world, db, disk
<1>5. CASE ExportFile \/ ExportEnd \/ Grow
  BY <1>5 DEF ExportFile, ExportEnd, Grow, world, db, disk
<1> QED
  BY <1>1, <1>2, <1>3, <1>4, <1>5, SameData DEF Next, Boot, Run, Operate

LEMMA AppWriters ==
  ASSUME TypeInv, [Next]_vars
  PROVE  /\ app'.init # app.init => MarkInit \/ Nuke
         /\ app'.mode # app.mode => StoreMode \/ Nuke
         /\ app'.blockSync # app.blockSync =>
              InitBlockSync \/ FirstBlock \/ KickstartMove \/ Synchronize \/ FinalizeBatch \/ Nuke
         /\ app'.nextId # app.nextId =>
              ImportBatch \/ (\E s \in orphans : OrphanCommits(s)) \/ Nuke
         /\ app'.indexId # app.indexId => InitIndexId \/ Nuke
         /\ app'.kickData # app.kickData => KickstartFlag \/ KickstartEnd \/ Nuke
         /\ app'.kickImport # app.kickImport => KickstartMark \/ Nuke
<1>f. DOMAIN app = {"init", "mode", "blockSync", "nextId", "indexId", "kickData",
                    "kickImport", "pause", "working", "indexed"}
  BY DEF TypeInv, AppType, Fresh
<1> USE <1>f DEF Put, Stored
<1>1. CASE app' = app
  BY <1>1
<1>2. CASE InitDefaults \/ MarkInit \/ InitBlockSync \/ FirstBlock \/ StoreMode \/ InitIndexId
  BY <1>2 DEF InitDefaults, MarkInit, InitBlockSync, FirstBlock, StoreMode, InitIndexId
<1>3. CASE KickstartFlag \/ KickstartEnd \/ KickstartMark \/ KickstartMove \/ IndexMark
  BY <1>3 DEF KickstartFlag, KickstartEnd, KickstartMark, KickstartMove, IndexMark
<1>4. CASE ResetFlags
  BY <1>4 DEF ResetFlags, Reset
<1>5. CASE Synchronize \/ FinalizeBatch \/ Nuke \/ Pause \/ PauseExit \/ Unpause
  BY <1>5 DEF Synchronize, FinalizeBatch, Pause, PauseExit, Unpause
<1>10. CASE ImportBatch \/ \E s \in orphans : OrphanCommits(s)
  <2>1. app' = app \/ \E v : app' = [app EXCEPT !.nextId = v]
    BY <1>10 DEF ImportBatch, OrphanCommits, Commit
  <2> QED
    BY <1>10, <2>1
<1>6. ASSUME NEW p \in Procs, Kill(p) PROVE \E v : app' = app \/ app' = [app EXCEPT !.working = v]
  BY <1>6 DEF Kill
<1>7. CASE \E p \in Procs : Kill(p)
  BY <1>6, <1>7
<1>8. CASE \/ InitTables \/ CheckMode \/ CheckInit \/ InitPartitions \/ KickstartCache
           \/ PopularAccounts \/ AssignAddresses \/ AssignAfterText \/ KickstartBegin
           \/ KickstartList \/ KickstartLoad \/ LookFlags \/ IndexBuild
           \/ \E m \in Modes : ChangeMode(m)
           \/ ExportBegin \/ ExportFile \/ ExportEnd \/ Grow \/ UNCHANGED vars
  BY <1>8, <1>1 DEF InitTables, CheckMode, CheckInit, InitPartitions, KickstartCache,
     PopularAccounts, AssignAddresses, AssignAfterText, KickstartBegin, KickstartList,
     KickstartLoad, LookFlags, IndexBuild, ChangeMode, ExportBegin, ExportFile, ExportEnd,
     Grow, vars, db
<1>9. ASSUME NEW p \in Procs, \E k \in BOOLEAN : StartProcess(p, k) \/ CheckPid(p) \/ WritePid(p)
      PROVE app' = app
  BY <1>9 DEF StartProcess, CheckPid, Pass, WritePid, db
<1>11. CASE \E p \in Procs : \/ \E k \in BOOLEAN : StartProcess(p, k)
                              \/ CheckPid(p) \/ WritePid(p)
  BY <1>1, <1>9, <1>11
<1>12. CASE \E s \in orphans : OrphanEnds(s)
  BY <1>1, <1>12 DEF OrphanEnds, db
<1>13. CASE ExtractBatch
  BY <1>1, <1>13 DEF ExtractBatch, db
<1>14. CASE Boot
  BY <1>2, <1>3, <1>4, <1>8, <1>14 DEF Boot
<1>15. CASE Run
  BY <1>3, <1>5, <1>8, <1>10, <1>12, <1>13, <1>15 DEF Run
<1>16. CASE Operate
  BY <1>5, <1>8, <1>16 DEF Operate
<1> QED
  BY <1>7, <1>8, <1>11, <1>14, <1>15, <1>16 DEF Next

-----------------------------------------------------------------------------
(* The ids *)

Counter == IF app.nextId = None THEN 0 ELSE app.nextId

\* The ids of the rows that were indexed here are below the counter, and differ; those of
\* a batch that is to be imported come after it.
ClashInv ==
  odd \notin {"query", "orphan"} =>
    /\ \A r \in rows : r.kicked = 0 => app.nextId # None /\ r.id < app.nextId
    /\ \A r, s \in rows : r.kicked = 0 /\ s.kicked = 0 /\ r.id = s.id => r = s
    /\ orphans = {}
    /\ at = "import" => /\ Counter < sql.next
                        /\ \A r \in sql.rows : Counter < r.id /\ r.id < sql.next
                        /\ \A r, s \in sql.rows : r.id = s.id => r = s

LEMMA CountBelow ==
  ASSUME NEW S \in SUBSET Nat, IsFiniteSet(S), NEW b \in S
  PROVE  LET count(x) == Cardinality({d \in S : d <= x})
         IN /\ count(b) \in 1 .. Cardinality(S)
            /\ \A c \in S : count(b) = count(c) => b = c
<1> DEFINE below(x) == {d \in S : d <= x}
<1>1. \A x : IsFiniteSet(below(x)) /\ Cardinality(below(x)) \in Nat
             /\ Cardinality(below(x)) <= Cardinality(S)
  BY FS_Subset, FS_CardinalityType
<1>2. Cardinality(below(b)) # 0
  BY <1>1, FS_EmptySet
<1>3. ASSUME NEW c \in S, NEW d \in S, Cardinality(below(c)) = Cardinality(below(d)), c <= d
      PROVE c = d
  <2>1. below(c) \in SUBSET below(d)
    <3>1. \A x \in S : x <= c => x <= d
      BY <1>3
    <3> QED
      BY <3>1
  <2>2. below(c) = below(d)
    BY <2>1, <1>1, <1>3, FS_Subset
  <2>3. d \in below(d)
    OBVIOUS
  <2> QED
    BY <2>2, <2>3, <1>3
<1>4. ASSUME NEW c \in S, Cardinality(below(b)) = Cardinality(below(c)) PROVE b = c
  BY <1>3, <1>4
<1>5. Cardinality(S) \in Nat
  BY FS_CardinalityType
<1> QED
  BY <1>1, <1>2, <1>4, <1>5

\* A cycle gives the rows of its batch the ids that follow the counter.
LEMMA IndexedIds ==
  ASSUME NEW lo \in Nat, NEW hi \in Nat, NEW n \in Nat, NEW c \in Nat
  PROVE  /\ \A r \in Indexed(lo, hi, n, c) : r.id > n /\ r.id <= n + Cardinality(Batch(lo, hi))
         /\ \A r, s \in Indexed(lo, hi, n, c) : r.id = s.id => r = s
<1> DEFINE S == Batch(lo, hi)
           count(x) == Cardinality({d \in S : d <= x})
<1>1. S \in SUBSET Nat /\ IsFiniteSet(S) /\ Cardinality(S) \in Nat
  BY BatchFinite DEF Batch
<1> HIDE DEF S
<1>2. \A b \in S : count(b) \in 1 .. Cardinality(S) /\ \A d \in S : count(b) = count(d) => b = d
  BY <1>1, CountBelow
<1> HIDE DEF count
<1>3. \A r \in Indexed(lo, hi, n, c) :
        \E b \in S : r = [block |-> b, id |-> n + count(b), codes |-> c,
                        kicked |-> 0, late |-> 0]
  BY DEF Indexed, S, count
<1>4. ASSUME NEW r \in Indexed(lo, hi, n, c)
      PROVE r.id > n /\ r.id <= n + Cardinality(S)
  <2>1. PICK b \in S : r.id = n + count(b)
    BY <1>3
  <2> QED
    BY <1>1, <1>2, <2>1
<1>5. ASSUME NEW r \in Indexed(lo, hi, n, c), NEW s \in Indexed(lo, hi, n, c), r.id = s.id
      PROVE r = s
  <2>1. PICK b \in S : r = [block |-> b, id |-> n + count(b), codes |-> c,
                        kicked |-> 0, late |-> 0]
    BY <1>3
  <2>2. PICK d \in S : s = [block |-> d, id |-> n + count(d), codes |-> c,
                        kicked |-> 0, late |-> 0]
    BY <1>3
  <2>3. count(b) = count(d)
    BY <2>1, <2>2, <1>1, <1>2, <1>5
  <2> QED
    BY <2>1, <2>2, <2>3, <1>2
<1> QED
  BY <1>4, <1>5 DEF S

\* A batch is numbered from the counter it was taken with, unless the query of it failed.
LEMMA ExtractedIds ==
  ASSUME TypeInv, ExtractBatch, odd # "query"
  PROVE  /\ app' = app /\ Counter < sql'.next
         /\ \A r \in sql'.rows : Counter < r.id /\ r.id < sql'.next
         /\ \A r, s \in sql'.rows : r.id = s.id => r = s
<1> DEFINE lo  == app.blockSync
           new == Indexed(lo, tip, Counter, AddressCache)
           k   == Cardinality(Batch(lo, tip))
<1>1. lo \in Nat /\ tip \in Nat /\ Counter \in Nat /\ AddressCache \in Nat
  <2>1. lo \in Nat
    BY ExtractedType
  <2>2. tip \in Nat /\ Counter \in Nat
    BY DEF Counter, TypeInv, AppType, DataType
  <2>3. AddressCache \in Nat
    BY ConstantsAssumption DEF AddressCache, TypeInv, DataType, JobType
  <2> QED
    BY <2>1, <2>2, <2>3
<1>2. sql' = [rows |-> new, next |-> Counter + k + 2, top |-> tip]
  BY Extracted DEF Counter
<1>3. k \in Nat
  <2>1. lo \in Int /\ tip \in Int
    BY <1>1
  <2> QED
    BY <2>1, BatchFinite
<1>4. /\ \A r \in new : r.id > Counter /\ r.id <= Counter + k
      /\ \A r, s \in new : r.id = s.id => r = s
  BY <1>1, IndexedIds
<1>5. \A r \in new : r.id \in Nat
  BY <1>1, IndexedType DEF Row
<1>6. app' = app
  BY DEF ExtractBatch, db
<1> HIDE DEF new, k
<1> QED
  BY <1>1, <1>2, <1>3, <1>4, <1>5, <1>6

LEMMA ClashStep == TypeInv /\ ClashInv /\ [Next]_vars => ClashInv'
<1> SUFFICES ASSUME TypeInv, ClashInv, [Next]_vars, odd \notin {"query", "orphan"}
             PROVE  ClashInv'
  BY OddStep DEF ClashInv
<1>o. orphans' = {} /\ ~\E s \in orphans : OrphanCommits(s)
  BY JobWriters DEF ClashInv
<1>s. at' = "import" => UNCHANGED <<at, sql>> \/ ExtractBatch
  BY JobWriters
<1> DEFINE Rest == /\ \A r \in rows' : r.kicked = 0 => app'.nextId # None /\ r.id < app'.nextId
                   /\ \A r, s \in rows' : r.kicked = 0 /\ s.kicked = 0 /\ r.id = s.id => r = s
<1>1. ASSUME app'.nextId = app.nextId, Rest PROVE ClashInv'
  <2>1. CASE ExtractBatch
    BY <1>1, <1>o, <2>1, ExtractedIds DEF ClashInv, Counter
  <2>2. CASE ~ExtractBatch
    BY <1>1, <1>o, <1>s, <2>2 DEF ClashInv, Counter
  <2> QED
    BY <2>1, <2>2
<1>2. CASE rows' = rows /\ app'.nextId = app.nextId
  BY <1>1, <1>2 DEF ClashInv
<1>3. CASE Nuke
  BY <1>3, <1>o DEF Nuke, NoneRuns, Inside, procs, TypeInv, ControlType, ClashInv
<1>4. CASE KickstartLoad
  <2>1. app' = app
    BY <1>4 DEF KickstartLoad
  <2>2. \A r \in rows' : r \in rows \/ r.kicked # 0
    <3>1. CASE rows' = rows
      BY <3>1
    <3>2. CASE list # {} /\ rows' = rows \cup Loaded(files[Least(list)])
      <4>1. Least(list) \in Tops
        BY <3>2, LeastTop
      <4>2. \A r \in Loaded(files[Least(list)]) : r.kicked > 0
        BY <4>1, LoadedType DEF TypeInv, DataType
      <4> QED
        BY <3>2, <4>2
    <3> QED
      BY <3>1, <3>2, <1>4 DEF KickstartLoad, Psql
  <2> QED
    BY <1>1, <2>1, <2>2 DEF ClashInv
<1>5. CASE ImportBatch
  <2>1. at = "import" /\ at' # "import"
    BY <1>5 DEF ImportBatch, Proceed, Goto
  <2>2. CASE rows' = rows /\ app' = app
    BY <2>2, <1>2
  <2>3. CASE Commit(sql)
    <3>1. sql.next \in Nat /\ sql.rows \subseteq Row /\ rows \subseteq Row /\ Counter \in Nat
      BY <2>1, BatchInHand DEF TypeInv, AppType, DataType, Counter
    <3>2. rows' = rows \cup sql.rows /\ app'.nextId = sql.next /\ sql.next # None
      BY <2>3, <3>1, ConstantsAssumption DEF Commit, TypeInv, AppType, Fresh
    <3>3. \A r \in rows : r.id \in Nat /\ (r.kicked = 0 => r.id < Counter)
      BY <3>1 DEF ClashInv, Counter, Row
    <3>4. /\ Counter < sql.next /\ \A r \in sql.rows : r.id \in Nat /\ Counter < r.id /\ r.id < sql.next
      BY <2>1, <3>1 DEF ClashInv, Row
    <3>5. \A r \in rows' : r.kicked = 0 => r.id < sql.next
      BY <3>1, <3>2, <3>3, <3>4
    <3>6. \A r, s \in rows' : r.kicked = 0 /\ s.kicked = 0 /\ r.id = s.id => r = s
      BY <2>1, <3>1, <3>2, <3>3, <3>4 DEF ClashInv
    <3> QED
      BY <1>o, <2>1, <3>2, <3>5, <3>6 DEF ClashInv
  <2> QED
    BY <1>5, <2>2, <2>3 DEF ImportBatch
<1> QED
  BY <1>o, <1>2, <1>3, <1>4, <1>5, Writers, AppWriters

\* A kickstart is the only thing that gives an id twice: however often the program is
\* killed, between the COMMIT of a batch and its mark too, restarted or run by two
\* processes, what it indexes gets ids of its own, as long as no psql goes on without it
\* and the query of the counter does not fail.
THEOREM IdsOfTheIndexed == Spec => []IdsClash
<1>1. Init => ClashInv
  BY DEF Init, ClashInv
<1>2. TypeInv /\ ClashInv => IdsClash
  BY DEF TypeInv, DataType, Row, ClashInv, IdsClash
<1> QED
  BY <1>1, <1>2, TypeInvHolds, ClashStep, PTL DEF Spec

-----------------------------------------------------------------------------
(* The address cache *)

\* Two that are in at once, when the second one has just come.
Stuck == at = "tables" /\ \E p, q \in Inside : p # q

\* Past the accounts of a start.
Supplied == {"kickData", "kickFlag", "kickList", "load", "mark", "move", "loaded", "flags",
             "look", "ready", "import", "finalize", "building", "cli"}

\* The counter of the byteIds is stored one step before the table is, and nothing but a
\* fault comes between: no start finds the counter without the table.
FilledInv ==
  odd \notin {"psql", "query", "kill", "orphan", "devStop"} =>
    /\ app.indexId # None => codes > 0 \/ at = "assign" \/ Stuck
    /\ at # "assignText"
    /\ at \in Supplied => codes > 0

LEMMA ProceedAlone ==
  ASSUME TypeInv, NEW l, Proceed(l)
  PROVE  at = l /\ ~Stuck /\ \E p \in Procs : Inside = {p}
<1>1. \E p : Inside = {p}
  BY FS_Singleton DEF Proceed, TypeInv, ControlType
<1> QED
  BY <1>1 DEF Proceed, Stuck, Inside

LEMMA FilledStep == TypeInv /\ TablesInv /\ FilledInv /\ [Next]_vars => FilledInv'
<1> SUFFICES ASSUME TypeInv, TablesInv, FilledInv, [Next]_vars,
                    odd \notin {"psql", "query", "kill", "orphan", "devStop"}
             PROVE  FilledInv'
  BY OddStep DEF FilledInv
<1>a. \A l : Proceed(l) => at = l /\ ~Stuck
  BY ProceedAlone
<1>t. codes \in Nat /\ made \in Nat
  BY ConstantsAssumption DEF TypeInv, DataType
<1>i. {"indexId"} \subseteq DOMAIN app
  BY DEF TypeInv, AppType, Fresh
<1> USE DEF FilledInv, Supplied
<1>1. ASSUME codes' = codes, app'.indexId = app.indexId, at \notin {"tables", "assign"} \/ ~Stuck,
             at # "assign", at' \in Supplied => at \in Supplied, at' # "assignText"
      PROVE FilledInv'
  BY <1>1 DEF Stuck
<1>2. CASE InitIndexId
  <2>1. at = "indexId" /\ ~Stuck /\ codes' = codes /\ tables = "all"
    BY <1>2, <1>a DEF InitIndexId, TablesInv, Proceed
  <2>2. app.indexId # None => codes > 0
    BY <2>1 DEF Stuck
  <2> QED
    BY <1>2, <1>t, <2>1, <2>2 DEF InitIndexId, Goto, AfterCache
<1>3. CASE AssignAddresses
  <2>1. at = "assign" /\ tables = "all"
    BY <1>3 DEF AssignAddresses, Proceed, TablesInv
  <2>2. codes' = made + 1 /\ at' # "assignText"
    BY <1>3, <2>1 DEF AssignAddresses, Psql, Fault, Goto, AfterCache
  <2> QED
    BY <1>t, <2>2
<1>4. CASE KickstartCache
  <2>1. at = "kickCache" /\ at' = "accounts" /\ app' = app /\ ~Stuck
    BY <1>4, <1>a DEF KickstartCache, Goto, Proceed
  <2>2. codes > 0 => codes' = codes
    BY <1>4 DEF KickstartCache
  <2> QED
    BY <2>1, <2>2
<1>5. CASE InitTables \/ InitDefaults \/ CheckMode \/ CheckInit \/ InitBlockSync
  <2>1. at \in {"tables", "defaults", "mode", "init", "genesis"} /\ ~Stuck
    BY <1>5, <1>a DEF InitTables, InitDefaults, CheckMode, CheckInit, InitBlockSync
  <2>2. codes' = codes /\ app'.indexId = app.indexId
    BY <1>5, <1>i DEF InitTables, InitDefaults, CheckMode, CheckInit, InitBlockSync, Put, Stored, db
  <2>3. at' \in {"off", "defaults", "mode", "init", "partitions", "genesis", "initialized"}
    BY <1>5 DEF InitTables, InitDefaults, CheckMode, CheckInit, InitBlockSync, Goto, ExitProcess
  <2> QED
    BY <2>1, <2>2, <2>3
<1>6. CASE MarkInit \/ FirstBlock \/ StoreMode \/ InitPartitions \/ PopularAccounts
  <2>1. at \in {"initialized", "first", "storeMode", "partitions", "accounts"} /\ ~Stuck
    BY <1>6, <1>a DEF MarkInit, FirstBlock, StoreMode, InitPartitions, PopularAccounts
  <2>2. codes' = codes /\ app'.indexId = app.indexId
    BY <1>6, <1>i DEF MarkInit, FirstBlock, StoreMode, InitPartitions, PopularAccounts, Put,
       Stored, db
  <2>3. at' \in {"first", "storeMode", "off", "partitions", "kickCache", "accounts", "indexId"}
    BY <1>6 DEF MarkInit, FirstBlock, StoreMode, InitPartitions, PopularAccounts, Goto, ExitProcess
  <2> QED
    BY <2>1, <2>2, <2>3
<1>7. CASE AssignAfterText
  BY <1>7 DEF AssignAfterText, Proceed
<1>8. CASE KickstartBegin \/ KickstartFlag \/ KickstartList \/ KickstartLoad \/ KickstartMark
           \/ KickstartMove \/ KickstartEnd \/ ResetFlags \/ LookFlags
  <2>1. at \in Supplied
    BY <1>8 DEF KickstartBegin, KickstartFlag, KickstartList, KickstartLoad, KickstartMark,
       KickstartMove, KickstartEnd, ResetFlags, LookFlags, Proceed
  <2>2. codes' = codes /\ at' \in Supplied \cup {"off"}
    BY <1>8 DEF KickstartBegin, KickstartFlag, KickstartList, KickstartLoad, KickstartMark,
       KickstartMove, KickstartEnd, ResetFlags, LookFlags, Goto, ExitProcess, db
  <2> QED
    BY <2>1, <2>2
<1>9. CASE Synchronize \/ ExtractBatch \/ ImportBatch \/ FinalizeBatch
  <2>1. at \in Supplied
    BY <1>9 DEF Synchronize, ExtractBatch, ImportBatch, FinalizeBatch, Proceed
  <2>2. codes' = codes /\ at' \in Supplied \cup {"off"}
    BY <1>9, <2>1 DEF Synchronize, ExtractBatch, ImportBatch, FinalizeBatch, Goto, procs, db
  <2> QED
    BY <2>1, <2>2
<1>16. CASE IndexBuild \/ IndexMark \/ PauseExit \/ Unpause
  <2>1. at \in Supplied
    BY <1>16 DEF IndexBuild, IndexMark, PauseExit, Unpause, Proceed
  <2>2. codes' = codes /\ at' \in Supplied \cup {"off"}
    BY <1>16 DEF IndexBuild, IndexMark, PauseExit, Unpause, Goto, ExitProcess
  <2> QED
    BY <2>1, <2>2
<1>10. CASE Nuke
  BY <1>10 DEF Nuke, Fresh, NoneRuns, TypeInv, ControlType, Inside, procs
<1>11. ASSUME codes' = codes, app'.indexId = app.indexId, at' = at, Inside' = Inside PROVE FilledInv'
  BY <1>11 DEF Stuck
<1>12. CASE Pause \/ (\E s \in orphans : OrphanCommits(s) \/ OrphanEnds(s))
            \/ (\E m \in Modes : ChangeMode(m)) \/ ExportBegin \/ ExportFile \/ ExportEnd
            \/ Grow \/ UNCHANGED vars
  BY <1>12, <1>11, <1>i DEF Pause, OrphanCommits, Commit, OrphanEnds, ChangeMode, ExportBegin, ExportFile, ExportEnd, Grow, db,
     procs, vars, Inside
<1>13. ASSUME NEW p \in Procs, \E k \in BOOLEAN : StartProcess(p, k) \/ CheckPid(p)
       PROVE FilledInv'
  <2>1. Inside' = Inside
    BY <1>13 DEF StartProcess, CheckPid, Pass, Inside, TypeInv, ControlType, Status
  <2> QED
    BY <1>11, <1>13, <2>1 DEF StartProcess, CheckPid, Pass, db
<1>14. ASSUME NEW p \in Procs, WritePid(p) PROVE FilledInv'
  <2>1. /\ codes' = codes /\ app' = app /\ at' = "tables"
        /\ Inside' = Inside \cup {p} /\ p \notin Inside
    BY <1>14 DEF WritePid, db, Inside, TypeInv, ControlType, Status
  <2>2. at # "off" => Inside # {}
    BY DEF TypeInv, ControlType
  <2> QED
    BY <2>1, <2>2 DEF Stuck
<1>15. ~\E p \in Procs : Kill(p)
  BY DEF Kill, Fault
<1> QED
  BY <1>2, <1>3, <1>4, <1>5, <1>6, <1>7, <1>8, <1>9, <1>10, <1>12, <1>13, <1>14, <1>15,
     <1>16 DEF Next, Boot, Run, Operate

\* A start that nothing fails in, however many came before it and whatever they were
\* nuked or kickstarted with, has filled the address cache when it is up.
THEOREM CacheIsFilled == Spec => []CacheFilled
<1>1. Init => FilledInv
  BY DEF Init, Fresh, FilledInv, Supplied
<1>2. FilledInv => CacheFilled
  BY DEF FilledInv, Supplied, CacheFilled
<1> QED
  BY <1>1, <1>2, TypeInvHolds, TablesHold, FilledStep, PTL DEF Spec

-----------------------------------------------------------------------------
(* The byteIds *)

\* The cache is filled once in the life of a database, and redis has it or nothing: a row
\* that is indexed here, now or by a psql that is late, is of the table there is.
HereInv ==
  /\ at \in {"assign", "assignText"} => codes = 0
  /\ odd # "stale" =>
       /\ redis \in {None, 0, codes}
       /\ \A r \in rows : r.kicked = 0 => r.codes \in {0, codes}
       /\ at = "import" => \A r \in sql.rows : r.kicked = 0 /\ r.codes \in {0, codes}
       /\ \A s \in orphans : \A r \in s.rows : r.kicked = 0 /\ r.codes \in {0, codes}

LEMMA AssignWriters ==
  ASSUME [Next]_vars, at' \in {"assign", "assignText"}
  PROVE  at' = at \/ InitIndexId
<1> USE DEF Goto, Proceed, ExitProcess, procs
<1>1. CASE InitTables \/ InitDefaults \/ CheckMode \/ CheckInit \/ InitBlockSync \/ MarkInit
           \/ FirstBlock \/ StoreMode
  BY <1>1 DEF InitTables, InitDefaults, CheckMode, CheckInit, InitBlockSync, MarkInit,
     FirstBlock, StoreMode
<1>2. CASE InitPartitions \/ KickstartCache \/ PopularAccounts \/ AssignAddresses
           \/ AssignAfterText
  BY <1>2 DEF InitPartitions, KickstartCache, PopularAccounts, AssignAddresses,
     AssignAfterText, AfterCache
<1>3. CASE KickstartBegin \/ KickstartFlag \/ KickstartList \/ KickstartLoad \/ KickstartMark
           \/ KickstartMove \/ KickstartEnd \/ ResetFlags \/ LookFlags
  BY <1>3 DEF KickstartBegin, KickstartFlag, KickstartList, KickstartLoad, KickstartMark,
     KickstartMove, KickstartEnd, ResetFlags, LookFlags
<1>4. CASE Run
  BY <1>4 DEF Run, Synchronize, ExtractBatch, ImportBatch, FinalizeBatch, OrphanCommits, OrphanEnds,
     IndexBuild, IndexMark, Pause, PauseExit, Unpause
<1>5. CASE Operate \/ Grow \/ UNCHANGED vars
  BY <1>5 DEF Operate, ChangeMode, Nuke, ExportBegin, ExportFile, ExportEnd, Grow, vars
<1>6. ASSUME NEW p \in Procs, \/ \E k \in BOOLEAN : StartProcess(p, k)
                              \/ CheckPid(p) \/ WritePid(p) \/ Kill(p)
      PROVE at' = at
  BY <1>6 DEF StartProcess, CheckPid, Pass, WritePid, Kill
<1> QED
  BY <1>1, <1>2, <1>3, <1>4, <1>5, <1>6 DEF Next, Boot

LEMMA HereStep == TypeInv /\ HereInv /\ [Next]_vars => HereInv'
<1> SUFFICES ASSUME TypeInv, HereInv, [Next]_vars PROVE HereInv'
  OBVIOUS
<1>o. odd' = odd
  BY OddStep
<1>t. codes \in Nat
  BY ConstantsAssumption DEF TypeInv, DataType
<1>1. CASE Nuke
  BY <1>1, <1>o DEF Nuke, NoneRuns, Inside, procs, TypeInv, ControlType, HereInv
<1>2. CASE ~Nuke
  <2>1. codes' = codes \/ (codes = 0 /\ at' \notin {"assign", "assignText"})
    <3>1. CASE KickstartCache
      BY <3>1, <1>t DEF KickstartCache, Goto
    <3>2. CASE AssignAddresses
      BY <3>2 DEF AssignAddresses, Goto, Proceed, AfterCache, HereInv
    <3> QED
      BY <1>2, <3>1, <3>2, Writers
  <2>2. at' \in {"assign", "assignText"} => codes' = 0
    <3>1. CASE InitIndexId
      BY <3>1, <1>t DEF InitIndexId, Goto, AfterCache
    <3>2. CASE at' = at
      BY <2>1, <3>2 DEF HereInv
    <3> QED
      BY <3>1, <3>2, AssignWriters
  <2>3. ASSUME odd # "stale"
        PROVE /\ redis' \in {None, 0, codes'}
              /\ \A r \in rows' : r.kicked = 0 => r.codes \in {0, codes'}
              /\ at' = "import" => \A r \in sql'.rows : r.kicked = 0 /\ r.codes \in {0, codes'}
              /\ \A s \in orphans' : \A r \in s.rows : r.kicked = 0 /\ r.codes \in {0, codes'}
    <3>1. redis' \in {None, 0, codes'}
      <4>1. CASE ExtractBatch
        BY <4>1, <2>3 DEF ExtractBatch, AddressCache, db, HereInv
      <4> QED
        BY <4>1, <1>2, <2>1, <2>3, JobWriters DEF HereInv
    <3>2. ASSUME NEW r \in rows', r.kicked = 0 PROVE r.codes \in {0, codes}
      <4>1. CASE r \in rows
        BY <4>1, <3>2, <2>3 DEF HereInv
      <4>2. CASE r \notin rows /\ KickstartLoad
        <5>1. list # {} /\ rows' = rows \cup Loaded(files[Least(list)])
          BY <4>2 DEF KickstartLoad, Psql
        <5>2. Least(list) \in Tops
          BY <5>1, LeastTop
        <5>3. \A q \in Loaded(files[Least(list)]) : q.kicked > 0
          BY <5>2, LoadedType DEF TypeInv, DataType
        <5> QED
          BY <5>1, <5>3, <4>2, <3>2
      <4>3. CASE r \notin rows /\ ImportBatch
        BY <4>3, <2>3 DEF ImportBatch, Proceed, Commit, HereInv
      <4>4. CASE r \notin rows /\ \E s \in orphans : OrphanCommits(s)
        BY <4>4, <2>3 DEF OrphanCommits, Commit, HereInv
      <4> QED
        BY <4>1, <4>2, <4>3, <4>4, <1>2, Writers
    <3>3. at' = "import" => \A r \in sql'.rows : r.kicked = 0 /\ r.codes \in {0, codes'}
      <4>1. CASE ExtractBatch
        <5>1. codes' = codes /\ AddressCache \in {0, codes}
          BY <4>1, <2>3 DEF ExtractBatch, AddressCache, db, HereInv
        <5> QED
          BY <4>1, <5>1, ExtractedType
      <4>2. CASE UNCHANGED <<at, sql>>
        BY <4>2, <2>1, <2>3 DEF HereInv
      <4> QED
        BY <4>1, <4>2, JobWriters
    <3>4. ASSUME NEW s \in orphans', NEW r \in s.rows PROVE r.kicked = 0 /\ r.codes \in {0, codes}
      <4>1. CASE s \in orphans
        BY <4>1, <3>4, <2>3 DEF HereInv
      <4>2. CASE s = Orphaned(sql) /\ at = "import"
        <5>1. PICK q \in sql.rows : r = [q EXCEPT !.late = r.late]
          BY <4>2, <3>4, OrphanedType
        <5>2. q \in Row
          BY <4>2, BatchInHand
        <5>3. r.kicked = q.kicked /\ r.codes = q.codes
          BY <5>1, <5>2 DEF Row
        <5> QED
          BY <4>2, <5>3, <2>3 DEF HereInv
      <4> QED
        BY <4>1, <4>2, <3>4, JobWriters
    <3> QED
      BY <2>1, <3>1, <3>2, <3>3, <3>4
  <2> QED
    BY <1>o, <2>2, <2>3 DEF HereInv
<1> QED
  BY <1>1, <1>2

Loading == {"kickData", "kickFlag", "kickList", "load", "mark", "move", "loaded"}

\* The archive is loaded with the cache there is; the files, with the cache of the index
\* file next to them; and a kickstart has that one, or none yet, from its first step on.
CodesInv ==
  odd \notin {"psql", "unclean", "race", "stale"} =>
    /\ \A r \in rows : r.codes \in {0, codes}
    /\ indexFile # None => indexFile > 0
    /\ \A t \in Tops : files[t] # {} =>
         indexFile # None /\ \A r \in files[t] : r.codes \in {0, indexFile}
    /\ exporting => codes > 0 /\ indexFile = codes
    /\ \A p \in Procs : kick[p] => codes \in {0, indexFile}
    /\ at \in {"accounts", "indexId", "assign", "assignText"} /\ Kicked => codes = indexFile
    /\ at \in {"assign", "assignText"} => codes = 0
    /\ at \in Loading => codes = indexFile

\* What a step does that leaves the cache and the files alone.
SameCodes ==
  /\ UNCHANGED <<codes, indexFile, files, exporting>>
  /\ \A r \in rows' : r \in rows \/ r.codes \in {0, codes}
  /\ \A p \in Procs : kick'[p] => kick[p]
  /\ Inside' = Inside \/ at' \in {"off", "tables"}
  /\ \/ at' \notin {"accounts", "indexId", "assign", "assignText"} \cup Loading
     \/ at' = at
     \/ at \in Loading /\ at' \in Loading
     \/ at = "accounts" /\ at' = "indexId"
     \/ ~Kicked /\ at' \in {"accounts", "indexId"}

LEMMA SameCodesStep == CodesInv /\ odd' = odd /\ SameCodes => CodesInv'
<1> SUFFICES ASSUME CodesInv, odd' = odd, SameCodes,
                    odd \notin {"psql", "unclean", "race", "stale"}
             PROVE  CodesInv'
  BY DEF CodesInv
<1>1. Inside' = Inside /\ Kicked' => Kicked
  BY DEF SameCodes, Kicked, Inside
<1>2. /\ \A r \in rows' : r.codes \in {0, codes'}
      /\ indexFile' # None => indexFile' > 0
      /\ \A t \in Tops : files'[t] # {} =>
           indexFile' # None /\ \A r \in files'[t] : r.codes \in {0, indexFile'}
      /\ exporting' => codes' > 0 /\ indexFile' = codes'
      /\ \A p \in Procs : kick'[p] => codes' \in {0, indexFile'}
  BY DEF CodesInv, SameCodes
<1>3. /\ at' \in {"accounts", "indexId", "assign", "assignText"} /\ Kicked' => codes' = indexFile'
      /\ at' \in {"assign", "assignText"} => codes' = 0
      /\ at' \in Loading => codes' = indexFile'
  BY <1>1 DEF CodesInv, SameCodes, Loading
<1> QED
  BY <1>2, <1>3 DEF CodesInv

LEMMA CodesStep == WhereInv /\ HereInv /\ CodesInv /\ [Next]_vars => CodesInv'
<1> SUFFICES ASSUME WhereInv, HereInv, CodesInv, [Next]_vars,
                    odd \notin {"psql", "unclean", "race", "stale"}
             PROVE  CodesInv'
  BY OddStep DEF CodesInv
<1>o. odd' = odd
  BY OddStep
<1>t. TypeInv /\ codes \in Nat /\ made \in Nat /\ (indexFile # None => indexFile \in Nat)
      /\ None \notin Nat
  BY ConstantsAssumption DEF WhereInv, TypeInv, DataType
<1>e. \A r \in rows' : r \in rows \/ ~UNCHANGED rows
  OBVIOUS
<1>1. CASE SameCodes
  BY <1>1, <1>o, SameCodesStep
<1>l. Loading = {"kickData", "kickFlag", "kickList", "load", "mark", "move", "loaded"}
  BY DEF Loading
<1>2. CASE KickstartCache
  <2>1. at = "kickCache" /\ at' = "accounts" /\ tables = "all" /\ Inside' = Inside
        /\ UNCHANGED <<rows, kick, indexFile, files, exporting>> /\ indexFile # None
    BY <1>2 DEF KickstartCache, Proceed, Goto, Inside, disk, WhereInv, TypeInv, ControlType,
       TablesInv
  <2>2. codes' = (IF codes > 0 THEN codes ELSE indexFile)
    BY <1>2, <2>1 DEF KickstartCache, Psql, Fault
  <2>3. Kicked' = Kicked
    BY <2>1 DEF Kicked
  <2>4. Kicked => codes \in {0, indexFile}
    BY DEF Kicked, Inside, CodesInv
  <2>5. /\ \A r \in rows' : r.codes \in {0, codes'}
        /\ exporting' => codes' > 0 /\ indexFile' = codes'
        /\ \A p \in Procs : kick'[p] => codes' \in {0, indexFile'}
    BY <1>t, <2>1, <2>2 DEF CodesInv
  <2>6. Kicked' => codes' = indexFile'
    BY <1>t, <2>1, <2>2, <2>3, <2>4
  <2>7. /\ indexFile' # None => indexFile' > 0
        /\ \A t \in Tops : files'[t] # {} =>
             indexFile' # None /\ \A r \in files'[t] : r.codes \in {0, indexFile'}
    BY <2>1 DEF CodesInv
  <2> QED
    BY <2>1, <2>5, <2>6, <2>7 DEF CodesInv, Loading
<1>3. CASE AssignAddresses
  <2>1. at = "assign" /\ tables = "all" /\ at' = AfterCache
        /\ UNCHANGED <<rows, kick, indexFile, files, exporting, pc>>
    BY <1>3 DEF AssignAddresses, Proceed, Goto, disk, WhereInv, TablesInv
  <2>2. codes = 0 /\ codes' = made + 1
    BY <1>3, <2>1 DEF AssignAddresses, Psql, Fault, CodesInv
  <2>3. ASSUME NEW p \in Procs, kick[p] PROVE FALSE
    <3>1. PICK q \in Inside : TRUE
      BY <1>t, <2>1 DEF TypeInv, ControlType
    <3>2. p = q
      BY <2>3, KickedIsIn
    <3>3. Kicked /\ indexFile # None
      BY <2>3, <3>1, <3>2, <1>t DEF Kicked, TypeInv, ControlType
    <3> QED
      BY <3>3, <2>1, <2>2, <1>t DEF CodesInv
  <2>4. ~Kicked /\ at' = "flags"
    BY <2>1, <2>3 DEF Kicked, Inside, AfterCache
  <2> QED
    BY <1>o, <1>t, <2>1, <2>2, <2>3, <2>4 DEF CodesInv, Loading
<1>4. CASE InitIndexId \/ AssignAfterText
  <2>1. /\ at \in {"indexId", "assignText"} /\ Inside' = Inside
        /\ UNCHANGED <<rows, kick, indexFile, files, exporting, codes>>
        /\ at' \in {"assign", "assignText", AfterCache}
        /\ at' \in {"assign", "assignText"} => ~(codes > 0) /\ at = "indexId"
    BY <1>4 DEF InitIndexId, AssignAfterText, Proceed, Goto, disk, db, AfterCache, Inside
  <2>2. Kicked' = Kicked
    BY <2>1 DEF Kicked
  <2>3. codes > 0 \/ codes = 0
    BY <1>t
  <2>4. at' \in Loading => Kicked
    BY <2>1 DEF AfterCache, Loading
  <2> QED
    BY <1>o, <2>1, <2>2, <2>3, <2>4 DEF CodesInv, Loading
<1>5. CASE KickstartLoad
  <2>1. /\ at = "load" /\ at' \in {"flags", "mark", "load"} /\ Inside' = Inside
        /\ UNCHANGED <<kick, indexFile, files, exporting, codes>>
    BY <1>5 DEF KickstartLoad, Proceed, Goto, Inside, disk
  <2>2. \A r \in rows' : r \in rows \/ r.codes \in {0, codes}
    <3>1. CASE rows' = rows
      BY <3>1
    <3>2. CASE list # {} /\ rows' = rows \cup Loaded(files[Least(list)])
      <4>1. Least(list) \in Tops /\ files[Least(list)] # {}
        BY <3>2, <1>t, LeastTop DEF TypeInv, ControlType
      <4>2. \A r \in files[Least(list)] : r.codes \in {0, codes}
        BY <4>1, <2>1 DEF CodesInv, Loading
      <4>3. \A r \in Loaded(files[Least(list)]) : \E s \in files[Least(list)] :
              r = [s EXCEPT !.kicked = r.kicked]
        BY <4>1, <1>t, LoadedType DEF TypeInv, DataType
      <4>4. files[Least(list)] \subseteq Row
        BY <4>1, <1>t DEF TypeInv, DataType
      <4>5. \A r \in Loaded(files[Least(list)]) : r.codes \in {0, codes}
        BY <4>2, <4>3, <4>4 DEF Row
      <4> QED
        BY <3>2, <4>5
    <3> QED
      BY <3>1, <3>2, <1>5 DEF KickstartLoad, Psql
  <2> QED
    BY <1>1, <2>1, <2>2 DEF SameCodes, Loading
<1>6. CASE ImportBatch \/ \E s \in orphans : OrphanCommits(s)
  <2>1. \A r \in rows' : r \in rows \/ r.codes \in {0, codes}
    <3>1. CASE ImportBatch
      BY <3>1 DEF ImportBatch, Proceed, Commit, HereInv
    <3>2. CASE \E s \in orphans : OrphanCommits(s)
      BY <3>2 DEF OrphanCommits, Commit, HereInv
    <3> QED
      BY <1>6, <3>1, <3>2
  <2>2. UNCHANGED <<codes, indexFile, files, exporting, kick, pc>>
    BY <1>6 DEF ImportBatch, OrphanCommits, Goto, disk, procs
  <2>3. at' = at \/ at' \in {"finalize", "ready"}
    BY <1>6 DEF ImportBatch, OrphanCommits, Goto, procs
  <2> QED
    BY <1>1, <2>1, <2>2, <2>3 DEF SameCodes, Inside, Loading
<1>7. CASE Nuke
  <2>1. at = "off" /\ ~exporting /\ \A p \in Procs : ~kick[p]
    BY <1>7, <1>t DEF Nuke, NoneRuns, Inside, TypeInv, ControlType
  <2> QED
    BY <1>7, <1>o, <2>1 DEF Nuke, CodesInv, Loading, disk, procs
<1>8. CASE ExportBegin
  <2>1. /\ codes > 0 /\ indexFile \in {None, codes} /\ at \in {"off", "ready", "import", "finalize"}
        /\ exporting' = TRUE /\ indexFile' = codes
        /\ UNCHANGED <<codes, rows, files, at, kick>>
    BY <1>8 DEF ExportBegin, Cycling, db, procs
  <2> QED
    BY <1>o, <1>t, <2>1 DEF CodesInv, Loading
<1>9. CASE ExportFile
  <2>1. PICK t \in Tops : /\ exporting
          /\ files' = [files EXCEPT ![t] = {[r EXCEPT !.kicked = 1] : r \in RowsIn(importHeight, t)}]
    BY <1>9, <1>t, ExportStep
  <2>2. ASSUME NEW u \in Tops, NEW r \in files'[u] PROVE r.codes \in {0, indexFile}
    <3>1. CASE u = t
      <4>1. files'[t] = {[s EXCEPT !.kicked = 1] : s \in RowsIn(importHeight, t)}
        BY <2>1, <1>t DEF TypeInv, DataType
      <4>2. PICK s \in RowsIn(importHeight, t) : r = [s EXCEPT !.kicked = 1]
        BY <4>1, <2>2, <3>1
      <4>3. s \in rows /\ s \in Row
        BY <1>t DEF RowsIn, TypeInv, DataType
      <4>4. r.codes = s.codes
        BY <4>2, <4>3 DEF Row
      <4> QED
        BY <4>3, <4>4, <2>1 DEF CodesInv
    <3>2. CASE u # t
      <4>1. files'[u] = files[u]
        BY <2>1, <3>2, <1>t DEF TypeInv, DataType
      <4> QED
        BY <4>1, <2>2 DEF CodesInv
    <3> QED
      BY <3>1, <3>2
  <2>3. UNCHANGED <<codes, rows, at, kick, pc, indexFile, exporting>> /\ Kicked' = Kicked
    BY <1>9 DEF ExportFile, db, procs, Kicked, Inside
  <2>4. indexFile # None
    BY <2>1, <1>t DEF CodesInv
  <2> QED
    BY <1>o, <2>2, <2>3, <2>4 DEF CodesInv
<1>10. CASE ExportEnd
  BY <1>10, <1>o DEF ExportEnd, CodesInv, db, disk, procs, Kicked, Inside
<1>11. ASSUME NEW p \in Procs, NEW k \in BOOLEAN, StartProcess(p, k) PROVE CodesInv'
  <2>1. /\ UNCHANGED <<codes, indexFile, files, exporting, rows, at>>
        /\ \A q \in Procs : kick'[q] => kick[q] \/ (q = p /\ k)
        /\ k => codes \in {0, indexFile}
    BY <1>11, <1>t DEF StartProcess, MayKickstart, db, disk, TypeInv, ControlType
  <2>2. Kicked' => Kicked
    BY <1>11, <1>t DEF StartProcess, Kicked, Inside, TypeInv, ControlType, Status
  <2> QED
    BY <1>o, <2>1, <2>2 DEF CodesInv
<1>12. ASSUME NEW p \in Procs, CheckPid(p) \/ WritePid(p) PROVE SameCodes
  <2>1. CASE CheckPid(p)
    <3>1. PICK taken \in BOOLEAN : Pass(p, taken) /\ pc[p] = "check"
      BY <2>1 DEF CheckPid
    <3>2. Inside' = Inside /\ \A q \in Procs : kick'[q] => kick[q]
      BY <3>1, <1>t DEF Pass, Inside, TypeInv, ControlType, Status
    <3> QED
      BY <3>1, <3>2 DEF Pass, SameCodes, db, disk
  <2>2. CASE WritePid(p)
    BY <2>2, <1>t DEF WritePid, SameCodes, db, Loading
  <2> QED
    BY <1>12, <2>1, <2>2
<1>13. ASSUME NEW p \in Procs, Kill(p) PROVE SameCodes
  <2>1. at' = "off" \/ (pc[p] # "in" /\ UNCHANGED at)
    BY <1>13 DEF Kill
  <2>2. Inside' = Inside \/ at' = "off"
    BY <1>13, <2>1, <1>t DEF Kill, Inside, TypeInv, ControlType, Status
  <2>3. \A q \in Procs : kick'[q] => kick[q]
    BY <1>13, <1>t DEF Kill, TypeInv, ControlType
  <2> QED
    BY <1>13, <2>1, <2>2, <2>3 DEF Kill, SameCodes, disk, Loading
<1>14. ASSUME UNCHANGED <<codes, indexFile, files, exporting, rows>>,
              UNCHANGED <<pc, kick>> \/ ExitProcess,
              \/ at' \notin {"accounts", "indexId", "assign", "assignText"} \cup Loading
              \/ at' = at
              \/ at \in Loading /\ at' \in Loading
              \/ at = "accounts" /\ at' = "indexId"
              \/ ~Kicked /\ at' \in {"accounts", "indexId"}
       PROVE CodesInv'
  <2>1. CASE UNCHANGED <<pc, kick>>
    BY <1>1, <1>14, <2>1 DEF SameCodes, Inside
  <2>2. CASE ExitProcess
    <3>1. at' = "off" /\ \A p \in Procs : kick'[p] => kick[p]
      BY <2>2 DEF ExitProcess
    <3> QED
      BY <1>1, <1>14, <3>1 DEF SameCodes
  <2> QED
    BY <1>14, <2>1, <2>2
<1> USE DEF Goto, disk, db
<1>15. CASE InitTables \/ InitDefaults \/ CheckMode \/ CheckInit \/ InitBlockSync
            \/ MarkInit \/ FirstBlock \/ StoreMode \/ InitPartitions \/ PopularAccounts
  <2>1. UNCHANGED <<codes, indexFile, files, exporting, rows>>
    BY <1>15 DEF InitTables, InitDefaults, CheckMode, CheckInit, InitBlockSync,
       MarkInit, FirstBlock, StoreMode, InitPartitions, PopularAccounts
  <2>2. \/ UNCHANGED <<pc, kick>>
           /\ \/ at' \in {"defaults", "mode", "init", "partitions", "genesis", "initialized",
                          "first", "storeMode", "kickCache"}
              \/ at' = "accounts" /\ ~Kicked
              \/ at = "accounts" /\ at' = "indexId"
        \/ ExitProcess
    BY <1>15 DEF InitTables, InitDefaults, CheckMode, CheckInit, InitBlockSync,
       MarkInit, FirstBlock, StoreMode, InitPartitions, PopularAccounts, Proceed
  <2>3. ExitProcess => at' = "off"
    BY DEF ExitProcess
  <2> QED
    BY <2>1, <2>2, <2>3, <1>14, <1>l
<1>16. CASE KickstartBegin \/ KickstartFlag \/ KickstartList \/ KickstartMark
            \/ KickstartMove \/ KickstartEnd \/ ResetFlags \/ LookFlags
  <2>1. UNCHANGED <<codes, indexFile, files, exporting, rows>>
    BY <1>16 DEF KickstartBegin, KickstartFlag, KickstartList, KickstartMark,
       KickstartMove, KickstartEnd, ResetFlags, LookFlags
  <2>2. \/ UNCHANGED <<pc, kick>>
           /\ \/ at \in Loading /\ at' \in Loading
              \/ at' \in {"flags", "look", "cli", "ready"}
        \/ ExitProcess
    BY <1>16, <1>l DEF KickstartBegin, KickstartFlag, KickstartList, KickstartMark,
       KickstartMove, KickstartEnd, ResetFlags, LookFlags, Proceed
  <2>3. ExitProcess => at' = "off"
    BY DEF ExitProcess
  <2> QED
    BY <2>1, <2>2, <2>3, <1>14, <1>l
<1>17. CASE IndexBuild \/ IndexMark \/ Pause \/ PauseExit \/ Unpause
            \/ Synchronize \/ ExtractBatch \/ FinalizeBatch \/ (\E s \in orphans : OrphanEnds(s))
            \/ (\E m \in Modes : ChangeMode(m)) \/ Grow \/ UNCHANGED vars
  <2>1. UNCHANGED <<codes, indexFile, files, exporting, rows>>
    BY <1>17 DEF IndexBuild, IndexMark, Pause, PauseExit, Unpause, Synchronize, ExtractBatch,
       FinalizeBatch, OrphanEnds, ChangeMode, Grow, vars
  <2>2. \/ UNCHANGED <<pc, kick>> /\ (at' = at \/ at' \in {"building", "ready", "import"})
        \/ ExitProcess
    BY <1>17 DEF IndexBuild, IndexMark, Pause, PauseExit, Unpause, Synchronize, ExtractBatch,
       FinalizeBatch, OrphanEnds, ChangeMode, Grow, vars, procs
  <2>3. ExitProcess => at' = "off"
    BY DEF ExitProcess
  <2> QED
    BY <2>1, <2>2, <2>3, <1>14, <1>l
<1> QED
  BY <1>1, <1>2, <1>3, <1>4, <1>5, <1>6, <1>7, <1>8, <1>9, <1>10, <1>11, <1>12, <1>13, <1>14,
     <1>15, <1>16, <1>17, SameCodesStep, <1>o DEF Next, Boot, Run, Operate

\* No row of the archive has a byteId that is not of the address cache: whatever database
\* the files were exported from, and wherever starts, kickstarts and cycles are killed, if
\* redis is flushed with the nuke; what is indexed here, even if a kickstart goes wrong.
THEOREM ArchiveIsDecodable == Spec => []Decodable
<1>1. Init => HereInv /\ CodesInv
  BY DEF Init, HereInv, CodesInv, Kicked, Loading
<1>2. TypeInv /\ HereInv /\ CodesInv => Decodable
  <2> SUFFICES ASSUME TypeInv, HereInv, CodesInv, odd # "stale", NEW r \in rows
               PROVE  r.codes \in {0, codes} \/ (r.kicked > 0 /\ odd \in {"psql", "unclean", "race"})
    BY DEF Decodable
  <2>1. r.kicked \in Nat
    BY DEF TypeInv, DataType, Row
  <2> QED
    BY <2>1 DEF HereInv, CodesInv
<1>3. WhereInv => TypeInv
  BY DEF WhereInv
<1> QED
  BY <1>1, <1>2, <1>3, WhereInit, WhereStep, HereStep, CodesStep, PTL DEF Spec

-----------------------------------------------------------------------------
(* initialInit *)

\* The places of a start that come after the init flag is read or stored.
Begun == {"partitions", "kickCache", "accounts", "indexId", "assign", "assignText"}
         \cup Loading \cup {"flags", "look", "ready", "import", "finalize", "building", "cli"}

\* Where initialInit runs, the init flag, the mode and the sync point are as it needs them.
BeginInv ==
  odd \notin {"query", "psql"} =>
    /\ app.init = TRUE => app.blockSync # None
    /\ app.mode # None => app.init = TRUE
    /\ at \in {"genesis", "initialized"} => app.init # TRUE
    /\ at \in Begun \cup {"first", "storeMode"} => app.init = TRUE
    /\ at \in {"genesis", "initialized", "first", "storeMode"} => app.mode = None
    /\ at \in {"initialized", "first"} \/ (at = "storeMode" /\ env = "sync") =>
         app.blockSync = Genesis

LEMMA NoneIsNotTrue == None # TRUE
<1>1. TRUE \in BOOLEAN /\ None \notin BOOLEAN
  BY ConstantsAssumption
<1> QED
  BY <1>1

LEMMA FreshInit == Fresh.init # TRUE
<1>1. Fresh.init = None
  BY DEF Fresh
<1> QED
  BY <1>1, NoneIsNotTrue, Zenon

LEMMA BeginStep == TypeInv /\ TablesInv /\ BeginInv /\ [Next]_vars => BeginInv'
<1> SUFFICES ASSUME TypeInv, TablesInv, BeginInv, [Next]_vars, odd \notin {"query", "psql"}
             PROVE  BeginInv'
  BY OddStep DEF BeginInv
<1>f. {"init", "mode", "blockSync"} \subseteq DOMAIN app
  BY DEF TypeInv, AppType, Fresh
<1>c. Genesis \in Nat /\ Depth \in Nat /\ tip \in Nat /\ None \notin Int /\ None \notin Modes
      /\ env \in Modes /\ tip - Depth \in Int
  BY ConstantsAssumption DEF TypeInv, DataType
<1>b. Begun = {"partitions", "kickCache", "accounts", "indexId", "assign", "assignText",
               "kickData", "kickFlag", "kickList", "load", "mark", "move", "loaded",
               "flags", "look", "ready", "import", "finalize", "building", "cli"}
  BY DEF Begun, Loading
<1>a. at \notin {"off", "tables"} => tables = "all"
  BY DEF TablesInv
<1>w. /\ app'.init # app.init => MarkInit \/ Nuke
      /\ app'.mode # app.mode => StoreMode \/ Nuke
      /\ app'.blockSync # app.blockSync =>
           InitBlockSync \/ FirstBlock \/ KickstartMove \/ Synchronize \/ FinalizeBatch \/ Nuke
      /\ env' # env => \E m \in Modes : ChangeMode(m)
  BY AppWriters, Writers
<1>1. ASSUME app'.init = app.init, app'.mode = app.mode, env' = env,
             app'.blockSync = app.blockSync \/ (app'.blockSync # None /\ at \in Begun),
             \/ at' = at
             \/ at' \in {"off", "tables", "defaults", "mode", "init"}
             \/ at \in Begun /\ at' \in Begun
      PROVE BeginInv'
  BY <1>1, <1>b DEF BeginInv
<1>2. CASE CheckInit
  <2>1. at = "init" /\ UNCHANGED <<app, env>>
        /\ at' = IF app.init = TRUE THEN "partitions" ELSE "genesis"
    BY <1>2 DEF CheckInit, Proceed, Goto, Read, Fault, world, db
  <2> QED
    BY <2>1, <1>b DEF BeginInv
<1>3. CASE InitBlockSync \/ MarkInit \/ StoreMode
  <2>1. env' = env /\ tables = "all"
    BY <1>3, <1>a DEF InitBlockSync, MarkInit, StoreMode, Proceed, world
  <2>2. CASE InitBlockSync
    BY <2>1, <2>2, <1>f, <1>c, <1>b DEF InitBlockSync, Proceed, Goto, Put, Stored, Fault, BeginInv
  <2>3. CASE MarkInit
    BY <2>1, <2>3, <1>f, <1>c, <1>b DEF MarkInit, Proceed, Goto, Put, Stored, Fault, BeginInv
  <2>4. CASE StoreMode
    BY <2>1, <2>4, <1>f, <1>c, <1>b DEF StoreMode, Proceed, Goto, Put, Stored, Fault, BeginInv
  <2> QED
    BY <1>3, <2>2, <2>3, <2>4
<1>4. CASE FirstBlock
  <2>1. env' = env /\ tables = "all" /\ at = "first"
    BY <1>4, <1>a DEF FirstBlock, Proceed, world
  <2>2. \/ at' = "off" /\ app' = app
        \/ at' = "storeMode" /\ env = "sync" /\ app' = app
        \/ at' = "storeMode" /\ env # "sync" /\ app' = [app EXCEPT !.blockSync = tip - Depth]
    BY <1>4, <2>1 DEF FirstBlock, Goto, ExitProcess, Put, Stored, Fault
  <2> QED
    BY <2>1, <2>2, <1>f, <1>c, <1>b DEF BeginInv
<1>5. CASE KickstartMove \/ Synchronize \/ FinalizeBatch
  <2>1. at \in Begun /\ (at' = at \/ at' \in Begun) /\ env' = env
    BY <1>5, <1>b DEF KickstartMove, Synchronize, FinalizeBatch, Proceed, Goto, world, procs
  <2>2. app'.blockSync # None
    <3>1. CASE KickstartMove
      <4>1. Least(list) \in Nat
        BY <3>1, LeastTop, TopsType DEF KickstartMove, Proceed, TypeInv, ControlType
      <4>2. app' = [app EXCEPT !.blockSync = Least(list)]
        BY <3>1, <1>a DEF KickstartMove, Proceed, Put, Stored, Fault
      <4> QED
        BY <4>1, <4>2, <1>f, <1>c
    <3>2. CASE Synchronize
      <4>1. \E v \in Nat : app' = [app EXCEPT !.blockSync = v]
        BY <3>2, <1>c DEF Synchronize
      <4>2. app'.blockSync \in Nat
        BY <4>1, <1>f
      <4> QED
        BY <4>2, <1>c
    <3>3. CASE FinalizeBatch
      <4>1. sql.top \in Nat
        BY <3>3, BatchInHand DEF FinalizeBatch, Proceed
      <4>2. app' = [app EXCEPT !.blockSync = sql.top]
        BY <3>3, <1>a DEF FinalizeBatch, Proceed, Put, Stored, Fault
      <4> QED
        BY <4>1, <4>2, <1>f, <1>c
    <3> QED
      BY <1>5, <3>1, <3>2, <3>3
  <2>3. app'.init = app.init /\ app'.mode = app.mode
    <3>1. ~Nuke /\ ~MarkInit /\ ~StoreMode
      BY <2>1, <1>b DEF MarkInit, StoreMode, Nuke, Proceed, NoneRuns, Inside, TypeInv, ControlType
    <3> QED
      BY <3>1, <1>w
  <2> QED
    BY <1>1, <2>1, <2>2, <2>3
<1>6. CASE Nuke \/ \E m \in Modes : ChangeMode(m)
  <2>1. at = "off" /\ at' = at
    BY <1>6 DEF Nuke, ChangeMode, NoneRuns, Inside, TypeInv, ControlType, procs
  <2>2. CASE Nuke
    <3>1. app'.init # TRUE
      BY <2>2, FreshInit DEF Nuke
    <3>2. app'.mode = None
      BY <2>2 DEF Nuke, Fresh
    <3> QED
      BY <2>1, <3>1, <3>2, <1>b DEF BeginInv
  <2>3. CASE \E m \in Modes : ChangeMode(m)
    <3>1. app' = app
      BY <2>3 DEF ChangeMode, db
    <3> QED
      BY <2>1, <3>1, <1>b DEF BeginInv
  <2> QED
    BY <1>6, <2>2, <2>3
<1> DEFINE Aside1 == /\ app'.init = app.init /\ app'.mode = app.mode
                     /\ app'.blockSync = app.blockSync /\ env' = env
<1>7. ~(CheckInit \/ InitBlockSync \/ MarkInit \/ StoreMode \/ FirstBlock \/ KickstartMove
        \/ Synchronize \/ FinalizeBatch \/ Nuke \/ \E m \in Modes : ChangeMode(m)) => Aside1
  BY <1>w
<1> HIDE DEF Aside1
<1>8. CASE InitTables \/ InitDefaults \/ CheckMode
  <2>1. at' \in {"off", "defaults", "mode", "init"}
    BY <1>8 DEF InitTables, InitDefaults, CheckMode, Goto, ExitProcess
  <2> QED
    BY <2>1, <1>1, <1>2, <1>3, <1>4, <1>5, <1>6, <1>7 DEF Aside1
<1>9. CASE InitPartitions \/ KickstartCache \/ PopularAccounts \/ InitIndexId \/ AssignAddresses
           \/ AssignAfterText \/ KickstartBegin \/ KickstartFlag \/ KickstartList \/ KickstartLoad
           \/ KickstartMark \/ KickstartEnd \/ ResetFlags \/ LookFlags
           \/ ExtractBatch \/ ImportBatch \/ IndexBuild \/ IndexMark \/ PauseExit \/ Unpause
  <2>1. at \in Begun
    BY <1>9, <1>b DEF InitPartitions, KickstartCache, PopularAccounts, InitIndexId,
       AssignAddresses, AssignAfterText, KickstartBegin, KickstartFlag, KickstartList,
       KickstartLoad, KickstartMark, KickstartEnd, ResetFlags, LookFlags, ExtractBatch,
       ImportBatch, IndexBuild, IndexMark, PauseExit, Unpause, Proceed
  <2>2. at' \in Begun \cup {"off"}
    BY <1>9, <1>b DEF InitPartitions, KickstartCache, PopularAccounts, InitIndexId,
       AssignAddresses, AssignAfterText, AfterCache, KickstartBegin, KickstartFlag, KickstartList,
       KickstartLoad, KickstartMark, KickstartEnd, ResetFlags, LookFlags, ExtractBatch,
       ImportBatch, IndexBuild, IndexMark, PauseExit, Unpause, Goto, ExitProcess
  <2> QED
    BY <2>1, <2>2, <1>1, <1>2, <1>3, <1>4, <1>5, <1>6, <1>7 DEF Aside1
<1>10. CASE \/ Pause \/ (\E m \in Modes : ChangeMode(m)) \/ ExportBegin \/ ExportFile
            \/ ExportEnd \/ Grow \/ UNCHANGED vars
            \/ (\E s \in orphans : OrphanCommits(s) \/ OrphanEnds(s))
            \/ \E p \in Procs : \/ \E k \in BOOLEAN : StartProcess(p, k)
                                \/ CheckPid(p) \/ WritePid(p) \/ Kill(p)
  <2>1. at' = at \/ at' \in {"off", "tables"}
    BY <1>10 DEF Pause, OrphanCommits, OrphanEnds, ChangeMode, ExportBegin, ExportFile, ExportEnd, Grow, vars, procs,
       StartProcess, CheckPid, Pass, WritePid, Kill
  <2> QED
    BY <2>1, <1>1, <1>2, <1>3, <1>4, <1>5, <1>6, <1>7 DEF Aside1
<1> QED
  BY <1>2, <1>3, <1>4, <1>5, <1>6, <1>8, <1>9, <1>10 DEF Next, Boot, Run, Operate

LEMMA BeginInit == Init => BeginInv
<1> SUFFICES ASSUME Init PROVE BeginInv
  OBVIOUS
<1>1. app.init # TRUE
  BY FreshInit DEF Init
<1>2. at = "off" /\ app.mode = None
  BY DEF Init, Fresh
<1> QED
  BY <1>1, <1>2 DEF BeginInv, Begun, Loading

-----------------------------------------------------------------------------
(* The archive has no hole *)

Covers(h)     == \A b \in Genesis + 1 .. h : \E r \in rows : r.block = b
InFiles(b, h) == \E t \in Tops : t <= h /\ \E r \in files[t] : r.block = b
InRows(t)     == \A r \in files[t] : \E s \in rows : s.block = r.block

\* The files together hold every block up to the end of each.  What has been kickstarted
\* is every file that is not on the list any more: so a file brings the archive, which had
\* no hole, to its end without one.
HoleInv ==
  odd \notin {"psql", "query", "ragged", "unclean"} =>
    /\ app.mode = "sync" => Covers(app.blockSync)
    /\ app.kickImport # None => Covers(app.kickImport)
    /\ exporting => app.mode = "sync"
    /\ \A r \in rows : r.block > Genesis
    /\ \A t \in Tops : files[t] # {} => t < importHeight
    /\ \A t \in Tops : \A r \in files[t] : r.block > Genesis /\ r.block <= t
    /\ \A b \in Genesis + 1 .. importHeight - 1 : InFiles(b, importHeight - 1)
    /\ \A t \in Tops : files[t] # {} => \A b \in Genesis + 1 .. t : InFiles(b, t)
    /\ at \in {"load", "mark", "move"} => \A t \in Tops \ list : InRows(t)
    /\ at \in {"mark", "move"} => InRows(Least(list))

\* A batch goes on where the archive ends, so that its mark has no hole below it either.
BatchInv ==
  odd \notin {"psql", "query", "ragged", "unclean"} =>
    /\ at = "import" =>
         /\ \A r \in sql.rows : r.block > Genesis
         /\ \A b \in Batch(app.blockSync, sql.top) : \E r \in sql.rows : r.block = b
    /\ at = "finalize" /\ app.mode = "sync" => Covers(sql.top)
    /\ \A s \in orphans : \A r \in s.rows : r.block > Genesis

ArchiveInv == WhereInv /\ KeptInv /\ BeginInv

LEMMA ArchiveStep == ArchiveInv /\ [Next]_vars => ArchiveInv'
BY WhereStep, KeptStep, BeginStep DEF ArchiveInv, WhereInv

LEMMA ArchiveInit == Init => ArchiveInv
BY WhereInit, BeginInit DEF ArchiveInv, Init, KeptInv

LEMMA LeastLow == ASSUME NEW S \in SUBSET Nat, NEW u \in S PROVE Least(S) \in S /\ Least(S) <= u
<1>1. \E m \in S : \A k \in S : ~(<<k, m>> \in OpToRel(<, Nat))
  BY NatLessThanWellFounded, WFMin
<1>2. \A k, m \in Nat : k < m => <<k, m>> \in OpToRel(<, Nat)
  BY DEF OpToRel
<1>3. \E m \in S : \A k \in S : ~(k < m)
  BY <1>1, <1>2
<1>4. \E m \in S : \A k \in S : m <= k
  BY <1>3
<1> QED
  BY <1>4 DEF Least

\* A file that is at the head of the list, and in the archive, completes it.
LEMMA FileCovers ==
  ASSUME TypeInv, HoleInv, odd \notin {"psql", "query", "ragged", "unclean"},
         at \in {"mark", "move"}
  PROVE  Covers(Least(list))
<1>1. list \in SUBSET Nat /\ list # {} /\ list \subseteq Tops
  BY TopsType DEF TypeInv, ControlType
<1>2. Least(list) \in list /\ Least(list) \in Nat /\ \A u \in list : Least(list) <= u
  BY <1>1, LeastLow
<1>3. SUFFICES ASSUME NEW b \in Genesis + 1 .. Least(list) PROVE \E r \in rows : r.block = b
  BY DEF Covers
<1>4. PICK t \in Tops : t <= Least(list) /\ \E r \in files[t] : r.block = b
  <2>1. files[Least(list)] # {}
    BY <1>2 DEF TypeInv, ControlType
  <2> QED
    BY <1>1, <1>2, <2>1 DEF HoleInv, InFiles
<1>5. t \notin list \/ t = Least(list)
  BY <1>2, <1>4, TopsType
<1>6. InRows(t)
  BY <1>5 DEF HoleInv
<1> QED
  BY <1>4, <1>6 DEF InRows

\* What most steps leave alone: the files, and all that the archive is measured by.
SameArchive ==
  /\ UNCHANGED <<files, importHeight, exporting>>
  /\ app'.mode = app.mode /\ app'.blockSync = app.blockSync /\ app'.kickImport = app.kickImport
  /\ rows \subseteq rows' /\ \A r \in rows' : r.block > Genesis
  /\ at' \in {"load", "mark", "move"} => /\ at \in {"load", "mark", "move"} /\ list' = list
                                         /\ at' # at => at = "mark" \/ InRows(Least(list))'

LEMMA SameArchiveStep == HoleInv /\ odd' = odd /\ SameArchive => HoleInv'
<1> SUFFICES ASSUME HoleInv, odd' = odd, SameArchive,
                    odd \notin {"psql", "query", "ragged", "unclean"}
             PROVE  HoleInv'
  BY DEF HoleInv
<1>1. \A h : Covers(h) => Covers(h)'
  BY DEF SameArchive, Covers
<1>2. \A t : InRows(t) => InRows(t)'
  BY DEF SameArchive, InRows
<1>3. \A b, h : InFiles(b, h) => InFiles(b, h)'
  BY DEF SameArchive, InFiles
<1>4. /\ app'.mode = "sync" => Covers(app.blockSync)'
      /\ app'.kickImport # None => Covers(app.kickImport)'
      /\ exporting' => app'.mode = "sync"
      /\ \A r \in rows' : r.block > Genesis
  BY <1>1 DEF SameArchive, HoleInv
<1> QED
  BY <1>2, <1>3, <1>4 DEF SameArchive, HoleInv

\* Within a cycle nobody else moves the sync point or stores a mode.
LEMMA CycleKeeps ==
  ASSUME TypeInv, [Next]_vars, at \in {"import", "finalize"}
  PROVE  /\ app'.mode = app.mode
         /\ app'.blockSync = app.blockSync \/ (FinalizeBatch /\ at' = "ready")
         /\ rows' = rows \/ ImportBatch \/ \E s \in orphans : OrphanCommits(s)
<1>1. ~Nuke /\ ~StoreMode /\ ~KickstartLoad /\ ~InitBlockSync /\ ~FirstBlock /\ ~KickstartMove
      /\ ~Synchronize
  BY DEF Nuke, NoneRuns, Inside, TypeInv, ControlType, StoreMode, KickstartLoad, InitBlockSync,
     FirstBlock, KickstartMove, Synchronize, Proceed
<1>2. FinalizeBatch => at' = "ready"
  BY DEF FinalizeBatch, Goto
<1> QED
  BY <1>1, <1>2, Writers, AppWriters

LEMMA BatchStep == ArchiveInv /\ HoleInv /\ BatchInv /\ [Next]_vars => BatchInv'
<1> SUFFICES ASSUME ArchiveInv, HoleInv, BatchInv, [Next]_vars,
                    odd \notin {"psql", "query", "ragged", "unclean"}
             PROVE  BatchInv'
  BY OddStep DEF BatchInv
<1>t. TypeInv /\ BeginInv
  BY DEF ArchiveInv, WhereInv
<1>c. Genesis \in Nat /\ None \notin Int
  BY ConstantsAssumption
<1>1. ASSUME NEW s \in orphans', NEW r \in s.rows PROVE r.block > Genesis
  <2>1. CASE s \in orphans
    BY <1>1, <2>1 DEF BatchInv
  <2>2. CASE s = Orphaned(sql) /\ at = "import"
    <3>1. PICK q \in sql.rows : r = [q EXCEPT !.late = r.late]
      BY <1>1, <1>t, <2>2, OrphanedType
    <3>2. q \in Row
      BY <1>t, <2>2, BatchInHand
    <3>3. r.block = q.block
      BY <3>1, <3>2 DEF Row
    <3> QED
      BY <2>2, <3>3 DEF BatchInv
  <2> QED
    BY <1>1, <2>1, <2>2, JobWriters
<1>2. at' = "import" =>
        /\ \A r \in sql'.rows : r.block > Genesis
        /\ \A b \in Batch(app'.blockSync, sql'.top) : \E r \in sql'.rows : r.block = b
  <2>1. CASE ExtractBatch
    <3>1. app' = app
      BY <2>1 DEF ExtractBatch, db
    <3> QED
      BY <2>1, <3>1, <1>t, ExtractedType DEF Batch
  <2>2. CASE at' = "import" /\ UNCHANGED <<at, sql>>
    <3>1. app'.blockSync = app.blockSync
      BY <2>2, <1>t, CycleKeeps
    <3> QED
      BY <2>2, <3>1 DEF BatchInv
  <2> QED
    BY <2>1, <2>2, JobWriters
<1>3. ASSUME at' = "finalize", app'.mode = "sync" PROVE Covers(sql.top)'
  <2>1. CASE UNCHANGED <<at, sql>>
    <3>1. app.mode = "sync" /\ rows \subseteq rows'
      BY <2>1, <1>3, <1>t, CycleKeeps DEF ImportBatch, Proceed, Goto, OrphanCommits, Commit
    <3> QED
      BY <2>1, <1>3, <3>1 DEF BatchInv, Covers
  <2>2. CASE Commit(sql) /\ at = "import" /\ sql' = sql
    <3>1. app.mode = "sync" /\ rows' = rows \cup sql.rows
      BY <2>2, <1>3, <1>t, CycleKeeps DEF Commit
    <3>2. app.blockSync \in Nat /\ sql.top \in Nat
      BY <2>2, <3>1, <1>c, <1>t, BatchInHand DEF BeginInv, TypeInv, AppType, Modes, Begun
    <3>3. ASSUME NEW b \in Genesis + 1 .. sql.top PROVE \E r \in rows' : r.block = b
      <4>1. CASE b <= app.blockSync
        BY <4>1, <3>1, <3>2, <3>3, <1>c DEF HoleInv, Covers
      <4>2. CASE b > app.blockSync
        <5>1. b \in Batch(app.blockSync, sql.top)
          BY <4>2, <3>2, <3>3, <1>c DEF Batch
        <5> QED
          BY <5>1, <2>2, <3>1 DEF BatchInv
      <4> QED
        BY <4>1, <4>2, <3>2, <3>3, <1>c
    <3> QED
      BY <2>2, <3>3 DEF Covers
  <2> QED
    BY <1>3, <2>1, <2>2, JobWriters DEF ExtractBatch, Goto
<1> QED
  BY <1>1, <1>2, <1>3, OddStep DEF BatchInv

LEMMA HoleStep == ArchiveInv /\ HoleInv /\ BatchInv /\ [Next]_vars => HoleInv'
<1> SUFFICES ASSUME ArchiveInv, HoleInv, BatchInv, [Next]_vars,
                    odd \notin {"psql", "query", "ragged", "unclean"}
             PROVE  HoleInv'
  BY OddStep DEF HoleInv
<1>o. odd' = odd
  BY OddStep
<1>t. TypeInv /\ TablesInv /\ KeptInv /\ BeginInv
  BY DEF ArchiveInv, WhereInv
<1>c. Genesis \in Nat /\ None \notin Int /\ None \notin Modes
  BY ConstantsAssumption
<1>f. {"mode", "blockSync", "nextId", "kickImport"} \subseteq DOMAIN app
  BY <1>t DEF TypeInv, AppType, Fresh
<1>a. at \notin {"off", "tables"} => tables = "all"
  BY <1>t DEF TablesInv
<1>s. app.mode = "sync" => app.blockSync \in Nat
  BY <1>t, <1>c DEF BeginInv, TypeInv, AppType, Modes
<1>w. /\ rows' # rows =>
           KickstartLoad \/ ImportBatch \/ (\E s \in orphans : OrphanCommits(s)) \/ Nuke
      /\ files' # files \/ importHeight' # importHeight => ExportFile
      /\ exporting' # exporting => ExportBegin \/ ExportEnd
      /\ app'.mode # app.mode => StoreMode \/ Nuke
      /\ app'.blockSync # app.blockSync =>
           InitBlockSync \/ FirstBlock \/ KickstartMove \/ Synchronize \/ FinalizeBatch \/ Nuke
      /\ app'.kickImport # app.kickImport => KickstartMark \/ Nuke
  BY <1>t, Writers, AppWriters
<1>1. CASE SameArchive
  BY <1>1, <1>o, SameArchiveStep
\* What does not touch the rows, the files or the export keeps what concerns only them.
<1> DEFINE Kept == UNCHANGED <<rows, files, importHeight, exporting>>
           Far  == at' \notin {"load", "mark", "move"}
<1>k. Kept => /\ \A h : Covers(h)' <=> Covers(h)
              /\ \A t : InRows(t)' <=> InRows(t)
              /\ \A b, h : InFiles(b, h)' <=> InFiles(b, h)
  BY DEF Covers, InRows, InFiles
<1>2. CASE InitBlockSync \/ FirstBlock
  <2>1. Kept /\ Far /\ app.mode = None /\ app'.mode = app.mode /\ app'.kickImport = app.kickImport
    <3>1. Kept
      BY <1>2 DEF InitBlockSync, FirstBlock, disk
    <3>2. Far
      BY <1>2 DEF InitBlockSync, FirstBlock, Goto, ExitProcess
    <3>3. app.mode = None
      BY <1>2, <1>t DEF InitBlockSync, FirstBlock, Proceed, BeginInv
    <3>4. app'.mode = app.mode /\ app'.kickImport = app.kickImport
      BY <1>2, <1>f DEF InitBlockSync, FirstBlock, Put, Stored
    <3> QED
      BY <3>1, <3>2, <3>3, <3>4
  <2> QED
    BY <1>o, <1>k, <2>1, <1>c DEF HoleInv, Modes
<1>3. CASE StoreMode
  <2>1. Kept /\ Far /\ app.mode = None /\ (env = "sync" => app.blockSync = Genesis) /\ ~exporting
    BY <1>3, <1>t, <1>c DEF StoreMode, Proceed, Goto, disk, BeginInv, HoleInv, Modes
  <2>2. app' = [app EXCEPT !.mode = env]
    BY <1>3, <1>a DEF StoreMode, Proceed, Put, Stored, Fault
  <2>3. app'.mode = env /\ app'.blockSync = app.blockSync /\ app'.kickImport = app.kickImport
    BY <2>2, <1>f
  <2>4. Covers(Genesis)'
    BY <1>c DEF Covers
  <2> QED
    BY <1>o, <1>k, <2>1, <2>3, <2>4 DEF HoleInv
<1>4. CASE KickstartList
  <2>1. /\ Kept /\ app' = app /\ at' = "load"
        /\ list' = ToLoad(IF app.kickImport = None THEN 0 ELSE app.kickImport)
    BY <1>4 DEF KickstartList, Read, Fault, db, disk
  <2>2. ASSUME NEW t \in Tops \ list', NEW r \in files[t] PROVE \E s \in rows : s.block = r.block
    <3>1. t \in Nat /\ r.block \in Nat /\ r.block > Genesis /\ r.block <= t
      BY TopsType, <1>t DEF HoleInv, TypeInv, DataType, Row
    <3> DEFINE last == IF app.kickImport = None THEN 0 ELSE app.kickImport
    <3>3. last \in Nat /\ (app.kickImport # None => app.kickImport \in Nat)
      BY <1>t, TopsType DEF TypeInv, AppType
    <3>4. t \in Tops /\ files[t] # {} /\ t \notin ToLoad(last)
      BY <2>1, <2>2
    <3>5. t <= last
      BY <3>1, <3>3, <3>4 DEF ToLoad
    <3>2. app.kickImport # None /\ t <= app.kickImport /\ app.kickImport \in Nat
      BY <3>1, <3>3, <3>5, <1>c
    <3> QED
      BY <3>1, <3>2, <1>c DEF HoleInv, Covers
  <2>3. \A t \in Tops \ list' : InRows(t)
    BY <2>2 DEF InRows
  <2> QED
    BY <1>o, <1>k, <2>1, <2>3 DEF HoleInv
<1>5. CASE KickstartLoad
  <2>1. /\ UNCHANGED <<app, files, importHeight, exporting>> /\ at = "load"
        /\ \/ at' = "flags" /\ rows' = rows
           \/ /\ at' = "mark" /\ list' = list /\ list # {}
              /\ rows' = rows \cup Loaded(files[Least(list)])
    BY <1>5, <1>a DEF KickstartLoad, Proceed, Goto, Psql, Fault, disk
  <2>2. CASE at' = "flags" /\ rows' = rows
    BY <1>1, <2>1, <2>2 DEF SameArchive, HoleInv
  <2>3. CASE /\ at' = "mark" /\ list' = list /\ list # {}
             /\ rows' = rows \cup Loaded(files[Least(list)])
    <3>1. Least(list) \in Tops
      BY <2>3, <1>t, LeastTop
    <3> DEFINE file == files[Least(list)]
    <3>2. file \in SUBSET Row /\ IsFiniteSet(file) /\ rows \subseteq Row /\ IsFiniteSet(rows)
      BY <3>1, <1>t DEF TypeInv, DataType
    <3>3. /\ \A r \in Loaded(file) : \E s \in file : r = [s EXCEPT !.kicked = r.kicked]
          /\ \A s \in file : \E r \in Loaded(file) : r.block = s.block
      BY <3>2, LoadedType
    <3>4. \A s \in file : s \in Row /\ s.block > Genesis
      BY <3>1, <3>2 DEF HoleInv
    <3> HIDE DEF file
    <3>5. \A r \in Loaded(file) : r.block > Genesis
      BY <3>3, <3>4 DEF Row
    <3>6. rows' = rows \cup Loaded(file) /\ file = files'[Least(list')]
      BY <2>1, <2>3 DEF file
    <3>7. InRows(Least(list))'
      BY <3>3, <3>6 DEF InRows
    <3> QED
      BY <1>1, <2>1, <2>3, <3>5, <3>6, <3>7 DEF SameArchive, HoleInv
  <2> QED
    BY <2>1, <2>2, <2>3
<1>6. CASE KickstartMark
  <2>1. Kept /\ at = "mark" /\ at' = "move" /\ list' = list
    BY <1>6 DEF KickstartMark, Proceed, Goto, disk
  <2>2. app' = [app EXCEPT !.kickImport = Least(list)]
    BY <1>6, <1>a DEF KickstartMark, Proceed, Put, Stored, Fault
  <2>3. app'.mode = app.mode /\ app'.blockSync = app.blockSync /\ app'.kickImport = Least(list)
    BY <2>2, <1>f
  <2>4. Covers(Least(list))
    BY <2>1, <1>t, FileCovers
  <2> QED
    BY <1>o, <1>k, <2>1, <2>3, <2>4 DEF HoleInv
<1>7. CASE KickstartMove
  <2>1. Kept /\ at = "move" /\ at' \in {"load", "loaded"} /\ list' = list \ {Least(list)}
    BY <1>7 DEF KickstartMove, Proceed, disk
  <2>2. app' = [app EXCEPT !.blockSync = Least(list)]
    BY <1>7, <1>a DEF KickstartMove, Proceed, Put, Stored, Fault
  <2>3. app'.mode = app.mode /\ app'.blockSync = Least(list) /\ app'.kickImport = app.kickImport
    BY <2>2, <1>f
  <2>4. Covers(Least(list))
    BY <2>1, <1>t, FileCovers
  <2>5. \A t \in Tops \ list' : InRows(t)
    BY <2>1 DEF HoleInv
  <2> QED
    BY <1>o, <1>k, <2>1, <2>3, <2>4, <2>5 DEF HoleInv
<1>8. CASE Synchronize
  <2>1. Kept /\ at = "ready" /\ at' = at
    BY <1>8 DEF Synchronize, Proceed, disk, procs
  <2>2. app'.mode = app.mode /\ app'.kickImport = app.kickImport
    BY <1>8, <1>f DEF Synchronize
  <2>3. app.mode # "sync"
    <3>1. app.mode \in {env, None} /\ None # "sync"
      BY <2>1, <1>t, <1>c DEF KeptInv, Modes
    <3>2. app.blockSync = None \/ env = "subscription"
      BY <1>8 DEF Synchronize
    <3> QED
      BY <3>1, <3>2, <1>s, <1>c
  <2> QED
    BY <1>o, <1>k, <2>1, <2>2, <2>3 DEF HoleInv
<1>18. CASE FinalizeBatch
  <2>1. Kept /\ at = "finalize" /\ at' = "ready"
    BY <1>18 DEF FinalizeBatch, Proceed, Goto, disk
  <2>2. app' = [app EXCEPT !.blockSync = sql.top]
    BY <1>18, <1>a DEF FinalizeBatch, Proceed, Put, Stored, Fault
  <2>3. app'.mode = app.mode /\ app'.blockSync = sql.top /\ app'.kickImport = app.kickImport
    BY <2>2, <1>f
  <2>4. app.mode = "sync" => Covers(sql.top)
    BY <2>1 DEF BatchInv
  <2> QED
    BY <1>o, <1>k, <2>1, <2>3, <2>4 DEF HoleInv
<1>19. CASE ImportBatch \/ \E s \in orphans : OrphanCommits(s)
  <2>1. /\ UNCHANGED <<files, importHeight, exporting>>
        /\ at' \in {"load", "mark", "move"} => UNCHANGED <<at, list>>
    BY <1>19 DEF ImportBatch, OrphanCommits, Goto, disk, procs
  <2>2. PICK new : (rows' = rows \/ rows' = rows \cup new) /\ \A r \in new : r.block > Genesis
    <3>1. CASE ImportBatch
      BY <3>1 DEF ImportBatch, Proceed, Commit, BatchInv
    <3>2. CASE \E s \in orphans : OrphanCommits(s)
      BY <3>2 DEF OrphanCommits, Commit, BatchInv
    <3> QED
      BY <1>19, <3>1, <3>2
  <2>3. app' = app \/ \E v : app' = [app EXCEPT !.nextId = v]
    BY <1>19 DEF ImportBatch, OrphanCommits, Commit
  <2>4. /\ app'.mode = app.mode /\ app'.blockSync = app.blockSync
        /\ app'.kickImport = app.kickImport
    BY <2>3, <1>f
  <2> QED
    BY <1>1, <2>1, <2>2, <2>4 DEF SameArchive, HoleInv
<1>9. CASE Nuke
  <2>1. at = "off" /\ UNCHANGED <<files, importHeight, exporting, at>> /\ ~exporting
    BY <1>9, <1>t DEF Nuke, NoneRuns, Inside, TypeInv, ControlType, disk, procs
  <2>2. rows' = {} /\ app'.mode = None /\ app'.kickImport = None
    BY <1>9 DEF Nuke, Fresh
  <2>3. \A b, h : InFiles(b, h)' <=> InFiles(b, h)
    BY <2>1 DEF InFiles
  <2> QED
    BY <1>o, <1>c, <2>1, <2>2, <2>3 DEF HoleInv, Modes
<1>10. CASE ExportBegin
  <2>1. /\ UNCHANGED <<app, rows, files, importHeight, at, list>>
        /\ app.mode = "sync" /\ at \notin {"load", "mark", "move"}
    BY <1>10 DEF ExportBegin, Cycling, db, procs
  <2>2. /\ \A h : Covers(h)' <=> Covers(h)
        /\ \A b, h : InFiles(b, h)' <=> InFiles(b, h)
    BY <2>1 DEF Covers, InFiles
  <2> QED
    BY <1>o, <2>1, <2>2 DEF HoleInv
<1>11. CASE ExportEnd
  <2>1. UNCHANGED <<app, rows, files, importHeight, at, list>> /\ exporting' = FALSE
    BY <1>11 DEF ExportEnd, db, disk, procs
  <2>2. /\ \A h : Covers(h)' <=> Covers(h)
        /\ \A t : InRows(t)' <=> InRows(t)
        /\ \A b, h : InFiles(b, h)' <=> InFiles(b, h)
    BY <2>1 DEF Covers, InFiles, InRows
  <2> QED
    BY <1>o, <2>1, <2>2 DEF HoleInv
<1>12. CASE ExportFile
  <2>1. PICK t \in Tops :
          /\ t >= importHeight /\ exporting
          /\ odd \in {"ragged", "unclean"} \/ t <= app.blockSync
          /\ files' = [files EXCEPT ![t] = {[r EXCEPT !.kicked = 1] : r \in RowsIn(importHeight, t)}]
          /\ importHeight' = t + 1
    BY <1>12, <1>t, ExportStep
  <2>2. /\ t \in Nat /\ importHeight \in Nat /\ t <= app.blockSync /\ app.blockSync \in Nat
        /\ Covers(app.blockSync)
    BY <2>1, <1>s, <1>t, TopsType DEF HoleInv, TypeInv, DataType
  <2>3. UNCHANGED <<app, rows, exporting, at, list>>
    BY <1>12 DEF ExportFile, db, procs
  <2> DEFINE file == {[r EXCEPT !.kicked = 1] : r \in RowsIn(importHeight, t)}
  <2>4. /\ \A r \in file : \E s \in RowsIn(importHeight, t) : s.block = r.block
        /\ \A s \in RowsIn(importHeight, t) : \E r \in file : r.block = s.block
    <3>1. RowsIn(importHeight, t) \subseteq Row
      BY <1>t DEF RowsIn, TypeInv, DataType
    <3>2. \A s \in RowsIn(importHeight, t) : [s EXCEPT !.kicked = 1].block = s.block
      BY <3>1 DEF Row
    <3> QED
      BY <3>2
  <2>5. files' = [files EXCEPT ![t] = file]
    BY <2>1
  <2> HIDE DEF file
  <2>6. files'[t] = file /\ \A u \in Tops : u # t => files'[u] = files[u]
    BY <2>5, <1>t DEF TypeInv, DataType
  <2>7. \A u \in Tops : files[u] # {} => u < t /\ u # t
    BY <2>1, <2>2, TopsType DEF HoleInv
  <2>8. ASSUME NEW b \in Genesis + 1 .. t PROVE InFiles(b, t)'
    <3>1. CASE b < importHeight
      <4>1. PICK u \in Tops : u <= importHeight - 1 /\ \E r \in files[u] : r.block = b
        BY <3>1, <1>c, <2>2 DEF HoleInv, InFiles
      <4>2. u # t /\ u <= t
        BY <4>1, <2>1, <2>2, TopsType
      <4> QED
        BY <4>1, <4>2, <2>6 DEF InFiles
    <3>2. CASE b >= importHeight
      <4>1. PICK s \in rows : s.block = b
        BY <1>c, <2>2 DEF Covers
      <4>2. s \in RowsIn(importHeight, t)
        BY <4>1, <3>2, <1>c, <2>2 DEF RowsIn
      <4>3. \E r \in files'[t] : r.block = b
        BY <4>1, <4>2, <2>4, <2>6
      <4> QED
        BY <4>3, <2>2 DEF InFiles
    <3> QED
      BY <3>1, <3>2, <1>c, <2>2
  <2>9. ASSUME NEW u \in Tops, files'[u] # {}
        PROVE  u < importHeight' /\ \A b \in Genesis + 1 .. u : InFiles(b, u)'
    <3>1. CASE u = t
      BY <3>1, <2>1, <2>2, <2>8
    <3>2. CASE u # t
      <4>1. files[u] # {} /\ u < t
        BY <3>2, <2>6, <2>7, <2>9
      <4>2. ASSUME NEW b \in Genesis + 1 .. u PROVE InFiles(b, u)'
        <5>1. PICK v \in Tops : v <= u /\ \E r \in files[v] : r.block = b
          BY <4>1 DEF HoleInv, InFiles
        <5>2. files'[v] = files[v]
          BY <5>1, <2>6, <2>7
        <5> QED
          BY <5>1, <5>2 DEF InFiles
      <4> QED
        BY <4>1, <4>2, <2>1, <2>2, TopsType
    <3> QED
      BY <3>1, <3>2
  <2>10. \A u \in Tops : \A r \in files'[u] : r.block > Genesis /\ r.block <= u
    <3>1. \A r \in files'[t] : r.block > Genesis /\ r.block <= t
      BY <2>2, <2>4, <2>6 DEF RowsIn, HoleInv
    <3> QED
      BY <3>1, <2>6 DEF HoleInv
  <2>11. \A u \in Tops : InRows(u) => InRows(u)'
    BY <2>3, <2>4, <2>6 DEF InRows, RowsIn
  <2>13. at \in {"mark", "move"} => Least(list) \in Tops
    BY <1>t, LeastTop DEF TypeInv, ControlType
  <2>14. (\A b \in Genesis + 1 .. importHeight - 1 : InFiles(b, importHeight - 1))'
    <3>1. importHeight' - 1 = t
      BY <2>1, <2>2
    <3> QED
      BY <3>1, <2>8 DEF InFiles
  <2>15. \A h : Covers(h)' <=> Covers(h)
    BY <2>3 DEF Covers
  <2>16. (at \in {"mark", "move"} => InRows(Least(list)))'
    BY <2>3, <2>11, <2>13 DEF HoleInv, InRows
  <2>17. at' \in {"load", "mark", "move"} => \A u \in Tops \ list' : InRows(u)'
    BY <2>3, <2>11 DEF HoleInv
  <2>18. /\ app'.mode = "sync" => Covers(app.blockSync)'
         /\ app'.kickImport # None => Covers(app.kickImport)'
         /\ exporting' => app'.mode = "sync"
         /\ \A r \in rows' : r.block > Genesis
    BY <2>3, <2>15 DEF HoleInv
  <2> QED
    BY <2>9, <2>10, <2>14, <2>16, <2>17, <2>18 DEF HoleInv
<1>13. ASSUME ~(\/ InitBlockSync \/ FirstBlock \/ StoreMode \/ KickstartLoad \/ KickstartMark
                \/ KickstartMove \/ Synchronize \/ FinalizeBatch \/ ImportBatch
                \/ (\E s \in orphans : OrphanCommits(s))
                \/ Nuke \/ ExportBegin \/ ExportEnd \/ ExportFile),
              at' \in {"load", "mark", "move"} => at' = at /\ list' = list
       PROVE SameArchive
  BY <1>13, <1>w DEF SameArchive, HoleInv
<1> DEFINE Written == \/ InitBlockSync \/ FirstBlock \/ StoreMode \/ KickstartLoad
                      \/ KickstartMark \/ KickstartMove \/ Synchronize \/ FinalizeBatch
                      \/ ImportBatch \/ (\E s \in orphans : OrphanCommits(s)) \/ Nuke
                      \/ ExportBegin \/ ExportEnd \/ ExportFile
<1>14. CASE Written
  BY <1>14, <1>2, <1>3, <1>5, <1>6, <1>7, <1>8, <1>9, <1>10, <1>11, <1>12, <1>18, <1>19
<1>15. CASE ~Written /\ (at' \in {"load", "mark", "move"} => at' = at /\ list' = list)
  BY <1>13, <1>15, <1>1
<1> HIDE DEF Written
<1>16. CASE InitTables \/ InitDefaults \/ CheckMode \/ CheckInit \/ MarkInit \/ InitPartitions
            \/ KickstartCache \/ PopularAccounts \/ InitIndexId \/ AssignAddresses
            \/ AssignAfterText \/ KickstartBegin \/ KickstartFlag \/ KickstartEnd \/ ResetFlags
            \/ LookFlags
  <2>1. at' \notin {"load", "mark", "move"}
    BY <1>16 DEF InitTables, InitDefaults, CheckMode, CheckInit, MarkInit, InitPartitions,
       KickstartCache, PopularAccounts, InitIndexId, AssignAddresses, AssignAfterText, AfterCache,
       KickstartBegin, KickstartFlag, KickstartEnd, ResetFlags, LookFlags, Goto, ExitProcess
  <2> QED
    BY <2>1, <1>14, <1>15
<1>17. CASE IndexBuild \/ IndexMark \/ Pause \/ PauseExit \/ Unpause \/ ExtractBatch
            \/ (\E s \in orphans : OrphanEnds(s))
            \/ (\E m \in Modes : ChangeMode(m)) \/ Grow \/ UNCHANGED vars
            \/ \E p \in Procs : \/ \E k \in BOOLEAN : StartProcess(p, k)
                                \/ CheckPid(p) \/ WritePid(p) \/ Kill(p)
  <2>1. at' \in {"load", "mark", "move"} => at' = at /\ list' = list
    BY <1>17 DEF ExtractBatch, OrphanEnds, IndexBuild, IndexMark, Pause, PauseExit, Unpause, ChangeMode, Grow, vars, procs,
       StartProcess, CheckPid, Pass, WritePid, Kill, Goto, ExitProcess
  <2> QED
    BY <2>1, <1>14, <1>15
<1> QED
  BY <1>4, <1>14, <1>16, <1>17 DEF Next, Boot, Run, Operate, Written

\* The archive of mode "sync" has every block up to its sync point: whether it was indexed,
\* kickstarted from the files of any number of exports (which may go on meanwhile), killed
\* in between, nuked and begun again.
THEOREM ArchiveHasNoHole == Spec => []NoHole
<1>1. Init => HoleInv /\ BatchInv
  <2>1. Init => app.mode = None /\ app.kickImport = None /\ importHeight = 0 /\ at = "off"
                /\ ~exporting /\ rows = {} /\ orphans = {} /\ \A t \in Tops : files[t] = {}
    BY DEF Init, Fresh
  <2>2. Genesis \in Nat /\ None # "sync"
    BY ConstantsAssumption DEF Modes
  <2> QED
    BY <2>1, <2>2 DEF HoleInv, BatchInv
<1>2. HoleInv => NoHole
  BY DEF HoleInv, Covers, NoHole
<1> QED
  BY <1>1, <1>2, ArchiveInit, ArchiveStep, HoleStep, BatchStep, PTL DEF Spec

-----------------------------------------------------------------------------
(* No block is in the archive twice *)

\* The places of a start that come after the question whether it has kickstarted before.
Late == {"kickFlag", "kickList", "load", "mark", "move", "loaded", "flags", "look", "ready",
         "import", "finalize", "building", "cli"}

\* The files yet to load are past all that is in the archive, each past the one before;
\* nothing is in the archive before initialInit is done, or where a kickstart begins: it
\* has not begun before, or else it has ended.
OnceInv ==
  odd \notin {"kill", "orphan", "devStop", "psql", "query", "unclean", "race"} =>
    /\ \A r, s \in rows : r.block = s.block => r = s
    /\ app.init # TRUE \/ at = "first" => rows = {}
    /\ at \notin {"mark", "move", "finalize"} =>
         \A r \in rows : app.blockSync # None /\ r.block <= app.blockSync
    /\ at = "finalize" => \A r \in rows : r.block <= sql.top
    /\ at = "load" =>
         \A t \in list : \A r \in rows : r.block <= t /\ \A s \in files[t] : r.block # s.block
    /\ at \in {"mark", "move"} =>
         /\ \A r \in rows : r.block <= Least(list)
         /\ \A t \in list \ {Least(list)} : \A r \in rows :
              r.block <= t /\ \A s \in files[t] : r.block # s.block
    /\ \A t \in Tops : files[t] # {} => t < importHeight
    /\ \A t \in Tops : \A r \in files[t] : r.block <= t
    /\ \A t \in Tops : \A r, s \in files[t] : r.block = s.block => r = s
    /\ \A t, u \in Tops : files[t] # {} /\ t < u => \A s \in files[u] : s.block > t
    /\ app.kickImport # None => app.kickData = TRUE \/ at \in {"load", "mark", "move", "loaded"}
    /\ at = "load" /\ app.kickImport # None => list # {}
    /\ at = "kickData" \/ (at \notin Late /\ \E p \in Procs : kick[p]) =>
         app.kickData = TRUE \/ (rows = {} /\ app.kickImport = None)
    /\ at \in {"kickFlag", "kickList"} => rows = {} /\ app.kickImport = None

\* Nor is a batch in the archive before it is imported.
OwnInv ==
  odd \notin {"kill", "orphan", "devStop", "psql", "query", "unclean", "race"} =>
    /\ orphans = {}
    /\ at = "import" => /\ app.blockSync # None /\ app.blockSync < sql.top
                        /\ \A r \in sql.rows : r.block > app.blockSync /\ r.block <= sql.top
                        /\ \A r, s \in sql.rows : r.block = s.block => r = s

LEMMA OwnStep == TypeInv /\ OwnInv /\ [Next]_vars => OwnInv'
<1> SUFFICES ASSUME TypeInv, OwnInv, [Next]_vars,
                    odd \notin {"kill", "orphan", "devStop", "psql", "query", "unclean", "race"}
             PROVE  OwnInv'
  BY OddStep DEF OwnInv
<1>1. orphans' = {}
  BY JobWriters DEF OwnInv
<1>2. CASE ExtractBatch
  <2>1. app' = app
    BY <1>2 DEF ExtractBatch, db
  <2>2. app.blockSync # None
    BY <1>2 DEF ExtractBatch
  <2>3. \A r \in sql'.rows : r.block > app.blockSync /\ r.block <= sql'.top
    BY <1>2, ExtractedType DEF Batch
  <2> QED
    BY <1>1, <1>2, <2>1, <2>2, <2>3, ExtractedType DEF OwnInv
<1>3. CASE at' = "import" /\ UNCHANGED <<at, sql>>
  <2>1. app'.blockSync = app.blockSync
    BY <1>3, CycleKeeps
  <2> QED
    BY <1>1, <1>3, <2>1 DEF OwnInv
<1> QED
  BY <1>1, <1>2, <1>3, JobWriters DEF OwnInv

SameOnce ==
  /\ UNCHANGED <<rows, files, importHeight>>
  /\ app'.init = app.init /\ app'.blockSync = app.blockSync
  /\ app'.kickImport = app.kickImport /\ app'.kickData = app.kickData
  /\ \/ UNCHANGED <<at, list>> /\ (at = "finalize" => sql' = sql)
     \/ /\ at \notin {"load", "mark", "move", "loaded", "finalize"}
        /\ at' \notin {"load", "mark", "move", "loaded", "finalize", "kickFlag", "kickList", "first"}
  /\ at' = "kickData" /\ at # "kickData" => at \notin Late /\ \E p \in Procs : kick[p]
  /\ at' \notin Late /\ (\E p \in Procs : kick'[p]) => at \notin Late /\ \E p \in Procs : kick[p]

LEMMA SameOnceStep == OnceInv /\ odd' = odd /\ SameOnce => OnceInv'
<1> SUFFICES ASSUME OnceInv, odd' = odd, SameOnce,
                    odd \notin {"kill", "orphan", "devStop", "psql", "query", "unclean", "race"}
             PROVE  OnceInv'
  BY DEF OnceInv
<1>1. /\ \A r, s \in rows' : r.block = s.block => r = s
      /\ app'.init # TRUE \/ at' = "first" => rows' = {}
      /\ at' \notin {"mark", "move", "finalize"} =>
           \A r \in rows' : app'.blockSync # None /\ r.block <= app'.blockSync
      /\ at' = "finalize" => \A r \in rows' : r.block <= sql'.top
  BY DEF OnceInv, SameOnce
<1>2. /\ at' = "load" =>
           \A t \in list' : \A r \in rows' : r.block <= t /\ \A s \in files'[t] : r.block # s.block
      /\ at' \in {"mark", "move"} =>
           /\ \A r \in rows' : r.block <= Least(list')
           /\ \A t \in list' \ {Least(list')} : \A r \in rows' :
                r.block <= t /\ \A s \in files'[t] : r.block # s.block
  BY DEF OnceInv, SameOnce
<1>3. /\ app'.kickImport # None => app'.kickData = TRUE \/ at' \in {"load", "mark", "move", "loaded"}
      /\ at' = "load" /\ app'.kickImport # None => list' # {}
      /\ at' \in {"kickFlag", "kickList"} => rows' = {} /\ app'.kickImport = None
  BY DEF OnceInv, SameOnce
<1>4. at' = "kickData" \/ (at' \notin Late /\ \E p \in Procs : kick'[p]) =>
        app'.kickData = TRUE \/ (rows' = {} /\ app'.kickImport = None)
  BY DEF OnceInv, SameOnce
<1>5. /\ \A t \in Tops : files'[t] # {} => t < importHeight'
      /\ \A t \in Tops : \A r \in files'[t] : r.block <= t
      /\ \A t \in Tops : \A r, s \in files'[t] : r.block = s.block => r = s
      /\ \A t, u \in Tops : files'[t] # {} /\ t < u => \A s \in files'[u] : s.block > t
  BY DEF OnceInv, SameOnce
<1> QED
  BY <1>1, <1>2, <1>3, <1>4, <1>5 DEF OnceInv

LEMMA OnceStep == ArchiveInv /\ OwnInv /\ OnceInv /\ [Next]_vars => OnceInv'
<1> SUFFICES ASSUME ArchiveInv, OwnInv, OnceInv, [Next]_vars,
                    odd \notin {"kill", "orphan", "devStop", "psql", "query", "unclean", "race"}
             PROVE  OnceInv'
  BY OddStep DEF OnceInv
<1>o. odd' = odd
  BY OddStep
<1>t. WhereInv /\ TypeInv /\ TablesInv /\ BeginInv
  BY DEF ArchiveInv, WhereInv
<1>c. Genesis \in Nat /\ None \notin Int
  BY ConstantsAssumption
<1>f. {"init", "mode", "blockSync", "nextId", "kickImport", "kickData"} \subseteq DOMAIN app
  BY <1>t DEF TypeInv, AppType, Fresh
<1>a. at \notin {"off", "tables"} => tables = "all"
  BY <1>t DEF TablesInv
<1>l. Late = {"kickFlag", "kickList", "load", "mark", "move", "loaded", "flags", "look",
              "ready", "import", "finalize", "building", "cli"}
  BY DEF Late
<1>p. ~\E s \in orphans : OrphanCommits(s) \/ OrphanEnds(s)
  BY DEF OwnInv
<1>w. /\ rows' # rows => KickstartLoad \/ ImportBatch \/ Nuke
      /\ files' # files \/ importHeight' # importHeight => ExportFile
      /\ app'.init # app.init => MarkInit \/ Nuke
      /\ app'.blockSync # app.blockSync =>
           InitBlockSync \/ FirstBlock \/ KickstartMove \/ Synchronize \/ FinalizeBatch \/ Nuke
      /\ app'.kickImport # app.kickImport => KickstartMark \/ Nuke
      /\ app'.kickData # app.kickData => KickstartFlag \/ KickstartEnd \/ Nuke
  BY <1>p, <1>t, Writers, AppWriters
<1>1. CASE SameOnce
  BY <1>1, <1>o, SameOnceStep
<1>x. ExitProcess /\ at # "off" => at' = "off" /\ \A p \in Procs : ~kick'[p]
  <2>1. SUFFICES ASSUME ExitProcess, at # "off", NEW p \in Procs, kick'[p] PROVE FALSE
    BY DEF ExitProcess
  <2>2. kick[p] /\ p \notin Inside
    BY <2>1 DEF ExitProcess
  <2>3. PICK q \in Inside : TRUE
    BY <2>1, <1>t DEF TypeInv, ControlType
  <2> QED
    BY <2>2, <2>3, <1>t, KickedIsIn
<1> DEFINE Data1 == UNCHANGED <<rows, files, importHeight>>
\* initialInit works on an archive that is empty.
<1>2. CASE InitBlockSync \/ MarkInit \/ FirstBlock
  <2>1. rows = {} /\ Data1
    BY <1>2, <1>t, <1>w DEF InitBlockSync, MarkInit, FirstBlock, Proceed, BeginInv, OnceInv,
       KickstartLoad, Synchronize, Nuke, NoneRuns, ExportFile, Inside, disk
  <2>2. app'.kickImport = app.kickImport /\ app'.kickData = app.kickData
    BY <1>2, <1>f DEF InitBlockSync, MarkInit, FirstBlock, Put, Stored
  <2>3. /\ at \in {"genesis", "initialized", "first"}
        /\ \/ at' \in {"initialized", "first", "storeMode"} /\ kick' = kick
           \/ ExitProcess
    BY <1>2 DEF InitBlockSync, MarkInit, FirstBlock, Proceed, Goto
  <2>4. (\E p \in Procs : kick'[p]) => \E p \in Procs : kick[p]
    BY <2>3, <1>x
  <2>5. at' \in {"initialized", "first", "storeMode", "off"}
    BY <2>3, <1>x
  <2> QED
    BY <1>o, <1>l, <2>1, <2>2, <2>3, <2>4, <2>5 DEF OnceInv
<1>3. CASE KickstartBegin
  <2>1. /\ at = "kickData" /\ app' = app /\ Data1
        /\ IF app.kickData = TRUE THEN ExitProcess ELSE at' = "kickFlag"
    BY <1>3 DEF KickstartBegin, Proceed, Read, Fault, Goto, db, disk
  <2>2. CASE ExitProcess
    BY <1>1, <1>x, <2>1, <2>2 DEF SameOnce
  <2>3. CASE app.kickData # TRUE /\ at' = "kickFlag"
    <3>1. rows = {} /\ app.kickImport = None
      BY <2>1, <2>3 DEF OnceInv
    <3> QED
      BY <1>o, <1>l, <2>1, <2>3, <3>1 DEF OnceInv
  <2> QED
    BY <2>1, <2>2, <2>3
<1>4. CASE KickstartFlag
  <2>1. at = "kickFlag" /\ at' = "kickList" /\ Data1
    BY <1>4 DEF KickstartFlag, Proceed, Goto, disk
  <2>2. app'.kickImport = app.kickImport /\ app'.init = app.init /\ app'.blockSync = app.blockSync
    BY <1>4, <1>f DEF KickstartFlag, Put, Stored
  <2> QED
    BY <1>o, <1>l, <2>1, <2>2 DEF OnceInv
<1>5. CASE KickstartList
  <2>1. at = "kickList" /\ at' = "load" /\ Data1 /\ app' = app /\ rows = {} /\ app.kickImport = None
    BY <1>5 DEF KickstartList, Proceed, db, disk, OnceInv
  <2> QED
    BY <1>o, <1>l, <2>1 DEF OnceInv
<1>6. CASE KickstartLoad
  <2>1. /\ UNCHANGED <<app, files, importHeight>> /\ at = "load"
        /\ \/ at' = "flags" /\ rows' = rows /\ list = {}
           \/ /\ at' = "mark" /\ list' = list /\ list # {}
              /\ rows' = rows \cup Loaded(files[Least(list)])
    BY <1>6, <1>a DEF KickstartLoad, Proceed, Goto, Psql, Fault, disk
  <2>2. CASE at' = "flags" /\ rows' = rows /\ list = {}
    <3>1. app.kickImport = None
      BY <2>1, <2>2 DEF OnceInv
    <3> QED
      BY <1>o, <1>l, <2>1, <2>2, <3>1 DEF OnceInv
  <2>3. CASE /\ at' = "mark" /\ list' = list /\ list # {}
             /\ rows' = rows \cup Loaded(files[Least(list)])
    <3> DEFINE L    == Least(list)
               file == files[L]
    <3>1. /\ L \in Tops /\ L \in list /\ list \subseteq Tops /\ L \in Nat
          /\ \A t \in list : L <= t /\ t \in Nat /\ files[t] # {}
      BY <2>3, <1>t, LeastLow, TopsType DEF TypeInv, ControlType
    <3>2. file \in SUBSET Row /\ IsFiniteSet(file) /\ rows \subseteq Row /\ IsFiniteSet(rows)
          /\ \A t \in list : files[t] \subseteq Row
      BY <3>1, <1>t DEF TypeInv, DataType
    <3>3. \A r \in file : r.block <= L
      BY <3>1 DEF OnceInv
    <3>4. \A r, s \in file : r.block = s.block => r = s
      BY <3>1 DEF OnceInv
    <3>5. \A r \in rows : r.block <= L /\ \A s \in file : r.block # s.block
      BY <3>1, <2>1 DEF OnceInv
    <3>6. \A t \in list \ {L} : \A r \in rows : r.block <= t /\ \A s \in files[t] : r.block # s.block
      BY <2>1 DEF OnceInv
    <3>7. \A t \in list \ {L} : L < t /\ \A s \in files[t] : s.block > L
      BY <3>1 DEF OnceInv
    <3> HIDE DEF file
    <3>8. /\ \A r \in Loaded(file) : \E s \in file : r.block = s.block
          /\ \A r, s \in Loaded(file) : r.block = s.block => r = s
      <4>1. /\ \A r \in Loaded(file) : \E s \in file : r = [s EXCEPT !.kicked = r.kicked]
            /\ \A r, s \in Loaded(file) : r.block = s.block => r = s
        BY <3>2, <3>4, LoadedType
      <4> QED
        BY <4>1, <3>2 DEF Row
    <3>9. rows' = rows \cup Loaded(file)
      BY <2>3 DEF file
    <3> HIDE DEF L
    <3>10. \A r, s \in rows' : r.block = s.block => r = s
      BY <3>5, <3>8, <3>9 DEF OnceInv
    <3>11. \A r \in rows' : r.block <= L
      BY <3>3, <3>5, <3>8, <3>9
    <3>12. \A t \in list \ {L} : \A r \in rows' : r.block <= t /\ \A s \in files[t] : r.block # s.block
      <4>1. ASSUME NEW t \in list \ {L}, NEW r \in Loaded(file)
            PROVE r.block <= t /\ \A s \in files[t] : r.block # s.block
        <5>1. PICK q \in file : r.block = q.block
          BY <3>8
        <5>2. q.block <= L /\ q.block \in Nat
          BY <3>2, <3>3 DEF Row
        <5>3. \A s \in files[t] : s.block \in Nat
          BY <3>2 DEF Row
        <5> QED
          BY <5>1, <5>2, <5>3, <3>1, <3>7
      <4> QED
        BY <4>1, <3>6, <3>9
    <3>13. app.init = TRUE
      BY <2>1, <1>t DEF BeginInv, Begun, Loading
    <3>14. L = Least(list')
      BY <2>3 DEF L
    <3>15. /\ \A r \in rows' : r.block <= Least(list')
           /\ \A t \in list' \ {Least(list')} : \A r \in rows' :
                r.block <= t /\ \A s \in files'[t] : r.block # s.block
      BY <2>1, <2>3, <3>11, <3>12, <3>14
    <3>16. /\ \A t \in Tops : files'[t] # {} => t < importHeight'
           /\ \A t \in Tops : \A r \in files'[t] : r.block <= t
           /\ \A t \in Tops : \A r, s \in files'[t] : r.block = s.block => r = s
           /\ \A t, u \in Tops : files'[t] # {} /\ t < u => \A s \in files'[u] : s.block > t
      BY <2>1 DEF OnceInv
    <3>17. at' = "mark" /\ app'.init = TRUE /\ "mark" \in Late
      BY <2>1, <2>3, <3>13, <1>l
    <3> QED
      BY <3>10, <3>15, <3>16, <3>17 DEF OnceInv
  <2> QED
    BY <2>1, <2>2, <2>3
<1>7. CASE KickstartMark
  <2>1. Data1 /\ at = "mark" /\ at' = "move" /\ list' = list
    BY <1>7 DEF KickstartMark, Proceed, Goto, disk
  <2>2. app'.init = app.init
    BY <1>7, <1>f DEF KickstartMark, Put, Stored
  <2> QED
    BY <1>o, <1>l, <2>1, <2>2 DEF OnceInv
<1>8. CASE KickstartMove
  <2>1. /\ Data1 /\ at = "move" /\ list' = list \ {Least(list)} /\ at' \in {"load", "loaded"}
        /\ at' = "load" => list # {Least(list)}
    BY <1>8 DEF KickstartMove, Proceed, disk
  <2>2. app' = [app EXCEPT !.blockSync = Least(list)]
    BY <1>8, <1>a DEF KickstartMove, Proceed, Put, Stored, Fault
  <2>3. /\ app'.init = app.init /\ app'.blockSync = Least(list)
        /\ app'.kickImport = app.kickImport /\ app'.kickData = app.kickData
    BY <2>2, <1>f
  <2>t. Least(list) \in list /\ Least(list) \in Nat
    BY <2>1, <1>t, LeastTop, TopsType DEF TypeInv, ControlType
  <2>4. Least(list) \in list /\ Least(list) # None
    BY <2>t, <1>c
  <2>5. at' = "load" => list' # {}
    BY <2>1, <2>4
  <2> QED
    BY <1>o, <1>l, <2>1, <2>3, <2>4, <2>5 DEF OnceInv
<1>9. CASE KickstartEnd
  <2>1. Data1 /\ at = "loaded" /\ at' = "flags"
    BY <1>9 DEF KickstartEnd, Proceed, Goto, disk
  <2>2. app' = [app EXCEPT !.kickData = TRUE]
    BY <1>9, <1>a DEF KickstartEnd, Proceed, Put, Stored, Fault
  <2>3. /\ app'.init = app.init /\ app'.blockSync = app.blockSync /\ app'.kickData = TRUE
        /\ app'.kickImport = app.kickImport
    BY <2>2, <1>f
  <2> QED
    BY <1>o, <1>l, <2>1, <2>3 DEF OnceInv
<1>10. CASE Synchronize
  <2>1. Data1 /\ UNCHANGED <<list, sql, kick>> /\ at = "ready" /\ at' = at
    BY <1>10 DEF Synchronize, Proceed, disk, procs, job
  <2>2. PICK v \in Nat : /\ app' = [app EXCEPT !.blockSync = v]
                         /\ app.blockSync = None \/ app.blockSync < v
    BY <1>10, <1>t DEF Synchronize, TypeInv, DataType
  <2>3. /\ app'.init = app.init /\ app'.kickImport = app.kickImport /\ app'.kickData = app.kickData
        /\ app'.blockSync \in Nat /\ (app.blockSync = None \/ app.blockSync < app'.blockSync)
    <3>1. app'.blockSync = v
      BY <2>2, <1>f
    <3>2. /\ app'.init = app.init /\ app'.kickImport = app.kickImport
          /\ app'.kickData = app.kickData
      BY <2>2, <1>f
    <3> QED
      BY <2>2, <3>1, <3>2
  <2>4. \A r \in rows : r.block \in Nat /\ app.blockSync \in Nat /\ r.block <= app.blockSync
    BY <2>1, <1>t DEF OnceInv, TypeInv, AppType, DataType, Row
  <2>5. \A r \in rows' : app'.blockSync # None /\ r.block <= app'.blockSync
    BY <1>c, <2>1, <2>3, <2>4
  <2> QED
    BY <1>o, <1>l, <2>1, <2>3, <2>5 DEF OnceInv
<1>24. CASE ImportBatch
  <2>1. /\ UNCHANGED <<files, importHeight, list, kick>> /\ at = "import"
        /\ app.blockSync \in Nat /\ sql.top \in Nat /\ app.blockSync < sql.top
    BY <1>24, <1>t, <1>c, BatchInHand
       DEF ImportBatch, Proceed, Goto, disk, OwnInv, TypeInv, AppType
  <2>2. \/ at' = "ready" /\ rows' = rows /\ app' = app
        \/ at' = "finalize" /\ sql' = sql /\ Commit(sql)
    BY <1>24 DEF ImportBatch, Goto, Fault
  <2>3. CASE at' = "ready" /\ rows' = rows /\ app' = app
    BY <1>1, <1>l, <2>1, <2>3 DEF SameOnce
  <2>4. CASE at' = "finalize" /\ sql' = sql /\ Commit(sql)
    <3>1. rows' = rows \cup sql.rows /\ app' = [app EXCEPT !.nextId = sql.next]
      BY <2>4 DEF Commit
    <3>2. /\ app'.init = app.init /\ app'.kickImport = app.kickImport
          /\ app'.kickData = app.kickData
      BY <3>1, <1>f
    <3>3. /\ \A r \in rows : r.block \in Nat /\ r.block <= app.blockSync
          /\ \A r \in sql.rows : r.block \in Nat /\ r.block > app.blockSync /\ r.block <= sql.top
      <4>1. \A r \in rows : r \in Row /\ r.block <= app.blockSync
        BY <2>1, <1>t DEF OnceInv, TypeInv, DataType
      <4>2. \A r \in sql.rows : r \in Row /\ r.block > app.blockSync /\ r.block <= sql.top
        BY <2>1, <1>t, BatchInHand DEF OwnInv
      <4> QED
        BY <4>1, <4>2 DEF Row
    <3>4. \A r, s \in rows' : r.block = s.block => r = s
      <4>1. /\ \A r, s \in rows : r.block = s.block => r = s
            /\ \A r, s \in sql.rows : r.block = s.block => r = s
        BY <2>1 DEF OnceInv, OwnInv
      <4> QED
        BY <2>1, <3>1, <3>3, <4>1
    <3>5. \A r \in rows' : r.block <= sql.top
      BY <2>1, <3>1, <3>3
    <3>6. app.init = TRUE
      BY <2>1, <1>t DEF BeginInv, Begun
    <3> QED
      BY <1>o, <1>l, <2>1, <2>4, <3>2, <3>4, <3>5, <3>6 DEF OnceInv
  <2> QED
    BY <2>2, <2>3, <2>4
<1>25. CASE FinalizeBatch
  <2>1. Data1 /\ UNCHANGED <<list, kick>> /\ at = "finalize" /\ at' = "ready" /\ sql.top \in Nat
    BY <1>25, <1>t, BatchInHand DEF FinalizeBatch, Proceed, Goto, disk
  <2>2. app' = [app EXCEPT !.blockSync = sql.top]
    BY <1>25, <1>a DEF FinalizeBatch, Proceed, Put, Stored, Fault
  <2>3. /\ app'.init = app.init /\ app'.blockSync = sql.top /\ sql.top # None
        /\ app'.kickImport = app.kickImport /\ app'.kickData = app.kickData
    BY <2>1, <2>2, <1>f, <1>c
  <2> QED
    BY <1>o, <1>l, <2>1, <2>3 DEF OnceInv
<1>11. CASE Nuke
  <2>1. at = "off" /\ UNCHANGED <<files, importHeight, at, kick>> /\ \A p \in Procs : ~kick[p]
    BY <1>11, <1>t DEF Nuke, NoneRuns, Inside, TypeInv, ControlType, disk, procs
  <2>2. rows' = {} /\ app'.kickImport = None
    BY <1>11 DEF Nuke, Fresh
  <2> QED
    BY <1>o, <1>l, <2>1, <2>2 DEF OnceInv
<1>12. CASE ExportFile
  <2>1. PICK t \in Tops :
          /\ t >= importHeight
          /\ files' = [files EXCEPT ![t] = {[r EXCEPT !.kicked = 1] : r \in RowsIn(importHeight, t)}]
          /\ importHeight' = t + 1
    BY <1>12, <1>t, ExportStep
  <2>2. t \in Nat /\ importHeight \in Nat /\ \A u \in Tops : u \in Nat
    BY <1>t, TopsType DEF TypeInv, DataType
  <2>3. UNCHANGED <<app, rows, at, list, kick, sql>>
    BY <1>12 DEF ExportFile, db, procs, job
  <2> DEFINE file == {[r EXCEPT !.kicked = 1] : r \in RowsIn(importHeight, t)}
  <2>4. /\ \A r \in file : \E s \in RowsIn(importHeight, t) :
             s.block = r.block /\ r = [s EXCEPT !.kicked = 1]
    <3>1. RowsIn(importHeight, t) \subseteq Row
      BY <1>t DEF RowsIn, TypeInv, DataType
    <3>2. \A s \in RowsIn(importHeight, t) : [s EXCEPT !.kicked = 1].block = s.block
      BY <3>1 DEF Row
    <3> QED
      BY <3>2
  <2>5. files' = [files EXCEPT ![t] = file]
    BY <2>1
  <2> HIDE DEF file
  <2>6. files'[t] = file /\ \A u \in Tops : u # t => files'[u] = files[u]
    BY <2>5, <1>t DEF TypeInv, DataType
  <2>7. \A u \in Tops : files[u] # {} => u < importHeight /\ u < t /\ u # t
    BY <2>1, <2>2 DEF OnceInv
  <2>8. \A r \in files'[t] : r.block >= importHeight /\ r.block <= t
    BY <2>4, <2>6 DEF RowsIn
  <2>9. ASSUME NEW r \in files'[t], NEW s \in files'[t], r.block = s.block PROVE r = s
    <3>1. PICK q \in RowsIn(importHeight, t) : q.block = r.block /\ r = [q EXCEPT !.kicked = 1]
      BY <2>4, <2>6
    <3>2. PICK v \in RowsIn(importHeight, t) : v.block = s.block /\ s = [v EXCEPT !.kicked = 1]
      BY <2>4, <2>6
    <3>3. q = v
      BY <3>1, <3>2, <2>9 DEF OnceInv, RowsIn
    <3> QED
      BY <3>1, <3>2, <3>3
  <2>10. \A u \in Tops : files'[u] # {} => u < importHeight'
    BY <2>1, <2>2, <2>6, <2>7
  <2>11. \A u \in Tops : \A r \in files'[u] : r.block <= u
    BY <2>6, <2>8 DEF OnceInv
  <2>12. \A u \in Tops : \A r, s \in files'[u] : r.block = s.block => r = s
    BY <2>6, <2>9 DEF OnceInv
  <2>13. ASSUME NEW u \in Tops, NEW v \in Tops, files'[u] # {}, u < v, NEW s \in files'[v]
         PROVE  s.block > u
    <3>1. CASE v = t
      <4>1. u < importHeight
        BY <2>2, <2>6, <2>7, <2>13, <3>1
      <4>2. s.block \in Nat
        BY <2>4, <2>6, <2>13, <3>1, <1>t DEF RowsIn, TypeInv, DataType, Row
      <4> QED
        BY <4>1, <4>2, <2>2, <2>8, <2>13, <3>1
    <3>2. CASE v # t
      <4>1. files[v] # {} /\ s \in files[v] /\ v < t
        BY <2>6, <2>7, <2>13, <3>2
      <4>2. u # t
        BY <4>1, <2>2, <2>13
      <4> QED
        BY <4>1, <4>2, <2>6, <2>13 DEF OnceInv
    <3> QED
      BY <3>1, <3>2
  <2>14. \A u \in list : u \in Tops /\ files'[u] = files[u]
    BY <2>6, <2>7, <1>t DEF TypeInv, ControlType
  <2>15. /\ at' = "load" => \A u \in list' : \A r \in rows' :
                              r.block <= u /\ \A s \in files'[u] : r.block # s.block
         /\ at' \in {"mark", "move"} =>
              /\ \A r \in rows' : r.block <= Least(list')
              /\ \A u \in list' \ {Least(list')} : \A r \in rows' :
                   r.block <= u /\ \A s \in files'[u] : r.block # s.block
    BY <2>3, <2>14 DEF OnceInv
  <2>16. /\ \A r, s \in rows' : r.block = s.block => r = s
         /\ app'.init # TRUE \/ at' = "first" => rows' = {}
         /\ at' \notin {"mark", "move", "finalize"} =>
              \A r \in rows' : app'.blockSync # None /\ r.block <= app'.blockSync
         /\ at' = "finalize" => \A r \in rows' : r.block <= sql'.top
         /\ app'.kickImport # None =>
              app'.kickData = TRUE \/ at' \in {"load", "mark", "move", "loaded"}
         /\ at' = "load" /\ app'.kickImport # None => list' # {}
         /\ at' = "kickData" \/ (at' \notin Late /\ \E p \in Procs : kick'[p]) =>
              app'.kickData = TRUE \/ (rows' = {} /\ app'.kickImport = None)
         /\ at' \in {"kickFlag", "kickList"} => rows' = {} /\ app'.kickImport = None
    BY <2>3 DEF OnceInv
  <2> QED
    BY <2>10, <2>11, <2>12, <2>13, <2>15, <2>16 DEF OnceInv
<1> DEFINE Written == \/ InitBlockSync \/ MarkInit \/ FirstBlock \/ KickstartLoad \/ KickstartMark
                      \/ KickstartMove \/ KickstartFlag \/ KickstartEnd \/ Synchronize
                      \/ ImportBatch \/ FinalizeBatch \/ Nuke \/ ExportFile
           Places  == /\ \/ UNCHANGED <<at, list>> /\ (at = "finalize" => sql' = sql)
                         \/ /\ at \notin {"load", "mark", "move", "loaded", "finalize"}
                            /\ at' \notin {"load", "mark", "move", "loaded", "finalize", "kickFlag",
                                           "kickList", "first"}
                      /\ at' = "kickData" /\ at # "kickData" =>
                           at \notin Late /\ \E p \in Procs : kick[p]
                      /\ at' \notin Late /\ (\E p \in Procs : kick'[p]) =>
                           at \notin Late /\ \E p \in Procs : kick[p]
<1>13. CASE Written
  BY <1>13, <1>2, <1>4, <1>6, <1>7, <1>8, <1>9, <1>10, <1>11, <1>12, <1>24, <1>25
<1>14. CASE ~Written /\ Places
  BY <1>14, <1>1, <1>w DEF SameOnce
<1> HIDE DEF Written
<1>15. ASSUME at # "off", at' = "off", ExitProcess,
              at \notin {"load", "mark", "move", "loaded", "finalize"}
       PROVE  Places
  BY <1>15, <1>x
<1>16. ASSUME UNCHANGED kick, at \notin Late,
              at \notin {"load", "mark", "move", "loaded", "finalize"},
              at' \notin {"load", "mark", "move", "loaded", "finalize", "kickFlag", "kickList",
                          "first"},
              at' = "kickData" => Kicked
       PROVE  Places
  BY <1>16 DEF Kicked, Inside
<1>17. CASE InitTables \/ InitDefaults \/ CheckMode \/ CheckInit \/ StoreMode \/ InitPartitions
            \/ KickstartCache \/ PopularAccounts \/ InitIndexId \/ AssignAddresses
            \/ AssignAfterText
  <2>1. at \in {"tables", "defaults", "mode", "init", "storeMode", "partitions", "kickCache",
                "accounts", "indexId", "assign", "assignText"}
    BY <1>17 DEF InitTables, InitDefaults, CheckMode, CheckInit, StoreMode, InitPartitions,
       KickstartCache, PopularAccounts, InitIndexId, AssignAddresses, AssignAfterText, Proceed
  <2>2. \/ /\ kick' = kick /\ (at' = "kickData" => Kicked)
           /\ at' \in {"defaults", "mode", "init", "partitions", "genesis", "kickCache",
                       "accounts", "indexId", "assign", "assignText", "kickData", "flags"}
        \/ ExitProcess /\ at' = "off"
    BY <1>17 DEF InitTables, InitDefaults, CheckMode, CheckInit, StoreMode, InitPartitions,
       KickstartCache, PopularAccounts, InitIndexId, AssignAddresses, AssignAfterText, AfterCache,
       Goto, ExitProcess
  <2>3. Places
    BY <2>1, <2>2, <1>15, <1>16, <1>l
  <2> QED
    BY <2>3, <1>13, <1>14
<1>18. CASE ResetFlags \/ LookFlags \/ ExtractBatch \/ IndexBuild \/ IndexMark \/ PauseExit
            \/ Unpause
  <2>1. /\ at \in {"flags", "look", "ready", "building", "cli"}
        /\ \/ at' \in {"look", "ready", "import", "building", "cli"}
           \/ ExitProcess /\ at' = "off"
    BY <1>18 DEF ResetFlags, LookFlags, ExtractBatch, IndexBuild, IndexMark, PauseExit, Unpause, Proceed, Goto,
       ExitProcess
  <2>2. Places
    BY <2>1, <1>15, <1>l
  <2> QED
    BY <2>2, <1>13, <1>14
<1>19. CASE Pause \/ (\E m \in Modes : ChangeMode(m)) \/ ExportBegin \/ ExportEnd \/ Grow
            \/ UNCHANGED vars
  <2>1. Places
    BY <1>19 DEF Pause, ChangeMode, ExportBegin, ExportEnd, Grow, vars, procs, job
  <2> QED
    BY <2>1, <1>13, <1>14
<1>20. ASSUME NEW p \in Procs, NEW k \in BOOLEAN, StartProcess(p, k) PROVE OnceInv'
  <2>1. /\ Data1 /\ UNCHANGED <<app, at, list, sql>>
        /\ k => at = "off" /\ (rows = {} \/ app.kickImport # None)
    BY <1>20, <1>t DEF StartProcess, MayKickstart, NoneRuns, db, disk, job, TypeInv, ControlType, Inside
  <2>2. CASE k = TRUE
    <3>1. app.kickData = TRUE \/ (rows = {} /\ app.kickImport = None)
      BY <2>1, <2>2 DEF OnceInv
    <3> QED
      BY <1>o, <1>l, <2>1, <2>2, <3>1 DEF OnceInv
  <2>3. CASE k = FALSE
    <3>1. \A q \in Procs : kick'[q] => kick[q]
      BY <1>20, <2>3, <1>t DEF StartProcess, TypeInv, ControlType
    <3> QED
      BY <1>1, <2>1, <3>1 DEF SameOnce
  <2> QED
    BY <2>2, <2>3
<1>21. ASSUME NEW p \in Procs, CheckPid(p) PROVE SameOnce
  <2>1. PICK taken \in BOOLEAN : Pass(p, taken)
    BY <1>21 DEF CheckPid
  <2>2. \A q \in Procs : kick'[q] => kick[q]
    BY <2>1, <1>t DEF Pass, TypeInv, ControlType
  <2> QED
    BY <2>1, <2>2 DEF Pass, SameOnce, db, disk, job
<1>22. ASSUME NEW p \in Procs, WritePid(p) PROVE SameOnce
  <2>1. Inside = {}
    BY <1>22, <1>t DEF WritePid, WhereInv, PidInv, Inside, Status
  <2>2. at = "off" /\ at' = "tables"
    BY <1>22, <2>1, <1>t DEF WritePid, TypeInv, ControlType
  <2> QED
    BY <1>22, <1>l, <2>2 DEF WritePid, SameOnce, db
<1>23. ~\E p \in Procs : Kill(p)
  BY DEF Kill, Fault
<1> QED
  BY <1>1, <1>3, <1>5, <1>13, <1>17, <1>18, <1>19, <1>20, <1>21, <1>22, <1>23, <1>p
     DEF Next, Boot, Run, Operate, Written

\* Each block comes from one file or from one cycle, as long as nothing fails and nobody
\* starts two at once: of any number of exports, kickstarts, pauses, nukes and restarts.
THEOREM BlocksLoadedOnce == Spec => []LoadedOnce
<1>1. Init => OnceInv /\ OwnInv
  <2>1. Init => /\ app.kickImport = None /\ at = "off" /\ rows = {} /\ \A p \in Procs : ~kick[p]
                /\ orphans = {} /\ \A t \in Tops : files[t] = {}
    BY DEF Init, Fresh
  <2> QED
    BY <2>1 DEF OnceInv, OwnInv, Late
<1>2. OnceInv => LoadedOnce
  BY DEF OnceInv, LoadedOnce
<1>3. ArchiveInv => TypeInv
  BY DEF ArchiveInv, WhereInv
<1> QED
  BY <1>1, <1>2, <1>3, ArchiveInit, ArchiveStep, OnceStep, OwnStep, PTL DEF Spec
=============================================================================
