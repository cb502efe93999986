------------------------------- MODULE Startup -------------------------------
(***************************************************************************)
(* How an installation of txTheRipper comes up: init of ripper.js with the *)
(* pid file, the tables, the operation mode, the partitions, the address   *)
(* cache and the kickstart; the index builds of the first sync; and what   *)
(* the operator does to it from the command line (export, nuke).  A start  *)
(* is a sequence of separate statements over files and tables, most of     *)
(* which log an error and go on, and it may end after any of them.         *)
(*                                                                         *)
(* The cycle of module Synchronize is three actions here (what becomes the *)
(* sql file, its import, the mark), and a block has one transaction.       *)
(* MaxHeight, MaxTables and MaxFaults are bounds.                          *)
(***************************************************************************)
EXTENDS Integers, Sequences, FiniteSets

CONSTANTS
  Procs,         \* process ids
  None,          \* undefined: no row, no file
  Genesis,       \* 46146, the last block before the first transaction
  FirstTip,      \* height of the chain at first
  MaxHeight,     \* its bound
  Chunk,         \* chunkSize of the export
  FileMax,       \* JSON_TX_FILE_MAX, in transactions
  PartSize,      \* blocks per partition (500000)
  Spare,         \* partitions made in advance (7)
  Depth,         \* PRUNE_DEPTH, or the confirmations in subscription mode
  Indexes,       \* the index files
  MaxTables,     \* how many tables of popular addresses are ever generated
  MaxFaults

Modes == {"sync", "pruned", "subscription"}

\* A row of the archive, of transactions or of an exported file: its byteIds are of the
\* table codes (0: none); kicked and late tell apart the copies of one transaction.
Row == [block : Nat, id : Nat, codes : Nat, kicked : Nat, late : Nat]

\* The sql file of a batch: its rows, the counter and the sync point after it.
SqlFile == [rows : SUBSET Row, next : Nat, top : Nat]

ASSUME ConstantsAssumption ==
  /\ None \notin Procs \cup Int \cup Modes \cup BOOLEAN
  /\ {Genesis, FirstTip, MaxHeight, Spare, Depth, MaxTables, MaxFaults} \subseteq Nat
  /\ {Chunk, FileMax, PartSize} \subseteq Nat \ {0} /\ Indexes \subseteq Nat
  /\ Genesis < FirstTip - Depth /\ FirstTip <= MaxHeight

\* What a behaviour may suffer from: nothing; kills that end psql too (a power failure);
\* kills that leave the psql of an import running; psql that fails; queries that fail;
\* a process started while another is between the check of the pid file and the write to
\* it; kickstarts and exports over data that does not belong to them; an export in the
\* middle of a chunk; DEV_STOP_FLAGS_ENABLE; no PRUNE_DEPTH; an operator who nukes the
\* database and leaves redis as it is.
Oddities == {"none", "kill", "orphan", "psql", "query", "race", "unclean", "ragged",
             "devStop", "noDepth", "stale"}

VARIABLES
  odd, used,     \* the oddity of this behaviour, and the faults so far
  tip,           \* height of the chain
  env,           \* OPERATION_MODE
  tables,        \* none, some or all of the tables exist
  app,           \* application_data
  rows,          \* the archive; kicked is 0 when indexed here, late when not by an orphan
  codes, made,   \* contract_cache: which table of byteIds it holds, 0 when empty
  parts, built,  \* partitions of transactions, and indexes
  pidFile, indexFile, importHeight,   \* on disk
  files,         \* there, too: by the block each ends at, {} when it is not there
  pc,            \* of each process: off, check, write, in
  at,            \* how far the process that is in has come
  kick, list,    \* their kickstart arguments, and the files yet to load
  exporting,
  redis,         \* which table ripper:contractCache holds, 0 for an empty one
  sql, orphans   \* the batch psql is to import, and those of a killed parent's psql

db    == <<tables, app, rows, codes, parts, built>>
disk  == <<pidFile, indexFile, files, importHeight>>
procs == <<pc, at, kick, list>>
world == <<odd, tip, env, made>>
job   == <<redis, sql, orphans>>
vars  == <<world, used, db, disk, procs, exporting, job>>

Tops == {h + Chunk - 1 : h \in {c \in 0..MaxHeight : c % Chunk = 0}}

Fresh == [init |-> None, mode |-> None, blockSync |-> None, nextId |-> None,
          indexId |-> None, kickData |-> None, kickImport |-> None,
          pause |-> None, working |-> None, indexed |-> {}]

Init ==
  /\ odd \in Oddities /\ used = 0 /\ tip = FirstTip /\ env \in Modes
  /\ tables = "none" /\ app = Fresh /\ rows = {} /\ codes = 0 /\ made = 0
  /\ parts = 0 /\ built = {}
  /\ pidFile = None /\ indexFile = None
  /\ files = [t \in Tops |-> {}] /\ importHeight = 0
  /\ pc = [p \in Procs |-> "off"] /\ at = "off" /\ kick = [p \in Procs |-> FALSE] /\ list = {}
  /\ exporting = FALSE
  /\ redis = None /\ sql = None /\ orphans = {}

-----------------------------------------------------------------------------
Fault(kind) == odd = kind /\ used < MaxFaults /\ used' = used + 1
NoFault     == used' = used

\* A getter and a setter of db/application_data.js: both catch their own errors.
Read(f, v) == \/ v = app[f] /\ NoFault
              \/ v = None /\ Fault("query")

Stored(f, v) == IF tables = "all" THEN [app EXCEPT ![f] = v] ELSE app

Put(f, v) == \/ app' = Stored(f, v) /\ NoFault
             \/ app' = app /\ Fault("query")

\* execSqlFile and execCmd: psql does what the file says, or fails.
Psql(done, failed) == \/ tables = "all" /\ done /\ NoFault
                      \/ tables # "all" /\ failed /\ NoFault
                      \/ failed /\ Fault("psql")

Inside == {p \in Procs : pc[p] = "in"}

\* A step of the process that is in, while no other one starts (but in a race).  What
\* two that are in do to one database is not followed any further.
Proceed(l) == /\ Cardinality(Inside) = 1 /\ at = l
              /\ odd = "race" \/ \A p \in Procs : pc[p] \in {"off", "in"}

Goto(l) == at' = l /\ UNCHANGED <<pc, kick, list>>

ExitProcess == /\ pc' = [p \in Procs |-> IF p \in Inside THEN "off" ELSE pc[p]]
               /\ at' = "off" /\ list' = {} /\ kick' = [p \in Procs |-> p \notin Inside /\ kick[p]]

Kicked == \E p \in Inside : kick[p]

-----------------------------------------------------------------------------
(* The pid file.  A definition whose comment begins with "Faulty" belongs to *)
(* no behaviour: it is the one below it with a plausible bug, which a        *)
(* property must notice.                                                     *)

NoneRuns == \A p \in Procs : pc[p] = "off"

\* main wants the files of a kickstart to be there; that the database is clean, or
\* half kickstarted from the same index_cache.sql, is left to the operator.
MayKickstart ==
  /\ indexFile # None /\ \E t \in Tops : files[t] # {}
  /\ \/ odd = "unclean"
     \/ NoneRuns /\ rows = {} /\ codes = 0
     \/ NoneRuns /\ app.kickImport # None /\ codes = indexFile

StartProcess(p, k) ==
  /\ pc[p] = "off" /\ (k => MayKickstart)
  /\ odd = "race" \/ \A q \in Procs : pc[q] \in {"off", "in"}
  /\ pc' = [pc EXCEPT ![p] = "check"] /\ kick' = [kick EXCEPT ![p] = k]
  /\ UNCHANGED <<world, used, db, disk, at, list, exporting, job>>

Pass(p, taken) ==
  /\ pc' = [pc EXCEPT ![p] = IF taken THEN "off" ELSE "write"]
  /\ kick' = [kick EXCEPT ![p] = @ /\ ~taken]
  /\ UNCHANGED <<world, used, db, disk, at, list, exporting, job>>

\* Faulty: a pid file is only looked at when its process was started after a crash.
CheckPidOwn(p) ==
  /\ pc[p] = "check"
  /\ Pass(p, pidFile = p)

\* The process the file names is alive (and a node process: it may be this one,
\* when the pid is used again).
CheckPid(p) ==
  /\ pc[p] = "check"
  /\ Pass(p, \E q \in Procs : pidFile = q /\ pc[q] # "off")

WritePid(p) ==
  /\ pc[p] = "write"
  /\ pc' = [pc EXCEPT ![p] = "in"] /\ pidFile' = p /\ at' = "tables"
  /\ UNCHANGED <<world, used, db, indexFile, files, importHeight, kick,
                 list, exporting, job>>

-----------------------------------------------------------------------------
(* initTables, initApplicationDefaults, the operation mode *)

\* Tables that are all there are kept, some are an error, none are created.
InitTables ==
  /\ Proceed("tables")
  /\ \/ /\ tables = "none" /\ Goto("defaults")
        /\ \/ tables' = "all" /\ NoFault
           \/ UNCHANGED tables /\ Fault("psql")
     \/ tables = "some" /\ ExitProcess /\ UNCHANGED <<tables, used>>
     \/ tables = "all" /\ Goto("defaults") /\ UNCHANGED <<tables, used>>
  /\ UNCHANGED <<world, app, rows, codes, parts, built, disk, exporting, job>>

InitDefaults ==
  /\ Proceed("defaults") /\ Goto("mode")
  /\ IF app.pause = None THEN Put("pause", FALSE)
     ELSE \/ UNCHANGED app /\ NoFault
          \/ app' = Stored("pause", FALSE) /\ Fault("query")
  /\ UNCHANGED <<world, tables, rows, codes, parts, built, disk, exporting, job>>

\* Faulty: a database of mode "pruned" is not told apart from one of mode "sync".
CheckModeTwo ==
  /\ Proceed("mode")
  /\ \E m \in Modes \cup {None} :
       /\ Read("mode", m)
       /\ IF m # None /\ (m = "subscription") # (env = "subscription")
            THEN ExitProcess ELSE Goto("init")
  /\ UNCHANGED <<world, db, disk, exporting, job>>

CheckMode ==
  /\ Proceed("mode")
  /\ \E m \in Modes \cup {None} :
       /\ Read("mode", m)
       /\ IF m \notin {None, env} THEN ExitProcess ELSE Goto("init")
  /\ UNCHANGED <<world, db, disk, exporting, job>>

CheckInit ==
  /\ Proceed("init")
  /\ \E b \in {TRUE, None} :
       /\ Read("init", b)
       /\ Goto(IF b = TRUE THEN "partitions" ELSE "genesis")
  /\ UNCHANGED <<world, db, disk, exporting, job>>

-----------------------------------------------------------------------------
(* initialInit *)

InitBlockSync ==
  /\ Proceed("genesis") /\ Goto("initialized") /\ Put("blockSync", Genesis)
  /\ UNCHANGED <<world, tables, rows, codes, parts, built, disk, exporting, job>>

\* From here on initialInit counts as done (working is stored FALSE next).
MarkInit ==
  /\ Proceed("initialized") /\ Goto("first") /\ Put("init", TRUE)
  /\ UNCHANGED <<world, tables, rows, codes, parts, built, disk, exporting, job>>

\* Faulty: the mode comes before the block it starts at.
FirstBlockLater ==
  /\ Proceed("first") /\ Goto("partitions")
  /\ Put("mode", env)
  /\ UNCHANGED <<world, tables, rows, codes, parts, built, disk, exporting, job>>

\* Faulty: the depth is counted from where the chain begins.
FirstBlockDeep ==
  /\ Proceed("first") /\ Goto("storeMode") /\ Put("blockSync", Genesis - Depth)
  /\ UNCHANGED <<world, tables, rows, codes, parts, built, disk, exporting, job>>

\* A mode other than "sync" starts near the head of the chain.
FirstBlock ==
  /\ Proceed("first")
  /\ IF env = "sync" THEN Goto("storeMode") /\ UNCHANGED <<app, used>>
     ELSE IF env = "pruned" /\ odd = "noDepth" THEN ExitProcess /\ UNCHANGED <<app, used>>
     ELSE Goto("storeMode") /\ Put("blockSync", tip - Depth)
  /\ UNCHANGED <<world, tables, rows, codes, parts, built, disk, exporting, job>>

StoreMode ==
  /\ Proceed("storeMode") /\ Goto("partitions") /\ Put("mode", env)
  /\ UNCHANGED <<world, tables, rows, codes, parts, built, disk, exporting, job>>

-----------------------------------------------------------------------------
(* initPartitions, kickstartCache, assignPopularAddresses *)

Partitions(height) == (height + PartSize - 1) \div PartSize + Spare

InitPartitions ==
  /\ Proceed("partitions") /\ Goto(IF Kicked THEN "kickCache" ELSE "accounts")
  /\ Psql(parts' = IF parts < Partitions(tip) THEN Partitions(tip) ELSE parts,
          UNCHANGED parts)
  /\ UNCHANGED <<world, tables, app, rows, codes, built, disk, exporting, job>>

\* Faulty: a kickstart does without its index file.
KickstartCacheSkipped ==
  /\ Proceed("kickCache") /\ Goto("accounts")
  /\ UNCHANGED <<world, used, db, disk, exporting, job>>

\* A failure is noted in kickstart:cache and logged, no more: the check of that flag
\* looks at a promise.
KickstartCache ==
  /\ Proceed("kickCache") /\ Goto("accounts")
  /\ IF codes > 0 THEN UNCHANGED <<codes, used>>
                  ELSE Psql(codes' = indexFile, UNCHANGED codes)
  /\ UNCHANGED <<world, tables, app, rows, parts, built, disk, exporting, job>>

AfterCache == IF Kicked THEN "kickData" ELSE "flags"

\* Faulty: the accounts are made, and not assigned.
PopularAccountsOnly ==
  /\ Proceed("accounts") /\ Goto(AfterCache)
  /\ UNCHANGED <<world, used, db, disk, exporting, job>>

\* topAccts.json is made if it is not there (popularContracts.js).
PopularAccounts ==
  /\ Proceed("accounts") /\ Goto("indexId")
  /\ UNCHANGED <<world, used, db, disk, exporting, job>>

\* A table that is filled is kept.  The counter of the byteIds is started at 0.
InitIndexId ==
  /\ Proceed("indexId")
  /\ IF codes > 0 THEN Goto(AfterCache) /\ UNCHANGED <<app, used>>
     ELSE IF app.indexId = None THEN Goto("assign") /\ Put("indexId", 0)
     ELSE Goto("assignText") /\ UNCHANGED <<app, used>>
  /\ UNCHANGED <<world, tables, rows, codes, parts, built, disk, exporting, job>>

\* The table and its counter in one SQL transaction.
AssignAddresses ==
  /\ Proceed("assign") /\ Goto(AfterCache) /\ made < MaxTables
  /\ Psql(codes' = made + 1 /\ made' = made + 1, UNCHANGED <<codes, made>>)
  /\ UNCHANGED <<odd, tip, env, tables, app, rows, parts, built, disk, exporting, job>>

\* A counter that was there before is text (bigint), to which += 1 appends: the ids
\* outgrow a bigint, and psql rejects the file.
AssignAfterText ==
  /\ Proceed("assignText") /\ Goto(AfterCache)
  /\ UNCHANGED <<world, used, db, disk, exporting, job>>

-----------------------------------------------------------------------------
(* kickstartData *)

ToLoad(last) == {t \in Tops : files[t] # {} /\ t > last}

Least(s) == CHOOSE t \in s : \A u \in s : t <= u

Flag == BOOLEAN \cup {None}

KickstartBegin ==
  /\ Proceed("kickData")
  /\ \E d \in Flag : /\ Read("kickData", d)
                     /\ IF d = TRUE THEN ExitProcess ELSE Goto("kickFlag")
  /\ UNCHANGED <<world, db, disk, exporting, job>>

KickstartFlag ==
  /\ Proceed("kickFlag") /\ Goto("kickList") /\ Put("kickData", FALSE)
  /\ UNCHANGED <<world, tables, rows, codes, parts, built, disk, exporting, job>>

\* The files past the last one imported; without such a one, all of them.
KickstartList ==
  /\ Proceed("kickList")
  /\ \E t \in Tops \cup {None} :
       /\ Read("kickImport", t)
       /\ list' = ToLoad(IF t = None THEN 0 ELSE t)
  /\ at' = "load" /\ UNCHANGED <<world, db, disk, pc, kick, exporting, job>>

\* No table has a unique key: a file that is loaded again doubles its rows.
Loaded(file) ==
  {[r EXCEPT !.kicked = 1 + Cardinality({s \in rows : s.block = r.block /\ s.kicked > 0})] :
     r \in file}

\* A file that fails is logged, and the next one is loaded.
KickstartLoad ==
  /\ Proceed("load")
  /\ IF list = {} THEN Goto("flags") /\ UNCHANGED <<rows, used>>
     ELSE \/ /\ Psql(rows' = rows \cup Loaded(files[Least(list)]), FALSE)
             /\ Goto("mark")
          \/ /\ Psql(FALSE, UNCHANGED rows)
             /\ at' = "load" /\ list' = list \ {Least(list)} /\ UNCHANGED <<pc, kick>>
  /\ UNCHANGED <<world, tables, app, codes, parts, built, disk, exporting, job>>

KickstartMark ==
  /\ Proceed("mark") /\ Goto("move") /\ Put("kickImport", Least(list))
  /\ UNCHANGED <<world, tables, rows, codes, parts, built, disk, exporting, job>>

\* Faulty: the sync point goes to where the last chunk of the file begins.
KickstartMoveLow ==
  /\ Proceed("move") /\ Put("blockSync", Least(list) - Chunk + 1)
  /\ at' = (IF list = {Least(list)} THEN "loaded" ELSE "load") /\ list' = list \ {Least(list)}
  /\ UNCHANGED <<world, tables, rows, codes, parts, built, disk, pc, kick, exporting, job>>

\* block_sync, and last_block_scanned with it.
KickstartMove ==
  /\ Proceed("move") /\ Put("blockSync", Least(list))
  /\ at' = (IF list = {Least(list)} THEN "loaded" ELSE "load") /\ list' = list \ {Least(list)}
  /\ UNCHANGED <<world, tables, rows, codes, parts, built, disk, pc, kick, exporting, job>>

KickstartEnd ==
  /\ Proceed("loaded") /\ Goto("flags") /\ Put("kickData", TRUE)
  /\ UNCHANGED <<world, tables, rows, codes, parts, built, disk, exporting, job>>

-----------------------------------------------------------------------------
(* The flags, and the program that is up *)

Reset(fs) == IF tables = "all" THEN [f \in DOMAIN app |-> IF f \in fs THEN FALSE ELSE app[f]]
                               ELSE app

ResetFlags ==
  /\ Proceed("flags") /\ Goto("look")
  /\ IF odd = "devStop" THEN UNCHANGED <<app, used>>
     ELSE \/ app' = Reset({"pause", "working"}) /\ NoFault
          \/ \E fs \in {{"pause"}, {"working"}} : app' = Reset(fs) /\ Fault("query")
  /\ UNCHANGED <<world, tables, rows, codes, parts, built, disk, exporting, job>>

\* With a flag still set the program becomes the command line interface.
LookFlags ==
  /\ Proceed("look") /\ Goto(IF TRUE \in {app.pause, app.working} THEN "cli" ELSE "ready")
  /\ UNCHANGED <<world, used, db, disk, exporting, job>>

\* Faulty: the counter of ids goes to the id before the last one.
NextIdShort(n, k) == n + k - 1

\* insertId, after k rows.
NextId(n, k) == n + k + 2

\* A cycle (module Synchronize) without rows: the sync point is missing, or the mode
\* is "subscription".
Synchronize ==
  /\ Proceed("ready") /\ tables = "all" /\ app.pause # TRUE
  /\ \/ app.blockSync = None /\ app' = [app EXCEPT !.blockSync = 0]
     \/ /\ app.blockSync # None /\ app.blockSync < tip /\ env = "subscription"
        /\ app' = [app EXCEPT !.blockSync = tip]
  /\ UNCHANGED <<world, used, tables, rows, codes, parts, built, disk, procs, exporting, job>>

\* convertBatchAccounts takes the cache from redis, which gets it from the table once.
AddressCache == IF redis = None THEN codes ELSE redis

\* A cycle with rows, as far as the sql file.  The counter of ids may not exist, or its
\* query fails.
ExtractBatch ==
  /\ Proceed("ready") /\ tables = "all" /\ app.pause # TRUE
  /\ app.blockSync # None /\ app.blockSync < tip /\ env # "subscription"
  /\ Goto("import") /\ redis' = AddressCache
  /\ \E i \in {app.nextId, None} :
       /\ Read("nextId", i)
       /\ LET n     == IF i = None THEN 0 ELSE i
              batch == {b \in app.blockSync + 1 .. tip : b > Genesis}
          IN sql' = [rows |-> {[block |-> b, id |-> n + Cardinality({c \in batch : c <= b}),
                                codes |-> AddressCache, kicked |-> 0, late |-> 0] : b \in batch},
                     next |-> NextId(n, Cardinality(batch)),
                     top  |-> tip]
  /\ UNCHANGED <<world, db, disk, exporting, orphans>>

\* The file is one SQL transaction.
Commit(s) == /\ s.top < parts * PartSize
             /\ rows' = rows \cup s.rows /\ app' = [app EXCEPT !.nextId = s.next]

\* It fails for a block past the last partition: checkPartitions, which is called
\* without a height, adds none.  What psql writes to stderr makes a failure of an import
\* that is done.
ImportBatch ==
  /\ Proceed("import")
  /\ \/ Commit(sql) /\ Goto("finalize") /\ UNCHANGED <<used, sql>>
     \/ Commit(sql) /\ Goto("ready") /\ sql' = None /\ Fault("psql")
     \/ /\ (sql.top >= parts * PartSize /\ NoFault) \/ Fault("psql")
        /\ Goto("ready") /\ sql' = None /\ UNCHANGED <<rows, app>>
  /\ UNCHANGED <<world, tables, codes, parts, built, disk, exporting, redis, orphans>>

\* updateAppData
FinalizeBatch ==
  /\ Proceed("finalize") /\ Goto("ready") /\ sql' = None /\ Put("blockSync", sql.top)
  /\ UNCHANGED <<world, tables, rows, codes, parts, built, disk, exporting, redis, orphans>>

\* The psql of a process that was killed comes to its COMMIT, or to an end without it.
OrphanCommits(s) ==
  /\ s \in orphans /\ orphans' = orphans \ {s} /\ Commit(s)
  /\ UNCHANGED <<world, used, tables, codes, parts, built, disk, procs, exporting, redis, sql>>

OrphanEnds(s) ==
  /\ s \in orphans /\ orphans' = orphans \ {s}
  /\ UNCHANGED <<world, used, db, disk, procs, exporting, redis, sql>>

\* The program is up and not at its indexes.
Cycling == {"ready", "import", "finalize"}

InSync == app.blockSync = tip /\ app.pause # TRUE

NextIndex == Least(Indexes \ app.indexed)

\* Faulty: an index is marked as built before it is.
IndexMarkFirst ==
  /\ Proceed("ready") /\ InSync /\ Indexes \ app.indexed # {} /\ Goto("building")
  /\ app' = [app EXCEPT !.indexed = @ \cup {NextIndex}]
  /\ UNCHANGED <<world, used, tables, rows, codes, parts, built, disk, exporting, job>>

\* initIndexes, once the database is in sync: execSqlFile resolves whatever psql says.
IndexBuild ==
  /\ Proceed("ready") /\ InSync /\ Indexes \ app.indexed # {} /\ Goto("building")
  /\ Psql(built' = built \cup {NextIndex}, UNCHANGED built)
  /\ UNCHANGED <<world, tables, app, rows, codes, parts, disk, exporting, job>>

IndexMark ==
  /\ Proceed("building") /\ Goto("ready")
  /\ Put("indexed", app.indexed \cup {NextIndex})
  /\ UNCHANGED <<world, tables, rows, codes, parts, built, disk, exporting, job>>

\* A pause ends the program, and is lifted (module RipperMain).  A start undoes it,
\* but for DEV_STOP_FLAGS_ENABLE.
Pause ==
  /\ tables = "all" /\ app.pause = FALSE /\ (at \in Cycling \/ odd = "devStop")
  /\ app' = [app EXCEPT !.pause = TRUE]
  /\ UNCHANGED <<world, used, tables, rows, codes, parts, built, disk, procs, exporting, job>>

PauseExit ==
  /\ Proceed("ready") /\ app.pause = TRUE /\ ExitProcess
  /\ app' = [app EXCEPT !.pause = FALSE]
  /\ UNCHANGED <<world, used, tables, rows, codes, parts, built, disk, exporting, job>>

\* "Unpause Application?" clears working as well.
Unpause ==
  /\ at = "cli"
  /\ app' = [app EXCEPT !.pause = FALSE, !.working = FALSE] /\ ExitProcess
  /\ UNCHANGED <<world, used, tables, rows, codes, parts, built, disk, exporting, job>>

\* A batch whose rows are told apart from those its block gets otherwise.
Orphaned(s) == [s EXCEPT !.rows = {[r EXCEPT !.late = used + 1] : r \in s.rows}]

\* The process dies, perhaps in a cycle, which leaves the working flag.  (It may be
\* convertBatchAccounts that ends it, after any error.)
Kill(p) ==
  /\ pc[p] # "off" /\ \E kind \in {"kill", "orphan", "devStop"} : Fault(kind)
  /\ pc' = [pc EXCEPT ![p] = "off"] /\ kick' = [kick EXCEPT ![p] = FALSE]
  /\ IF pc[p] = "in" THEN at' = "off" /\ list' = {} /\ sql' = None
                     ELSE UNCHANGED <<at, list, sql>>
  /\ app' \in IF pc[p] = "in" /\ at \in Cycling \cup {"building"}
              THEN {app, Stored("working", TRUE)} ELSE {app}
  /\ orphans' = IF odd = "orphan" /\ pc[p] = "in" /\ at = "import"
                   THEN orphans \cup {Orphaned(sql)} ELSE orphans
  /\ UNCHANGED <<world, tables, rows, codes, parts, built, disk, exporting, redis>>

-----------------------------------------------------------------------------
(* The operator: .env, and the command line interface on the side *)

ChangeMode(m) ==
  /\ NoneRuns
  /\ env' = m
  /\ UNCHANGED <<odd, tip, made, used, db, disk, procs, exporting, job>>

\* schema_nuke.sql is no transaction: a failure leaves some of the tables.  Redis is
\* not touched: it is for the operator to flush it, as it is to wait for a psql.
Nuke ==
  /\ NoneRuns
  /\ ~exporting /\ tables # "none" /\ orphans = {}
  /\ \/ tables' = "none" /\ NoFault
     \/ tables' = "some" /\ Fault("psql")
  /\ app' = Fresh /\ rows' = {} /\ codes' = 0 /\ parts' = 0 /\ built' = {}
  /\ redis' = IF odd = "stale" THEN redis ELSE None
  /\ UNCHANGED <<world, disk, procs, exporting, sql, orphans>>

\* index_cache.sql is written, of a database that no start is at work on; a careful
\* operator keeps one directory for one database of mode "sync".
ExportBegin ==
  /\ at \in Cycling \cup {"off"}
  /\ tables = "all" /\ ~exporting /\ app.blockSync # None
  /\ \/ odd = "unclean"
     \/ app.mode = "sync" /\ codes > 0 /\ indexFile \in {None, codes}
  /\ exporting' = TRUE /\ indexFile' = codes
  /\ UNCHANGED <<world, used, db, pidFile, files, importHeight, procs, job>>

RowsIn(lo, hi) == {r \in rows : r.block \in lo..hi}

\* Faulty: the next file goes on after the sync point.
NextHeightSynced(t) == app.blockSync + 1

\* What goes to importHeight for a file that ends at t.
NextHeight(t) == t + 1

\* exportDataChild.js: chunks are taken until they fill a file, while they begin before
\* the sync point.  A last one may reach past it; what does not fill a file is never
\* written, and extractData calls itself for ever.
ExportFile ==
  /\ exporting /\ importHeight <= app.blockSync
  /\ LET full == {t \in Tops : /\ t >= importHeight /\ t - Chunk + 1 < app.blockSync
                               /\ Cardinality(RowsIn(importHeight, t)) >= FileMax}
         t    == Least(full)
     IN /\ full # {}
        /\ odd \in {"ragged", "unclean"} \/ t <= app.blockSync
        /\ files' = [files EXCEPT ![t] =
                       {[r EXCEPT !.kicked = 1] : r \in RowsIn(importHeight, t)}]
        /\ importHeight' = NextHeight(t)
  /\ UNCHANGED <<world, used, db, pidFile, indexFile, procs, exporting, job>>

ExportEnd ==
  /\ exporting /\ exporting' = FALSE
  /\ UNCHANGED <<world, used, db, disk, procs, job>>

Grow ==
  /\ at = "ready" /\ tip < MaxHeight /\ tip' = tip + 1
  /\ UNCHANGED <<odd, env, made, used, db, disk, procs, exporting, job>>

-----------------------------------------------------------------------------
Boot == \/ InitTables \/ InitDefaults \/ CheckMode \/ CheckInit \/ InitBlockSync
        \/ MarkInit \/ FirstBlock \/ StoreMode \/ InitPartitions \/ KickstartCache
        \/ PopularAccounts \/ InitIndexId \/ AssignAddresses \/ AssignAfterText
        \/ KickstartBegin \/ KickstartFlag \/ KickstartList \/ KickstartLoad \/ KickstartMark
        \/ KickstartMove \/ KickstartEnd \/ ResetFlags \/ LookFlags

Run == \/ Synchronize \/ ExtractBatch \/ ImportBatch \/ FinalizeBatch
       \/ \E s \in orphans : OrphanCommits(s) \/ OrphanEnds(s)
       \/ IndexBuild \/ IndexMark \/ Pause \/ PauseExit \/ Unpause

Operate == \/ \E m \in Modes : ChangeMode(m)
           \/ Nuke \/ ExportBegin \/ ExportFile \/ ExportEnd

Next == \/ \E p \in Procs : \/ \E k \in BOOLEAN : StartProcess(p, k)
                            \/ CheckPid(p) \/ WritePid(p) \/ Kill(p)
        \/ Boot \/ Run \/ Operate \/ Grow

Spec == Init /\ [][Next]_vars

-----------------------------------------------------------------------------
(* Properties *)

Locations == {"off", "tables", "defaults", "mode", "init", "genesis", "initialized",
              "first", "storeMode", "partitions", "kickCache", "accounts", "indexId",
              "assign", "assignText", "kickData", "kickFlag",
              "kickList", "load", "mark", "move", "loaded",
              "flags", "look", "ready", "import", "finalize", "building", "cli"}

\* Every variable keeps its type; the init flag is only ever set, never cleared.
TypeOK ==
  /\ odd \in Oddities /\ used \in 0..MaxFaults /\ tip \in Nat /\ env \in Modes
  /\ tables \in {"none", "some", "all"}
  /\ app.init \in {TRUE, None} /\ app.mode \in Modes \cup {None}
  /\ app.blockSync \in Nat \cup {None} /\ app.nextId \in Nat \cup {None}
  /\ app.indexId \in {0, None} /\ app.kickImport \in Tops \cup {None}
  /\ {app.kickData, app.pause, app.working} \subseteq Flag /\ app.indexed \subseteq Indexes
  /\ rows \subseteq Row /\ codes \in 0..MaxTables /\ made \in 0..MaxTables
  /\ parts \in Nat /\ built \subseteq Indexes
  /\ pidFile \in Procs \cup {None}
  /\ indexFile \in (0..MaxTables) \cup {None} /\ importHeight \in Nat
  /\ files \in [Tops -> SUBSET Row]
  /\ pc \in [Procs -> {"off", "check", "write", "in"}] /\ at \in Locations
  /\ kick \in [Procs -> BOOLEAN] /\ list \subseteq Tops /\ exporting \in BOOLEAN
  /\ redis \in (0..MaxTables) \cup {None}
  /\ sql \in SqlFile \cup {None} /\ orphans \subseteq SqlFile

\* "Only one process may run at a time!": true of processes that are not started at
\* the same moment, for the pid file is read and written in two steps.
OneProcess == odd # "race" => Cardinality(Inside) <= 1

\* "Once you set the mode of the application you are not allowed to modify it": a
\* program that is up runs in the mode of its database, or the database has none (a
\* first start that ended before it was stored).
ModeKept == at = "ready" /\ odd # "query" => app.mode \in {env, None}

\* A stored mode vouches for the block it starts at: no crash of initialInit leaves a
\* pruned or a subscription database that starts at the beginning of the chain.
ModeVouches ==
  odd \notin {"query", "unclean"} /\ app.mode \in {"pruned", "subscription"} =>
    app.blockSync > Genesis

\* The archive of mode "sync" has no hole below its sync point, kickstarted or not: if
\* no file failed to load, none was exported in the middle of a chunk, and none came
\* from another database.
NoHole ==
  app.mode = "sync" /\ odd \notin {"psql", "query", "ragged", "unclean"} =>
    \A b \in Genesis + 1 .. app.blockSync : \E r \in rows : r.block = b

\* The byteIds of the archive are those of the address cache, as long as redis is flushed
\* when the database is nuked: convertBatchAccounts goes on with the table redis kept.
\* The kickstarted rows depend on more, "index_cache.sql MUST be the exact file used to
\* export the data": a failed load of that file breaks it, since the start goes on with
\* another cache; and so does a process that passed the pid file to kickstart, and gets on
\* only after another one, that passed it with it, was up.
Decodable ==
  odd # "stale" =>
    \A r \in rows : r.codes \in {0, codes} \/ (r.kicked > 0 /\ odd \in {"psql", "unclean", "race"})

\* No block is in the archive twice: whatever is nuked, exported, loaded and indexed,
\* each block comes from one file or from one cycle.  What breaks it: a crash after psql has
\* loaded a file or a batch and before kickstart:import or block_sync says so; a file that
\* failed, is indexed instead, and is loaded by a later kickstart; a process that passed
\* the pid file together with another and kickstarts after it.
LoadedOnce ==
  odd \notin {"kill", "orphan", "devStop", "psql", "query", "unclean", "race"} =>
    \A r, s \in rows : r.block = s.block => r = s

\* Two transactions share an id only if one of them was kickstarted, for a kickstart
\* leaves the counter behind.  A crash does not break it wherever it falls, the counter
\* being in the transaction of the rows, unless it leaves psql running: that one may commit
\* after a new start has read the counter, and sets it back.
IdsClash ==
  odd \notin {"query", "orphan"} =>
    \A r, s \in rows : r.id = s.id /\ r # s => {r.kicked, s.kicked} # {0}

\* "The application will keep trying until all indexes are installed": an index that is
\* marked exists, as long as psql does not fail.
IndexesBuilt == odd # "psql" => app.indexed \subseteq built

\* A program that is up has its address cache, unless something failed: then it may
\* never get one.
CacheFilled ==
  at = "ready" /\ odd \notin {"psql", "query", "kill", "orphan", "devStop"} => codes > 0
=============================================================================
