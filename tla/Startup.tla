------------------------------ MODULE Startup ------------------------------
(***************************************************************************)
(* Opening the database (Storage.__init__ and Storage._create_schema): the *)
(* data file of an older release is renamed together with its write-ahead  *)
(* log, an anchors table without the column vout is rebuilt, the schema    *)
(* version and the node_instance_id are written.                           *)
(*                                                                         *)
(* Python's sqlite3 opens no transaction for ALTER, CREATE and DROP, and   *)
(* executescript commits before it starts, so each of these statements is  *)
(* durable on its own: the process may stop between any two of them, and   *)
(* another process on the same directory (the server and a command of the  *)
(* command line) may run its statements in between.  A statement that      *)
(* cannot be executed raises and ends the start.                           *)
(*                                                                         *)
(* A row of the anchors table is reduced to its key, txid and vout: the    *)
(* name of an anchor.  The table of an older release has no column vout;   *)
(* its rows are those at output 0.                                         *)
(***************************************************************************)
EXTENDS Integers, FiniteSets

CONSTANTS
    Processes,  \* processes that open the directory
    OldRows,    \* rows of the anchors table that was left
    LateRows,   \* those of them that are only in the write-ahead log
    NewRows,    \* rows this release may add
    MaxStops    \* bound: crashes of a process

Versions == 2 .. 5     \* schema versions a database may carry
Current == 4           \* SCHEMA_VERSION
Supported == {2, 3, Current}

ASSUME StartAssumption ==
    /\ OldRows \subseteq [tx : STRING, vout : Nat]
    /\ NewRows \subseteq [tx : STRING, vout : Nat]
    /\ IsFiniteSet(OldRows) /\ IsFiniteSet(NewRows)
    /\ LateRows \subseteq OldRows
    /\ MaxStops \in Nat

VARIABLES
    name,       \* the name of the data file: "none", "legacy" or "hap"
    wal,        \* the log with LateRows: "none", "legacy", "hap" or "stranded"
    version,    \* metadata schema_version, 0 if there is none
    nodeId,     \* metadata node_instance_id, 0 if there is none
    anchors,    \* table anchors
    pre,        \* table anchors_pre_v4
    proc,       \* the processes
    stops,      \* crashes so far
    disturbed,  \* history: a start was cut short after it had changed something
    overlapped, \* history: a start began before another had ended
    torn,       \* history: a log was moved to a file opened without it
    committed   \* history: the rows that were ever committed

db == <<version, nodeId, anchors, pre>>
history == <<disturbed, overlapped, torn, committed>>
startVars == <<name, wal, version, nodeId, anchors, pre, proc, stops,
               disturbed, overlapped, torn, committed>>

\* A table: whether it exists, whether it has the column vout, its rows.
Table(vout, rows) == [exists |-> TRUE, vout |-> vout, rows |-> rows]
NoTable == [exists |-> FALSE, vout |-> FALSE, rows |-> {}]

\* The transactions of a set of rows.
Txs(rows) == {r.tx : r \in rows}

PC == {"idle", "sidecar", "create", "version", "columns", "rename", "build",
       "copy", "drop", "index", "finish", "ready"}
Idle == [pc |-> "idle", ver |-> 0]

\* The rows of a database of version v and the table that holds them.
Left(v) == IF v >= Current THEN OldRows ELSE {r \in OldRows : r.vout = 0}
OldTable(v) == Table(v >= Current, Left(v))

\* A fresh directory, or a database of an older, of this or of a newer release.
StartInit ==
    /\ proc = [p \in Processes |-> Idle]
    /\ stops = 0
    /\ disturbed = FALSE /\ overlapped = FALSE /\ torn = FALSE
    /\ pre = NoTable
    /\ \/ /\ name = "none" /\ wal = "none" /\ version = 0 /\ nodeId = 0
          /\ anchors = NoTable
          /\ committed = {}
       \/ /\ name \in {"legacy", "hap"} /\ wal \in {"none", name}
          /\ version \in Versions
          /\ nodeId \in IF version < Current THEN {0, 1} ELSE {1}
          /\ anchors = OldTable(version)
          /\ committed = Left(version)

----------------------------------------------------------------------------
Set(p, pc) == proc' = [proc EXCEPT ![p].pc = pc]

\* The exception leaves __init__; nothing of the statement is kept.
Raise(p) ==
    /\ proc' = [proc EXCEPT ![p] = Idle]
    /\ disturbed' = (disturbed \/ proc[p].pc \in {"build", "copy", "drop"})
    /\ UNCHANGED <<name, wal, db, stops, overlapped, torn, committed>>

\* A statement with the effect A, or an exception if it cannot be executed.
Statement(p, possible, A) ==
    \/ possible /\ A /\ UNCHANGED <<name, wal, stops, history>>
    \/ ~possible /\ Raise(p)

\* The data file of an older release takes its present name.  A process that
\* sees the old name no more has nothing to rename.
Begin(p) ==
    /\ proc[p].pc = "idle"
    /\ Set(p, IF name = "legacy" THEN "sidecar" ELSE "create")
    /\ name' = "hap"
    /\ overlapped' = (overlapped \/ \E q \in Processes \ {p} :
                                        proc[q].pc \notin {"idle", "ready"})
    /\ UNCHANGED <<wal, db, stops, disturbed, torn, committed>>

\* Slip: only the data file is renamed.
MoveNoSidecar(p) ==
    /\ proc[p].pc = "sidecar"
    /\ Set(p, "create")
    /\ UNCHANGED <<name, wal, db, stops, history>>

\* The log follows.  If another process has opened the file in the meantime,
\* the log replaces the one of that process: SQLite leaves open whether it is
\* ignored or the pages of the old database come back.
MoveSidecar(p) ==
    /\ proc[p].pc = "sidecar"
    /\ Set(p, "create")
    /\ \/ /\ wal # "stranded"
          /\ wal' = IF wal = "legacy" THEN "hap" ELSE wal
          /\ UNCHANGED <<db, torn>>
       \/ /\ wal = "stranded"
          /\ wal' = "none" /\ torn' = TRUE
          /\ \/ UNCHANGED db
             \/ /\ version' \in Versions
                /\ nodeId' \in {0, nodeId}
                /\ anchors' = OldTable(version')
                /\ pre' = NoTable
    /\ UNCHANGED <<name, stops, disturbed, overlapped, committed>>

\* The connection is opened and sees the log if it lies beside the file; then
\* the tables that do not exist are created.
CreateTables(p) ==
    /\ proc[p].pc = "create"
    /\ Set(p, "version")
    /\ wal' = IF wal = "legacy" THEN "stranded" ELSE IF wal = "hap" THEN "none" ELSE wal
    /\ anchors' = IF ~anchors.exists THEN Table(TRUE, {})
                  ELSE IF wal = "legacy" THEN [anchors EXCEPT !.rows = @ \ LateRows]
                  ELSE anchors
    /\ UNCHANGED <<name, version, nodeId, pre, stops, history>>

\* Slip: the version is stamped as soon as it is known to be supported.
ReadVersionStamps(p) ==
    /\ proc[p].pc = "version"
    /\ Statement(p, version \in Supported \cup {0},
         /\ proc' = [proc EXCEPT ![p] = [pc |-> "columns", ver |-> version]]
         /\ version' = Current
         /\ UNCHANGED <<nodeId, anchors, pre>>)

\* SELECT schema_version: unknown versions raise.
ReadVersion(p) ==
    /\ proc[p].pc = "version"
    /\ Statement(p, version \in Supported \cup {0},
         /\ proc' = [proc EXCEPT ![p] = [pc |-> "columns", ver |-> version]]
         /\ UNCHANGED db)

\* PRAGMA table_info(anchors)
ReadColumns(p) ==
    /\ proc[p].pc = "columns"
    /\ Set(p, IF anchors.vout THEN "finish" ELSE "rename")
    /\ UNCHANGED <<name, wal, db, stops, history>>

\* ALTER TABLE anchors RENAME TO anchors_pre_v4
RenameTable(p) ==
    /\ proc[p].pc = "rename"
    /\ Statement(p, anchors.exists /\ ~pre.exists,
         /\ Set(p, "build")
         /\ pre' = anchors
         /\ anchors' = NoTable
         /\ UNCHANGED <<version, nodeId>>)

\* CREATE TABLE anchors
BuildTable(p) ==
    /\ proc[p].pc = "build"
    /\ Statement(p, ~anchors.exists,
         /\ Set(p, "copy")
         /\ anchors' = Table(TRUE, {})
         /\ UNCHANGED <<version, nodeId, pre>>)

\* Slip: the old table is dropped before its rows are copied.
CopyAfterDrop(p) ==
    /\ proc[p].pc = "copy"
    /\ Statement(p, pre.exists,
         /\ Set(p, "index")
         /\ pre' = NoTable
         /\ UNCHANGED <<version, nodeId, anchors>>)

\* INSERT INTO anchors SELECT ... 0 ... FROM anchors_pre_v4.  The numbers
\* ingest_seq start at 1 in both tables, so rows in the new table collide with
\* those that are copied; so do two rows of one transaction, both now at 0.
CopyRows(p) ==
    /\ proc[p].pc = "copy"
    /\ Statement(p, /\ anchors.exists /\ pre.exists
                    /\ anchors.rows = {} \/ pre.rows = {}
                    /\ \A r, s \in pre.rows : r.tx = s.tx => r = s,
         /\ Set(p, "drop")
         /\ anchors' = [anchors EXCEPT !.rows =
                          @ \cup {[tx |-> r.tx, vout |-> 0] : r \in pre.rows}]
         /\ UNCHANGED <<version, nodeId, pre>>)

\* DROP TABLE anchors_pre_v4
DropTable(p) ==
    /\ proc[p].pc = "drop"
    /\ Statement(p, pre.exists,
         /\ Set(p, "index")
         /\ pre' = NoTable
         /\ UNCHANGED <<version, nodeId, anchors>>)

\* CREATE INDEX idx_anchors_batch, which raises if another process that is
\* starting has created it.
BuildIndex(p) ==
    /\ proc[p].pc = "index"
    /\ \/ /\ Set(p, "finish")
          /\ UNCHANGED <<name, wal, db, stops, history>>
       \/ /\ \E q \in Processes \ {p} : proc[q].pc # "idle"
          /\ Raise(p)

\* Slip: every start gives the node a new node_instance_id.
FinishRenames(p) ==
    /\ proc[p].pc = "finish"
    /\ Statement(p, proc[p].ver = 0 => version = 0,
         /\ Set(p, "ready")
         /\ version' = Current
         /\ nodeId' = nodeId + 1
         /\ UNCHANGED <<anchors, pre>>)

\* schema_version and node_instance_id, in one transaction.  A version that
\* was missing is inserted, which fails if another process was faster.
Finish(p) ==
    /\ proc[p].pc = "finish"
    /\ Statement(p, proc[p].ver = 0 => version = 0,
         /\ Set(p, "ready")
         /\ version' = Current
         /\ nodeId' = IF nodeId = 0 THEN 1 ELSE nodeId
         /\ UNCHANGED <<anchors, pre>>)

----------------------------------------------------------------------------
\* Storage.add_anchor of a process that runs
AddRow(p, r) ==
    /\ proc[p].pc = "ready"
    /\ anchors.exists /\ r \notin anchors.rows
    /\ anchors' = [anchors EXCEPT !.rows = @ \cup {r}]
    /\ committed' = committed \cup {r}
    /\ UNCHANGED <<name, wal, version, nodeId, pre, proc, stops, disturbed, overlapped, torn>>

\* Storage.close
Close(p) ==
    /\ proc[p].pc = "ready"
    /\ Set(p, "idle")
    /\ UNCHANGED <<name, wal, db, stops, history>>

\* The process stops between two statements.
Stop(p) ==
    /\ stops < MaxStops
    /\ proc[p].pc # "idle"
    /\ stops' = stops + 1
    /\ proc' = [proc EXCEPT ![p] = Idle]
    /\ disturbed' = (disturbed \/ proc[p].pc \in {"sidecar", "build", "copy", "drop"})
    /\ UNCHANGED <<name, wal, db, overlapped, torn, committed>>

StartStep(p) ==
    \/ Begin(p) \/ MoveSidecar(p) \/ CreateTables(p) \/ ReadVersion(p)
    \/ ReadColumns(p) \/ RenameTable(p) \/ BuildTable(p) \/ CopyRows(p)
    \/ DropTable(p) \/ BuildIndex(p) \/ Finish(p) \/ Close(p) \/ Stop(p)

StartNext ==
    \E p \in Processes : StartStep(p) \/ \E r \in NewRows : AddRow(p, r)

StartSpec == StartInit /\ [][StartNext]_startVars

----------------------------------------------------------------------------
\* Properties

(***************************************************************************)
(* The metadata, the two tables and the processes that open them keep      *)
(* their shape; a node that has a node_instance_id (1) keeps that one.     *)
(***************************************************************************)
TypeOK ==
    /\ name \in {"none", "legacy", "hap"}
    /\ wal \in {"none", "legacy", "hap", "stranded"}
    /\ version \in {0} \cup Versions
    /\ nodeId \in {0, 1}
    /\ anchors \in [exists : BOOLEAN, vout : BOOLEAN, rows : SUBSET [tx : STRING, vout : Nat]]
    /\ pre \in [exists : BOOLEAN, vout : BOOLEAN, rows : SUBSET [tx : STRING, vout : Nat]]
    /\ proc \in [Processes -> [pc : PC, ver : {0} \cup Versions]]
    /\ stops \in 0 .. MaxStops
    /\ disturbed \in BOOLEAN /\ overlapped \in BOOLEAN /\ torn \in BOOLEAN
    /\ committed \subseteq [tx : STRING, vout : Nat]

(***************************************************************************)
(* The upgrade destroys no anchoring transaction: wherever processes stop  *)
(* and however their statements interleave, every transaction that was     *)
(* ever recorded is in the table, in anchors_pre_v4, or in a log that was  *)
(* left behind under the old name.  (anchors_pre_v4 acts as a lock: while  *)
(* it exists nobody can rename a table to it.)  It holds as long as no log *)
(* was moved to a file that another process had opened without it.  It is  *)
(* about transactions and not about their outputs: of two overlapping      *)
(* starts the later one may rebuild the table of the new shape, and the    *)
(* copy sets vout to 0 in rows that had another one.                       *)
(***************************************************************************)
NothingDestroyed ==
    ~torn => Txs(committed) \subseteq
                Txs(anchors.rows) \cup Txs(pre.rows)
                  \cup (IF wal = "stranded" THEN Txs(LateRows) ELSE {})

(***************************************************************************)
(* As long as no start was cut short after it had renamed something (and   *)
(* no log moved to a file in use), a node that runs sees every transaction *)
(* that was ever recorded; if moreover no two starts overlapped it sees    *)
(* every anchor, transaction and output, as it was recorded.               *)
(***************************************************************************)
CompleteWhenUndisturbed ==
    ~disturbed /\ ~torn
        /\ (\A p \in Processes : proc[p].pc \in {"idle", "ready"})
        /\ (\E p \in Processes : proc[p].pc = "ready")
      => /\ Txs(committed) \subseteq Txs(anchors.rows)
         /\ ~overlapped => committed \subseteq anchors.rows

(***************************************************************************)
(* The version in the metadata never runs ahead of the tables: a database  *)
(* that says 4 has no anchors table of the old shape, so a start that was  *)
(* cut short is never taken for one that is done.  (A log moved to a file  *)
(* in use may bring an old table back.)                                    *)
(***************************************************************************)
VersionFollowsTable ==
    ~torn /\ version = Current /\ anchors.exists => anchors.vout
=============================================================================
