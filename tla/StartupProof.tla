---------------------------- MODULE StartupProof ----------------------------
(***************************************************************************)
(* Opening the database is correct for any number of processes, any tables *)
(* and any number of crashes.                                              *)
(*                                                                         *)
(* The argument: the table anchors_pre_v4 is a lock.  A process that has   *)
(* renamed the old table to it is the only one between the rename and the  *)
(* drop, and it drops the table only after its rows have been copied.      *)
(* The file and its log are renamed by one process; if another one opens   *)
(* the file in between, the log that follows it is torn from its database, *)
(* and from then on only the type invariant is claimed.                    *)
(***************************************************************************)
EXTENDS Startup, TLAPS

Rows == [tx : STRING, vout : Nat]
Tables == [exists : BOOLEAN, vout : BOOLEAN, rows : SUBSET Rows]

\* A process between the rename of the old table and its drop.
Holds(p) == proc[p].pc \in {"build", "copy", "drop"}

\* A table that does not exist has no rows.
AbsentEmpty ==
    /\ ~anchors.exists => anchors.rows = {}
    /\ ~pre.exists => pre.rows = {}

\* One process at a time rebuilds, and anchors_pre_v4 exists meanwhile.
Lock ==
    /\ \A p \in Processes : Holds(p) => pre.exists
    /\ \A p, q \in Processes : Holds(p) /\ Holds(q) => p = q

\* The rows are copied before the drop.
Copied ==
    \A p \in Processes : proc[p].pc = "drop" => Txs(pre.rows) \subseteq Txs(anchors.rows)

\* A process that is past the rebuild leaves no table of the old shape.
NewShape ==
    \A p \in Processes : proc[p].pc \in {"copy", "drop", "index", "finish"}
        => (anchors.exists => anchors.vout)

\* The log lies under the old name only before a connection is opened.
LogUnread ==
    wal = "legacy" =>
        \A p \in Processes : proc[p].pc \in {"idle", "sidecar", "create"}

\* The files are renamed by one process.
Alone ==
    /\ name # "hap" => \A p \in Processes : proc[p].pc = "idle"
    /\ \A p, q \in Processes : proc[p].pc = "sidecar" /\ proc[q].pc = "sidecar" => p = q

\* What a start that nobody cut short leaves: no lock, no stranded log.
Tidy ==
    ~disturbed =>
      /\ pre.exists => \E p \in Processes : Holds(p)
      /\ wal \in {"legacy", "stranded"} =>
            \/ name = "legacy"
            \/ \E p \in Processes : proc[p].pc = "sidecar"

\* What starts that follow each other leave: a table of the new shape for
\* every process that runs, rows at output 0 in those of the old shape, and
\* every row as it was recorded.
Starting(p) == proc[p].pc \notin {"idle", "ready"}
Single ==
    ~disturbed /\ ~overlapped =>
      /\ \A p, q \in Processes : Starting(p) /\ Starting(q) => p = q
      /\ \A p \in Processes :
            /\ proc[p].pc = "ready" => anchors.exists /\ anchors.vout
            /\ proc[p].pc = "rename" => ~anchors.vout
            /\ Starting(p) /\ proc[p].pc \notin {"sidecar", "create", "build"}
                 => anchors.exists
            /\ proc[p].pc = "drop" => pre.rows \subseteq anchors.rows
      /\ \A row \in pre.rows : row.vout = 0
      /\ ~anchors.vout => \A row \in anchors.rows : row.vout = 0
      /\ wal # "stranded"
      /\ committed \subseteq anchors.rows \cup pre.rows

Inv == /\ AbsentEmpty /\ Lock /\ Copied /\ NewShape /\ LogUnread
       /\ Alone /\ Tidy /\ NothingDestroyed /\ VersionFollowsTable /\ Single

\* The tables the statements make.
LEMMA TableTypes ==
  /\ NoTable \in Tables
  /\ \A b \in BOOLEAN, rows \in SUBSET Rows : Table(b, rows) \in Tables
BY DEF NoTable, Table, Tables

\* The type invariant is inductive by itself.
LEMMA TypePreserved ==
  TypeOK /\ [StartNext]_startVars => TypeOK'
<1> SUFFICES ASSUME TypeOK, [StartNext]_startVars PROVE TypeOK'
  OBVIOUS
<1>0. proc \in [Processes -> [pc : PC, ver : {0} \cup Versions]]
  BY DEF TypeOK
<1>a. NoTable \in Tables /\ Table(TRUE, {}) \in Tables
  BY TableTypes, {} \in SUBSET Rows
<1>b. ASSUME NEW v \in Versions PROVE OldTable(v) \in Tables
  <2>1. Left(v) \in SUBSET Rows
    BY StartAssumption DEF Left, Rows
  <2>2. (v >= Current) \in BOOLEAN
    OBVIOUS
  <2> QED
    BY <2>1, <2>2, TableTypes, Zenon DEF OldTable
<1>u. CASE UNCHANGED startVars
  BY <1>u DEF TypeOK, startVars
<1>1. ASSUME NEW p \in Processes, Raise(p) PROVE TypeOK'
  BY <1>0, <1>1, StartAssumption DEF TypeOK, PC, Versions, Current, Raise, Idle, db, history
<1>2. ASSUME NEW p \in Processes, Begin(p) PROVE TypeOK'
  BY <1>0, <1>2, StartAssumption DEF TypeOK, PC, Versions, Current, Begin, Set, db, history
<1>3. ASSUME NEW p \in Processes, MoveSidecar(p) PROVE TypeOK'
  <2>1. proc' = [proc EXCEPT ![p].pc = "create"] /\ UNCHANGED <<name, stops, disturbed, overlapped, committed>>
    BY <1>3 DEF MoveSidecar, Set
  <2>2. /\ wal' \in {"none", "legacy", "hap", "stranded"} /\ torn' \in BOOLEAN
        /\ version' \in {0} \cup Versions /\ nodeId' \in {0, 1}
    BY <1>3 DEF TypeOK, MoveSidecar, db
  <2>3. anchors' \in Tables /\ pre' \in Tables
    <3>1. CASE UNCHANGED db
      BY <3>1 DEF TypeOK, Tables, Rows, db
    <3>2. CASE version' \in Versions /\ anchors' = OldTable(version') /\ pre' = NoTable
      BY <3>2, <1>a, <1>b
    <3> QED
      BY <1>3, <3>1, <3>2 DEF MoveSidecar
  <2>4. proc' \in [Processes -> [pc : PC, ver : {0} \cup Versions]]
    BY <1>0, <2>1 DEF PC
  <2> QED
    BY <2>1, <2>2, <2>3, <2>4, Zenon DEF TypeOK, Tables, Rows
<1>4. ASSUME NEW p \in Processes, CreateTables(p) PROVE TypeOK'
  BY <1>0, <1>4, StartAssumption DEF TypeOK, PC, Versions, Current, CreateTables, Set, db, history, Table
<1>5. ASSUME NEW p \in Processes, ReadVersion(p), ~Raise(p) PROVE TypeOK'
  BY <1>0, <1>5, StartAssumption DEF TypeOK, PC, Versions, Current, ReadVersion, Set, db, history, Statement
<1>6. ASSUME NEW p \in Processes, ReadColumns(p) PROVE TypeOK'
  BY <1>0, <1>6, StartAssumption DEF TypeOK, PC, Versions, Current, ReadColumns, Set, db, history
<1>7. ASSUME NEW p \in Processes, RenameTable(p), ~Raise(p) PROVE TypeOK'
  BY <1>0, <1>7, StartAssumption, <1>a, SMTT(30) DEF TypeOK, PC, Versions, Current, Tables, Rows, RenameTable, Set, db, history, Statement
<1>8. ASSUME NEW p \in Processes, BuildTable(p), ~Raise(p) PROVE TypeOK'
  <2>1. anchors' = Table(TRUE, {}) /\ UNCHANGED <<name, wal, version, nodeId, pre, stops, disturbed, overlapped, torn, committed>>
        /\ proc' = [proc EXCEPT ![p].pc = "copy"]
    BY <1>8 DEF BuildTable, Statement, Set, history
  <2>2. proc' \in [Processes -> [pc : PC, ver : {0} \cup Versions]]
    BY <1>0, <2>1 DEF PC
  <2>3. anchors' \in [exists : BOOLEAN, vout : BOOLEAN, rows : SUBSET [tx : STRING, vout : Nat]]
    BY <1>a, <2>1 DEF Tables, Rows
  <2> QED
    BY <2>1, <2>2, <2>3, Zenon DEF TypeOK
<1>9. ASSUME NEW p \in Processes, CopyRows(p), ~Raise(p) PROVE TypeOK'
  <2> DEFINE new == anchors.rows \cup {[tx |-> row.tx, vout |-> 0] : row \in pre.rows}
  <2>1. /\ anchors \in Tables /\ pre \in Tables
        /\ proc' = [proc EXCEPT ![p].pc = "drop"]
        /\ anchors' = [anchors EXCEPT !.rows = new]
        /\ UNCHANGED <<name, wal, version, nodeId, pre, stops, disturbed, overlapped, torn, committed>>
    BY <1>9 DEF TypeOK, Tables, Rows, CopyRows, Statement, Set, history
  <2>2. new \subseteq Rows
    BY <2>1 DEF Tables, Rows
  <2> HIDE DEF new
  <2>3. anchors' \in Tables
    BY <2>1, <2>2 DEF Tables
  <2> QED
    BY <1>0, <2>1, <2>3 DEF TypeOK, PC, Versions, Current, Tables, Rows
<1>10. ASSUME NEW p \in Processes, DropTable(p), ~Raise(p) PROVE TypeOK'
  BY <1>0, <1>10, StartAssumption, <1>a DEF TypeOK, PC, Versions, Current, Tables, Rows, DropTable, Set, db, history, Statement
<1>11. ASSUME NEW p \in Processes, BuildIndex(p), ~Raise(p) PROVE TypeOK'
  BY <1>0, <1>11, StartAssumption DEF TypeOK, PC, Versions, Current, BuildIndex, Set, db, history
<1>12. ASSUME NEW p \in Processes, Finish(p), ~Raise(p) PROVE TypeOK'
  BY <1>0, <1>12, StartAssumption DEF TypeOK, PC, Versions, Current, Finish, Set, db, history, Statement
<1>13. ASSUME NEW p \in Processes, Close(p) PROVE TypeOK'
  BY <1>0, <1>13, StartAssumption DEF TypeOK, PC, Versions, Current, Close, Set, db, history
<1>14. ASSUME NEW p \in Processes, Stop(p) PROVE TypeOK'
  BY <1>0, <1>14, StartAssumption DEF TypeOK, PC, Versions, Current, Stop, Set, db, history, Idle
<1>15. ASSUME NEW p \in Processes, NEW r \in NewRows, AddRow(p, r) PROVE TypeOK'
  BY <1>0, <1>15, StartAssumption DEF TypeOK, PC, Versions, Current, AddRow
<1> QED
  BY <1>u, <1>1, <1>2, <1>3, <1>4, <1>5, <1>6, <1>7, <1>8, <1>9, <1>10, <1>11, <1>12, <1>13, <1>14, <1>15 DEF StartNext, StartStep

\* The invariant holds initially.
LEMMA Initially ==
  StartInit => TypeOK /\ Inv
<1> SUFFICES ASSUME StartInit PROVE TypeOK /\ Inv
  OBVIOUS
<1>a. anchors \in Tables /\ pre \in Tables
  <2>1. Left(version) \in SUBSET Rows
    BY StartAssumption DEF Rows, Left
  <2>2. (version >= Current) \in BOOLEAN
    OBVIOUS
  <2>3. OldTable(version) \in Tables
    BY <2>1, <2>2, TableTypes, Zenon DEF OldTable
  <2> QED
    BY <2>3, TableTypes, Zenon DEF StartInit
<1>1. TypeOK
  <2>1. version \in {0} \cup Versions
    BY DEF StartInit
  <2>2. nodeId \in {0, 1}
    BY DEF StartInit
  <2>3. proc \in [Processes -> [pc : PC, ver : {0} \cup Versions]]
    BY DEF StartInit, Idle, PC
  <2>4. committed \subseteq [tx : STRING, vout : Nat]
    BY StartAssumption DEF StartInit, Left
  <2>5. /\ name \in {"none", "legacy", "hap"}
        /\ wal \in {"none", "legacy", "hap", "stranded"}
    BY DEF StartInit
  <2>6. stops \in 0 .. MaxStops
    BY StartAssumption DEF StartInit
  <2>7. disturbed \in BOOLEAN /\ overlapped \in BOOLEAN /\ torn \in BOOLEAN
    BY DEF StartInit
  <2> QED
    BY <1>a, <2>1, <2>2, <2>3, <2>4, <2>5, <2>6, <2>7, Zenon DEF TypeOK, Tables, Rows
<1>2. AbsentEmpty
  BY DEF StartInit, AbsentEmpty, Table, NoTable, OldTable
<1>3. Lock
  BY DEF StartInit, Holds, Idle, Lock, Table, NoTable, OldTable
<1>4. Copied
  BY DEF StartInit, Idle, Copied
<1>5. NewShape
  BY DEF StartInit, Idle, NewShape
<1>6. LogUnread
  BY DEF StartInit, Idle, LogUnread
<1>7. Alone
  BY DEF StartInit, Idle, Alone
<1>8. Tidy
  BY DEF StartInit, Tidy, Table, NoTable, OldTable
<1>9. NothingDestroyed
  BY DEF StartInit, NothingDestroyed, Txs, Table, NoTable, OldTable
<1>10. VersionFollowsTable
  <2> SUFFICES ASSUME version = Current, anchors.exists PROVE anchors.vout
    BY DEF VersionFollowsTable
  <2>1. anchors = Table(version >= Current, Left(version))
    BY DEF StartInit, NoTable, OldTable
  <2>2. (version >= Current) = TRUE
    BY DEF Current
  <2>3. anchors = Table(TRUE, Left(version))
    BY <2>1, <2>2, Zenon
  <2> QED
    BY <2>3 DEF Table
<1>11. Single
  <2>1. \A p \in Processes : proc[p].pc = "idle"
    BY DEF StartInit, Idle
  <2>2. pre.rows = {} /\ committed \subseteq anchors.rows /\ wal # "stranded"
    BY DEF StartInit, OldTable, Table, NoTable
  <2>3. ASSUME ~anchors.vout, NEW row \in anchors.rows PROVE row.vout = 0
    <3>1. version \in Versions /\ anchors = Table(version >= Current, Left(version))
      BY <2>3 DEF StartInit, NoTable, OldTable
    <3>2. anchors.vout = (version >= Current) /\ anchors.rows = Left(version)
      BY <3>1, Zenon DEF Table
    <3>3. ~(version >= Current)
      BY <3>2, <2>3, Zenon
    <3> QED
      BY <3>2, <3>3, <2>3 DEF Left
  <2> QED
    BY <2>1, <2>2, <2>3 DEF Single, Starting
<1> QED
  BY <1>1, <1>2, <1>3, <1>4, <1>5, <1>6, <1>7, <1>8, <1>9, <1>10, <1>11 DEF Inv

\* A statement that cannot be executed leaves the tables as they are.
LEMMA RaiseStep ==
  ASSUME TypeOK, Inv, ~torn, ~torn', NEW p \in Processes, proc[p].pc \notin {"idle", "sidecar"}, Raise(p)
  PROVE  Inv'
<1>0. proc \in [Processes -> [pc : PC, ver : {0} \cup Versions]]
  BY DEF TypeOK
<1>2. AbsentEmpty'
  BY <1>0 DEF Inv, AbsentEmpty, Raise, Idle, db, history
<1>3. Lock'
  BY <1>0 DEF Inv, Lock, Holds, AbsentEmpty, Raise, Idle, db, history
<1>4. Copied'
  BY <1>0 DEF Inv, Copied, Lock, Holds, Txs, Raise, Idle, db, history
<1>5. NewShape'
  BY <1>0 DEF Inv, NewShape, Lock, Holds, Raise, Idle, db, history
<1>6. LogUnread'
  BY <1>0 DEF Inv, LogUnread, Raise, Idle, db, history
<1>7. Alone'
  BY <1>0 DEF Inv, Alone, Raise, Idle, db, history
<1>8. Tidy'
  BY <1>0 DEF Inv, Tidy, Holds, Alone, Lock, LogUnread, Raise, Idle, db, history
<1>9. NothingDestroyed'
  BY <1>0 DEF Inv, NothingDestroyed, Txs, AbsentEmpty, Copied, Raise, Idle, db, history
<1>10. VersionFollowsTable'
  BY <1>0 DEF Inv, VersionFollowsTable, NewShape, AbsentEmpty, Raise, Idle, db, history
<1>11. Single'
  BY <1>0 DEF Inv, Single, Starting, Holds, Lock, Alone, Tidy, NewShape, AbsentEmpty, Raise, Idle, db, history
<1> QED
  BY <1>2, <1>3, <1>4, <1>5, <1>6, <1>7, <1>8, <1>9, <1>10, <1>11 DEF Inv

\* Begin preserves the invariant.
LEMMA BeginStep ==
  ASSUME TypeOK, Inv, ~torn, ~torn', NEW p \in Processes, Begin(p)
  PROVE  Inv'
<1>0. proc \in [Processes -> [pc : PC, ver : {0} \cup Versions]]
  BY DEF TypeOK
<1>2. AbsentEmpty'
  BY <1>0 DEF Inv, AbsentEmpty, Begin, Set, db, history
<1>3. Lock'
  BY <1>0 DEF Inv, Lock, Holds, AbsentEmpty, Begin, Set, db, history
<1>4. Copied'
  BY <1>0 DEF Inv, Copied, Lock, Holds, Txs, Begin, Set, db, history
<1>5. NewShape'
  BY <1>0 DEF Inv, NewShape, Lock, Holds, Begin, Set, db, history
<1>6. LogUnread'
  BY <1>0 DEF Inv, LogUnread, Begin, Set, db, history
<1>7. Alone'
  BY <1>0 DEF Inv, Alone, Begin, Set, db, history
<1>8. Tidy'
  BY <1>0 DEF Inv, Tidy, Holds, Alone, Lock, LogUnread, Begin, Set, db, history
<1>9. NothingDestroyed'
  BY <1>0 DEF Inv, NothingDestroyed, Txs, AbsentEmpty, Copied, Begin, Set, db, history
<1>10. VersionFollowsTable'
  BY <1>0 DEF Inv, VersionFollowsTable, NewShape, AbsentEmpty, Begin, Set, db, history
<1>11. Single'
  <2> SUFFICES ASSUME ~disturbed, ~overlapped'
               PROVE  /\ \A x, y \in Processes : Starting(x)' /\ Starting(y)' => x = y
                      /\ \A x \in Processes : proc'[x].pc = proc[x].pc
                                              \/ proc'[x].pc \in {"sidecar", "create"}
    BY DEF Inv, Single, Starting, Begin, db
  <2>1. \A q \in Processes \ {p} : proc[q].pc \in {"idle", "ready"} /\ proc'[q] = proc[q]
    BY <1>0 DEF Begin, Set
  <2>2. proc'[p].pc \in {"sidecar", "create"}
    BY <1>0 DEF Begin, Set
  <2> QED
    BY <2>1, <2>2 DEF Starting
<1> QED
  BY <1>2, <1>3, <1>4, <1>5, <1>6, <1>7, <1>8, <1>9, <1>10, <1>11 DEF Inv

\* MoveSidecar preserves the invariant.
LEMMA MoveStep ==
  ASSUME TypeOK, Inv, ~torn, ~torn', NEW p \in Processes, MoveSidecar(p)
  PROVE  Inv'
<1>0. proc \in [Processes -> [pc : PC, ver : {0} \cup Versions]]
  BY DEF TypeOK
<1>2. AbsentEmpty'
  BY <1>0 DEF Inv, AbsentEmpty, MoveSidecar, Set, db, history
<1>3. Lock'
  BY <1>0 DEF Inv, Lock, Holds, AbsentEmpty, MoveSidecar, Set, db, history
<1>4. Copied'
  BY <1>0 DEF Inv, Copied, Lock, Holds, Txs, MoveSidecar, Set, db, history
<1>5. NewShape'
  BY <1>0 DEF Inv, NewShape, Lock, Holds, MoveSidecar, Set, db, history
<1>6. LogUnread'
  BY <1>0 DEF Inv, LogUnread, MoveSidecar, Set, db, history
<1>7. Alone'
  BY <1>0 DEF Inv, Alone, MoveSidecar, Set, db, history
<1>8. Tidy'
  BY <1>0 DEF Inv, Tidy, Holds, Alone, Lock, LogUnread, MoveSidecar, Set, db, history
<1>9. NothingDestroyed'
  BY <1>0 DEF Inv, NothingDestroyed, Txs, AbsentEmpty, Copied, MoveSidecar, Set, db, history
<1>10. VersionFollowsTable'
  BY <1>0 DEF Inv, VersionFollowsTable, NewShape, AbsentEmpty, MoveSidecar, Set, db, history
<1>11. Single'
  BY <1>0 DEF Inv, Single, Starting, Holds, Lock, Alone, Tidy, NewShape, AbsentEmpty, MoveSidecar, Set, db, history
<1> QED
  BY <1>2, <1>3, <1>4, <1>5, <1>6, <1>7, <1>8, <1>9, <1>10, <1>11 DEF Inv

\* CreateTables preserves the invariant.
LEMMA CreateStep ==
  ASSUME TypeOK, Inv, ~torn, ~torn', NEW p \in Processes, CreateTables(p)
  PROVE  Inv'
<1>0. proc \in [Processes -> [pc : PC, ver : {0} \cup Versions]]
  BY DEF TypeOK
<1>2. AbsentEmpty'
  BY <1>0 DEF Inv, AbsentEmpty, CreateTables, Set, db, history, Table
<1>3. Lock'
  BY <1>0 DEF Inv, Lock, Holds, AbsentEmpty, CreateTables, Set, db, history, Table
<1>4. Copied'
  BY <1>0 DEF Inv, Copied, Lock, Holds, AbsentEmpty, LogUnread, CreateTables, Set, db, history, Table
<1>5. NewShape'
  BY <1>0 DEF Inv, NewShape, Lock, Holds, CreateTables, Set, db, history, Table
<1>6. LogUnread'
  BY <1>0 DEF Inv, LogUnread, CreateTables, Set, db, history, Table
<1>7. Alone'
  BY <1>0 DEF Inv, Alone, CreateTables, Set, db, history, Table
<1>8. Tidy'
  BY <1>0 DEF Inv, Tidy, Holds, Alone, Lock, LogUnread, CreateTables, Set, db, history, Table
<1>9. NothingDestroyed'
  BY <1>0 DEF Inv, NothingDestroyed, Txs, AbsentEmpty, Copied, CreateTables, Set, db, history, Table
<1>10. VersionFollowsTable'
  BY <1>0 DEF Inv, VersionFollowsTable, NewShape, AbsentEmpty, CreateTables, Set, db, history, Table
<1>11. Single'
  BY <1>0 DEF Inv, Single, Starting, Holds, Lock, Alone, Tidy, NewShape, AbsentEmpty, CreateTables, Set, db, history, Table
<1> QED
  BY <1>2, <1>3, <1>4, <1>5, <1>6, <1>7, <1>8, <1>9, <1>10, <1>11 DEF Inv

\* ReadVersion preserves the invariant.
LEMMA VersionStep ==
  ASSUME TypeOK, Inv, ~torn, ~torn', NEW p \in Processes, ReadVersion(p), ~Raise(p)
  PROVE  Inv'
<1>0. proc \in [Processes -> [pc : PC, ver : {0} \cup Versions]]
  BY DEF TypeOK
<1>2. AbsentEmpty'
  BY <1>0 DEF Inv, AbsentEmpty, ReadVersion, Set, db, history, Statement
<1>3. Lock'
  BY <1>0 DEF Inv, Lock, Holds, AbsentEmpty, ReadVersion, Set, db, history, Statement
<1>4. Copied'
  BY <1>0 DEF Inv, Copied, Lock, Holds, ReadVersion, Set, db, history, Statement
<1>5. NewShape'
  BY <1>0 DEF Inv, NewShape, Lock, Holds, ReadVersion, Set, db, history, Statement
<1>6. LogUnread'
  BY <1>0 DEF Inv, LogUnread, ReadVersion, Set, db, history, Statement
<1>7. Alone'
  BY <1>0 DEF Inv, Alone, ReadVersion, Set, db, history, Statement
<1>8. Tidy'
  BY <1>0 DEF Inv, Tidy, Holds, Alone, Lock, LogUnread, ReadVersion, Set, db, history, Statement
<1>9. NothingDestroyed'
  BY <1>0 DEF Inv, NothingDestroyed, Txs, AbsentEmpty, Copied, ReadVersion, Set, db, history, Statement
<1>10. VersionFollowsTable'
  BY <1>0 DEF Inv, VersionFollowsTable, NewShape, AbsentEmpty, ReadVersion, Set, db, history, Statement
<1>11. Single'
  BY <1>0 DEF Inv, Single, Starting, Holds, Lock, Alone, Tidy, NewShape, AbsentEmpty, ReadVersion, Set, db, history, Statement
<1> QED
  BY <1>2, <1>3, <1>4, <1>5, <1>6, <1>7, <1>8, <1>9, <1>10, <1>11 DEF Inv

\* ReadColumns preserves the invariant.
LEMMA ColumnsStep ==
  ASSUME TypeOK, Inv, ~torn, ~torn', NEW p \in Processes, ReadColumns(p)
  PROVE  Inv'
<1>0. proc \in [Processes -> [pc : PC, ver : {0} \cup Versions]]
  BY DEF TypeOK
<1>2. AbsentEmpty'
  BY <1>0 DEF Inv, AbsentEmpty, ReadColumns, Set, db, history
<1>3. Lock'
  BY <1>0 DEF Inv, Lock, Holds, AbsentEmpty, ReadColumns, Set, db, history
<1>4. Copied'
  BY <1>0 DEF Inv, Copied, Lock, Holds, Txs, ReadColumns, Set, db, history
<1>5. NewShape'
  BY <1>0 DEF Inv, NewShape, Lock, Holds, ReadColumns, Set, db, history
<1>6. LogUnread'
  BY <1>0 DEF Inv, LogUnread, ReadColumns, Set, db, history
<1>7. Alone'
  BY <1>0 DEF Inv, Alone, ReadColumns, Set, db, history
<1>8. Tidy'
  BY <1>0 DEF Inv, Tidy, Holds, Alone, Lock, LogUnread, ReadColumns, Set, db, history
<1>9. NothingDestroyed'
  BY <1>0 DEF Inv, NothingDestroyed, Txs, AbsentEmpty, Copied, ReadColumns, Set, db, history
<1>10. VersionFollowsTable'
  BY <1>0 DEF Inv, VersionFollowsTable, NewShape, AbsentEmpty, ReadColumns, Set, db, history
<1>11. Single'
  BY <1>0 DEF Inv, Single, Starting, Holds, Lock, Alone, Tidy, NewShape, AbsentEmpty, ReadColumns, Set, db, history
<1> QED
  BY <1>2, <1>3, <1>4, <1>5, <1>6, <1>7, <1>8, <1>9, <1>10, <1>11 DEF Inv

\* RenameTable preserves the invariant.
LEMMA RenameStep ==
  ASSUME TypeOK, Inv, ~torn, ~torn', NEW p \in Processes, RenameTable(p), ~Raise(p)
  PROVE  Inv'
<1>0. proc \in [Processes -> [pc : PC, ver : {0} \cup Versions]]
  BY DEF TypeOK
<1>a. NoTable \in Tables
  BY TableTypes
<1>2. AbsentEmpty'
  BY <1>0, <1>a DEF Inv, AbsentEmpty, RenameTable, Set, db, history, NoTable, Statement
<1>3. Lock'
  BY <1>0, <1>a DEF Inv, Lock, Holds, AbsentEmpty, RenameTable, Set, db, history, NoTable, Statement
<1>4. Copied'
  BY <1>0, <1>a DEF Inv, Copied, Lock, Holds, Txs, RenameTable, Set, db, history, NoTable, Statement
<1>5. NewShape'
  BY <1>0, <1>a DEF Inv, NewShape, Lock, Holds, RenameTable, Set, db, history, NoTable, Statement
<1>6. LogUnread'
  BY <1>0, <1>a DEF Inv, LogUnread, RenameTable, Set, db, history, NoTable, Statement
<1>7. Alone'
  BY <1>0, <1>a DEF Inv, Alone, RenameTable, Set, db, history, NoTable, Statement
<1>8. Tidy'
  BY <1>0, <1>a DEF Inv, Tidy, Holds, Alone, Lock, LogUnread, RenameTable, Set, db, history, NoTable, Statement
<1>9. NothingDestroyed'
  BY <1>0, <1>a DEF Inv, NothingDestroyed, Txs, AbsentEmpty, Copied, RenameTable, Set, db, history, NoTable, Statement
<1>10. VersionFollowsTable'
  BY <1>0, <1>a DEF Inv, VersionFollowsTable, NewShape, AbsentEmpty, RenameTable, Set, db, history, NoTable, Statement
<1>11. Single'
  BY <1>0, <1>a DEF Inv, Single, Starting, Holds, Lock, Alone, Tidy, NewShape, AbsentEmpty, RenameTable, Set, db, history, NoTable, Statement
<1> QED
  BY <1>2, <1>3, <1>4, <1>5, <1>6, <1>7, <1>8, <1>9, <1>10, <1>11 DEF Inv

\* BuildTable preserves the invariant.
LEMMA BuildStep ==
  ASSUME TypeOK, Inv, ~torn, ~torn', NEW p \in Processes, BuildTable(p), ~Raise(p)
  PROVE  Inv'
<1>0. proc \in [Processes -> [pc : PC, ver : {0} \cup Versions]]
  BY DEF TypeOK
<1>a. Table(TRUE, {}) \in Tables
  BY TableTypes, {} \in SUBSET Rows
<1>b. anchors' = Table(TRUE, {}) /\ UNCHANGED <<name, wal, version, nodeId, pre, stops, disturbed, overlapped, torn, committed>>
      /\ proc' = [proc EXCEPT ![p].pc = "copy"]
  BY DEF BuildTable, Statement, Set, history
<1>2. AbsentEmpty'
  BY <1>0, <1>a DEF Inv, AbsentEmpty, BuildTable, Set, db, history, Table, Statement
<1>3. Lock'
  BY <1>0, <1>a DEF Inv, Lock, Holds, AbsentEmpty, BuildTable, Set, db, history, Table, Statement
<1>4. Copied'
  BY <1>0, <1>a DEF Inv, Copied, Lock, Holds, Txs, BuildTable, Set, db, history, Table, Statement
<1>5. NewShape'
  BY <1>0, <1>a DEF Inv, NewShape, Lock, Holds, BuildTable, Set, db, history, Table, Statement
<1>6. LogUnread'
  BY <1>0, <1>a DEF Inv, LogUnread, BuildTable, Set, db, history, Table, Statement
<1>7. Alone'
  BY <1>0, <1>a DEF Inv, Alone, BuildTable, Set, db, history, Table, Statement
<1>8. Tidy'
  BY <1>0, <1>a DEF Inv, Tidy, Holds, Alone, Lock, LogUnread, BuildTable, Set, db, history, Table, Statement
<1>9. NothingDestroyed'
  BY <1>0, <1>a DEF Inv, NothingDestroyed, Txs, AbsentEmpty, Copied, BuildTable, Set, db, history, Table, Statement
<1>10. VersionFollowsTable'
  BY <1>0, <1>a DEF Inv, VersionFollowsTable, NewShape, AbsentEmpty, BuildTable, Set, db, history, Table, Statement
<1>11. Single'
  BY <1>0, <1>a DEF Inv, Single, Starting, Holds, Lock, Alone, Tidy, NewShape, AbsentEmpty, BuildTable, Set, db, history, Table, Statement
<1> QED
  BY <1>2, <1>3, <1>4, <1>5, <1>6, <1>7, <1>8, <1>9, <1>10, <1>11 DEF Inv

\* CopyRows preserves the invariant.
LEMMA CopyStep ==
  ASSUME TypeOK, Inv, ~torn, ~torn', NEW p \in Processes, CopyRows(p), ~Raise(p)
  PROVE  Inv'
<1>0. proc \in [Processes -> [pc : PC, ver : {0} \cup Versions]]
  BY DEF TypeOK
<1> DEFINE new == anchors.rows \cup {[tx |-> r.tx, vout |-> 0] : r \in pre.rows}
<1>b. /\ anchors \in Tables /\ pre \in Tables
      /\ proc[p].pc = "copy" /\ proc' = [proc EXCEPT ![p].pc = "drop"]
      /\ anchors' = [anchors EXCEPT !.rows = new]
      /\ UNCHANGED <<name, wal, version, nodeId, pre, stops, disturbed, overlapped, torn, committed>>
      /\ anchors.exists /\ pre.exists
  BY DEF TypeOK, Tables, Rows, CopyRows, Statement, Set, history
<1>c. new \subseteq Rows
  BY <1>b DEF Tables, Rows
<1>d. Txs(new) = Txs(anchors.rows) \cup Txs(pre.rows)
  <2>1. ASSUME NEW t \in Txs(new) PROVE t \in Txs(anchors.rows) \cup Txs(pre.rows)
    BY DEF Txs
  <2>2. ASSUME NEW t \in Txs(anchors.rows) PROVE t \in Txs(new)
    BY DEF Txs
  <2>3. ASSUME NEW t \in Txs(pre.rows) PROVE t \in Txs(new)
    <3>1. PICK r \in pre.rows : t = r.tx
      BY DEF Txs
    <3>2. [tx |-> r.tx, vout |-> 0] \in new /\ [tx |-> r.tx, vout |-> 0].tx = t
      BY <3>1
    <3> QED
      BY <3>2 DEF Txs
  <2> QED
    BY <2>1, <2>2, <2>3
<1>e. (\A row \in pre.rows : row.vout = 0) => pre.rows \subseteq new
  <2> SUFFICES ASSUME NEW row \in pre.rows, row.vout = 0 PROVE row \in new
    OBVIOUS
  <2>1. row = [tx |-> row.tx, vout |-> 0]
    BY <1>b DEF Tables, Rows
  <2> QED
    BY <2>1
<1>f. anchors.rows \subseteq new
  OBVIOUS
<1> HIDE DEF new
<1>a. /\ anchors' \in Tables /\ anchors'.rows = new
      /\ anchors'.exists = anchors.exists /\ anchors'.vout = anchors.vout
  BY <1>b, <1>c DEF Tables
<1>2. AbsentEmpty'
  BY <1>0, <1>a, <1>b DEF Inv, AbsentEmpty
<1>3. Lock'
  BY <1>0, <1>a, <1>b DEF Inv, Lock, Holds, AbsentEmpty
<1>4. Copied'
  BY <1>0, <1>a, <1>b, <1>d DEF Inv, Copied, Lock, Holds
<1>5. NewShape'
  BY <1>0, <1>a, <1>b DEF Inv, NewShape, Lock, Holds
<1>6. LogUnread'
  BY <1>0, <1>a, <1>b DEF Inv, LogUnread
<1>7. Alone'
  BY <1>0, <1>a, <1>b DEF Inv, Alone
<1>8. Tidy'
  BY <1>0, <1>a, <1>b DEF Inv, Tidy, Holds, Alone, Lock, LogUnread
<1>9. NothingDestroyed'
  BY <1>a, <1>b, <1>d DEF Inv, NothingDestroyed
<1>10. VersionFollowsTable'
  BY <1>0, <1>a, <1>b DEF Inv, VersionFollowsTable, NewShape, AbsentEmpty
<1>11. Single'
  BY <1>0, <1>a, <1>b, <1>e, <1>f DEF Inv, Single, Starting, NewShape
<1> QED
  BY <1>2, <1>3, <1>4, <1>5, <1>6, <1>7, <1>8, <1>9, <1>10, <1>11 DEF Inv

\* DropTable preserves the invariant.
LEMMA DropStep ==
  ASSUME TypeOK, Inv, ~torn, ~torn', NEW p \in Processes, DropTable(p), ~Raise(p)
  PROVE  Inv'
<1>0. proc \in [Processes -> [pc : PC, ver : {0} \cup Versions]]
  BY DEF TypeOK
<1>a. NoTable \in Tables
  BY TableTypes
<1>2. AbsentEmpty'
  BY <1>0, <1>a DEF Inv, AbsentEmpty, DropTable, Set, db, history, NoTable, Statement
<1>3. Lock'
  BY <1>0, <1>a DEF Inv, Lock, Holds, AbsentEmpty, DropTable, Set, db, history, NoTable, Statement
<1>4. Copied'
  BY <1>0, <1>a DEF Inv, Copied, Lock, Holds, Txs, DropTable, Set, db, history, NoTable, Statement
<1>5. NewShape'
  BY <1>0, <1>a DEF Inv, NewShape, Lock, Holds, DropTable, Set, db, history, NoTable, Statement
<1>6. LogUnread'
  BY <1>0, <1>a DEF Inv, LogUnread, DropTable, Set, db, history, NoTable, Statement
<1>7. Alone'
  BY <1>0, <1>a DEF Inv, Alone, DropTable, Set, db, history, NoTable, Statement
<1>8. Tidy'
  BY <1>0, <1>a DEF Inv, Tidy, Holds, Alone, Lock, LogUnread, DropTable, Set, db, history, NoTable, Statement
<1>9. NothingDestroyed'
  BY <1>0, <1>a DEF Inv, NothingDestroyed, Txs, AbsentEmpty, Copied, DropTable, Set, db, history, NoTable, Statement
<1>10. VersionFollowsTable'
  BY <1>0, <1>a DEF Inv, VersionFollowsTable, NewShape, AbsentEmpty, DropTable, Set, db, history, NoTable, Statement
<1>11. Single'
  BY <1>0, <1>a DEF Inv, Single, Starting, Holds, Lock, Alone, Tidy, NewShape, AbsentEmpty, DropTable, Set, db, history, NoTable, Statement
<1> QED
  BY <1>2, <1>3, <1>4, <1>5, <1>6, <1>7, <1>8, <1>9, <1>10, <1>11 DEF Inv

\* BuildIndex preserves the invariant.
LEMMA IndexStep ==
  ASSUME TypeOK, Inv, ~torn, ~torn', NEW p \in Processes, BuildIndex(p), ~Raise(p)
  PROVE  Inv'
<1>0. proc \in [Processes -> [pc : PC, ver : {0} \cup Versions]]
  BY DEF TypeOK
<1>2. AbsentEmpty'
  BY <1>0 DEF Inv, AbsentEmpty, BuildIndex, Set, db, history
<1>3. Lock'
  BY <1>0 DEF Inv, Lock, Holds, AbsentEmpty, BuildIndex, Set, db, history
<1>4. Copied'
  BY <1>0 DEF Inv, Copied, Lock, Holds, Txs, BuildIndex, Set, db, history
<1>5. NewShape'
  BY <1>0 DEF Inv, NewShape, Lock, Holds, BuildIndex, Set, db, history
<1>6. LogUnread'
  BY <1>0 DEF Inv, LogUnread, BuildIndex, Set, db, history
<1>7. Alone'
  BY <1>0 DEF Inv, Alone, BuildIndex, Set, db, history
<1>8. Tidy'
  BY <1>0 DEF Inv, Tidy, Holds, Alone, Lock, LogUnread, BuildIndex, Set, db, history
<1>9. NothingDestroyed'
  BY <1>0 DEF Inv, NothingDestroyed, Txs, AbsentEmpty, Copied, BuildIndex, Set, db, history
<1>10. VersionFollowsTable'
  BY <1>0 DEF Inv, VersionFollowsTable, NewShape, AbsentEmpty, BuildIndex, Set, db, history
<1>11. Single'
  BY <1>0 DEF Inv, Single, Starting, Holds, Lock, Alone, Tidy, NewShape, AbsentEmpty, BuildIndex, Set, db, history
<1> QED
  BY <1>2, <1>3, <1>4, <1>5, <1>6, <1>7, <1>8, <1>9, <1>10, <1>11 DEF Inv

\* Finish preserves the invariant.
LEMMA FinishStep ==
  ASSUME TypeOK, Inv, ~torn, ~torn', NEW p \in Processes, Finish(p), ~Raise(p)
  PROVE  Inv'
<1>0. proc \in [Processes -> [pc : PC, ver : {0} \cup Versions]]
  BY DEF TypeOK
<1>2. AbsentEmpty'
  BY <1>0 DEF Inv, AbsentEmpty, Finish, Set, db, history, Statement
<1>3. Lock'
  BY <1>0 DEF Inv, Lock, Holds, AbsentEmpty, Finish, Set, db, history, Statement
<1>4. Copied'
  BY <1>0 DEF Inv, Copied, Lock, Holds, Txs, Finish, Set, db, history, Statement
<1>5. NewShape'
  BY <1>0 DEF Inv, NewShape, Lock, Holds, Finish, Set, db, history, Statement
<1>6. LogUnread'
  BY <1>0 DEF Inv, LogUnread, Finish, Set, db, history, Statement
<1>7. Alone'
  BY <1>0 DEF Inv, Alone, Finish, Set, db, history, Statement
<1>8. Tidy'
  BY <1>0 DEF Inv, Tidy, Holds, Alone, Lock, LogUnread, Finish, Set, db, history, Statement
<1>9. NothingDestroyed'
  BY <1>0 DEF Inv, NothingDestroyed, Txs, AbsentEmpty, Copied, Finish, Set, db, history, Statement
<1>10. VersionFollowsTable'
  BY <1>0 DEF Inv, VersionFollowsTable, NewShape, AbsentEmpty, Finish, Set, db, history, Statement
<1>11. Single'
  BY <1>0 DEF Inv, Single, Starting, Holds, Lock, Alone, Tidy, NewShape, AbsentEmpty, Finish, Set, db, history, Statement
<1> QED
  BY <1>2, <1>3, <1>4, <1>5, <1>6, <1>7, <1>8, <1>9, <1>10, <1>11 DEF Inv

\* Close preserves the invariant.
LEMMA CloseStep ==
  ASSUME TypeOK, Inv, ~torn, ~torn', NEW p \in Processes, Close(p)
  PROVE  Inv'
<1>0. proc \in [Processes -> [pc : PC, ver : {0} \cup Versions]]
  BY DEF TypeOK
<1>2. AbsentEmpty'
  BY <1>0 DEF Inv, AbsentEmpty, Close, Set, db, history
<1>3. Lock'
  BY <1>0 DEF Inv, Lock, Holds, AbsentEmpty, Close, Set, db, history
<1>4. Copied'
  BY <1>0 DEF Inv, Copied, Lock, Holds, Txs, Close, Set, db, history
<1>5. NewShape'
  BY <1>0 DEF Inv, NewShape, Lock, Holds, Close, Set, db, history
<1>6. LogUnread'
  BY <1>0 DEF Inv, LogUnread, Close, Set, db, history
<1>7. Alone'
  BY <1>0 DEF Inv, Alone, Close, Set, db, history
<1>8. Tidy'
  BY <1>0 DEF Inv, Tidy, Holds, Alone, Lock, LogUnread, Close, Set, db, history
<1>9. NothingDestroyed'
  BY <1>0 DEF Inv, NothingDestroyed, Txs, AbsentEmpty, Copied, Close, Set, db, history
<1>10. VersionFollowsTable'
  BY <1>0 DEF Inv, VersionFollowsTable, NewShape, AbsentEmpty, Close, Set, db, history
<1>11. Single'
  BY <1>0 DEF Inv, Single, Starting, Holds, Lock, Alone, Tidy, NewShape, AbsentEmpty, Close, Set, db, history
<1> QED
  BY <1>2, <1>3, <1>4, <1>5, <1>6, <1>7, <1>8, <1>9, <1>10, <1>11 DEF Inv

\* Stop preserves the invariant.
LEMMA StopStep ==
  ASSUME TypeOK, Inv, ~torn, ~torn', NEW p \in Processes, Stop(p)
  PROVE  Inv'
<1>0. proc \in [Processes -> [pc : PC, ver : {0} \cup Versions]]
  BY DEF TypeOK
<1>2. AbsentEmpty'
  BY <1>0 DEF Inv, AbsentEmpty, Stop, Set, db, history, Idle
<1>3. Lock'
  BY <1>0 DEF Inv, Lock, Holds, AbsentEmpty, Stop, Set, db, history, Idle
<1>4. Copied'
  BY <1>0 DEF Inv, Copied, Lock, Holds, Txs, Stop, Set, db, history, Idle
<1>5. NewShape'
  BY <1>0 DEF Inv, NewShape, Lock, Holds, Stop, Set, db, history, Idle
<1>6. LogUnread'
  BY <1>0 DEF Inv, LogUnread, Stop, Set, db, history, Idle
<1>7. Alone'
  BY <1>0 DEF Inv, Alone, Stop, Set, db, history, Idle
<1>8. Tidy'
  BY <1>0 DEF Inv, Tidy, Holds, Alone, Lock, LogUnread, Stop, Set, db, history, Idle
<1>9. NothingDestroyed'
  BY <1>0 DEF Inv, NothingDestroyed, Txs, AbsentEmpty, Copied, Stop, Set, db, history, Idle
<1>10. VersionFollowsTable'
  BY <1>0 DEF Inv, VersionFollowsTable, NewShape, AbsentEmpty, Stop, Set, db, history, Idle
<1>11. Single'
  BY <1>0 DEF Inv, Single, Starting, Holds, Lock, Alone, Tidy, NewShape, AbsentEmpty, Stop, Set, db, history, Idle
<1> QED
  BY <1>2, <1>3, <1>4, <1>5, <1>6, <1>7, <1>8, <1>9, <1>10, <1>11 DEF Inv

\* AddRow preserves the invariant.
LEMMA AddStep ==
  ASSUME TypeOK, Inv, ~torn, ~torn', NEW p \in Processes, NEW r \in NewRows, AddRow(p, r)
  PROVE  Inv'
<1>0. proc \in [Processes -> [pc : PC, ver : {0} \cup Versions]]
  BY DEF TypeOK
<1>2. AbsentEmpty'
  BY <1>0 DEF Inv, AbsentEmpty, AddRow
<1>3. Lock'
  BY <1>0 DEF Inv, Lock, Holds, AbsentEmpty, AddRow
<1>4. Copied'
  BY <1>0 DEF Inv, Copied, Lock, Holds, Txs, AddRow
<1>5. NewShape'
  BY <1>0 DEF Inv, NewShape, Lock, Holds, AddRow
<1>6. LogUnread'
  BY <1>0 DEF Inv, LogUnread, AddRow
<1>7. Alone'
  BY <1>0 DEF Inv, Alone, AddRow
<1>8. Tidy'
  BY <1>0 DEF Inv, Tidy, Holds, Alone, Lock, LogUnread, AddRow
<1>9. NothingDestroyed'
  BY <1>0 DEF Inv, NothingDestroyed, Txs, AbsentEmpty, Copied, AddRow
<1>10. VersionFollowsTable'
  BY <1>0 DEF Inv, VersionFollowsTable, NewShape, AbsentEmpty, AddRow
<1>11. Single'
  BY <1>0 DEF Inv, Single, Starting, Holds, Lock, Alone, Tidy, NewShape, AbsentEmpty, AddRow
<1> QED
  BY <1>2, <1>3, <1>4, <1>5, <1>6, <1>7, <1>8, <1>9, <1>10, <1>11 DEF Inv

\* Until a log is moved to a file in use, every step preserves the invariant.
LEMMA Preserved ==
  TypeOK /\ Inv /\ ~torn /\ ~torn' /\ [StartNext]_startVars => Inv'
<1> SUFFICES ASSUME TypeOK, Inv, ~torn, ~torn', [StartNext]_startVars PROVE Inv'
  OBVIOUS
<1>1. CASE UNCHANGED startVars
  BY <1>1, SMTT(30) DEF Inv, AbsentEmpty, Lock, Copied, NewShape, LogUnread, Alone,
      Tidy, NothingDestroyed, VersionFollowsTable, Single, Starting, Holds, Txs, startVars
<1>2. ASSUME NEW p \in Processes, NEW r \in NewRows, AddRow(p, r) PROVE Inv'
  BY <1>2, AddStep
<1>3. ASSUME NEW p \in Processes, StartStep(p) PROVE Inv'
  <2>1. CASE Raise(p) /\ proc[p].pc \notin {"idle", "sidecar"}
    BY <2>1, RaiseStep
  <2>a. stops + 1 # stops
    BY StartAssumption DEF TypeOK
  <2>2. ASSUME Raise(p) /\ proc[p].pc \in {"idle", "sidecar"} PROVE Begin(p) \/ MoveSidecar(p)
    BY <1>3, <2>a, <2>2 DEF StartStep, CreateTables, ReadVersion, ReadColumns, RenameTable,
        BuildTable, CopyRows, DropTable, BuildIndex, Finish, Close, Stop, Raise, Idle
  <2> QED
    BY <1>3, <2>1, <2>2, BeginStep, MoveStep, CreateStep, VersionStep, ColumnsStep,
       RenameStep, BuildStep, CopyStep, DropStep, IndexStep, FinishStep, CloseStep,
       StopStep DEF StartStep
<1> QED
  BY <1>1, <1>2, <1>3 DEF StartNext

\* A log that was moved to a file in use was moved to a file in use.
LEMMA TornForGood ==
  torn /\ [StartNext]_startVars => torn'
BY DEF startVars, StartNext, StartStep, AddRow, Begin, MoveSidecar, CreateTables,
    ReadVersion, ReadColumns, RenameTable, BuildTable, CopyRows, DropTable, BuildIndex,
    Finish, Close, Stop, Statement, Raise, history

\* The inductive invariant holds in every reachable state.
LEMMA Inductive ==
  StartSpec => [](TypeOK /\ (torn \/ Inv))
<1>1. StartInit => TypeOK /\ (torn \/ Inv)
  BY Initially
<1>2. TypeOK /\ (torn \/ Inv) /\ [StartNext]_startVars => (TypeOK /\ (torn \/ Inv))'
  BY TypePreserved, Preserved, TornForGood
<1> QED
  BY <1>1, <1>2, PTL DEF StartSpec

(***************************************************************************)
(* Opening the database keeps its tables, metadata and processes well      *)
(* formed, and a node its node_instance_id (Storage._create_schema).       *)
(***************************************************************************)
THEOREM StartTypeCorrect ==
  StartSpec => []TypeOK
BY Inductive, PTL

(***************************************************************************)
(* No interleaving of processes that open the database, and no crash       *)
(* between two statements of the upgrade, destroys the record of an        *)
(* anchoring transaction: it is in the table, in anchors_pre_v4 or in a    *)
(* log left under the old name, as long as no log was moved to a file that *)
(* another process had opened without it.                                  *)
(***************************************************************************)
THEOREM UpgradeDestroysNothing ==
  StartSpec => []NothingDestroyed
<1>1. torn \/ Inv => NothingDestroyed
  BY DEF Inv, NothingDestroyed
<1> QED
  BY <1>1, Inductive, PTL

(***************************************************************************)
(* If no start was cut short half way and no log moved to a file in use, a *)
(* node that runs sees every anchoring transaction that was ever recorded; *)
(* if no two starts overlapped either, it sees every anchor, transaction   *)
(* and output, as it was recorded, whatever version the directory started  *)
(* with.                                                                   *)
(***************************************************************************)
THEOREM UndisturbedIsComplete ==
  StartSpec => []CompleteWhenUndisturbed
<1>1. torn \/ Inv => CompleteWhenUndisturbed
  <2> SUFFICES ASSUME Inv, ~disturbed, ~torn,
                      \A p \in Processes : proc[p].pc \in {"idle", "ready"},
                      \E p \in Processes : proc[p].pc = "ready"
               PROVE  /\ Txs(committed) \subseteq Txs(anchors.rows)
                      /\ ~overlapped => committed \subseteq anchors.rows
    BY DEF CompleteWhenUndisturbed
  <2>1. pre.rows = {} /\ wal # "stranded"
    BY DEF Inv, Tidy, Holds, AbsentEmpty, Alone
  <2>2. Txs(pre.rows) = {}
    BY <2>1 DEF Txs
  <2>3. Txs(committed) \subseteq Txs(anchors.rows)
    BY <2>1, <2>2 DEF Inv, NothingDestroyed
  <2>4. ~overlapped => committed \subseteq anchors.rows
    BY <2>1 DEF Inv, Single
  <2> QED
    BY <2>3, <2>4
<1> QED
  BY <1>1, Inductive, PTL

(***************************************************************************)
(* A database that claims version 4 has no anchors table of the old shape, *)
(* at whatever statement an upgrade was interrupted, as long as no log was *)
(* moved to a file in use.                                                 *)
(***************************************************************************)
THEOREM VersionIsHonest ==
  StartSpec => []VersionFollowsTable
<1>1. torn \/ Inv => VersionFollowsTable
  BY DEF Inv, VersionFollowsTable
<1> QED
  BY <1>1, Inductive, PTL
=============================================================================
