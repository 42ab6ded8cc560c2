# A TLA+ model of a History Anchor Protocol node

This directory models the node in `hap/` of the History Anchor Protocol: how
signed records become batches, how batches get into Bitcoin and back out of
it, how nodes copy each other's tables, what a node shows to its readers, how
it admits and counts requests, how it opens a database of an older release, and
how a node is rebuilt from an archive. The modules are translated from the
Python source; `PROJECT.json` gives the source lines of every definition.

## 1. The system

A HAP node is one Python process with one SQLite database. `hap/storage.py`
guards the connection with an `RLock` that is taken **per call**: one storage
method is atomic, two of them are not. FastAPI runs request handlers in a
thread pool, and `hap/api.py` starts three periodic tasks (block scan, package
resolution, peer sync), so between any two storage calls of one operation
another operation may run. Bitcoin Core, the peers and the disk are outside
the process and change at any time.

| Component | State | Operations | Hard part |
|---|---|---|---|
| Storage (`storage.py`) | tables `records`, `batches`, `record_batches`, `anchors`, `bitcoin_blocks`, `commitments`, `metadata` | upserts, pages, `rewind_bitcoin_scan`, backup | every write keeps some columns and overwrites others |
| Scanner (`discovery.py: scan_bitcoin`) | `bitcoin_blocks`, `commitments` | compare stored tip, find common ancestor, rewind, scan a range | reorganisations and RPC failures between two calls; crash in the middle of a block |
| Resolver (`discovery.py: resolve_commitments`) | `resolved` flag | list unresolved, download package, import, register | commitments nobody can serve; rewind under its feet |
| Anchoring (`service.py`, `bitcoin.py`) | `anchors` | `anchor_batch`, `register_scanned_anchor`, `verify_bitcoin_anchor`, `import_anchor_reference` | read in one call, written in a later one |
| Peer sync (`sync.py`, `/v1/sync/*`) | cursors per peer and kind, peer epoch | pages of records, batches, anchors | two calls for one peer; crash between import and cursor; peers that are rebuilt |
| Responsible publication (`responsible.py`, `assessment.py`, feed in `service.py`) | none of its own: a view of the tables | classification, challenge window, cooling, decisions | the order in which records, anchors and rewinds come |
| Batches (`batches.py`, `packages.py`, `merkle.py`) | `batches` | `create_batch`, `create_direct_batch`, `import_batch`, proofs | odd levels, size limit, two coordinators at once |
| Recovery (`archive.py`, `survival.py`, `evidence_store.py`) | archive file, evidence files | snapshot export and import, survival export and import, `add_file`, `store_stream` | a snapshot of a running node; crash in the middle |
| Start-up (`storage.py: __init__`, `_create_schema`) | names of the data file and its log, schema version, `anchors_pre_v4`, `node_instance_id` | rename, rebuild of an old anchors table, metadata | every statement is durable on its own; server and command line may start at once |
| Gates (`auth.py`, `middleware.py`, parts of `api.py`) | rate-limiter queues | admission of requests, `submit_record` | the clock is read before the lock; key limit, window boundary; lookups before the insert |
| Provenance, proofs, wallets, funding, view manifest, CLI | none | pure functions, presentation | — |

Interactions: the scanner and the resolver share `commitments` and `anchors`;
handlers and sync write `records`, `batches` and `anchors`; the view reads all
of them; the archive is a cut through `records`, `batches` and `anchors`. There
are no messages inside a node: everything goes through the tables.

What makes each part correct, in one line: *scanner*: the tables describe the
active chain; *anchoring*: nothing is called confirmed without Bitcoin
evidence; *resolver*: a package that exists is found unless something in front
of it ends or fills every cycle; *sync*: no item is
ever skipped; *view*: a notice hides a claim once, for a fixed time, and
strangers cannot prolong it; *batches*: proofs verify and roots bind; *recovery*:
an archive is a consistent cut and an import can be repeated; *start-up*: an
upgrade loses no anchoring transaction wherever it stops; *gates*: the limit holds per client,
and nobody is refused for what others did before the window.

## 2. Modules

| Module | Models | Extended by |
|---|---|---|
| `Bitcoin` | the chain as RPC shows it: branches, blocks, outputs, payloads (external) | `Publication`, `AnchorLedger` |
| `Publication` | storage of the publication core; scanner, resolver, importer, publisher, verifier | `MCPublication`, `LedgerRefinement` |
| `AnchorLedger` | abstract: what the anchors table promises its readers | instantiated by `LedgerRefinement` |
| `LedgerRefinement` | the node with the blocks it has seen active, and the mapping to `AnchorLedger` | `MCLedger`, `PublicationProof` (and through it `CalmProof`) |
| `PeerSync` | `sync_peer` and the sync endpoints of one peer | `MCPeerSync`, `PeerSyncProof` |
| `Discovery` | assessment, responsible publication and the listing of one claim | `View`, `MCDiscovery` |
| `View` | one call of `responsible_publication_view`, read by read | `MCView`, `ViewProof` |
| `Recovery` | snapshots, survival archives, evidence store | `MCRecovery`, `RecoveryProof` |
| `Startup` | opening and upgrading the database | `MCStartup`, `StartupProof` |
| `Gate` | authentication, rate limiter, submission of a record | `MCGate`, `GateProof` |
| `Merkle`, `Batching` | Merkle trees; coordinator, direct and imported batches | `MCBatching`, `BatchingProof` |

The components meet in the tables, and each module takes the writes of the
others in the most general form its own reads can notice. `Discovery.Confirm`,
`Verify`, `Commit` and `Demote` confirm and withdraw anchors at any time because
`Publication` shows the scanner, the resolver, the verifier and the importer
doing so in any order; `Recovery.SourceAdd` and
`PeerSync.LocalAdd` stand for whatever else fills the tables;
`Publication.ImportPackage` for sync, submissions and imports.

Definitions whose comment starts with "Slip:" are not part of any
specification. Each is a plausible wrong version of the definition after it,
and is used to see that a property notices it.

### Publication and Bitcoin

The active chain is one of `Branches`, a set of block sequences closed under
what a hash guarantees (`ChainAssumption`, `HashAssumption`). `MoveChain`
replaces it by any other branch: growth, a reorganisation of any depth, or a
shorter chain. A point is a pair (txid, vout). A table is a function from its
key to a row; `before` in a commitments row stands for the order given by
`ingest_seq`. A thread is a record with a program counter named after the next
call it makes and the local variables that live across calls.

| Code | Actions |
|---|---|
| `scan_bitcoin` | `ScanBegin` (block count), `ScanStored` (latest stored block), `ScanCheck` (hash at the stored height), `ScanWalk`/`ScanCompare` (`_find_common_ancestor`), `ScanRewind`, `ScanHash` (block of the next height), `ScanCommit`, `ScanLookup`, `ScanRegisterRead/Write/Mark`, `ScanSave` |
| `resolve_commitments` | `ResolveBegin`, `ResolveMissing`, `ResolveImport`, `ResolveRegisterRead/Write/Mark` |
| `import_anchor_reference` | `ImportRead`, `ImportWrite` |
| `anchor_batch` | `PublishSend`, `PublishSave` |
| `verify_bitcoin_anchor` | `VerifyRead`, `VerifyTransaction`, `VerifyContext`, `VerifyWrite`, `VerifyFail` |
| everything else that stores a package | `ImportPackage` |
| process stop | `Crash`: threads are lost, tables stay |

`RowLimit` is the `limit=10_000` of the query in `register_scanned_anchor`:
`Findable` are the commitments it can see, and a commitment beyond it ends the
scan or the resolver's cycle like any other exception.

`MidScanReorg`, `RpcFails`, `Crashes` and `Serial` choose what the environment
may do, so that a run can say under which conditions a property holds.

### AnchorLedger and LedgerRefinement

The abstract ledger has three variables: the blocks that have been active, the
batches held, and per point a status with a block when it is confirmed. It has
one way to a confirmation, `Confirm`, whose guard is the promise: the batch is
held, the block has been active, the block contains the output and the output
commits to the batch. Everything else is a report without a claim (`Note`), or
a withdrawal (`Withdraw`). There are no threads, scans, heights or RPC calls in
it. `LedgerRefinement` adds the history variable `seen` to the node, because the
node does not store which blocks were active, and maps an anchors row to its
status and, if confirmed, its block.

### PeerSync

`seq[i]` is the number the peer's table gave an item, `last[k]` the
AUTOINCREMENT counter. `SyncInfo` reads `node_instance_id`, `SyncLoad` the
stored state, `SyncReset` stores zero cursors for a new epoch, `SyncFetch` gets
one page, `SyncAccept`/`SyncRefuse`/`SyncMissing` handle its items in order,
`SyncAdvance` stores the cursors. `PeerRebuild` gives the peer a new database;
`BackupDatabase` and `Restore` are the node's own. Validation is the set
`Malformed`, and `Conflicting` holds the anchors that contradict the node's
tables; both are refused and passed over, missing dependencies end the call.

### Discovery

One claim and slots for records that target it. A slot is filled when its
record arrives (`Receive`). `confirmed[r]` holds the heights of its confirmed
anchors, `tip` the latest scanned block. A confirmation by the scanner or the
resolver (`Confirm`) has a `commitments` row; one by `verify_bitcoin_anchor`
(`Verify`) has none, at whatever height it is, until the scanner comes to its
block (`Commit`). `loose[r]` are the heights without such a row.
`rewind_bitcoin_scan` finds anchors through their `commitments` rows, so `Rewind`
withdraws what is above the common ancestor and leaves the loose ones confirmed,
even if every block is taken back and the node is without a clock. `Demote` is an
anchor that stops being confirmed without a rewind: a verification that finds
its block off the chain, or the overwriting shown by `import_race`. `Lossless`
marks the steps that take back neither a block nor an anchor.

The operators `WindowActive`, `CoolingComplete`, `Decisions`, `Protected`,
`DiscoveryState` and `Classification` follow the branches of
`assess_responsible_publication` and `assess_record`. The code takes minima of
heights; the module quantifies over the heights instead.

### View

`responsible_publication_view` calls `linked_records`, `anchored_record_ids`,
`confirmed_anchor_heights` (one query for each record) and
`latest_scanned_block`, each under its own lock: `ViewLinked`, `ViewAnchored`,
`ViewHeights`, `ViewTip`. `Before` is any step of `Discovery` between calls,
`Meanwhile` any step between two reads of one, at most `MaxWrites` of them. The assessment of what was read is `Shown`, an instance of `Discovery`
over the values in the call's memory, so the same operators assess the tables
and the mixture. `barred`, `noticed` and `quiet` record whether a recognised
author restricted the claim and whether a notice was anchored when the call
began, and whether nothing was withdrawn since.

### Recovery

The exporting node keeps changing while `ExportRead` takes the three tables one
after the other, `ExportVerify` checks each evidence file, `ExportOpen`
truncates the archive at its path, `ExportCopy` copies the files and
`ExportClose` finishes. The import stores evidence first (`ImportEvidence`,
`ImportEvidenceFails`), then validates (`ImportValidate`) and adds records in
dependency order (`ImportRecord`), batches and anchors (`ImportRest`). A file is
`good`, `bad` (other bytes under the digest) or `absent`.

### Startup

Python's `sqlite3` opens no transaction for `ALTER`, `CREATE` and `DROP`, and
`executescript` commits first, so every statement is an action: `Begin` and
`MoveSidecar` (the rename of the file of an older release and of its log),
`CreateTables`, `ReadVersion`, `ReadColumns`, `RenameTable`, `BuildTable`,
`CopyRows`, `DropTable`, `BuildIndex`, `Finish`. `Stop` ends a process between any
two, and several processes open one directory. A statement whose tables are not
as it needs them raises and ends that start.

Two histories name what several processes can do to each other. `overlapped`: a
start began before another had ended. A process that read the old columns may
rename the table after another has rebuilt it and added rows, and its copy writes
`vout` 0 into all of them (`storage.py:163`): an anchor `c:1` becomes `c:0`, with
no error anywhere. `torn`: a process opened the data file between its rename and
that of its log, so the log was put beside a file that was opened without it.
SQLite promises nothing then; the model lets the log be ignored or the old pages
come back.

### Gate

`Arrive` is the dependency of a route up to the moment `allow` reads the clock;
`Allow` is the part of `allow` under its lock, so requests are counted in another
order than their stamps. `Decide` is the limiter: periodic pruning, pruning when
a new key meets a full table, expiry from the head of the queue. `Lookup`,
`LookupTarget` and `Insert` are the storage calls of `submit_record`, while
`Synchronise` brings records whose targets are not there. `Key` is what the code
counts under; `Origin` says independently on whose account a request is, and the
history `granted` counts by origin.

### Merkle and Batching

SHA-256 is symbolic: the digest of a pair of digests is the pair. `Padded`
repeats the last digest of an odd level. The loops of `merkle_root`,
`merkle_proof` and `verify_merkle_proof` are recursive functions of the number
of turns: `Levels`, `Positions` and `Climb`; `Turns` is where the first two
stop. `create_batch` is a read of the
unbatched records (`CreateBatchRead`) and, later, one write
(`CreateBatchWrite`); `Fitting` is the size loop with its estimate and its final
check. Records arrive in the fixed order `Arrivals`, which is neither ascending
nor descending; identifiers are hashes, so only the order relative to them
matters.

## 3. Runs

Passing runs:

| Run | Question | Bounds |
|---|---|---|
| `calm` | If operations run one after the other and the chain moves only between scans, do the tables describe the active chain after a scan? `BlocksOnOneBranch`, `SyncedViewExact`, `NoStaleConfirmed`, `ResolvedIsConfirmed`, `DemotedOnlyOffChain` | 6 branches of height up to 2 (forks above height 0 and above height 1, outputs mined again elsewhere), 3 chain moves, scans of 2 blocks |
| `races` | Can any interleaving of scanner, resolver, importer and verifier, with crashes, failing RPC calls and a reorganisation during a scan, turn a claim into a confirmation, or do anything else the ledger does not allow? `TypeOK`, `ConfirmedIsWitnessed`, `ResolvedHasAnchor`, `ImplementsLedger` | one thread each, two branches, one foreign output that names the same batch, a peer claim with a wrong block, resolver limit 1 |
| `live` | Does the scan reach the tip, and is a package found that some peer has? `ScanCatchesUp`, `EveryPackageFound` | 1 move at any time, restarts at any step, 4 branches on which a package has a clear way, one or two commitments nobody can serve in front of it, a foreign output in front of it, or a second output of its batch behind it; resolver limit 2, row limit 1 |
| `sync` | Is an item ever skipped, or stored without what it needs, and does the node end up with everything? `TypeOK`, `NothingSkipped`, `ClosedUnderNeeds`, `Converges` | a record, a batch and an anchor with one malformed and one conflicting item that nothing needs, pages of 2, 1 and 2 items, page ceiling 1, two epochs, one crash, failure or restore, one thread |
| `discovery` | Window, decisions and classification over every order of arrival, and the view computed meanwhile. `TypeOK`, `ListedByDecision`, `BurnersCannotHide`, `ClassificationOnlyRises`, `ViewRespectsKnown` | 2 linked records out of 7 bodies, heights to 2, window 1, cooling 1, one anchor of each record, any number of rewinds and demotions, 2 writes during one call; the slots are symmetric |
| `recovery` | Is every complete archive a consistent cut, and does a repeated import restore it? `TypeOK`, `ArchiveIsCut`, `RestoredClosed`, `EvidenceFirst`, `Recovers` | a claim, a reply, a batch, an anchor, one file, two faults |
| `startup` | Does an upgrade that is cut short or run twice lose anchors or claim to be done? `TypeOK`, `NothingDestroyed`, `CompleteWhenUndisturbed`, `VersionFollowsTable` | every kind of directory, schema versions 2 to 5, server and command line, two crashes, two old rows of which one is in the log, a third one at output 1 in a database of this release, one new row at output 1 |
| `gate` | Do the limit and the key table hold under concurrent requests, is every refusal justified, are accepted records complete? `TypeOK`, `WindowBound`, `KeysBounded`, `RelayedIsComplete`, `RefusedOnlyWhenBusy` | 2 threads, 4 requests of 3 clients, limit 2 in a window of 2, 2 keys, a prune every 2 operations, 3 moments of the clock; the threads are symmetric |
| `batching` | Do proofs verify, roots bind, packages fit, and is every record batched? `TypeOK`, `ProofsVerify`, `RootsBind`, `PackagesFit`, `EveryRecordBatched` | 5 records, one of them larger than a package, 2 concurrent calls, one direct or imported batch |

Why the bounds are enough to meet the interesting cases. Height 2 with two
fork points gives rewinds of every depth from none to the whole chain, chains
that end up shorter, and outputs mined at another height, in another order and
in a competing block. Three moves let a branch be left and come back. In `live`
each obstacle happens: TLC finds a violation as soon as one clause of `Clear`, or
the hypothesis of `ScanCatchesUp`, is dropped. In
`discovery` two linked records are a notice and a decision on it, or a
restriction and an enabling; a call has four kinds of read, and each of the
writes it can be confused by fits between them. The proofs of section 4 hold for
any number of records and any window. In `gate` three clients compete for two
keys, a stamp expires within the run, and one thread can be overtaken by the
other. Two crashes and two processes let an upgrade be cut short, resumed and
cut short again while another start runs. Five records give Merkle levels
5-3-2-1, so both the leaves and an inner level are padded.

What the two liveness properties of `live` exclude. `EveryPackageFound` is about
a commitment with a clear way (`Clear`). `resolve_commitments` lists the oldest
`Limit` unresolved commitments and lets an exception of the registration end the
cycle, so an available package is **never** found while an older output with
another commitment type names a batch that can be downloaded, or while `Limit`
older outputs have no package; both last for ever, since the next cycle begins
with the same rows. `ScanCatchesUp` is about batches with at most `RowLimit`
commitments: beyond that the scan raises at the same output in every cycle and
the tip is never reached. The code documents neither.

In the same way `Converges` supposes that nothing needs an item that validation
refuses. A batch over a refused record misses a dependency in every call
(`sync.py:174-183`); the cursor stays before it, and the later batches of that
peer are not fetched.

`sync` has one thread, the periodic task, because `Converges` needs it: two
callers that alternate under a page ceiling can store each other's older cursors
for ever, each undoing the other's progress. The safety properties hold for any
number of threads; `PeerSyncProof` proves them.

Runs that are expected to be violated, each stating what a document or a test
says (`findings` in `PROJECT.json` quotes it):

| Run | What the code does |
|---|---|
| `mid_scan_reorg` | `scan_bitcoin` compares only the highest stored block. If the chain is reorganised between two heights of one scan, the stored tip is on the new branch and blocks below it on the old one; their anchors stay confirmed (`NoStaleConfirmed`). |
| `import_race` | `import_anchor_reference` writes what it decided on an older read and can replace a confirmation by an unverified row (`ImportKeepsConfirmed`). |
| `unscanned_window` | Without a scanned block there is no clock, and an anchored notice does not start a window (`NoticeHides`): before the first scan, and after a rewind of every block that leaves verified anchors confirmed. |

A failing `block_hash` counts as a mismatch in `scan_bitcoin`, so an outage
without a reorganisation rewinds the scan and marks anchors on the active chain
as reorganised; the next scan repairs them. No document says otherwise, so it is
no finding: `calm` states `DemotedOnlyOffChain` for a node whose RPC answers, and
TLC shows the violation when `RpcFails` is set to `TRUE` in `Calm.cfg`. In the
same way `calm` has no crashes: the commitments and anchors of a block are
written before its `bitcoin_blocks` row, so after a stop between them followed by
a reorganisation of that one block the stored tip still matches and the anchor
is not withdrawn (`Crashes` set to `TRUE` makes TLC report `SyncedViewExact`).

### Fairness

* `live`: weak fairness of each scanner and resolver step, and of starting
  them. `periodic()` in `api.py` catches every exception, sleeps and calls
  again, and the call runs to its end. Strong fairness of a download: a peer
  that is asked again and again answers once. The process may be restarted at
  any step and any number of times, but not forever (`RestartsEnd`).
* `sync`: the same for `run_sync`. Failures are bounded by `MaxFaults`.
* `recovery`: the operator repeats `survival-import`, and a running import goes
  on. Nothing is assumed of the exporter.
* `batching`: some coordinator call goes on as long as one can. There is no
  periodic task for it; the assumption is that the operator keeps asking.

Deadlock is not checked: a node with nothing left to do within the bounds (no
chain moves, all records stored) rightly stops.

## 4. Proofs

TLAPS proves, for all values of the constants that satisfy the named
assumptions:

| Module | Theorems | Assumptions |
|---|---|---|
| `PublicationProof` | `TypeCorrect`, `ConfirmationsAreWitnessed`, `ResolutionsHaveAnchors`, `LedgerImplemented` (the refinement) | `ChainAssumption`, `NodeAssumption` |
| `CalmProof` | `TablesFollow`, `ScannedOnOneBranch`, `SyncedViewIsExact` | the same, `HashAssumption`, and `Steady` |
| `CalmProof` | `AnchorsFollow`, `NoConfirmationIsStale`, `ResolutionsAreConfirmed`; `DemotionsAreDue` | the same with `Calm` for `Steady`; `DemotionsAreDue` also `~RpcFails` |
| `PeerSyncProof` | `SyncTypeCorrect`, `CursorsPassNothing`, `TablesStayClosed` | `ItemsAssumption`, `BoundsAssumption` |
| `ViewProof` | `TypeCorrect`, `ListingsAreDecided`, `ClassificationRises`, `BurnersBounded`, `ViewsRespectKnown` | `ProfileAssumption`, `ViewAssumption` and `Bodies # {}` |
| `RecoveryProof` | `RecoveryTypeCorrect`, `ArchivesAreCuts`, `ImportsStayClosed`, `EvidenceComesFirst` | `RecoveryAssumption` |
| `StartupProof` | `StartTypeCorrect`, `UpgradeDestroysNothing`, `UndisturbedIsComplete`, `VersionIsHonest` | `StartAssumption` |
| `GateProof` | `GateTypeCorrect`, `TableIsBounded`, `AcceptedIsComplete`, `RefusalsHaveCause`, `WindowsAreBounded` | `GateAssumption` |
| `BatchingProof` | `BatchesTyped`, `PackagesAlwaysFit`, `ProofsAlwaysVerify`, `RootsAlwaysBind` | `BatchingAssumption` |

**Publication.** `ConfirmedIsWitnessed` is not inductive: the scanner, the
resolver, the importer and the verifier each write a row on the strength of
something read steps earlier. The invariant `IInv` adds what every thread knows
at each program counter (`ScanKnows`, `ResKnows`, `ImpKnows`, `PubKnows`,
`VerKnows`), for instance that between `read` and `write` the scanner's
remembered block contains the output, although the commitments row may have
been deleted by then; and that every commitments row names the block its output
is in. Other threads cannot spoil this knowledge because batches are never
removed and an anchor row never disappears (`Kept`). The theorem holds with
reorganisations during scans, RPC failures and crashes switched on.

**Ledger.** Every step of the node is a step of the ledger or a stutter. Beside
the invariant of `Publication` the argument needs `SawInv`: every block in the
tables, and every block a scanner, a resolver, an importer or a verifier
remembers between a read and its write, has been active. A scanner may confirm
in a block that has left the chain since it asked for it; that is why the
ledger speaks of blocks that have been active and not of the active ones.

**The tables follow the chain.** Here the node promises less, and the theorems
carry the conditions as hypotheses on the constants. There are two layers.

* `Steady`: no reorganisation strikes a running scan, no restart cuts one short,
  no registration does either because each batch has fewer outputs than
  `RowLimit` (`FewRows`; `PresentIsFindable`), and scans do not overlap
  (`Serial`, or a single scanner). RPC calls may fail
  and every other thread may run at any time. The invariant `SInv` says that the
  stored blocks are the heights from `StartHeight` up to some height of **one**
  branch (`RunOfBranch`), that the commitments are exactly the outputs of those
  blocks plus what a scan under way has committed of the block it is at
  (`RowsMatch`), and for each program counter how far the walk back or the
  range has come. The step that matters is the rewind. Two branches that agree at
  a height agree below it (`HashAssumption`: a hash determines its ancestors), so
  cutting at the highest match leaves a run of the active chain; a failed call
  only makes the cut deeper.
* `Calm`: moreover the threads run one after the other and there is no direct
  verification. `AInv` adds that a confirmed anchor names the block of its
  commitment and a resolved commitment has a confirmed anchor (`AnchorsMatch`),
  that an own transaction is not mined before it is sent, and that what each
  thread is about to write agrees with the tables. `DemotedOnlyOffChain` is an
  action property; with an RPC that answers, the walk stops at the highest common
  block, so nothing on the active chain is above the cut.

Most hypotheses are needed. `mid_scan_reorg` is the counterexample without
the first; the paragraph after the findings in section 3 has those without
`~Crashes` and without `~RpcFails`; with a verifier added to `Calm.cfg` TLC
finds a confirmation written after the block left the chain, for which there is
no commitment and which no rewind demotes; with `Serial` set to `FALSE` an import
that read a confirmed row writes it back after the rewind that demoted it. That
scans do not overlap is the exception. The proof of `SInv` uses it, but TLC finds
no violation of `BlocksOnOneBranch` or `SyncedViewExact` with two overlapping
scanners in `Calm.cfg`, a publisher and no other threads.

**PeerSync.** `NothingSkipped` speaks of the stored cursors. The invariant says
the same of the cursors in each thread's memory and in the backup (`Passed`),
of the items a page in flight still has to import (`PageLeft`), and that no
cursor of the present epoch is ahead of the peer's counter (`Behind`), so that a
row added later has a number no cursor has passed. `PageComplete` is the
counting lemma: an item between the cursor asked for and the cursor answered is
on the page.

**Discovery.** The invariant is that a record that has not arrived has no
anchor, and that loose anchors are confirmed ones. `BurnersBounded` and
`ClassificationRises` are action properties of lossless steps: such a step only
adds anchors of records that have arrived and moves the clock forward
(`StepGrows`), and once the window is over on a node with a clock, what it adds
changes neither the window nor the decisions of recognised authors. They hold
with loose anchors that outlive rewinds; a node without a clock is excluded by
`tip > 0`, because there the next scanned block can start the window of a notice
that is long known.

**View.** `ViewRespectsKnown` relates the answer to the state in which the call
began. The invariant says that what was read is still there as long as nothing
was withdrawn (`StillThere`), that a restriction or notice known at the beginning
has a record among those read (`Reasons`), and that a record listed as anchored
gets a height (`HasHeight`). After a rewind or a demotion during the call nothing
is claimed: such a view may list for a moment what neither state of the tables
lists. Nor is the notice claimed for a call that reads no tip.

**Recovery.** The exporter knows that the snapshot it writes was validated
(`ExportKnows`); the importer knows that evidence which is out of its queue is
good (`EvidenceKnows`) and that records which are out of the queue are stored
(`ImportKnows`). Together they make the archive a cut and every prefix of an
import closed.

**Startup.** The table `anchors_pre_v4` is a lock although the code does not call
it one: `ALTER ... RENAME TO` fails while it exists, so one process at a time is
between rename and drop (`Lock`), and it drops only what it has copied
(`Copied`). `Tidy` says what an undisturbed start leaves behind; that a running
node sees every transaction follows from it. `Single` is about starts that
neither overlap nor are cut short: tables of the old shape have rows at output 0
only, a table of the new shape is never renamed, and so every row survives as it
was recorded, output included. All this is claimed until a log is `torn`; only
the type invariant, which is inductive by itself, holds beyond. After a start that was cut short the old
rows may stay in `anchors_pre_v4`, which nothing reads again; the theorem is
that they are still there.

**Gate.** `StampsGranted` ties the limiter's table to the requests that were let
through, `Decision` is the lemma about one call of `allow`: its table stays
bounded, holds no stamp it did not hold before but the new one, and a refusal
leaves a live stamp of the client or `MaxKeys` keys with live stamps.
`KeyIsOrigin` says that the key of the limiter and the account of a request
determine each other, whatever headers a host sends to the node itself. Behind a
trusted proxy the host is the leftmost element of the `X-Forwarded-For` that the
proxy passes on (`auth.py:70`): a proxy that appends to a list the client sent
leaves that element to the client, and the theorem is about what the proxy says.

`WindowBound` counts requests, and the limiter itself counts only those still in
its queue. The invariant `BInv` relates the two (`GrantsCounted`). At first the
queue of a key holds at least as many stamps of a window as requests were let
through in it, and no queue is longer than `Requests` (`QueuesShort`). That ends
when a later stamp makes the queue, or the table, give up stamps of the window.
The clock is then past the window's end, and only threads that had read it
before can still add to the window, each once; the thread that overtook them is
not among them. From then on what was let through and those late threads
together stay within `Requests` plus the other threads.

**Batching.** `BInv` is small: batches hold stored records in strict order, and
packages that `create_batch` made fit. That a batch is in strict order after
`CreateBatchWrite` is `SortedIs`, about sorting by rank; that the package fits is
`FittingIs`. What is proved of the trees needs induction over their height. The
library's induction theorems take a formula as a parameter, which the installed
provers cannot instantiate, so `Ascend` states induction for a *set* of numbers;
it follows from the existence of a least element of the complement. With it the
recursive functions of `Merkle` are shown to exist (`LevelsAre`, `PositionsAre`,
`ClimbIs`), the loop to end (`TurnsAre`), and then:

* `SiblingStep` and `ClimbsTheTree`: one step of the path leads from the digest
  at a position to the one above it, with and without padding, so the path ends
  in the root. `ClimbsApart`: two different records stay different along one
  path, so it verifies for no other.
* `UpDistinct`: a level without repetition has one above it without repetition.
  `UpInjective`: such levels are determined by the level above. Here the strict
  order of `validate_batch` is needed: with repetition `<<a, b, c>>` and
  `<<a, b, c, c>>` have one root. `TreesApart` aligns two trees
  at their roots: they differ at the lower end of the shorter one, where a leaf
  is never a parent, and therefore at every level above, the roots included.

Only model-checked: the liveness properties `ScanCatchesUp`,
`EveryPackageFound`, `Converges`, `Recovers` and `EveryRecordBatched`, because
fairness and `ENABLED` are outside the reach of the prover. Every invariant and
every action property of a passing run is stated by a theorem. What the runs add
to the theorems is that the hypotheses are met by states in which something
happens, and the violations.

## 5. What is not modelled

* Bytes: canonical JSON, signatures, hashes, payload encoding, tar and gzip.
  Validity is a verdict, digests are symbolic.
* In `Startup`: what `CREATE INDEX` does besides succeeding, two processes that
  both find the old name before either renames it (the second one raises and
  changes nothing), and what SQLite makes of a torn log beyond the two outcomes
  named.
* The body limit (it counts the bytes of one request and keeps nothing), the
  rules of the relay policy and the proof of work (verdicts of a request in
  `Gate`), read-only routes, readiness and statistics.
* The provenance graph, proof bundles, the view manifest, wallets, funding,
  the command line's own logic, the web page, release and deployment scripts:
  functions of their arguments or presentation, without state of their own.
* The truncation of the feed to the newest records (`service.py:167`).
* More than one peer: `sync_all_peers` runs `sync_peer` for each with cursors
  of its own.
* A peer that restores its own backup keeps its `node_instance_id` while its
  counters go back; rows it adds then get numbers that other nodes have passed.
  No document excludes it, and the model's peer loses rows only with its epoch.

Behaviour the models have and no property forbids, because no document does: a
record with a target that never arrives makes every export of the node raise; a
source file that changes while `add_file` copies it leaves wrong bytes that
`add_file` never replaces; starts that overlap can set the output of an anchor
to 0; an output whose registration raises keeps the resolver from everything
behind it; a crash during an export destroys the archive that
was at the path; two `create_batch` calls may commit the same records twice.

## 6. Plan

Done: the core in the order of its importance (publication, sync, view,
recovery, batches); the abstract ledger and its refinement; start-up and
upgrade; the gates with the rate limiter; the view read by read; the proofs of
section 4.

Left, in this order:

1. The truncation of the feed, with a claim among more records than it reads.
2. Provenance groups as operators checked over bounded tables.
3. Two callers of `sync_peer`: the condition under which they converge.
4. `SInv` for scans that overlap while the chain stands still, which `Steady`
   excludes although TLC finds nothing against it.
5. `NoStaleConfirmed` under a weaker hypothesis than `Calm`: resolvers that
   overlap a scan, with the rewinds they can miss named.
