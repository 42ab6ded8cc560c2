---------------------------- MODULE Publication ----------------------------
(***************************************************************************)
(* The publication core of a HAP node: how batches, Bitcoin commitments    *)
(* and anchors get into the node's database and how their status follows   *)
(* the active Bitcoin chain.                                               *)
(*                                                                         *)
(* hap/storage.py guards one SQLite connection with an RLock taken per     *)
(* call, so every Storage method is one atomic step and everything between *)
(* two calls is a point where another thread may run.  The threads are     *)
(* the periodic tasks and the request handlers of hap/api.py: block        *)
(* scanners (scan_bitcoin), package resolvers (resolve_commitments),       *)
(* importers of peer-supplied anchor references (import_anchor_reference), *)
(* publishers (anchor_batch) and verifiers (verify_bitcoin_anchor).  Each  *)
(* has a program counter and the local variables that survive a call.      *)
(***************************************************************************)
EXTENDS Bitcoin

CONSTANTS
    Scanners, Resolvers, Importers, Publishers, Verifiers,  \* threads
    OwnPoints,    \* outputs of the transactions this node's wallet would make
    Networks,     \* names of Bitcoin networks
    Network,      \* Network[b]: the network batch b was prepared for
    NodeNetwork,  \* the network of the node's Bitcoin RPC
    Available,    \* batches whose package exists somewhere
    Claims,       \* [hash, height] pairs a peer may attach to a reference
    StartHeight,  \* HAP_BITCOIN_SCAN_START_HEIGHT
    MaxBlocks,    \* HAP_BITCOIN_SCAN_MAX_BLOCKS
    Limit,        \* the limit of one resolve_commitments cycle
    RowLimit,     \* how many rows of a batch register_scanned_anchor looks at
    \* What the environment may do
    MidScanReorg, \* the chain may move while a scan is running
    RpcFails,     \* a Bitcoin RPC call may raise
    Crashes,      \* the process may stop and restart at any step
    Serial,       \* threads run one after the other
    MaxMoves      \* bound: how often the active chain changes

ASSUME NodeAssumption ==
    /\ Network \in [Batches -> Networks]
    /\ NodeNetwork \in Networks
    /\ StartHeight \in Nat
    /\ MaxBlocks \in Nat
    /\ Limit \in Nat
    /\ RowLimit \in Nat
    /\ MaxMoves \in Nat
    /\ OwnPoints \subseteq Points
    /\ Available \subseteq Batches
    /\ Claims \subseteq [hash : Blocks \cup {None}, height : Heights \cup {None}]
    /\ {MidScanReorg, RpcFails, Crashes, Serial} \subseteq BOOLEAN

VARIABLES
    chain,        \* the active chain
    moves,        \* how often it has changed
    sent,         \* own points that were broadcast
    batches,      \* table batches: the identifiers present
    blocks,       \* table bitcoin_blocks: hash by height
    commitments,  \* table commitments: row by point
    anchors,      \* table anchors: row by point
    scan, res, imp, pub, ver  \* the threads

chainVars == <<chain, moves, sent>>
tables == <<batches, blocks, commitments, anchors>>
threads == <<scan, res, imp, pub, ver>>
vars == <<chain, moves, sent, batches, blocks, commitments, anchors,
          scan, res, imp, pub, ver>>

----------------------------------------------------------------------------
(***************************************************************************)
(* Tables.  A commitments row keeps no batch_id and no payload: both are   *)
(* functions of the point.  Its column ingest_seq only orders the rows, so *)
(* it is kept as the set of points inserted before this one and still      *)
(* present.  A row with hash None, or with status "absent", is no row.     *)
(***************************************************************************)
CommitmentRow == [hash : Blocks \cup {None}, height : Heights,
                  resolved : BOOLEAN, before : SUBSET Points]
NoCommitment == [hash |-> None, height |-> 0, resolved |-> FALSE, before |-> {}]
Context(p) == [hash |-> commitments[p].hash, height |-> commitments[p].height]
NoContext == [hash |-> None, height |-> 0]
Present == {p \in Points : commitments[p].hash # None}

Status == {"absent", "unverified", "broadcast", "confirmed", "invalid",
           "reorganised"}
\* Slip: a confirmed row is not among those an import must keep.
LocallyCheckedSlip == {"broadcast", "invalid", "reorganised"}

LocallyChecked == {"broadcast", "confirmed", "invalid", "reorganised"}
AnchorRow == [status : Status, batch : Batches \cup {None}, network : Networks,
              hash : Blocks \cup {None}, height : Heights \cup {None}]
NoAnchor == [status |-> "absent", batch |-> None, network |-> NodeNetwork,
             hash |-> None, height |-> None]

\* Storage.add_scanned_block
AddScannedBlock(h, b) == blocks' = [blocks EXCEPT ![h] = b]

\* Storage.latest_scanned_block: the highest row
ScannedHeights == {h \in Heights : blocks[h] # None}
IsLatestScanned(h) == h \in ScannedHeights /\ \A k \in ScannedHeights : k <= h

\* Storage.add_commitment: an upsert that keeps ingest_seq and resolved
AddCommitment(p, h, b) ==
    commitments' = [commitments EXCEPT ![p] =
        IF p \in Present
        THEN [@ EXCEPT !.hash = b, !.height = h]
        ELSE [hash |-> b, height |-> h, resolved |-> FALSE, before |-> Present]]

\* Storage.mark_commitment_resolved: no row, no effect
MarkResolved(p) ==
    commitments' = IF p \in Present THEN [commitments EXCEPT ![p].resolved = TRUE]
                   ELSE commitments

\* Storage.add_anchor: an upsert that overwrites every column
AddAnchor(p, row) == anchors' = [anchors EXCEPT ![p] = row]

\* Slips: the rewind forgets the anchors, or the commitments.
RewindKeepsAnchors(ancestor) ==
    LET gone == {p \in Present : commitments[p].height > ancestor}
    IN  /\ commitments' = [p \in Points |->
              IF p \in gone THEN NoCommitment
              ELSE [commitments[p] EXCEPT !.before = @ \ gone]]
        /\ blocks' = [h \in Heights |-> IF h > ancestor THEN None ELSE blocks[h]]
        /\ UNCHANGED anchors
RewindKeepsCommitments(ancestor) ==
    /\ blocks' = [h \in Heights |-> IF h > ancestor THEN None ELSE blocks[h]]
    /\ UNCHANGED <<anchors, commitments>>

(***************************************************************************)
(* Storage.rewind_bitcoin_scan: one transaction.  Anchors are demoted only *)
(* through the commitments that are deleted.                               *)
(***************************************************************************)
RewindBitcoinScan(ancestor) ==
    LET gone == {p \in Present : commitments[p].height > ancestor}
    IN  /\ anchors' = [p \in Points |->
              IF p \in gone /\ anchors[p].status # "absent"
              THEN [anchors[p] EXCEPT !.status = "reorganised"]
              ELSE anchors[p]]
        /\ commitments' = [p \in Points |->
              IF p \in gone THEN NoCommitment
              ELSE [commitments[p] EXCEPT !.before = @ \ gone]]
        /\ blocks' = [h \in Heights |-> IF h > ancestor THEN None ELSE blocks[h]]

----------------------------------------------------------------------------
\* Threads
IdleScan == [pc |-> "idle", tip |-> 0, next |-> 0, end |-> 0, cand |-> 0,
             seen |-> None, hash |-> None, i |-> 1, com |-> NoContext]
IdleRes == [pc |-> "idle", queue |-> {}, pt |-> None, com |-> NoContext]
IdleImp == [pc |-> "idle", pt |-> None, row |-> NoAnchor]
IdlePub == [pc |-> "idle", pt |-> None]
IdleVer == [pc |-> "idle", pt |-> None, row |-> NoAnchor, mined |-> FALSE]

AllIdle ==
    /\ \A s \in Scanners : scan[s].pc = "idle"
    /\ \A r \in Resolvers : res[r].pc = "idle"
    /\ \A i \in Importers : imp[i].pc = "idle"
    /\ \A u \in Publishers : pub[u].pc = "idle"
    /\ \A v \in Verifiers : ver[v].pc = "idle"

\* A thread may start: always, or after the others when they are serialised.
MayStart == Serial => AllIdle

Init ==
    /\ chain \in Branches
    /\ moves = 0
    /\ PointsOf(chain) \cap OwnPoints = {}
    /\ sent = {}
    /\ batches = {}
    /\ blocks = [h \in Heights |-> None]
    /\ commitments = [p \in Points |-> NoCommitment]
    /\ anchors = [p \in Points |-> NoAnchor]
    /\ scan = [s \in Scanners |-> IdleScan]
    /\ res = [r \in Resolvers |-> IdleRes]
    /\ imp = [i \in Importers |-> IdleImp]
    /\ pub = [u \in Publishers |-> IdlePub]
    /\ ver = [v \in Verifiers |-> IdleVer]

----------------------------------------------------------------------------
\* Environment

\* The active chain grows or is reorganised.  An own transaction is mined
\* only after it was broadcast.
MoveChain(c) ==
    /\ moves < MaxMoves
    /\ MidScanReorg \/ \A s \in Scanners : scan[s].pc = "idle"
    /\ c # chain
    /\ PointsOf(c) \cap OwnPoints \subseteq sent
    /\ chain' = c
    /\ moves' = moves + 1
    /\ UNCHANGED <<sent, tables, threads>>

\* HistoryAnchorService.import_package and create_batch on behalf of a
\* request: the batch and its records become known.
ImportPackage(b) ==
    /\ b \in Available \ batches
    /\ batches' = batches \cup {b}
    /\ UNCHANGED <<chainVars, blocks, commitments, anchors, threads>>

\* The process stops and is restarted: the database stays, threads are lost.
Crash ==
    /\ Crashes
    /\ ~AllIdle
    /\ scan' = [s \in Scanners |-> IdleScan]
    /\ res' = [r \in Resolvers |-> IdleRes]
    /\ imp' = [i \in Importers |-> IdleImp]
    /\ pub' = [u \in Publishers |-> IdlePub]
    /\ ver' = [v \in Verifiers |-> IdleVer]
    /\ UNCHANGED <<chainVars, tables>>

----------------------------------------------------------------------------
(***************************************************************************)
(* scan_bitcoin.  The loop over heights re-reads the hash of each height   *)
(* from the RPC; only the stored tip is compared with the active chain.    *)
(***************************************************************************)
SetScan(s, l) == scan' = [scan EXCEPT ![s] = l]

\* What rpc.block_hash may answer; None stands for an exception.
HashAnswers(h) == {BlockHash(chain, h)} \cup (IF RpcFails THEN {None} ELSE {})

\* Slip: the range is not cut at the tip.
PlanPastTip(l, first) ==
    IF first > l.tip THEN IdleScan
    ELSE [IdleScan EXCEPT !.pc = "hash", !.tip = l.tip, !.next = first,
            !.end = first + (IF MaxBlocks < 1 THEN 1 ELSE MaxBlocks) - 1]

\* Lines 93-99: nothing to do, or the first block of the range.
Plan(l, first) ==
    IF first > l.tip THEN IdleScan
    ELSE LET last == first + (IF MaxBlocks < 1 THEN 1 ELSE MaxBlocks) - 1
         IN  [IdleScan EXCEPT !.pc = "hash", !.tip = l.tip, !.next = first,
                !.end = IF l.tip < last THEN l.tip ELSE last]

\* One candidate further down in _find_common_ancestor.
Lower(l) == [l EXCEPT !.cand = @ - 1, !.seen = None,
               !.pc = IF l.cand = 0 THEN "rewind" ELSE "walk"]

\* The output the scan is at, and the next one of the block.
ScanPoint(l) == Outputs[l.hash][l.i]
NextOutput(l) ==
    IF l.i < Len(Outputs[l.hash])
    THEN [l EXCEPT !.pc = "commit", !.i = @ + 1, !.com = NoContext]
    ELSE [l EXCEPT !.pc = "save", !.com = NoContext]

\* tip = rpc.block_count()
ScanBegin(s) ==
    /\ MayStart
    /\ scan[s].pc = "idle"
    /\ SetScan(s, [IdleScan EXCEPT !.pc = "stored", !.tip = BlockCount(chain)])
    /\ UNCHANGED <<chainVars, tables, res, imp, pub, ver>>

\* Slip: a chain that became shorter than the scan is taken for scanned.
ScanStoredAhead(s) ==
    /\ scan[s].pc = "stored"
    /\ \/ /\ ScannedHeights = {}
          /\ SetScan(s, Plan(scan[s], StartHeight))
       \/ \E h \in Heights :
            /\ IsLatestScanned(h)
            /\ SetScan(s, IF h <= scan[s].tip
                 THEN [scan[s] EXCEPT !.pc = "check", !.cand = h, !.seen = blocks[h]]
                 ELSE Plan(scan[s], h + 1))
    /\ UNCHANGED <<chainVars, tables, res, imp, pub, ver>>

\* stored_tip = storage.latest_scanned_block() and the branches on it
ScanStored(s) ==
    /\ scan[s].pc = "stored"
    /\ \/ /\ ScannedHeights = {}
          /\ SetScan(s, Plan(scan[s], StartHeight))
       \/ \E h \in Heights :
            /\ IsLatestScanned(h)
            /\ SetScan(s, IF h <= scan[s].tip
                 THEN [scan[s] EXCEPT !.pc = "check", !.cand = h, !.seen = blocks[h]]
                 ELSE [scan[s] EXCEPT !.pc = "walk", !.cand = scan[s].tip])
    /\ UNCHANGED <<chainVars, tables, res, imp, pub, ver>>

\* Slip: the stored tip is not compared with the active chain.
ScanCheckBlind(s) ==
    /\ scan[s].pc = "check"
    /\ SetScan(s, Plan(scan[s], scan[s].cand + 1))
    /\ UNCHANGED <<chainVars, tables, res, imp, pub, ver>>

\* Compare the stored tip with the active chain; an exception counts as a
\* different hash.
ScanCheck(s) ==
    /\ scan[s].pc = "check"
    /\ \E answer \in HashAnswers(scan[s].cand) :
         SetScan(s, IF answer = scan[s].seen
                    THEN Plan(scan[s], scan[s].cand + 1)
                    ELSE [scan[s] EXCEPT !.pc = "walk", !.seen = None])
    /\ UNCHANGED <<chainVars, tables, res, imp, pub, ver>>

\* _find_common_ancestor: storage.scanned_block(candidate)
ScanWalk(s) ==
    /\ scan[s].pc = "walk"
    /\ SetScan(s, IF blocks[scan[s].cand] = None THEN Lower(scan[s])
                  ELSE [scan[s] EXCEPT !.pc = "compare",
                                       !.seen = blocks[scan[s].cand]])
    /\ UNCHANGED <<chainVars, tables, res, imp, pub, ver>>

\* Slip: the common ancestor itself is given up.
ScanCompareLow(s) ==
    /\ scan[s].pc = "compare"
    /\ \E answer \in HashAnswers(scan[s].cand) :
         SetScan(s, IF answer = scan[s].seen
                    THEN [scan[s] EXCEPT !.pc = "rewind", !.seen = None, !.cand = @ - 1]
                    ELSE Lower(scan[s]))
    /\ UNCHANGED <<chainVars, tables, res, imp, pub, ver>>

\* _find_common_ancestor: rpc.block_hash(candidate); an exception moves on
\* to the next candidate
ScanCompare(s) ==
    /\ scan[s].pc = "compare"
    /\ \E answer \in HashAnswers(scan[s].cand) :
         SetScan(s, IF answer = scan[s].seen
                    THEN [scan[s] EXCEPT !.pc = "rewind", !.seen = None]
                    ELSE Lower(scan[s]))
    /\ UNCHANGED <<chainVars, tables, res, imp, pub, ver>>

\* storage.rewind_bitcoin_scan(ancestor), then the range to scan
ScanRewind(s) ==
    /\ scan[s].pc = "rewind"
    /\ RewindBitcoinScan(scan[s].cand)
    /\ SetScan(s, Plan(scan[s], IF StartHeight > scan[s].cand + 1
                                THEN StartHeight ELSE scan[s].cand + 1))
    /\ UNCHANGED <<chainVars, batches, res, imp, pub, ver>>

\* rpc.block_hash(height) and rpc.block: an exception ends the scan
ScanHash(s) ==
    /\ scan[s].pc = "hash"
    /\ \E answer \in HashAnswers(scan[s].next) :
         SetScan(s, IF answer = None THEN IdleScan
                    ELSE [scan[s] EXCEPT !.hash = answer, !.i = 1,
                            !.pc = IF Len(Outputs[answer]) = 0 THEN "save"
                                   ELSE "commit"])
    /\ UNCHANGED <<chainVars, tables, res, imp, pub, ver>>

\* storage.add_commitment for the next output
ScanCommit(s) ==
    /\ scan[s].pc = "commit"
    /\ AddCommitment(ScanPoint(scan[s]), scan[s].next, scan[s].hash)
    /\ SetScan(s, [scan[s] EXCEPT !.pc = "lookup"])
    /\ UNCHANGED <<chainVars, batches, blocks, anchors, res, imp, pub, ver>>

\* storage.batch(manifest_hash): register the anchor if the batch is known
ScanLookup(s) ==
    /\ scan[s].pc = "lookup"
    /\ LET p == ScanPoint(scan[s])
       IN  SetScan(s, IF Manifest[p] \in batches /\ p \in Exact
                      THEN [scan[s] EXCEPT !.pc = "read"]
                      ELSE NextOutput(scan[s]))
    /\ UNCHANGED <<chainVars, tables, res, imp, pub, ver>>

(***************************************************************************)
(* register_scanned_anchor, called by scanners and resolvers: read the     *)
(* batch and the matching commitment, write the anchor, mark the           *)
(* commitment resolved.  Batches are never deleted and the caller has just *)
(* seen this one, so reading it adds no interleaving.                      *)
(***************************************************************************)
ConfirmedAnchor(p, com) ==
    [status |-> "confirmed", batch |-> Manifest[p], network |-> NodeNetwork,
     hash |-> com.hash, height |-> com.height]

\* storage.commitments(batch_id, limit=10_000) lists the oldest rows of the
\* batch: a row beyond the limit is not found.
Findable ==
    {p \in Present :
        Cardinality({q \in commitments[p].before : Manifest[q] = Manifest[p]}) < RowLimit}

\* Slip: the commitment is marked before the anchor is written.
ScanRegisterReadMarks(s) ==
    /\ scan[s].pc = "read"
    /\ SetScan(s, [scan[s] EXCEPT !.pc = "mark"])
    /\ UNCHANGED <<chainVars, tables, res, imp, pub, ver>>

\* A commitment that is missing, or beyond the limit, raises
\* MissingDependencyError, which ends the scan.
ScanRegisterRead(s) ==
    /\ scan[s].pc = "read"
    /\ LET p == ScanPoint(scan[s])
       IN  SetScan(s, IF p \in Findable
                      THEN [scan[s] EXCEPT !.pc = "write", !.com = Context(p)]
                      ELSE IdleScan)
    /\ UNCHANGED <<chainVars, tables, res, imp, pub, ver>>

ScanRegisterWrite(s) ==
    /\ scan[s].pc = "write"
    /\ LET p == ScanPoint(scan[s]) IN AddAnchor(p, ConfirmedAnchor(p, scan[s].com))
    /\ SetScan(s, [scan[s] EXCEPT !.pc = "mark"])
    /\ UNCHANGED <<chainVars, batches, blocks, commitments, res, imp, pub, ver>>

ScanRegisterMark(s) ==
    /\ scan[s].pc = "mark"
    /\ MarkResolved(ScanPoint(scan[s]))
    /\ SetScan(s, NextOutput(scan[s]))
    /\ UNCHANGED <<chainVars, batches, blocks, anchors, res, imp, pub, ver>>

\* storage.add_scanned_block, after all outputs of the block
ScanSave(s) ==
    /\ scan[s].pc = "save"
    /\ AddScannedBlock(scan[s].next, scan[s].hash)
    /\ SetScan(s, IF scan[s].next = scan[s].end THEN IdleScan
                  ELSE [scan[s] EXCEPT !.pc = "hash", !.next = @ + 1,
                                       !.hash = None, !.i = 1])
    /\ UNCHANGED <<chainVars, batches, commitments, anchors, res, imp, pub, ver>>

ScanStep(s) ==
    \/ ScanStored(s) \/ ScanCheck(s) \/ ScanWalk(s) \/ ScanCompare(s)
    \/ ScanRewind(s) \/ ScanHash(s) \/ ScanCommit(s) \/ ScanLookup(s)
    \/ ScanRegisterRead(s) \/ ScanRegisterWrite(s) \/ ScanRegisterMark(s)
    \/ ScanSave(s)

----------------------------------------------------------------------------
(***************************************************************************)
(* resolve_commitments.  The unresolved rows are listed once, oldest       *)
(* first; every error in import_package or register_scanned_anchor ends    *)
(* the whole cycle.                                                        *)
(***************************************************************************)
SetRes(r, l) == res' = [res EXCEPT ![r] = l]

\* storage.commitments(unresolved_only=True, limit=limit)
Unresolved == {p \in Present : ~commitments[p].resolved}
Oldest == {p \in Unresolved : Cardinality(commitments[p].before \cap Unresolved) < Limit}

ResolveBegin(r) ==
    /\ MayStart
    /\ res[r].pc = "idle"
    /\ Oldest # {}
    /\ SetRes(r, [IdleRes EXCEPT !.pc = "next",
         !.queue = {[pt |-> p, before |-> commitments[p].before \cap Oldest] : p \in Oldest}])
    /\ UNCHANGED <<chainVars, tables, scan, imp, pub, ver>>

\* The queue entry listed first of those that are left
IsNext(e, queue) == \A f \in queue : f.pt \notin e.before

\* Slip: one missing package ends the cycle.
ResolveMissingStops(r) ==
    /\ res[r].pc = "next"
    /\ SetRes(r, IdleRes)
    /\ UNCHANGED <<chainVars, tables, scan, imp, pub, ver>>

\* No peer supplies the package: the commitment stays unresolved.
ResolveMissing(r) ==
    /\ res[r].pc = "next"
    /\ \E e \in res[r].queue :
         /\ IsNext(e, res[r].queue)
         /\ SetRes(r, IF res[r].queue = {e} THEN IdleRes
                      ELSE [res[r] EXCEPT !.queue = @ \ {e}])
    /\ UNCHANGED <<chainVars, tables, scan, imp, pub, ver>>

\* A peer supplies the package of the committed manifest; import_package
ResolveImport(r, p) ==
    /\ res[r].pc = "next"
    /\ \E e \in res[r].queue :
         /\ e.pt = p
         /\ IsNext(e, res[r].queue)
         /\ Manifest[e.pt] \in Available
         /\ batches' = batches \cup {Manifest[e.pt]}
         /\ SetRes(r, [res[r] EXCEPT !.pc = "read", !.pt = e.pt, !.queue = @ \ {e}])
    /\ UNCHANGED <<chainVars, blocks, commitments, anchors, scan, imp, pub, ver>>

\* Slip: the payload is not compared.
ResolveReadAnyPayload(r) ==
    /\ res[r].pc = "read"
    /\ SetRes(r, IF res[r].pt \in Findable
                 THEN [res[r] EXCEPT !.pc = "write", !.com = Context(res[r].pt)]
                 ELSE IdleRes)
    /\ UNCHANGED <<chainVars, tables, scan, imp, pub, ver>>

\* register_scanned_anchor: no commitment within the limit, or another
\* payload, raises
ResolveRegisterRead(r) ==
    /\ res[r].pc = "read"
    /\ SetRes(r, IF res[r].pt \in Findable \cap Exact
                 THEN [res[r] EXCEPT !.pc = "write", !.com = Context(res[r].pt)]
                 ELSE IdleRes)
    /\ UNCHANGED <<chainVars, tables, scan, imp, pub, ver>>

ResolveRegisterWrite(r) ==
    /\ res[r].pc = "write"
    /\ AddAnchor(res[r].pt, ConfirmedAnchor(res[r].pt, res[r].com))
    /\ SetRes(r, [res[r] EXCEPT !.pc = "mark", !.com = NoContext])
    /\ UNCHANGED <<chainVars, batches, blocks, commitments, scan, imp, pub, ver>>

\* mark_commitment_resolved, by register_scanned_anchor ("mark") and once
\* more by the loop itself ("again")
ResolveRegisterMark(r) ==
    /\ res[r].pc \in {"mark", "again"}
    /\ MarkResolved(res[r].pt)
    /\ SetRes(r, IF res[r].pc = "mark" THEN [res[r] EXCEPT !.pc = "again"]
                 ELSE IF res[r].queue = {} THEN IdleRes
                 ELSE [res[r] EXCEPT !.pc = "next", !.pt = None])
    /\ UNCHANGED <<chainVars, batches, blocks, anchors, scan, imp, pub, ver>>

ResolveStep(r) ==
    \/ ResolveMissing(r) \/ (\E p \in Points : ResolveImport(r, p))
    \/ ResolveRegisterRead(r) \/ ResolveRegisterWrite(r) \/ ResolveRegisterMark(r)

----------------------------------------------------------------------------
(***************************************************************************)
(* import_anchor_reference, for a reference a peer or an archive supplies: *)
(* the row it read decides what is written, whatever happened in between.  *)
(***************************************************************************)
SetImp(i, l) == imp' = [imp EXCEPT ![i] = l]

\* A txid the outside world can know: not one our wallet has yet to make
Known(p) == p \notin OwnPoints \ sent

\* An existing row of another batch raises: nothing is written.
ImportRead(i, p, b, claim) ==
    /\ MayStart
    /\ imp[i].pc = "idle"
    /\ Known(p)
    /\ b \in batches
    /\ anchors[p].status # "absent" => anchors[p].batch = b
    /\ SetImp(i, [pc |-> "write", pt |-> p, row |->
         IF anchors[p].status \in LocallyChecked
         THEN [anchors[p] EXCEPT !.network = Network[b]]
         ELSE [status |-> "unverified", batch |-> b, network |-> Network[b],
               hash |-> claim.hash, height |-> claim.height]])
    /\ UNCHANGED <<chainVars, tables, scan, res, pub, ver>>

ImportWrite(i) ==
    /\ imp[i].pc = "write"
    /\ AddAnchor(imp[i].pt, imp[i].row)
    /\ SetImp(i, IdleImp)
    /\ UNCHANGED <<chainVars, batches, blocks, commitments, scan, res, pub, ver>>

----------------------------------------------------------------------------
(***************************************************************************)
(* anchor_batch: broadcast first, then record the anchor.                  *)
(***************************************************************************)
SetPub(u, l) == pub' = [pub EXCEPT ![u] = l]

\* broadcast_op_return makes and sends a new transaction with one output
\* that carries the payload of the batch.
PublishSend(u, p) ==
    /\ MayStart
    /\ pub[u].pc = "idle"
    /\ p \in (OwnPoints \cap Exact) \ sent
    /\ Manifest[p] \in batches
    /\ Network[Manifest[p]] = NodeNetwork
    /\ sent' = sent \cup {p}
    /\ SetPub(u, [pc |-> "save", pt |-> p])
    /\ UNCHANGED <<chain, moves, tables, scan, res, imp, ver>>

PublishSave(u) ==
    /\ pub[u].pc = "save"
    /\ AddAnchor(pub[u].pt,
         [status |-> "broadcast", batch |-> Manifest[pub[u].pt],
          network |-> NodeNetwork, hash |-> None, height |-> None])
    /\ SetPub(u, IdlePub)
    /\ UNCHANGED <<chainVars, batches, blocks, commitments, scan, res, imp, ver>>

----------------------------------------------------------------------------
(***************************************************************************)
(* verify_bitcoin_anchor(batch_id, txid).  The caller names any            *)
(* transaction; the output looked at is the one of a row of this batch and *)
(* transaction if there is one, else the output with the batch's payload.  *)
(* find_payload only returns that exact payload, so the branch that would  *)
(* write "invalid" is never taken.                                         *)
(***************************************************************************)
SetVer(v, l) == ver' = [ver EXCEPT ![v] = l]

RowsOf(b) == {p \in Points : anchors[p].status # "absent" /\ anchors[p].batch = b}

VerifyRead(v, p) ==
    /\ MayStart
    /\ ver[v].pc = "idle"
    /\ Known(p)
    /\ p \in Exact
    /\ Manifest[p] \in batches
    /\ Network[Manifest[p]] = NodeNetwork
    /\ p \in RowsOf(Manifest[p]) \/ \A q \in RowsOf(Manifest[p]) : Tx[q] # Tx[p]
    /\ SetVer(v, [IdleVer EXCEPT !.pc = "tx", !.pt = p, !.row =
         IF p \in RowsOf(Manifest[p]) THEN anchors[p]
         ELSE [NoAnchor EXCEPT !.batch = Manifest[p]]])
    /\ UNCHANGED <<chainVars, tables, scan, res, imp, pub>>

\* rpc.transaction: block and confirmations.  Without a block there is no
\* context and the status is "broadcast".
VerifyTransaction(v) ==
    /\ ver[v].pc = "tx"
    /\ \E b \in Transaction(chain, ver[v].pt, ver[v].row.hash) :
         SetVer(v, [pc |-> IF b = None THEN "write" ELSE "context",
                    pt |-> ver[v].pt,
                    row |-> [ver[v].row EXCEPT !.status = "broadcast", !.hash = b,
                                               !.height = None],
                    mined |-> b \in BlocksOf(chain)])
    /\ UNCHANGED <<chainVars, tables, scan, res, imp, pub>>

\* Slip: a transaction with a block is confirmed whatever the chain says.
VerifyContextTrusting(v) ==
    /\ ver[v].pc = "context"
    /\ SetVer(v, [ver[v] EXCEPT !.pc = "write", !.row.status = "confirmed",
                               !.row.height = Height[ver[v].row.hash]])
    /\ UNCHANGED <<chainVars, tables, scan, res, imp, pub>>

\* rpc.block_context(block_hash), then the status
VerifyContext(v) ==
    /\ ver[v].pc = "context"
    /\ LET b == ver[v].row.hash
           active == b \in BlocksOf(chain)
       IN  SetVer(v, [ver[v] EXCEPT !.pc = "write", !.row.height = Height[b],
             !.row.status = IF ~active THEN "reorganised"
                            ELSE IF ver[v].mined THEN "confirmed"
                            ELSE "broadcast"])
    /\ UNCHANGED <<chainVars, tables, scan, res, imp, pub>>

VerifyWrite(v) ==
    /\ ver[v].pc = "write"
    /\ AddAnchor(ver[v].pt, ver[v].row)
    /\ SetVer(v, IdleVer)
    /\ UNCHANGED <<chainVars, batches, blocks, commitments, scan, res, imp, pub>>

\* An RPC error ends the verification and writes nothing.
VerifyFail(v) ==
    /\ ver[v].pc \in {"tx", "context"}
    /\ SetVer(v, IdleVer)
    /\ UNCHANGED <<chainVars, tables, scan, res, imp, pub>>

----------------------------------------------------------------------------
Environment ==
    \/ \E c \in Branches : MoveChain(c)
    \/ \E b \in Batches : ImportPackage(b)
    \/ Crash

Scan == \E s \in Scanners : ScanBegin(s) \/ ScanStep(s)
Resolve == \E r \in Resolvers : ResolveBegin(r) \/ ResolveStep(r)
Import == \E i \in Importers :
    \/ \E p \in Points, b \in Batches, claim \in Claims : ImportRead(i, p, b, claim)
    \/ ImportWrite(i)
Publish == \E u \in Publishers : (\E p \in Points : PublishSend(u, p)) \/ PublishSave(u)
Verify == \E v \in Verifiers :
    \/ \E p \in Points : VerifyRead(v, p)
    \/ VerifyTransaction(v) \/ VerifyContext(v) \/ VerifyWrite(v) \/ VerifyFail(v)

Next == Environment \/ Scan \/ Resolve \/ Import \/ Publish \/ Verify

Spec == Init /\ [][Next]_vars

(***************************************************************************)
(* The periodic tasks run forever: each scan and each resolution cycle is  *)
(* started again and its steps are taken, so their steps are weakly fair.  *)
(* A peer that holds a package and is asked for it again and again         *)
(* answers eventually: strong fairness, because a failed download moves on *)
(* and the next cycle asks afresh.  The process may be restarted any       *)
(* number of times, but not forever.                                       *)
(***************************************************************************)
ScanFairness ==
    \A s \in Scanners : WF_vars(ScanBegin(s)) /\ WF_vars(ScanStep(s))

ResolveFairness ==
    \A r \in Resolvers :
        /\ WF_vars(ResolveBegin(r)) /\ WF_vars(ResolveStep(r))
        /\ \A p \in Points : SF_vars(ResolveImport(r, p))

RestartsEnd == <>[][~Crash]_vars

FairSpec == Spec /\ ScanFairness /\ ResolveFairness /\ RestartsEnd

----------------------------------------------------------------------------
\* Properties

ContextType == [hash : Blocks \cup {None}, height : Heights]
ScanThread == [pc : {"idle", "stored", "check", "walk", "compare", "rewind",
                     "hash", "commit", "lookup", "read", "write", "mark", "save"},
               tip : Heights, next : Heights, end : Heights,
               cand : {-1} \cup Heights, seen : Blocks \cup {None},
               hash : Blocks \cup {None}, i : Nat \ {0}, com : ContextType]
ResThread == [pc : {"idle", "next", "read", "write", "mark", "again"},
              queue : SUBSET [pt : Points, before : SUBSET Points],
              pt : Points \cup {None}, com : ContextType]
ImpThread == [pc : {"idle", "write"}, pt : Points \cup {None}, row : AnchorRow]
PubThread == [pc : {"idle", "save"}, pt : Points \cup {None}]
VerThread == [pc : {"idle", "tx", "context", "write"}, pt : Points \cup {None},
              row : AnchorRow, mined : BOOLEAN]

\* Every table and every thread's local state has the type of the code's.
TypeOK ==
    /\ chain \in Branches
    /\ moves \in 0 .. MaxMoves
    /\ sent \subseteq OwnPoints
    /\ batches \subseteq Batches
    /\ blocks \in [Heights -> Blocks \cup {None}]
    /\ commitments \in [Points -> CommitmentRow]
    /\ anchors \in [Points -> AnchorRow]
    /\ scan \in [Scanners -> ScanThread]
    /\ res \in [Resolvers -> ResThread]
    /\ imp \in [Importers -> ImpThread]
    /\ pub \in [Publishers -> PubThread]
    /\ ver \in [Verifiers -> VerThread]

\* The block a row names really contains the point, at the height it names.
InBlock(p, context) ==
    /\ context.hash \in Blocks
    /\ p \in OutputSet(context.hash)
    /\ context.height = Height[context.hash]

(***************************************************************************)
(* An anchor is "confirmed" only on evidence from Bitcoin: the block it    *)
(* names exists at that height and contains an output with exactly the     *)
(* payload of the batch it names, and that batch is held locally.  So no   *)
(* interleaving of imports of peer-supplied references with scans,         *)
(* resolutions, publications and verifications lets a claim become a       *)
(* confirmation (import_anchor_reference, register_scanned_anchor,         *)
(* verify_bitcoin_anchor).                                                 *)
(***************************************************************************)
ConfirmedIsWitnessed ==
    \A p \in Points : anchors[p].status = "confirmed" =>
        /\ InBlock(p, anchors[p])
        /\ p \in Exact
        /\ anchors[p].batch = Manifest[p]
        /\ anchors[p].batch \in batches

(***************************************************************************)
(* A commitment counts as resolved only once an anchor row exists for it   *)
(* (register_scanned_anchor writes the anchor before it marks): a crash, a *)
(* rewind or another thread between the two never leaves a commitment that *)
(* the resolver will skip although nothing refers to its batch.            *)
(***************************************************************************)
ResolvedHasAnchor ==
    \A p \in Present : commitments[p].resolved => anchors[p].status # "absent"

\* The database describes the active chain up to its tip and nothing runs.
CaughtUp ==
    /\ IsLatestScanned(BlockCount(chain))
    /\ blocks[BlockCount(chain)] = chain[Len(chain)]
Synced == AllIdle /\ CaughtUp

(***************************************************************************)
(* The scanned blocks are on one branch: rewind_bitcoin_scan cuts the      *)
(* table exactly where the active chain left it.                           *)
(***************************************************************************)
BlocksOnOneBranch ==
    \E c \in Branches : \A h \in ScannedHeights : BlockHash(c, h) = blocks[h]

(***************************************************************************)
(* After a scan that reached the tip, the commitments table holds exactly  *)
(* the HAP outputs of the active chain from StartHeight on, each with its  *)
(* block: no output was missed and none of an abandoned branch is left.    *)
(***************************************************************************)
SyncedViewExact ==
    Synced =>
        \A p \in Points :
            LET at == {i \in 1 .. Len(chain) : i > StartHeight /\ p \in OutputSet(chain[i])}
            IN  IF at = {} THEN p \notin Present
                ELSE \A i \in at : Context(p) = [hash |-> chain[i], height |-> i - 1]

(***************************************************************************)
(* After a scan that reached the tip, no anchor is reported confirmed in a *)
(* block that is not on the active chain (the rewind of scan_bitcoin).     *)
(***************************************************************************)
NoStaleConfirmed ==
    Synced => \A p \in Points :
        anchors[p].status = "confirmed" => anchors[p].hash \in BlocksOf(chain)

(***************************************************************************)
(* Between cycles, a resolved commitment has a confirmed anchor in the     *)
(* same block: nobody downgraded what register_scanned_anchor established  *)
(* (imports of references and publications keep a checked status).         *)
(***************************************************************************)
ResolvedIsConfirmed ==
    AllIdle => \A p \in Present : commitments[p].resolved =>
        /\ anchors[p].status = "confirmed"
        /\ anchors[p].hash = commitments[p].hash

(***************************************************************************)
(* An anchor goes from confirmed to reorganised only when its block has    *)
(* left the active chain (rewind_bitcoin_scan via _find_common_ancestor).  *)
(***************************************************************************)
DemotedOnlyOffChain ==
    [][\A p \in Points :
         anchors[p].status = "confirmed" /\ anchors'[p].status = "reorganised"
           => anchors[p].hash \notin BlocksOf(chain)]_vars

(***************************************************************************)
(* A write of import_anchor_reference never replaces a confirmed anchor    *)
(* by an unverified one.                                                   *)
(***************************************************************************)
ImportKeepsConfirmed ==
    [][\A p \in Points :
         anchors[p].status = "confirmed" => anchors'[p].status # "unverified"]_vars

\* Once the chain stops moving and the process stays up, the periodic scan
\* reaches the tip and stays there, wherever in a scan the last reorganisation
\* or the last restart struck (scan_bitcoin), unless a batch has more rows than
\* register_scanned_anchor looks at: then the scan raises at the same output in
\* every cycle.
ScanCatchesUp == <>[](Present \subseteq Findable) => <>[]CaughtUp

\* A discovered commitment whose package some peer can supply and whose payload
\* is the batch's.
Resolvable(p) == p \in Unresolved \cap Exact /\ Manifest[p] \in Available

\* Nothing older stands in the way of p in every cycle: no row whose package
\* is found and whose registration then raises, and fewer rows without a
\* package than a cycle examines.
Clear(p) ==
    LET older == commitments[p].before \cap Unresolved
        missing == {q \in older : Manifest[q] \notin Available}
    IN  /\ older \ missing \subseteq Exact
        /\ (older \ missing) \cup {p} \subseteq Findable
        /\ Cardinality(missing) < Limit

(***************************************************************************)
(* A commitment that can be resolved and has a clear way does not stay     *)
(* unresolved, wherever restarts cut its resolution short                  *)
(* (resolve_commitments).  Without a clear way it may stay unresolved for  *)
(* ever: an older output with a foreign payload ends every cycle before    *)
(* it, or Limit older outputs without a package fill every cycle.          *)
(***************************************************************************)
EveryPackageFound ==
    \A p \in Points : Resolvable(p) /\ Clear(p) ~> p \notin Unresolved
=============================================================================
