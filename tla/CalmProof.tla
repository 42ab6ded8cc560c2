----------------------------- MODULE CalmProof -----------------------------
(***************************************************************************)
(* Proofs that the tables of Publication follow the active chain.  They    *)
(* hold only while the environment is calm: mid_scan_reorg and import_race *)
(* are runs that show what a reorganisation during a scan and a racing     *)
(* import do instead.                                                      *)
(*                                                                         *)
(* The argument has two layers.  SInv is about the scanner and the two     *)
(* tables it fills; it lets every other thread run at any time.  AInv is   *)
(* about the anchors and needs the threads one after the other.            *)
(***************************************************************************)
EXTENDS PublicationProof, FiniteSetTheorems

\* Fewer outputs name a batch than register_scanned_anchor looks at, so it finds
\* every row: a row it does not find ends a scan within a block, like a restart.
RowsOfBatch(b) == {p \in Points : Manifest[p] = b}
FewRows == \A b \in Batches : IsFiniteSet(RowsOfBatch(b)) /\ Cardinality(RowsOfBatch(b)) < RowLimit

\* No reorganisation strikes a scan, nothing cuts one short within a block, and
\* scans do not overlap.  The other threads may run at any time and the RPC may
\* fail.
Steady ==
    /\ ~MidScanReorg /\ ~Crashes /\ FewRows
    /\ Serial \/ \A s, t \in Scanners : s = t

----------------------------------------------------------------------------
\* The scanner and its tables

\* The blocks table holds the heights StartHeight .. n - 1 of branch c.
Stored(c, n) ==
    \A h \in Heights :
        blocks[h] = IF StartHeight <= h /\ h < n THEN c[h + 1] ELSE None

\* A scan at l has committed output p of block b, which is not stored yet.
Committed(l, p, b) ==
    /\ l.pc \in InOutputs \cup {"save"}
    /\ b = l.hash
    /\ \E k \in 1 .. Len(Outputs[b]) :
         /\ p = Outputs[b][k]
         /\ k < l.i \/ (k = l.i /\ l.pc # "commit") \/ l.pc = "save"

OneScan == \A s, t \in Scanners :
    scan[s].pc # "idle" /\ scan[t].pc # "idle" => s = t

RunOfBranch == \E c \in Branches : \E n \in 0 .. Len(c) : Stored(c, n)

\* The commitments table holds the outputs of the stored blocks, and those
\* that a scan under way has committed of the block it is at.
RowsMatch ==
    \A p \in Points, b \in Blocks :
        commitments[p].hash = b <=>
            \/ p \in OutputSet(b) /\ blocks[Height[b]] = b
            \/ \E s \in Scanners : Committed(scan[s], p, b)

\* No stored block above height a is on the active chain.
OffAbove(a) == \A h \in Heights :
    h > a /\ blocks[h] # None => blocks[h] # BlockHash(chain, h)

\* What the locals l of a scan say of the chain and the blocks table.
ScanPlace(l) ==
    /\ l.pc # "idle" => l.tip = BlockCount(chain)
    /\ l.pc = "check" => IsLatestScanned(l.cand) /\ l.seen = blocks[l.cand]
    /\ l.pc = "compare" => l.seen = blocks[l.cand] /\ l.seen # None
    /\ l.pc = "rewind" => \/ l.cand = -1
                          \/ /\ l.cand \in Heights
                             /\ blocks[l.cand] # None
                             /\ blocks[l.cand] = BlockHash(chain, l.cand)
    /\ l.pc \in InRange => StartHeight <= l.next /\ Stored(chain, l.next)
    /\ l.pc \in InOutputs \cup {"save"} => l.hash = chain[l.next + 1]
    /\ ~RpcFails /\ l.pc \in {"walk", "compare", "rewind"} => OffAbove(l.cand)

SInv == /\ OneScan /\ RunOfBranch /\ RowsMatch
        /\ \A s \in Scanners : ScanPlace(scan[s])

\* RowsMatch when s is the only scan under way.
RowsUnder(s) ==
    \A p \in Points, b \in Blocks :
        commitments[p].hash = b <=>
            \/ p \in OutputSet(b) /\ blocks[Height[b]] = b
            \/ Committed(scan[s], p, b)

Solo(s) == \A t \in Scanners : t # s => scan[t].pc = "idle"

----------------------------------------------------------------------------
\* Lemmas about the chain

LEMMA BranchFacts ==
    ASSUME NEW c \in Branches
    PROVE  /\ c \in Seq(Blocks) /\ Len(c) \in Nat /\ 1 <= Len(c)
           /\ Len(c) - 1 \in Heights
           /\ \A i \in 1 .. Len(c) : c[i] \in Blocks /\ c[i] # None /\ Height[c[i]] = i - 1
<1>1. c \in Seq(Blocks) /\ Len(c) \in Nat /\ 1 <= Len(c)
  BY ChainAssumption
<1>2. \A i \in 1 .. Len(c) : c[i] \in Blocks /\ c[i] # None /\ Height[c[i]] = i - 1
  BY <1>1, ChainAssumption
<1>3. Len(c) \in 1 .. Len(c)
  BY <1>1
<1>4. Height[c[Len(c)]] = Len(c) - 1 /\ c[Len(c)] \in Blocks
  BY <1>2, <1>3
<1>5. Len(c) - 1 \in Heights
  BY <1>4, ChainAssumption
<1> QED
  BY <1>1, <1>2, <1>5

\* What the chain answers for a height.
LEMMA AnswerFacts ==
    ASSUME NEW c \in Branches, NEW h \in Int
    PROVE  \/ h \in 0 .. Len(c) - 1 /\ BlockHash(c, h) = c[h + 1] /\ c[h + 1] \in Blocks
              /\ c[h + 1] # None
           \/ h \notin 0 .. Len(c) - 1 /\ BlockHash(c, h) = None
<1>1. CASE h \in 0 .. Len(c) - 1
  <2>1. h + 1 \in 1 .. Len(c)
    BY <1>1, BranchFacts
  <2> QED
    BY <1>1, <2>1, BranchFacts DEF BlockHash, BlockCount
<1>2. CASE h \notin 0 .. Len(c) - 1
  BY <1>2 DEF BlockHash, BlockCount
<1> QED
  BY <1>1, <1>2

\* A hash fixes its block's height and everything below it.
LEMMA SamePrefix ==
    ASSUME NEW c \in Branches, NEW d \in Branches, NEW h \in Nat,
           h < Len(c), h < Len(d), c[h + 1] = d[h + 1]
    PROVE  \A k \in 0 .. h : c[k + 1] = d[k + 1]
<1>1. h + 1 \in 1 .. Len(c) /\ h + 1 \in 1 .. Len(d)
  BY BranchFacts
<1>2. \A k \in 1 .. h + 1 : c[k] = d[k]
  BY <1>1, HashAssumption
<1> QED
  BY <1>2

\* An output is in one block of a branch only.
LEMMA OneBlock ==
    ASSUME NEW c \in Branches, NEW i \in 1 .. Len(c), NEW j \in 1 .. Len(c),
           NEW p, p \in OutputSet(c[i]), p \in OutputSet(c[j])
    PROVE  i = j
<1>1. PICK m \in 1 .. Len(Outputs[c[i]]) : p = Outputs[c[i]][m]
  BY DEF OutputSet
<1>2. PICK n \in 1 .. Len(Outputs[c[j]]) : p = Outputs[c[j]][n]
  BY DEF OutputSet
<1>3. Tx[Outputs[c[i]][m]] = Tx[Outputs[c[j]][n]]
  BY <1>1, <1>2
<1>4. \A x, y \in 1 .. Len(c) :
         (\E k \in 1 .. Len(Outputs[c[x]]) : \E l \in 1 .. Len(Outputs[c[y]]) :
             Tx[Outputs[c[x]][k]] = Tx[Outputs[c[y]][l]]) => x = y
  BY HashAssumption
<1> QED
  BY <1>3, <1>4, Zenon

\* The rows of the blocks table.
LEMMA StoredFacts ==
    ASSUME NEW c \in Branches, NEW n \in 0 .. Len(c), Stored(c, n), NEW h \in Heights
    PROVE  /\ h \in Nat
           /\ blocks[h] # None <=> StartHeight <= h /\ h < n
           /\ blocks[h] # None => /\ h < Len(c) /\ blocks[h] = c[h + 1]
                                  /\ blocks[h] \in Blocks /\ Height[blocks[h]] = h
<1>1. h \in Nat /\ StartHeight \in Nat
  BY ChainAssumption, NodeAssumption DEF Heights
<1>2. Len(c) \in Nat
  BY BranchFacts
<1>3. blocks[h] = IF StartHeight <= h /\ h < n THEN c[h + 1] ELSE None
  BY DEF Stored
<1>4. CASE StartHeight <= h /\ h < n
  <2>1. h + 1 \in 1 .. Len(c) /\ h < Len(c)
    BY <1>1, <1>2, <1>4
  <2>2. c[h + 1] \in Blocks /\ c[h + 1] # None /\ Height[c[h + 1]] = (h + 1) - 1
    BY <2>1, BranchFacts
  <2> QED
    BY <1>1, <1>3, <1>4, <2>1, <2>2
<1>5. CASE ~(StartHeight <= h /\ h < n)
  BY <1>1, <1>3, <1>5
<1> QED
  BY <1>4, <1>5

\* A stored block that is also on d: the table up to there is a run of d.
LEMMA StoredOn ==
    ASSUME NEW c \in Branches, NEW n \in 0 .. Len(c), Stored(c, n),
           NEW d \in Branches, NEW a \in Heights, blocks[a] # None,
           blocks[a] = BlockHash(d, a)
    PROVE  /\ a + 1 \in 0 .. Len(d)
           /\ \A h \in Heights : h <= a => blocks[h] =
                 IF StartHeight <= h /\ h < a + 1 THEN d[h + 1] ELSE None
<1>1. a \in Nat /\ a < n /\ a < Len(c) /\ blocks[a] = c[a + 1] /\ StartHeight <= a
  BY StoredFacts
<1>2. a \in 0 .. Len(d) - 1 /\ BlockHash(d, a) = d[a + 1]
  <2>1. a \in Int /\ BlockHash(d, a) # None
    BY <1>1
  <2> QED
    BY <2>1, AnswerFacts
<1>3. Len(d) \in Nat /\ Len(c) \in Nat
  BY BranchFacts
<1>4. a < Len(d) /\ c[a + 1] = d[a + 1]
  <2>1. c[a + 1] = d[a + 1]
    BY <1>1, <1>2, Zenon
  <2> QED
    BY <1>2, <1>3, <2>1
<1>5. \A k \in 0 .. a : c[k + 1] = d[k + 1]
  BY <1>1, <1>4, SamePrefix
<1>6. ASSUME NEW h \in Heights, h <= a
      PROVE  blocks[h] = IF StartHeight <= h /\ h < a + 1 THEN d[h + 1] ELSE None
  <2>1. h \in Nat
    BY StoredFacts
  <2>2. h \in 0 .. a /\ h < a + 1 /\ h < n
    BY <1>1, <1>6, <2>1
  <2> QED
    BY <2>2, <1>5 DEF Stored
<1>7. a + 1 \in 0 .. Len(d)
  BY <1>1, <1>3, <1>4
<1> QED
  BY <1>6, <1>7

----------------------------------------------------------------------------
\* One scan at a time

\* A scan that is under way, or that starts, is the only one.
LEMMA Alone ==
    ASSUME Steady, SInv, NEW s \in Scanners, scan[s].pc # "idle" \/ ScanBegin(s)
    PROVE  Solo(s) /\ RowsUnder(s)
<1>1. Solo(s)
  <2>1. CASE scan[s].pc # "idle"
    BY <2>1 DEF SInv, OneScan, Solo
  <2>2. CASE ScanBegin(s)
    BY <2>2 DEF Steady, Solo, ScanBegin, MayStart, AllIdle
  <2> QED
    BY <2>1, <2>2
<1>2. \A t \in Scanners, p \in Points, b \in Blocks :
         Committed(scan[t], p, b) => t = s
  BY <1>1 DEF Solo, Committed, InOutputs
<1>3. ASSUME NEW p \in Points, NEW b \in Blocks
      PROVE  commitments[p].hash = b <=>
                \/ p \in OutputSet(b) /\ blocks[Height[b]] = b
                \/ Committed(scan[s], p, b)
  <2>1. commitments[p].hash = b <=>
            \/ p \in OutputSet(b) /\ blocks[Height[b]] = b
            \/ \E t \in Scanners : Committed(scan[t], p, b)
    BY DEF SInv, RowsMatch
  <2> QED
    BY <1>2, <2>1
<1> QED
  BY <1>1, <1>3 DEF RowsUnder

\* The others stay idle, so what holds of the scan that moves is enough.
LEMMA SoloStep ==
    ASSUME NEW s \in Scanners, Solo(s), IInv, NEW l, SetScan(s, l),
           RunOfBranch', RowsUnder(s)', ScanPlace(scan[s])'
    PROVE  SInv'
<1>1. \A t \in Scanners : t # s => scan'[t].pc = "idle"
  BY DEF SetScan, Solo, IInv, ScanOK
<1>2. OneScan'
  BY <1>1 DEF OneScan
<1>3. ASSUME NEW t \in Scanners PROVE ScanPlace(scan[t])'
  <2>1. CASE t = s
    BY <2>1
  <2>2. CASE t # s
    BY <1>1, <2>2 DEF ScanPlace, InRange, InOutputs
  <2> QED
    BY <2>1, <2>2
<1>4. \A t \in Scanners, p \in Points, b \in Blocks :
         Committed(scan'[t], p, b) => t = s
  BY <1>1 DEF Committed, InOutputs
<1>5. RowsMatch'
  <2> SUFFICES ASSUME NEW p \in Points, NEW b \in Blocks
               PROVE  commitments'[p].hash = b <=>
                        \/ p \in OutputSet(b) /\ blocks'[Height[b]] = b
                        \/ \E t \in Scanners : Committed(scan'[t], p, b)
    BY DEF RowsMatch
  <2>1. commitments'[p].hash = b <=>
            \/ p \in OutputSet(b) /\ blocks'[Height[b]] = b
            \/ Committed(scan'[s], p, b)
    BY DEF RowsUnder
  <2> QED
    BY <1>4, <2>1
<1> QED
  BY <1>2, <1>3, <1>5 DEF SInv

\* A step that leaves the chain, the blocks and the block of every row.
LEMMA LocalStep ==
    ASSUME SInv, IInv, NEW s \in Scanners, Solo(s), RowsUnder(s),
           NEW l, SetScan(s, l), UNCHANGED <<chain, blocks>>,
           \A p \in Points : commitments'[p].hash = commitments[p].hash,
           \A p \in Points, b \in Blocks :
              Committed(l, p, b) <=> Committed(scan[s], p, b),
           ScanPlace(l)
    PROVE  SInv'
<1>1. scan'[s] = l
  BY DEF SetScan, IInv, ScanOK
<1>2. RunOfBranch'
  BY DEF SInv, RunOfBranch, Stored
<1>3. RowsUnder(s)'
  <2> SUFFICES ASSUME NEW p \in Points, NEW b \in Blocks
               PROVE  commitments'[p].hash = b <=>
                        \/ p \in OutputSet(b) /\ blocks'[Height[b]] = b
                        \/ Committed(scan'[s], p, b)
    BY DEF RowsUnder
  <2>1. commitments[p].hash = b <=>
            \/ p \in OutputSet(b) /\ blocks[Height[b]] = b
            \/ Committed(scan[s], p, b)
    BY DEF RowsUnder
  <2> QED
    BY <1>1, <2>1
<1>4. ScanPlace(scan[s])'
  BY <1>1 DEF ScanPlace, Stored, OffAbove, IsLatestScanned, ScannedHeights
<1> QED
  BY <1>2, <1>3, <1>4, SoloStep

\* Steps of the other threads.
LEMMA ScanUntouched ==
    ASSUME SInv, UNCHANGED <<chain, blocks, scan>>,
           \A p \in Points : commitments'[p].hash = commitments[p].hash
    PROVE  SInv'
<1>1. OneScan' /\ RunOfBranch'
  BY DEF SInv, OneScan, RunOfBranch, Stored
<1>2. RowsMatch'
  BY DEF SInv, RowsMatch
<1>3. \A s \in Scanners : ScanPlace(scan[s])'
  BY DEF SInv, ScanPlace, Stored, OffAbove, IsLatestScanned, ScannedHeights
<1> QED
  BY <1>1, <1>2, <1>3 DEF SInv

\* Marking a commitment does not touch its block.
LEMMA MarkKeepsHash ==
    ASSUME CommitmentsOK, NEW q, MarkResolved(q), NEW p \in Points
    PROVE  commitments'[p].hash = commitments[p].hash
<1>1. commitments[p] \in CommitmentRow
  BY DEF CommitmentsOK
<1>2. CASE commitments' = commitments
  BY <1>2
<1>3. CASE q \in Present /\ commitments' = [commitments EXCEPT ![q].resolved = TRUE]
  <2>1. \/ commitments'[p] = [commitments[p] EXCEPT !.resolved = TRUE]
        \/ commitments'[p] = commitments[p]
    BY <1>3 DEF CommitmentsOK
  <2> QED
    BY <1>1, <2>1 DEF CommitmentRow
<1> QED
  BY <1>2, <1>3 DEF MarkResolved

----------------------------------------------------------------------------
\* The steps of a scan

\* What Plan returns: nothing to do, or a range that starts below the tip.
LEMMA PlanFields ==
    ASSUME NEW l, NEW first
    PROVE  \/ Plan(l, first) = IdleScan
           \/ /\ Plan(l, first).pc = "hash" /\ Plan(l, first).tip = l.tip
              /\ Plan(l, first).next = first
  BY DEF Plan, IdleScan

LEMMA PlanAt ==
    ASSUME NEW l, NEW first, l.tip = BlockCount(chain), StartHeight <= first,
           Stored(chain, first)
    PROVE  ScanPlace(Plan(l, first))
<1>1. CASE Plan(l, first) = IdleScan
  BY <1>1 DEF IdleScan, ScanPlace, InRange, InOutputs
<1>2. CASE /\ Plan(l, first).pc = "hash" /\ Plan(l, first).tip = l.tip
           /\ Plan(l, first).next = first
  BY <1>2 DEF ScanPlace, InRange, InOutputs
<1> QED
  BY <1>1, <1>2, PlanFields

\* Between blocks a scan has committed nothing that is not stored.
LEMMA NothingCommitted ==
    ASSUME NEW l, l.pc \notin InOutputs \cup {"save"}, NEW p, NEW b
    PROVE  ~Committed(l, p, b)
  BY DEF Committed

LEMMA PlanCommitsNothing ==
    ASSUME NEW l, NEW first, NEW p, NEW b
    PROVE  ~Committed(Plan(l, first), p, b)
<1>1. Plan(l, first).pc \in {"idle", "hash"}
  BY PlanFields DEF IdleScan
<1> QED
  BY <1>1 DEF Committed, InOutputs

LEMMA BeginFollows ==
    ASSUME Steady, IInv, SInv, NEW s \in Scanners, ScanBegin(s)
    PROVE  SInv'
<1> DEFINE l == [IdleScan EXCEPT !.pc = "stored", !.tip = BlockCount(chain)]
<1>1. Solo(s) /\ RowsUnder(s)
  BY Alone
<1>2. l.pc = "stored" /\ l.tip = BlockCount(chain)
  BY DEF IdleScan
<1>3. ScanPlace(l)
  BY <1>2 DEF ScanPlace, InRange, InOutputs
<1>4. scan[s].pc = "idle" /\ SetScan(s, l) /\ UNCHANGED <<chain, blocks, commitments>>
  BY DEF ScanBegin, chainVars, tables
<1> HIDE DEF l
<1>5. \A p \in Points, b \in Blocks : Committed(l, p, b) <=> Committed(scan[s], p, b)
  BY <1>2, <1>4, NothingCommitted DEF InOutputs
<1> QED
  BY <1>1, <1>3, <1>4, <1>5, LocalStep

\* A scan that is under way: its locals, and that it is the only one.
LEMMA Scanning ==
    ASSUME Steady, IInv, SInv, NEW s \in Scanners, scan[s].pc # "idle"
    PROVE  /\ scan[s] \in ScanThread /\ ScanKnows(scan[s], batches, anchors)
           /\ ScanPlace(scan[s]) /\ Solo(s) /\ RowsUnder(s)
           /\ scan[s].tip = BlockCount(chain) /\ chain \in Branches
           /\ scan[s].tip \in Heights
<1>1. Solo(s) /\ RowsUnder(s)
  BY Alone
<1>2. scan[s] \in ScanThread /\ ScanKnows(scan[s], batches, anchors) /\ chain \in Branches
  BY DEF IInv, ScanOK, ChainOK
<1>3. ScanPlace(scan[s])
  BY DEF SInv
<1> QED
  BY <1>1, <1>2, <1>3 DEF ScanPlace, ScanThread

LEMMA StoredFollows ==
    ASSUME Steady, IInv, SInv, NEW s \in Scanners, ScanStored(s)
    PROVE  SInv'
<1>0. /\ scan[s].pc = "stored" /\ UNCHANGED <<chain, blocks, commitments>>
  BY DEF ScanStored, chainVars, tables
<1>1. /\ scan[s] \in ScanThread /\ ScanPlace(scan[s]) /\ Solo(s) /\ RowsUnder(s)
      /\ scan[s].tip = BlockCount(chain) /\ chain \in Branches /\ scan[s].tip \in Heights
  BY <1>0, Scanning
<1>2. \A p \in Points, b \in Blocks : ~Committed(scan[s], p, b)
  BY <1>0, NothingCommitted DEF InOutputs
<1>3. CASE ScannedHeights = {} /\ SetScan(s, Plan(scan[s], StartHeight))
  <2>1. Stored(chain, StartHeight)
    <3> SUFFICES ASSUME NEW h \in Heights
                 PROVE  blocks[h] = IF StartHeight <= h /\ h < StartHeight
                                    THEN chain[h + 1] ELSE None
      BY DEF Stored
    <3>1. blocks[h] = None
      BY <1>3 DEF ScannedHeights
    <3>2. h \in Int /\ StartHeight \in Int
      BY ChainAssumption, NodeAssumption DEF Heights
    <3> QED
      BY <3>1, <3>2
  <2>2. ScanPlace(Plan(scan[s], StartHeight))
    <3>1. StartHeight <= StartHeight
      BY NodeAssumption
    <3> QED
      BY <1>1, <2>1, <3>1, PlanAt
  <2> QED
    BY <1>0, <1>1, <1>2, <1>3, <2>2, PlanCommitsNothing, LocalStep
<1>4. ASSUME NEW h \in Heights, IsLatestScanned(h), h <= scan[s].tip,
             SetScan(s, [scan[s] EXCEPT !.pc = "check", !.cand = h, !.seen = blocks[h]])
      PROVE  SInv'
  <2> DEFINE l == [scan[s] EXCEPT !.pc = "check", !.cand = h, !.seen = blocks[h]]
  <2>1. /\ l.pc = "check" /\ l.cand = h /\ l.seen = blocks[h] /\ l.tip = scan[s].tip
    BY <1>1 DEF ScanThread
  <2>2. SetScan(s, l)
    BY <1>4
  <2> HIDE DEF l
  <2>3. ScanPlace(l)
    BY <1>1, <1>4, <2>1 DEF ScanPlace, InRange, InOutputs
  <2>4. \A p \in Points, b \in Blocks : ~Committed(l, p, b)
    BY <2>1, NothingCommitted DEF InOutputs
  <2> QED
    BY <1>0, <1>1, <1>2, <2>2, <2>3, <2>4, LocalStep
<1>5. ASSUME NEW h \in Heights, IsLatestScanned(h), ~(h <= scan[s].tip),
             SetScan(s, [scan[s] EXCEPT !.pc = "walk", !.cand = scan[s].tip])
      PROVE  SInv'
  <2> DEFINE l == [scan[s] EXCEPT !.pc = "walk", !.cand = scan[s].tip]
  <2>1. /\ l.pc = "walk" /\ l.cand = scan[s].tip /\ l.tip = scan[s].tip
    BY <1>1 DEF ScanThread
  <2>2. SetScan(s, l)
    BY <1>5
  <2> HIDE DEF l
  <2>3. OffAbove(scan[s].tip)
    <3> SUFFICES ASSUME NEW k \in Heights, k > scan[s].tip, blocks[k] # None
                 PROVE  blocks[k] # BlockHash(chain, k)
      BY DEF OffAbove
    <3>1. k \in Int /\ k \notin 0 .. Len(chain) - 1
      BY <1>1, BranchFacts, ChainAssumption DEF Heights, BlockCount
    <3> QED
      BY <1>1, <3>1, AnswerFacts
  <2>4. ScanPlace(l)
    BY <1>1, <2>1, <2>3 DEF ScanPlace, InRange, InOutputs
  <2>5. \A p \in Points, b \in Blocks : ~Committed(l, p, b)
    BY <2>1, NothingCommitted DEF InOutputs
  <2> QED
    BY <1>0, <1>1, <1>2, <2>2, <2>4, <2>5, LocalStep
<1> QED
  BY <1>3, <1>4, <1>5 DEF ScanStored

\* The stored tip is on the active chain: the table is a run of it.
LEMMA LatestOn ==
    ASSUME SInv, chain \in Branches, NEW a \in Heights, IsLatestScanned(a),
           blocks[a] = BlockHash(chain, a)
    PROVE  /\ a + 1 \in 0 .. Len(chain) /\ Stored(chain, a + 1)
           /\ StartHeight <= a /\ StartHeight <= a + 1
<1>1. PICK c \in Branches : \E n \in 0 .. Len(c) : Stored(c, n)
  BY DEF SInv, RunOfBranch
<1>2. PICK n \in 0 .. Len(c) : Stored(c, n)
  BY <1>1
<1>3. blocks[a] # None /\ \A k \in ScannedHeights : k <= a
  BY DEF IsLatestScanned, ScannedHeights
<1>4. /\ a + 1 \in 0 .. Len(chain)
      /\ \A h \in Heights : h <= a => blocks[h] =
            IF StartHeight <= h /\ h < a + 1 THEN chain[h + 1] ELSE None
  BY <1>2, <1>3, StoredOn
<1>5. ASSUME NEW h \in Heights
      PROVE  blocks[h] = IF StartHeight <= h /\ h < a + 1 THEN chain[h + 1] ELSE None
  <2>1. h \in Int /\ a \in Int
    BY ChainAssumption DEF Heights
  <2>2. CASE h <= a
    BY <1>4, <2>2
  <2>3. CASE ~(h <= a)
    <3>1. ~(h < a + 1)
      BY <2>1, <2>3
    <3>2. blocks[h] = None
      BY <1>3, <2>3 DEF ScannedHeights
    <3> QED
      BY <3>1, <3>2
  <2> QED
    BY <2>2, <2>3
<1>6. StartHeight <= a /\ a \in Nat /\ StartHeight \in Nat
  BY <1>2, <1>3, StoredFacts, NodeAssumption
<1> QED
  BY <1>4, <1>5, <1>6 DEF Stored

LEMMA CheckFollows ==
    ASSUME Steady, IInv, SInv, NEW s \in Scanners, ScanCheck(s)
    PROVE  SInv'
<1> DEFINE a == scan[s].cand
<1>0. /\ scan[s].pc = "check" /\ UNCHANGED <<chain, blocks, commitments>>
  BY DEF ScanCheck, chainVars, tables
<1>1. /\ scan[s] \in ScanThread /\ ScanPlace(scan[s]) /\ Solo(s) /\ RowsUnder(s)
      /\ scan[s].tip = BlockCount(chain) /\ chain \in Branches
  BY <1>0, Scanning
<1>2. \A p \in Points, b \in Blocks : ~Committed(scan[s], p, b)
  BY <1>0, NothingCommitted DEF InOutputs
<1>3. /\ a \in Heights /\ blocks[a] # None /\ scan[s].seen = blocks[a]
      /\ \A k \in ScannedHeights : k <= a
  BY <1>0, <1>1 DEF ScanPlace, IsLatestScanned, ScannedHeights
<1>4. \A k \in Heights : k > a => blocks[k] = None
  <2> SUFFICES ASSUME NEW k \in Heights, k > a, blocks[k] # None PROVE FALSE
    OBVIOUS
  <2>1. k <= a
    BY <1>3 DEF ScannedHeights
  <2> QED
    BY <1>3, <2>1, ChainAssumption DEF Heights
<1>5. ASSUME NEW answer \in HashAnswers(a), answer = scan[s].seen,
             SetScan(s, Plan(scan[s], a + 1))
      PROVE  SInv'
  <2>1. blocks[a] = BlockHash(chain, a)
    BY <1>3, <1>5 DEF HashAnswers
  <2>2. StartHeight <= a + 1 /\ Stored(chain, a + 1)
    BY <1>0, <1>1, <1>3, <2>1, LatestOn DEF ScanPlace
  <2>3. ScanPlace(Plan(scan[s], a + 1))
    BY <1>1, <2>2, PlanAt
  <2> QED
    BY <1>0, <1>1, <1>2, <1>5, <2>3, PlanCommitsNothing, LocalStep
<1>6. CASE SetScan(s, [scan[s] EXCEPT !.pc = "walk", !.seen = None])
  <2> DEFINE l == [scan[s] EXCEPT !.pc = "walk", !.seen = None]
  <2>1. /\ l.pc = "walk" /\ l.cand = a /\ l.tip = scan[s].tip
    BY <1>1 DEF ScanThread
  <2>2. SetScan(s, l)
    BY <1>6
  <2> HIDE DEF l
  <2>3. OffAbove(a)
    BY <1>4 DEF OffAbove
  <2>4. ScanPlace(l)
    BY <1>1, <2>1, <2>3 DEF ScanPlace, InRange, InOutputs
  <2>5. \A p \in Points, b \in Blocks : ~Committed(l, p, b)
    BY <2>1, NothingCommitted DEF InOutputs
  <2> QED
    BY <1>0, <1>1, <1>2, <2>2, <2>4, <2>5, LocalStep
<1> QED
  BY <1>5, <1>6 DEF ScanCheck

\* A candidate that is not a common block: what is above stays off the chain.
LEMMA LowerAt ==
    ASSUME NEW l \in ScanThread, l.cand \in Heights, l.tip = BlockCount(chain),
           ~RpcFails => OffAbove(l.cand) /\
              (blocks[l.cand] = None \/ blocks[l.cand] # BlockHash(chain, l.cand))
    PROVE  ScanPlace(Lower(l)) /\ \A p, b : ~Committed(Lower(l), p, b)
<1>1. l.cand \in Nat
  BY ChainAssumption DEF Heights
<1>2. /\ Lower(l).cand = l.cand - 1 /\ Lower(l).tip = l.tip
      /\ Lower(l).pc = IF l.cand = 0 THEN "rewind" ELSE "walk"
  BY DEF Lower, ScanThread
<1>3. ~RpcFails => OffAbove(l.cand - 1)
  <2> SUFFICES ASSUME ~RpcFails, NEW h \in Heights, h > l.cand - 1, blocks[h] # None
               PROVE  blocks[h] # BlockHash(chain, h)
    BY DEF OffAbove
  <2>1. h = l.cand \/ h > l.cand
    BY <1>1, ChainAssumption DEF Heights
  <2> QED
    BY <2>1 DEF OffAbove
<1>4. Lower(l).pc = "rewind" => Lower(l).cand = -1
  BY <1>1, <1>2
<1>5. Lower(l).pc \in {"rewind", "walk"}
  BY <1>2
<1>6. ScanPlace(Lower(l))
  BY <1>2, <1>3, <1>4, <1>5 DEF ScanPlace, InRange, InOutputs
<1> QED
  BY <1>5, <1>6 DEF Committed, InOutputs

LEMMA WalkFollows ==
    ASSUME Steady, IInv, SInv, NEW s \in Scanners, ScanWalk(s)
    PROVE  SInv'
<1> DEFINE a == scan[s].cand
<1>0. /\ scan[s].pc = "walk" /\ UNCHANGED <<chain, blocks, commitments>>
  BY DEF ScanWalk, chainVars, tables
<1>1. /\ scan[s] \in ScanThread /\ ScanPlace(scan[s]) /\ Solo(s) /\ RowsUnder(s)
      /\ scan[s].tip = BlockCount(chain) /\ chain \in Branches
      /\ ScanKnows(scan[s], batches, anchors)
  BY <1>0, Scanning
<1>2. \A p \in Points, b \in Blocks : ~Committed(scan[s], p, b)
  BY <1>0, NothingCommitted DEF InOutputs
<1>3. a \in Heights /\ (~RpcFails => OffAbove(a))
  BY <1>0, <1>1 DEF ScanPlace, ScanKnows
<1>4. CASE blocks[a] = None /\ SetScan(s, Lower(scan[s]))
  <2>1. ScanPlace(Lower(scan[s])) /\ \A p, b : ~Committed(Lower(scan[s]), p, b)
    BY <1>1, <1>3, <1>4, LowerAt
  <2> QED
    BY <1>0, <1>1, <1>2, <1>4, <2>1, LocalStep
<1>5. CASE /\ blocks[a] # None
           /\ SetScan(s, [scan[s] EXCEPT !.pc = "compare", !.seen = blocks[a]])
  <2> DEFINE l == [scan[s] EXCEPT !.pc = "compare", !.seen = blocks[a]]
  <2>1. l.pc = "compare" /\ l.cand = a /\ l.tip = scan[s].tip /\ l.seen = blocks[a]
    BY <1>1 DEF ScanThread
  <2>2. SetScan(s, l)
    BY <1>5
  <2> HIDE DEF l
  <2>3. ScanPlace(l)
    BY <1>1, <1>3, <1>5, <2>1 DEF ScanPlace, InRange, InOutputs
  <2>4. \A p \in Points, b \in Blocks : ~Committed(l, p, b)
    BY <2>1, NothingCommitted DEF InOutputs
  <2> QED
    BY <1>0, <1>1, <1>2, <2>2, <2>3, <2>4, LocalStep
<1> QED
  BY <1>4, <1>5 DEF ScanWalk

LEMMA CompareFollows ==
    ASSUME Steady, IInv, SInv, NEW s \in Scanners, ScanCompare(s)
    PROVE  SInv'
<1> DEFINE a == scan[s].cand
<1>0. /\ scan[s].pc = "compare" /\ UNCHANGED <<chain, blocks, commitments>>
  BY DEF ScanCompare, chainVars, tables
<1>1. /\ scan[s] \in ScanThread /\ ScanPlace(scan[s]) /\ Solo(s) /\ RowsUnder(s)
      /\ scan[s].tip = BlockCount(chain) /\ chain \in Branches
      /\ ScanKnows(scan[s], batches, anchors)
  BY <1>0, Scanning
<1>2. \A p \in Points, b \in Blocks : ~Committed(scan[s], p, b)
  BY <1>0, NothingCommitted DEF InOutputs
<1>3. /\ a \in Heights /\ (~RpcFails => OffAbove(a))
      /\ scan[s].seen = blocks[a] /\ blocks[a] # None
  BY <1>0, <1>1 DEF ScanPlace, ScanKnows
<1>4. ASSUME NEW answer \in HashAnswers(a), answer # scan[s].seen,
             SetScan(s, Lower(scan[s]))
      PROVE  SInv'
  <2>1. ~RpcFails => blocks[a] # BlockHash(chain, a)
    BY <1>3, <1>4 DEF HashAnswers
  <2>2. ScanPlace(Lower(scan[s])) /\ \A p, b : ~Committed(Lower(scan[s]), p, b)
    BY <1>1, <1>3, <2>1, LowerAt
  <2> QED
    BY <1>0, <1>1, <1>2, <1>4, <2>2, LocalStep
<1>5. ASSUME NEW answer \in HashAnswers(a), answer = scan[s].seen,
             SetScan(s, [scan[s] EXCEPT !.pc = "rewind", !.seen = None])
      PROVE  SInv'
  <2> DEFINE l == [scan[s] EXCEPT !.pc = "rewind", !.seen = None]
  <2>1. l.pc = "rewind" /\ l.cand = a /\ l.tip = scan[s].tip
    BY <1>1 DEF ScanThread
  <2>2. SetScan(s, l)
    BY <1>5
  <2>3. blocks[a] = BlockHash(chain, a)
    BY <1>3, <1>5 DEF HashAnswers
  <2> HIDE DEF l
  <2>4. ScanPlace(l)
    BY <1>1, <1>3, <2>1, <2>3 DEF ScanPlace, InRange, InOutputs
  <2>5. \A p \in Points, b \in Blocks : ~Committed(l, p, b)
    BY <2>1, NothingCommitted DEF InOutputs
  <2> QED
    BY <1>0, <1>1, <1>2, <2>2, <2>4, <2>5, LocalStep
<1> QED
  BY <1>4, <1>5 DEF ScanCompare


\* The rewind to a common block, or to nothing, leaves a run of the chain
\* and the rows of its blocks.
LEMMA RewindFollows ==
    ASSUME Steady, IInv, SInv, NEW s \in Scanners, ScanRewind(s)
    PROVE  SInv'
<1> DEFINE a == scan[s].cand
           first == IF StartHeight > a + 1 THEN StartHeight ELSE a + 1
<1>0. /\ scan[s].pc = "rewind" /\ chain' = chain /\ RewindBitcoinScan(a)
      /\ SetScan(s, Plan(scan[s], first))
  BY DEF ScanRewind, chainVars
<1>1. /\ scan[s] \in ScanThread /\ ScanPlace(scan[s]) /\ Solo(s) /\ RowsUnder(s)
      /\ scan[s].tip = BlockCount(chain) /\ chain \in Branches
  BY <1>0, Scanning
<1>2. \A p \in Points, b \in Blocks : ~Committed(scan[s], p, b)
  BY <1>0, NothingCommitted DEF InOutputs
<1>3. a \in Int /\ a >= -1 /\ StartHeight \in Nat /\ \A h \in Heights : h \in Nat
  <2>1. \A h \in Heights : h \in Nat
    BY ChainAssumption DEF Heights
  <2>2. a \in {-1} \cup Heights
    BY <1>1 DEF ScanThread
  <2>3. StartHeight \in Nat
    BY NodeAssumption
  <2> QED
    BY <2>1, <2>2, <2>3
<1>4. \A h \in Heights : blocks'[h] = IF h > a THEN None ELSE blocks[h]
  BY <1>0 DEF RewindBitcoinScan
<1>5. a + 1 \in 0 .. Len(chain) /\ \A h \in Heights : blocks'[h] =
         IF StartHeight <= h /\ h < a + 1 THEN chain[h + 1] ELSE None
  <2>1. CASE a = -1
    <3>1. \A h \in Heights : h > a /\ ~(h < a + 1)
      BY <1>3, <2>1
    <3>2. a + 1 \in 0 .. Len(chain)
      BY <1>1, <2>1, BranchFacts
    <3> QED
      BY <1>4, <3>1, <3>2
  <2>2. CASE a # -1
    <3>1. a \in Heights /\ blocks[a] # None /\ blocks[a] = BlockHash(chain, a)
      BY <1>0, <1>1, <2>2 DEF ScanPlace
    <3>2. PICK c \in Branches : \E n \in 0 .. Len(c) : Stored(c, n)
      BY DEF SInv, RunOfBranch
    <3>3. PICK n \in 0 .. Len(c) : Stored(c, n)
      BY <3>2
    <3>4. /\ a + 1 \in 0 .. Len(chain)
          /\ \A h \in Heights : h <= a => blocks[h] =
               IF StartHeight <= h /\ h < a + 1 THEN chain[h + 1] ELSE None
      BY <1>1, <3>1, <3>3, StoredOn
    <3>5. ASSUME NEW h \in Heights
          PROVE  blocks'[h] = IF StartHeight <= h /\ h < a + 1 THEN chain[h + 1] ELSE None
      <4>1. CASE h > a
        <5>1. ~(h < a + 1)
          BY <1>3, <4>1
        <5> QED
          BY <1>4, <4>1, <5>1
      <4>2. CASE ~(h > a)
        <5>1. h <= a
          BY <1>3, <4>2
        <5> QED
          BY <1>4, <3>4, <4>2, <5>1
      <4> QED
        BY <4>1, <4>2
    <3> QED
      BY <3>4, <3>5
  <2> QED
    BY <2>1, <2>2
<1>6. RunOfBranch'
  <2>1. \E n \in 0 .. Len(chain) : \A h \in Heights : blocks'[h] =
          IF StartHeight <= h /\ h < n THEN chain[h + 1] ELSE None
    BY <1>5
  <2> QED
    BY <1>1, <2>1 DEF RunOfBranch, Stored
<1>7. RowsUnder(s)'
  <2> SUFFICES ASSUME NEW p \in Points, NEW b \in Blocks
               PROVE  commitments'[p].hash = b <=>
                        \/ p \in OutputSet(b) /\ blocks'[Height[b]] = b
                        \/ Committed(scan'[s], p, b)
    BY DEF RowsUnder
  <2>1. scan'[s] = Plan(scan[s], first)
    BY <1>0 DEF SetScan, IInv, ScanOK
  <2>2. ~Committed(scan'[s], p, b)
    BY <2>1, PlanCommitsNothing
  <2>3. commitments[p].hash = b <=> p \in OutputSet(b) /\ blocks[Height[b]] = b
    BY <1>1, <1>2 DEF RowsUnder
  <2>4. b # None /\ Height[b] \in Heights
    BY ChainAssumption
  <2>5. commitments[p].hash = b => commitments[p].height = Height[b]
    BY <2>4 DEF IInv, CommitmentsOK, InBlock
  <2>6. blocks'[Height[b]] = b <=> blocks[Height[b]] = b /\ ~(Height[b] > a)
    BY <1>4, <2>4
  <2>7. commitments'[p].hash =
          IF commitments[p].hash # None /\ commitments[p].height > a
          THEN None ELSE commitments[p].hash
    <3>1. commitments[p] \in CommitmentRow
      BY DEF IInv, CommitmentsOK
    <3>2. CASE commitments[p].hash # None /\ commitments[p].height > a
      <4>1. commitments'[p] = NoCommitment
        BY <1>0, <3>2 DEF RewindBitcoinScan, Present
      <4> QED
        BY <3>2, <4>1 DEF NoCommitment
    <3>3. CASE ~(commitments[p].hash # None /\ commitments[p].height > a)
      <4>1. commitments'[p] = [commitments[p] EXCEPT !.before =
                @ \ {q \in Present : commitments[q].height > a}]
        BY <1>0, <3>3 DEF RewindBitcoinScan, Present
      <4> QED
        BY <3>1, <3>3, <4>1 DEF CommitmentRow
    <3> QED
      BY <3>2, <3>3
  <2>8. commitments'[p].hash = b <=> commitments[p].hash = b /\ ~(Height[b] > a)
    BY <2>4, <2>5, <2>7
  <2> QED
    BY <2>2, <2>3, <2>6, <2>8
<1>8. ScanPlace(scan[s])'
  <2>1. scan'[s] = Plan(scan[s], first)
    BY <1>0 DEF SetScan, IInv, ScanOK
  <2>2. CASE scan'[s] = IdleScan
    BY <2>2 DEF IdleScan, ScanPlace, InRange, InOutputs
  <2>3. CASE /\ scan'[s].pc = "hash" /\ scan'[s].tip = scan[s].tip
             /\ scan'[s].next = first
    <3>1. ASSUME NEW h \in Heights
          PROVE  blocks'[h] = IF StartHeight <= h /\ h < first
                              THEN chain[h + 1] ELSE None
      <4>1. StartHeight <= h => (h < first <=> h < a + 1)
        BY <1>3
      <4> QED
        BY <1>5, <4>1
    <3>2. Stored(chain, scan[s].next)'
      BY <1>0, <2>3, <3>1 DEF Stored
    <3>3. StartHeight <= first
      BY <1>3
    <3> QED
      BY <1>0, <1>1, <2>3, <3>2, <3>3 DEF ScanPlace, InRange, InOutputs
  <2> QED
    BY <2>1, <2>2, <2>3, PlanFields
<1> QED
  BY <1>0, <1>1, <1>6, <1>7, <1>8, SoloStep

\* The next block of the active chain; nothing of it is committed yet.
LEMMA HashFollows ==
    ASSUME Steady, IInv, SInv, NEW s \in Scanners, ScanHash(s)
    PROVE  SInv'
<1>0. /\ scan[s].pc = "hash" /\ UNCHANGED <<chain, blocks, commitments>>
  BY DEF ScanHash, chainVars, tables
<1>1. /\ scan[s] \in ScanThread /\ ScanPlace(scan[s]) /\ Solo(s) /\ RowsUnder(s)
      /\ scan[s].tip = BlockCount(chain) /\ chain \in Branches
  BY <1>0, Scanning
<1>2. \A p \in Points, b \in Blocks : ~Committed(scan[s], p, b)
  BY <1>0, NothingCommitted DEF InOutputs
<1>3. CASE SetScan(s, IdleScan)
  <2>1. ScanPlace(IdleScan)
    BY DEF IdleScan, ScanPlace, InRange, InOutputs
  <2>2. \A p \in Points, b \in Blocks : ~Committed(IdleScan, p, b)
    BY DEF IdleScan, Committed, InOutputs
  <2> QED
    BY <1>0, <1>1, <1>2, <1>3, <2>1, <2>2, LocalStep
<1>4. ASSUME NEW answer \in HashAnswers(scan[s].next), answer # None,
             SetScan(s, [scan[s] EXCEPT !.hash = answer, !.i = 1,
                           !.pc = IF Len(Outputs[answer]) = 0 THEN "save"
                                  ELSE "commit"])
      PROVE  SInv'
  <2> DEFINE l == [scan[s] EXCEPT !.hash = answer, !.i = 1,
                     !.pc = IF Len(Outputs[answer]) = 0 THEN "save" ELSE "commit"]
  <2>1. /\ l.hash = answer /\ l.i = 1 /\ l.next = scan[s].next /\ l.tip = scan[s].tip
        /\ l.pc = IF Len(Outputs[answer]) = 0 THEN "save" ELSE "commit"
    BY <1>1 DEF ScanThread
  <2>2. SetScan(s, l)
    BY <1>4
  <2> HIDE DEF l
  <2>3. scan[s].next \in Int
    BY <1>1, ChainAssumption DEF ScanThread, Heights
  <2>4. answer = BlockHash(chain, scan[s].next)
    BY <1>4 DEF HashAnswers
  <2>5. answer = chain[scan[s].next + 1] /\ answer \in Blocks
    BY <1>1, <1>4, <2>3, <2>4, AnswerFacts
  <2>6. StartHeight <= l.next /\ Stored(chain, l.next)
    BY <1>0, <1>1, <2>1 DEF ScanPlace, InRange
  <2>7. ScanPlace(l)
    BY <1>1, <2>1, <2>5, <2>6 DEF ScanPlace, InRange, InOutputs
  <2>8. Len(Outputs[answer]) \in Nat
    BY <2>5, ChainAssumption
  <2>9. \A p \in Points, b \in Blocks : ~Committed(l, p, b)
    BY <2>1, <2>8 DEF Committed
  <2> QED
    BY <1>0, <1>1, <1>2, <2>2, <2>7, <2>9, LocalStep
<1> QED
  BY <1>3, <1>4 DEF ScanHash


\* The output a scan is at, on the chain; a point of a stored block is not it.
LEMMA AtPoint ==
    ASSUME Steady, IInv, SInv, NEW s \in Scanners, scan[s].pc \in InOutputs
    PROVE  /\ scan[s].hash \in Blocks /\ scan[s].hash # None
           /\ scan[s].next \in Heights /\ scan[s].next + 1 \in 1 .. Len(chain)
           /\ scan[s].hash = chain[scan[s].next + 1]
           /\ Height[scan[s].hash] = scan[s].next
           /\ scan[s].i \in 1 .. Len(Outputs[scan[s].hash])
           /\ ScanPoint(scan[s]) \in Points
           /\ ScanPoint(scan[s]) \in OutputSet(scan[s].hash)
           /\ \A b \in Blocks : ScanPoint(scan[s]) \in OutputSet(b)
                                  => blocks[Height[b]] # b
<1>0. scan[s].pc # "idle" /\ scan[s].pc \in InRange
  BY DEF InOutputs, InRange
<1>1. /\ scan[s] \in ScanThread /\ ScanPlace(scan[s]) /\ ScanKnows(scan[s], batches, anchors)
      /\ scan[s].tip = BlockCount(chain) /\ chain \in Branches
  BY <1>0, Scanning
<1>2. /\ scan[s].hash \in Blocks /\ ScanPoint(scan[s]) \in Points
      /\ scan[s].next = Height[scan[s].hash]
      /\ ScanPoint(scan[s]) \in OutputSet(scan[s].hash)
  BY AtOutput
<1>3. /\ scan[s].hash # None /\ scan[s].next \in Heights
      /\ scan[s].i \in 1 .. Len(Outputs[scan[s].hash])
      /\ scan[s].next <= scan[s].end /\ scan[s].end <= scan[s].tip
      /\ scan[s].end \in Heights
  BY <1>0, <1>1, <1>2, ChainAssumption DEF ScanThread, ScanKnows
<1>4. scan[s].next + 1 \in 1 .. Len(chain)
  <2>1. scan[s].next \in Nat /\ scan[s].end \in Nat
    BY <1>3, ChainAssumption DEF Heights
  <2>2. Len(chain) \in Nat /\ scan[s].tip = Len(chain) - 1
    BY <1>1, BranchFacts DEF BlockCount
  <2> QED
    BY <1>3, <2>1, <2>2
<1>5. scan[s].hash = chain[scan[s].next + 1] /\ Stored(chain, scan[s].next)
  BY <1>0, <1>1 DEF ScanPlace
<1>6. ASSUME NEW b \in Blocks, ScanPoint(scan[s]) \in OutputSet(b), blocks[Height[b]] = b
      PROVE  FALSE
  <2>1. Height[b] \in Heights /\ b # None
    BY ChainAssumption
  <2>2. scan[s].next \in 0 .. Len(chain)
    BY <1>3, <1>4, ChainAssumption DEF Heights
  <2>3. /\ Height[b] \in Nat /\ Height[b] < scan[s].next
        /\ Height[b] < Len(chain) /\ b = chain[Height[b] + 1]
    BY <1>1, <1>5, <1>6, <2>1, <2>2, StoredFacts
  <2>4. Height[b] + 1 \in 1 .. Len(chain)
    BY <1>1, <2>3, BranchFacts
  <2>5. Height[b] + 1 = scan[s].next + 1
    <3>1. ScanPoint(scan[s]) \in OutputSet(chain[Height[b] + 1])
      BY <1>6, <2>3
    <3>2. ScanPoint(scan[s]) \in OutputSet(chain[scan[s].next + 1])
      BY <1>2, <1>5
    <3> QED
      BY <1>1, <1>4, <2>4, <3>1, <3>2, OneBlock
  <2> QED
    BY <2>2, <2>3, <2>5
<1> QED
  BY <1>2, <1>3, <1>4, <1>5, <1>6

\* What add_commitment does to the block of each row.
LEMMA AddedHash ==
    ASSUME CommitmentsOK, NEW p \in Points, NEW h, NEW b, AddCommitment(p, h, b),
           NEW q \in Points
    PROVE  commitments'[q].hash = IF q = p THEN b ELSE commitments[q].hash
<1>1. commitments[p] \in CommitmentRow
  BY DEF CommitmentsOK
<1> DEFINE new == IF p \in Present THEN [commitments[p] EXCEPT !.hash = b, !.height = h]
                  ELSE [hash |-> b, height |-> h, resolved |-> FALSE, before |-> Present]
<1>2. commitments' = [commitments EXCEPT ![p] = new]
  BY DEF AddCommitment
<1>3. new.hash = b
  BY <1>1 DEF CommitmentRow
<1> HIDE DEF new
<1> QED
  BY <1>2, <1>3 DEF CommitmentsOK

\* One more output of the block is committed.
LEMMA CommitFollows ==
    ASSUME Steady, IInv, SInv, NEW s \in Scanners, ScanCommit(s)
    PROVE  SInv'
<1> DEFINE l == [scan[s] EXCEPT !.pc = "lookup"]
           x == ScanPoint(scan[s])
           hb == scan[s].hash
<1>0. /\ scan[s].pc = "commit" /\ UNCHANGED <<chain, blocks>> /\ SetScan(s, l)
      /\ AddCommitment(x, scan[s].next, hb)
  BY DEF ScanCommit, chainVars
<1>1. /\ scan[s] \in ScanThread /\ ScanPlace(scan[s]) /\ Solo(s) /\ RowsUnder(s)
  BY <1>0, Scanning
<1>2. /\ hb \in Blocks /\ x \in Points /\ scan[s].i \in 1 .. Len(Outputs[hb])
      /\ x \in OutputSet(hb)
      /\ \A b \in Blocks : x \in OutputSet(b) => blocks[Height[b]] # b
  BY <1>0, AtPoint DEF InOutputs
<1>3. scan'[s] = l
  BY <1>0 DEF SetScan, IInv, ScanOK
<1>4. /\ l.pc = "lookup" /\ l.hash = hb /\ l.i = scan[s].i
      /\ l.tip = scan[s].tip /\ l.next = scan[s].next
  BY <1>1 DEF ScanThread
<1>5. x = Outputs[hb][scan[s].i]
  BY DEF ScanPoint
<1>6. \A p \in Points : commitments'[p].hash = IF p = x THEN hb ELSE commitments[p].hash
  BY <1>0, <1>2, AddedHash DEF IInv
<1> HIDE DEF l, x, hb
<1>7. \A p, b : Committed(l, p, b) <=> Committed(scan[s], p, b) \/ (p = x /\ b = hb)
  <2> SUFFICES ASSUME NEW p, NEW b
               PROVE  Committed(l, p, b) <=> Committed(scan[s], p, b) \/ (p = x /\ b = hb)
    OBVIOUS
  <2>1. Committed(scan[s], p, b) <=> /\ b = hb
           /\ \E k \in 1 .. Len(Outputs[b]) : p = Outputs[b][k] /\ k < scan[s].i
    BY <1>0 DEF Committed, InOutputs, hb
  <2>2. Committed(l, p, b) <=> /\ b = hb
           /\ \E k \in 1 .. Len(Outputs[b]) :
                p = Outputs[b][k] /\ (k < scan[s].i \/ k = scan[s].i)
    BY <1>4 DEF Committed, InOutputs
  <2> QED
    BY <1>2, <1>5, <2>1, <2>2
<1>8. RowsUnder(s)'
  <2> SUFFICES ASSUME NEW p \in Points, NEW b \in Blocks
               PROVE  commitments'[p].hash = b <=>
                        \/ p \in OutputSet(b) /\ blocks'[Height[b]] = b
                        \/ Committed(scan'[s], p, b)
    BY DEF RowsUnder
  <2>1. commitments[p].hash = b <=>
            \/ p \in OutputSet(b) /\ blocks[Height[b]] = b
            \/ Committed(scan[s], p, b)
    BY <1>1 DEF RowsUnder
  <2>2. Committed(scan[s], p, b) => b = hb
    BY DEF Committed, hb
  <2>3. CASE p = x
    BY <1>0, <1>2, <1>3, <1>6, <1>7, <2>2, <2>3
  <2>4. CASE p # x
    BY <1>0, <1>3, <1>6, <1>7, <2>1, <2>4
  <2> QED
    BY <2>3, <2>4
<1>9. RunOfBranch'
  BY <1>0 DEF SInv, RunOfBranch, Stored
<1>10. ScanPlace(l)
  BY <1>0, <1>1, <1>4 DEF ScanPlace, InRange, InOutputs, hb
<1>11. ScanPlace(scan[s])'
  BY <1>0, <1>3, <1>10 DEF ScanPlace, Stored, OffAbove, IsLatestScanned, ScannedHeights
<1> QED
  BY <1>0, <1>1, <1>8, <1>9, <1>11, SoloStep

\* Moving to the next output commits nothing.
LEMMA NextOutputAt ==
    ASSUME NEW l \in ScanThread, l.pc \in {"lookup", "mark"}, ScanPlace(l),
           l.hash \in Blocks, l.i \in 1 .. Len(Outputs[l.hash])
    PROVE  /\ ScanPlace(NextOutput(l))
           /\ \A p, b : Committed(NextOutput(l), p, b) <=> Committed(l, p, b)
<1> DEFINE m == NextOutput(l)
<1>0. Len(Outputs[l.hash]) \in Nat
  BY ChainAssumption
<1>1. /\ m.tip = l.tip /\ m.next = l.next /\ m.hash = l.hash
      /\ \/ m.pc = "commit" /\ m.i = l.i + 1 /\ l.i < Len(Outputs[l.hash])
         \/ m.pc = "save" /\ ~(l.i < Len(Outputs[l.hash]))
  BY DEF NextOutput, ScanThread
<1> HIDE DEF m
<1>2. ScanPlace(m)
  BY <1>1 DEF ScanPlace, InRange, InOutputs
<1>3. ASSUME NEW p, NEW b PROVE Committed(m, p, b) <=> Committed(l, p, b)
  <2>1. Committed(l, p, b) <=> /\ b = l.hash
           /\ \E k \in 1 .. Len(Outputs[b]) :
                p = Outputs[b][k] /\ (k < l.i \/ k = l.i)
    BY DEF Committed, InOutputs
  <2>2. CASE m.pc = "commit" /\ m.i = l.i + 1
    <3>1. Committed(m, p, b) <=> /\ b = l.hash
             /\ \E k \in 1 .. Len(Outputs[b]) : p = Outputs[b][k] /\ k < l.i + 1
      BY <1>1, <2>2 DEF Committed, InOutputs
    <3>2. \A k \in 1 .. Len(Outputs[l.hash]) : k < l.i + 1 <=> k < l.i \/ k = l.i
      BY <1>0
    <3> QED
      BY <2>1, <3>1, <3>2
  <2>3. CASE m.pc = "save" /\ ~(l.i < Len(Outputs[l.hash]))
    <3>1. Committed(m, p, b) <=> /\ b = l.hash
             /\ \E k \in 1 .. Len(Outputs[b]) : p = Outputs[b][k]
      BY <1>1, <2>3 DEF Committed, InOutputs
    <3>2. \A k \in 1 .. Len(Outputs[l.hash]) : k < l.i \/ k = l.i
      BY <1>0, <2>3
    <3> QED
      BY <2>1, <3>1, <3>2
  <2> QED
    BY <1>1, <2>2, <2>3
<1> QED
  BY <1>2, <1>3 DEF m

LEMMA LookupFollows ==
    ASSUME Steady, IInv, SInv, NEW s \in Scanners, ScanLookup(s)
    PROVE  SInv'
<1>0. scan[s].pc = "lookup" /\ UNCHANGED <<chain, blocks, commitments>>
  BY DEF ScanLookup, chainVars, tables
<1>1. scan[s] \in ScanThread /\ ScanPlace(scan[s]) /\ Solo(s) /\ RowsUnder(s)
  BY <1>0, Scanning
<1>2. scan[s].hash \in Blocks /\ scan[s].i \in 1 .. Len(Outputs[scan[s].hash])
  BY <1>0, AtPoint DEF InOutputs
<1>3. CASE SetScan(s, NextOutput(scan[s]))
  BY <1>0, <1>1, <1>2, <1>3, NextOutputAt, LocalStep
<1>4. CASE SetScan(s, [scan[s] EXCEPT !.pc = "read"])
  <2> DEFINE l == [scan[s] EXCEPT !.pc = "read"]
  <2>1. /\ l.pc = "read" /\ l.tip = scan[s].tip /\ l.next = scan[s].next
        /\ l.hash = scan[s].hash /\ l.i = scan[s].i
    BY <1>1 DEF ScanThread
  <2>2. SetScan(s, l)
    BY <1>4
  <2> HIDE DEF l
  <2>3. ScanPlace(l)
    BY <1>0, <1>1, <2>1 DEF ScanPlace, InRange, InOutputs
  <2>4. \A p \in Points, b \in Blocks : Committed(l, p, b) <=> Committed(scan[s], p, b)
    BY <1>0, <2>1 DEF Committed, InOutputs
  <2> QED
    BY <1>0, <1>1, <2>2, <2>3, <2>4, LocalStep
<1> QED
  BY <1>3, <1>4 DEF ScanLookup


\* The row of the output a scan has just committed is there: nobody else
\* deletes rows, so register_scanned_anchor finds its commitment.
LEMMA PointIsPresent ==
    ASSUME Steady, IInv, SInv, NEW s \in Scanners,
           scan[s].pc \in {"lookup", "read", "write", "mark"}
    PROVE  /\ commitments[ScanPoint(scan[s])].hash = scan[s].hash
           /\ ScanPoint(scan[s]) \in Present
<1>1. scan[s] \in ScanThread /\ RowsUnder(s)
  BY Scanning
<1>2. /\ scan[s].hash \in Blocks /\ scan[s].hash # None
      /\ scan[s].i \in 1 .. Len(Outputs[scan[s].hash])
      /\ ScanPoint(scan[s]) \in Points
  BY AtPoint DEF InOutputs
<1>3. Committed(scan[s], ScanPoint(scan[s]), scan[s].hash)
  BY <1>2 DEF Committed, InOutputs, ScanPoint
<1>4. commitments[ScanPoint(scan[s])].hash = scan[s].hash
  BY <1>1, <1>2, <1>3 DEF RowsUnder
<1> QED
  BY <1>2, <1>4 DEF Present

\* With few rows register_scanned_anchor finds every row there is.
LEMMA PresentIsFindable ==
    ASSUME FewRows, IInv, NEW p \in Present
    PROVE  p \in Findable
<1> DEFINE S == {q \in commitments[p].before : Manifest[q] = Manifest[p]}
           R == RowsOfBatch(Manifest[p])
<1>1. p \in Points /\ commitments[p].before \subseteq Points
  BY DEF Present, IInv, CommitmentsOK, CommitmentRow
<1>2. Manifest[p] \in Batches
  BY <1>1, ChainAssumption
<1>3. IsFiniteSet(R) /\ Cardinality(R) < RowLimit
  BY <1>2 DEF FewRows
<1>4. S \subseteq R
  BY <1>1 DEF RowsOfBatch
<1> HIDE DEF S, R
<1>5. Cardinality(S) <= Cardinality(R) /\ Cardinality(S) \in Nat /\ Cardinality(R) \in Nat
  BY <1>3, <1>4, FS_Subset, FS_CardinalityType
<1>6. Cardinality(S) < RowLimit
  BY <1>3, <1>5, NodeAssumption
<1> QED
  BY <1>6 DEF Findable, S

LEMMA RegisterReadFollows ==
    ASSUME Steady, IInv, SInv, NEW s \in Scanners, ScanRegisterRead(s)
    PROVE  SInv'
<1> DEFINE c == Context(ScanPoint(scan[s]))
           l == [scan[s] EXCEPT !.pc = "write", !.com = c]
<1>0. scan[s].pc = "read" /\ UNCHANGED <<chain, blocks, commitments>>
  BY DEF ScanRegisterRead, chainVars, tables
<1>1. scan[s] \in ScanThread /\ ScanPlace(scan[s]) /\ Solo(s) /\ RowsUnder(s)
  BY <1>0, Scanning
<1>2. SetScan(s, l)
  BY <1>0, PointIsPresent, PresentIsFindable DEF ScanRegisterRead, Steady
<1>3. /\ l.pc = "write" /\ l.tip = scan[s].tip /\ l.next = scan[s].next
      /\ l.hash = scan[s].hash /\ l.i = scan[s].i
  BY <1>1 DEF ScanThread
<1> HIDE DEF l
<1>4. ScanPlace(l)
  BY <1>0, <1>1, <1>3 DEF ScanPlace, InRange, InOutputs
<1>5. \A p \in Points, b \in Blocks : Committed(l, p, b) <=> Committed(scan[s], p, b)
  BY <1>0, <1>3 DEF Committed, InOutputs
<1> QED
  BY <1>0, <1>1, <1>2, <1>4, <1>5, LocalStep

LEMMA RegisterWriteFollows ==
    ASSUME Steady, IInv, SInv, NEW s \in Scanners, ScanRegisterWrite(s)
    PROVE  SInv'
<1> DEFINE l == [scan[s] EXCEPT !.pc = "mark"]
<1>0. scan[s].pc = "write" /\ UNCHANGED <<chain, blocks, commitments>> /\ SetScan(s, l)
  BY DEF ScanRegisterWrite, chainVars
<1>1. scan[s] \in ScanThread /\ ScanPlace(scan[s]) /\ Solo(s) /\ RowsUnder(s)
  BY <1>0, Scanning
<1>2. /\ l.pc = "mark" /\ l.tip = scan[s].tip /\ l.next = scan[s].next
      /\ l.hash = scan[s].hash /\ l.i = scan[s].i
  BY <1>1 DEF ScanThread
<1> HIDE DEF l
<1>3. ScanPlace(l)
  BY <1>0, <1>1, <1>2 DEF ScanPlace, InRange, InOutputs
<1>4. \A p \in Points, b \in Blocks : Committed(l, p, b) <=> Committed(scan[s], p, b)
  BY <1>0, <1>2 DEF Committed, InOutputs
<1> QED
  BY <1>0, <1>1, <1>3, <1>4, LocalStep

LEMMA RegisterMarkFollows ==
    ASSUME Steady, IInv, SInv, NEW s \in Scanners, ScanRegisterMark(s)
    PROVE  SInv'
<1>0. /\ scan[s].pc = "mark" /\ UNCHANGED <<chain, blocks>>
      /\ MarkResolved(ScanPoint(scan[s])) /\ SetScan(s, NextOutput(scan[s]))
  BY DEF ScanRegisterMark, chainVars
<1>1. scan[s] \in ScanThread /\ ScanPlace(scan[s]) /\ Solo(s) /\ RowsUnder(s)
  BY <1>0, Scanning
<1>2. scan[s].hash \in Blocks /\ scan[s].i \in 1 .. Len(Outputs[scan[s].hash])
  BY <1>0, AtPoint DEF InOutputs
<1>3. \A p \in Points : commitments'[p].hash = commitments[p].hash
  BY <1>0, MarkKeepsHash DEF IInv
<1>4. ScanPlace(NextOutput(scan[s])) /\ \A p, b :
         Committed(NextOutput(scan[s]), p, b) <=> Committed(scan[s], p, b)
  BY <1>0, <1>1, <1>2, NextOutputAt
<1> QED
  BY <1>0, <1>1, <1>3, <1>4, LocalStep

\* The block is stored once all its outputs are committed.
LEMMA SaveFollows ==
    ASSUME Steady, IInv, SInv, NEW s \in Scanners, ScanSave(s)
    PROVE  SInv'
<1> DEFINE n == scan[s].next
           hb == scan[s].hash
<1>0. /\ scan[s].pc = "save" /\ UNCHANGED <<chain, commitments>>
      /\ blocks' = [blocks EXCEPT ![n] = hb]
  BY DEF ScanSave, chainVars, AddScannedBlock
<1>1. /\ scan[s] \in ScanThread /\ ScanPlace(scan[s]) /\ Solo(s) /\ RowsUnder(s)
      /\ ScanKnows(scan[s], batches, anchors)
      /\ scan[s].tip = BlockCount(chain) /\ chain \in Branches
  BY <1>0, Scanning
<1>2. /\ hb \in Blocks /\ n = Height[hb] /\ hb = chain[n + 1] /\ Stored(chain, n)
      /\ n <= scan[s].end /\ scan[s].end <= scan[s].tip
  BY <1>0, <1>1 DEF ScanPlace, ScanKnows, InRange, InOutputs
<1>3. n \in Heights /\ scan[s].end \in Heights /\ StartHeight \in Nat
      /\ \A h \in Heights : h \in Nat
  <2>1. n \in Heights /\ scan[s].end \in Heights
    BY <1>1 DEF ScanThread
  <2>2. StartHeight \in Nat
    BY NodeAssumption
  <2>3. \A h \in Heights : h \in Nat
    BY ChainAssumption DEF Heights
  <2> QED
    BY <2>1, <2>2, <2>3
<1>4. n \in 0 .. Len(chain) /\ n + 1 \in 0 .. Len(chain)
  <2>1. Len(chain) \in Nat /\ scan[s].tip = Len(chain) - 1
    BY <1>1, BranchFacts DEF BlockCount
  <2> QED
    BY <1>2, <1>3, <2>1
<1>5. \A h \in Heights : blocks'[h] = IF h = n THEN hb ELSE blocks[h]
  BY <1>0 DEF IInv, BlocksOK
<1>6. /\ SetScan(s, scan'[s])
      /\ \/ scan'[s] = IdleScan
         \/ /\ scan'[s].pc = "hash" /\ scan'[s].next = n + 1
            /\ scan'[s].tip = scan[s].tip
  <2>1. CASE SetScan(s, IdleScan)
    BY <2>1 DEF SetScan, IInv, ScanOK
  <2>2. CASE SetScan(s, [scan[s] EXCEPT !.pc = "hash", !.next = @ + 1,
                                       !.hash = None, !.i = 1])
    <3> DEFINE l == [scan[s] EXCEPT !.pc = "hash", !.next = @ + 1, !.hash = None, !.i = 1]
    <3>1. l.pc = "hash" /\ l.next = n + 1 /\ l.tip = scan[s].tip
      BY <1>1 DEF ScanThread
    <3>2. SetScan(s, l)
      BY <2>2
    <3> HIDE DEF l
    <3>3. scan'[s] = l
      BY <3>2 DEF SetScan, IInv, ScanOK
    <3> QED
      BY <3>1, <3>2, <3>3
  <2> QED
    BY <2>1, <2>2 DEF ScanSave
<1>7. StartHeight <= n
  BY <1>0, <1>1 DEF ScanPlace, InRange
<1>8. ASSUME NEW h \in Heights
      PROVE  blocks'[h] = IF StartHeight <= h /\ h < n + 1 THEN chain[h + 1] ELSE None
  <2>1. blocks[h] = IF StartHeight <= h /\ h < n THEN chain[h + 1] ELSE None
    BY <1>2 DEF Stored
  <2>2. h \in Nat /\ n \in Nat
    BY <1>3
  <2>3. CASE h = n
    <3>1. StartHeight <= h /\ h < n + 1
      BY <1>7, <2>2, <2>3
    <3>2. blocks'[h] = chain[h + 1]
      BY <1>2, <1>5, <2>3, Zenon
    <3> QED
      BY <3>1, <3>2
  <2>4. CASE h # n
    <3>1. h < n + 1 <=> h < n
      BY <2>2, <2>4
    <3> QED
      BY <1>5, <2>1, <2>4, <3>1
  <2> QED
    BY <2>3, <2>4
<1>9. RunOfBranch'
  <2>1. \E k \in 0 .. Len(chain) : \A h \in Heights : blocks'[h] =
          IF StartHeight <= h /\ h < k THEN chain[h + 1] ELSE None
    BY <1>4, <1>8
  <2> QED
    BY <1>1, <2>1 DEF RunOfBranch, Stored
<1>10. RowsUnder(s)'
  <2> SUFFICES ASSUME NEW p \in Points, NEW b \in Blocks
               PROVE  commitments'[p].hash = b <=>
                        \/ p \in OutputSet(b) /\ blocks'[Height[b]] = b
                        \/ Committed(scan'[s], p, b)
    BY DEF RowsUnder
  <2>1. ~Committed(scan'[s], p, b)
    BY <1>6 DEF Committed, IdleScan, InOutputs
  <2>2. commitments[p].hash = b <=>
            \/ p \in OutputSet(b) /\ blocks[Height[b]] = b
            \/ Committed(scan[s], p, b)
    BY <1>1 DEF RowsUnder
  <2>3. Committed(scan[s], p, b) <=> b = hb /\ p \in OutputSet(b)
    BY <1>0 DEF Committed, OutputSet
  <2>4. Height[b] \in Heights /\ b # None
    BY ChainAssumption
  <2>5. blocks[n] = None
    <3>1. ~(n < n)
      BY <1>3
    <3> QED
      BY <1>2, <1>3, <3>1 DEF Stored
  <2>6. blocks'[Height[b]] = b <=> b = hb \/ blocks[Height[b]] = b
    BY <1>2, <1>5, <2>4, <2>5
  <2> HIDE DEF n, hb
  <2> QED
    BY <1>0, <2>1, <2>2, <2>3, <2>6
<1>11. ScanPlace(scan[s])'
  <2>1. CASE scan'[s] = IdleScan
    BY <2>1 DEF IdleScan, ScanPlace, InRange, InOutputs
  <2>2. CASE /\ scan'[s].pc = "hash" /\ scan'[s].next = n + 1
             /\ scan'[s].tip = scan[s].tip
    <3>1. Stored(chain, scan[s].next)'
      BY <1>0, <1>8, <2>2 DEF Stored
    <3>2. StartHeight <= n + 1
      BY <1>3, <1>7
    <3> QED
      BY <1>0, <1>1, <2>2, <3>1, <3>2 DEF ScanPlace, InRange, InOutputs
  <2> QED
    BY <1>6, <2>1, <2>2
<1> QED
  BY <1>1, <1>6, <1>9, <1>10, <1>11, SoloStep


----------------------------------------------------------------------------
\* SInv is inductive

LEMMA InitFollows == Init => SInv
<1> SUFFICES ASSUME Init PROVE SInv
  OBVIOUS
<1>1. /\ chain \in Branches /\ \A h \in Heights : blocks[h] = None
      /\ \A p \in Points : commitments[p].hash = None
      /\ \A s \in Scanners : scan[s].pc = "idle"
  BY DEF Init, NoCommitment, IdleScan
<1>2. OneScan /\ \A s \in Scanners : ScanPlace(scan[s])
  BY <1>1 DEF OneScan, ScanPlace, InRange, InOutputs
<1>3. RunOfBranch
  <2>1. \A h \in Heights : h \in Nat /\ ~(h < 0)
    BY ChainAssumption DEF Heights
  <2>2. Stored(chain, 0)
    BY <1>1, <2>1 DEF Stored
  <2>3. 0 \in 0 .. Len(chain)
    BY <1>1, BranchFacts
  <2> QED
    BY <1>1, <2>2, <2>3 DEF RunOfBranch
<1>4. RowsMatch
  <2>1. \A b \in Blocks : b # None /\ Height[b] \in Heights
    BY ChainAssumption
  <2>2. \A s \in Scanners, p \in Points, b \in Blocks : ~Committed(scan[s], p, b)
    BY <1>1 DEF Committed, InOutputs
  <2> QED
    BY <1>1, <2>1, <2>2 DEF RowsMatch
<1> QED
  BY <1>2, <1>3, <1>4 DEF SInv

LEMMA ScanFollows ==
    ASSUME Steady, IInv, SInv, NEW s \in Scanners, ScanBegin(s) \/ ScanStep(s)
    PROVE  SInv'
  BY BeginFollows, StoredFollows, CheckFollows, WalkFollows, CompareFollows,
     RewindFollows, HashFollows, CommitFollows, LookupFollows, RegisterReadFollows,
     RegisterWriteFollows, RegisterMarkFollows, SaveFollows DEF ScanStep

\* The chain moves between scans only.
LEMMA MoveFollows ==
    ASSUME Steady, SInv, NEW c \in Branches, MoveChain(c)
    PROVE  SInv'
<1>1. UNCHANGED <<blocks, commitments, scan>> /\ \A s \in Scanners : scan[s].pc = "idle"
  BY DEF MoveChain, Steady, tables, threads
<1>2. OneScan' /\ RunOfBranch' /\ RowsMatch'
  BY <1>1 DEF SInv, OneScan, RunOfBranch, Stored, RowsMatch
<1>3. \A s \in Scanners : ScanPlace(scan[s])'
  BY <1>1 DEF ScanPlace, InRange, InOutputs
<1> QED
  BY <1>2, <1>3 DEF SInv

\* The other threads leave the chain, the scans and the block of every row.
LEMMA OthersFollow ==
    ASSUME IInv, Resolve \/ Import \/ Publish \/ Verify \/ \E b \in Batches : ImportPackage(b)
    PROVE  /\ UNCHANGED <<chain, blocks, scan>>
           /\ \A p \in Points : commitments'[p].hash = commitments[p].hash
<1> USE DEF chainVars, tables, threads
<1>1. ASSUME NEW r \in Resolvers, ResolveBegin(r) \/ ResolveStep(r)
      PROVE  /\ UNCHANGED <<chain, blocks, scan>>
             /\ \A p \in Points : commitments'[p].hash = commitments[p].hash
  <2>1. CASE ResolveRegisterMark(r)
    BY <2>1, MarkKeepsHash DEF ResolveRegisterMark, IInv
  <2>2. CASE ResolveBegin(r)
    BY <2>2 DEF ResolveBegin
  <2>3. CASE ResolveMissing(r)
    BY <2>3 DEF ResolveMissing
  <2>4. CASE \E p \in Points : ResolveImport(r, p)
    BY <2>4 DEF ResolveImport
  <2>5. CASE ResolveRegisterRead(r)
    BY <2>5 DEF ResolveRegisterRead
  <2>6. CASE ResolveRegisterWrite(r)
    BY <2>6 DEF ResolveRegisterWrite
  <2> QED
    BY <1>1, <2>1, <2>2, <2>3, <2>4, <2>5, <2>6 DEF ResolveStep
<1>2. CASE Import
  BY <1>2 DEF Import, ImportRead, ImportWrite
<1>3. CASE Publish
  BY <1>3 DEF Publish, PublishSend, PublishSave
<1>4. CASE Verify
  BY <1>4 DEF Verify, VerifyRead, VerifyTransaction, VerifyContext, VerifyWrite, VerifyFail
<1>5. CASE \E b \in Batches : ImportPackage(b)
  BY <1>5 DEF ImportPackage
<1> QED
  BY <1>1, <1>2, <1>3, <1>4, <1>5 DEF Resolve

LEMMA NextFollows == Steady /\ IInv /\ SInv /\ [Next]_vars => SInv'
<1> SUFFICES ASSUME Steady, IInv, SInv, [Next]_vars PROVE SInv'
  OBVIOUS
<1>1. CASE \E s \in Scanners : ScanBegin(s) \/ ScanStep(s)
  BY <1>1, ScanFollows
<1>2. CASE \E c \in Branches : MoveChain(c)
  BY <1>2, MoveFollows
<1>3. CASE Resolve \/ Import \/ Publish \/ Verify \/ \E b \in Batches : ImportPackage(b)
  <2>1. /\ UNCHANGED <<chain, blocks, scan>>
        /\ \A p \in Points : commitments'[p].hash = commitments[p].hash
    BY <1>3, OthersFollow
  <2> QED
    BY <2>1, ScanUntouched
<1>4. CASE Crash
  BY <1>4 DEF Crash, Steady
<1>5. CASE UNCHANGED vars
  <2>1. /\ UNCHANGED <<chain, blocks, scan>>
        /\ \A p \in Points : commitments'[p].hash = commitments[p].hash
    BY <1>5 DEF vars
  <2> QED
    BY <2>1, ScanUntouched
<1> QED
  BY <1>1, <1>2, <1>3, <1>4, <1>5 DEF Next, Environment, Scan

\* While the chain is steady under every scan, the two tables of the scanner
\* describe a run of one branch at every step of every thread.
THEOREM TablesFollow == Steady => (Spec => []SInv)
<1> SUFFICES ASSUME Steady PROVE Spec => []SInv
  OBVIOUS
<1>1. Init => SInv
  BY InitFollows
<1>2. IInv /\ SInv /\ [Next]_vars => SInv'
  BY NextFollows
<1> QED
  BY <1>1, <1>2, Invariance, PTL DEF Spec


\* A database that has caught up holds the active chain from StartHeight on.
LEMMA CaughtUpStored ==
    ASSUME IInv, SInv, CaughtUp
    PROVE  Stored(chain, Len(chain)) /\ chain \in Branches
<1> DEFINE t == BlockCount(chain)
<1>1. chain \in Branches /\ t \in Heights /\ Len(chain) \in Nat /\ 1 <= Len(chain)
  BY BranchFacts DEF IInv, ChainOK, BlockCount
<1>2. t \in 0 .. BlockCount(chain) /\ t + 1 = Len(chain)
  BY <1>1 DEF BlockCount
<1>3. BlockHash(chain, t) = chain[Len(chain)]
  BY <1>2 DEF BlockHash
<1>4. Stored(chain, t + 1)
  BY <1>1, <1>3, LatestOn DEF CaughtUp
<1> QED
  BY <1>1, <1>2, <1>4

(***************************************************************************)
(* The scanned blocks are on one branch: rewind_bitcoin_scan cuts the      *)
(* table where the active chain left it, for every chain and every way the *)
(* resolvers, importers, publishers and verifiers run beside the scan.     *)
(***************************************************************************)
THEOREM ScannedOnOneBranch == Steady => (Spec => []BlocksOnOneBranch)
<1> SUFFICES ASSUME Steady PROVE Spec => []BlocksOnOneBranch
  OBVIOUS
<1>1. SInv => BlocksOnOneBranch
  <2> SUFFICES ASSUME SInv PROVE BlocksOnOneBranch
    OBVIOUS
  <2>1. PICK c \in Branches : \E n \in 0 .. Len(c) : Stored(c, n)
    BY DEF SInv, RunOfBranch
  <2>2. PICK n \in 0 .. Len(c) : Stored(c, n)
    BY <2>1
  <2>3. ASSUME NEW h \in ScannedHeights PROVE BlockHash(c, h) = blocks[h]
    <3>1. h \in Heights /\ blocks[h] # None
      BY DEF ScannedHeights
    <3>2. h \in Nat /\ h < Len(c) /\ blocks[h] = c[h + 1]
      BY <2>2, <3>1, StoredFacts
    <3>3. h \in 0 .. Len(c) - 1
      BY <3>2, BranchFacts
    <3> QED
      BY <3>2, <3>3 DEF BlockHash, BlockCount
  <2> QED
    BY <2>3 DEF BlocksOnOneBranch
<1> QED
  BY <1>1, TablesFollow, PTL

\* Without a scan under way the rows are those of the stored blocks.
LEMMA RowsAtRest ==
    ASSUME SInv, \A s \in Scanners : scan[s].pc = "idle", NEW p \in Points, NEW b \in Blocks
    PROVE  commitments[p].hash = b <=> p \in OutputSet(b) /\ blocks[Height[b]] = b
<1>1. \A s \in Scanners : ~Committed(scan[s], p, b)
  BY DEF Committed, InOutputs
<1> QED
  BY <1>1 DEF SInv, RowsMatch

(***************************************************************************)
(* After a scan that reached the tip, the commitments table is exactly the *)
(* HAP outputs of the active chain from StartHeight on, each with its      *)
(* block and height (scan_bitcoin), whatever reorganisations came between  *)
(* scans, however often the RPC failed and whatever ran beside the scans.  *)
(***************************************************************************)
THEOREM SyncedViewIsExact == Steady => (Spec => []SyncedViewExact)
<1> SUFFICES ASSUME Steady PROVE Spec => []SyncedViewExact
  OBVIOUS
<1>1. IInv /\ SInv => SyncedViewExact
  <2> SUFFICES ASSUME IInv, SInv, Synced, NEW p \in Points
               PROVE  LET at == {i \in 1 .. Len(chain) :
                                   i > StartHeight /\ p \in OutputSet(chain[i])}
                      IN  IF at = {} THEN p \notin Present
                          ELSE \A i \in at : Context(p) = [hash |-> chain[i], height |-> i - 1]
    BY DEF SyncedViewExact
  <2> DEFINE at == {i \in 1 .. Len(chain) : i > StartHeight /\ p \in OutputSet(chain[i])}
  <2>1. /\ Stored(chain, Len(chain)) /\ chain \in Branches
        /\ \A s \in Scanners : scan[s].pc = "idle"
    BY CaughtUpStored DEF Synced, AllIdle
  <2>2. Len(chain) \in Nat /\ StartHeight \in Nat /\ Len(chain) \in 0 .. Len(chain)
    BY <2>1, BranchFacts, NodeAssumption
  <2>3. p \in Present => at # {}
    <3> SUFFICES ASSUME p \in Present PROVE at # {}
      OBVIOUS
    <3> DEFINE b == commitments[p].hash
    <3>1. b \in Blocks /\ b # None
      BY DEF Present, IInv, CommitmentsOK, InBlock
    <3>2. p \in OutputSet(b) /\ blocks[Height[b]] = b /\ Height[b] \in Heights
      BY <2>1, <3>1, RowsAtRest, ChainAssumption
    <3>3. /\ Height[b] \in Nat /\ StartHeight <= Height[b] /\ Height[b] < Len(chain)
          /\ b = chain[Height[b] + 1]
      BY <2>1, <2>2, <3>1, <3>2, StoredFacts
    <3> HIDE DEF b
    <3>4. Height[b] + 1 \in 1 .. Len(chain) /\ Height[b] + 1 > StartHeight
      BY <2>2, <3>3
    <3>5. Height[b] + 1 \in at
      BY <3>2, <3>3, <3>4
    <3> QED
      BY <3>5
  <2>4. ASSUME NEW i \in at
        PROVE  Context(p) = [hash |-> chain[i], height |-> i - 1]
    <3>1. /\ chain[i] \in Blocks /\ chain[i] # None /\ Height[chain[i]] = i - 1
          /\ i \in 1 .. Len(chain) /\ i > StartHeight /\ p \in OutputSet(chain[i])
      BY <2>1, BranchFacts
    <3>2. i - 1 \in Heights
      BY <3>1, ChainAssumption
    <3>3. StartHeight <= i - 1 /\ i - 1 < Len(chain) /\ (i - 1) + 1 = i
      BY <2>2, <3>1
    <3>4. blocks[i - 1] = chain[i]
      BY <2>1, <3>2, <3>3 DEF Stored
    <3>5. commitments[p].hash = chain[i]
      BY <2>1, <3>1, <3>4, RowsAtRest
    <3>6. commitments[p].height = i - 1
      BY <3>1, <3>5 DEF IInv, CommitmentsOK, InBlock
    <3> QED
      BY <3>5, <3>6 DEF Context
  <2> HIDE DEF at
  <2>5. IF at = {} THEN p \notin Present
        ELSE \A i \in at : Context(p) = [hash |-> chain[i], height |-> i - 1]
    BY <2>3, <2>4
  <2> QED
    BY <2>5 DEF at
<1> QED
  BY <1>1, TablesFollow, Invariance, PTL


----------------------------------------------------------------------------
(***************************************************************************)
(* The anchors.  Threads run one after the other and nobody verifies: a    *)
(* verification confirms an anchor without a commitment, and then no       *)
(* rewind demotes it.                                                      *)
(***************************************************************************)
Calm == ~MidScanReorg /\ ~Crashes /\ FewRows /\ Serial /\ Verifiers = {}

ScansIdle == \A s \in Scanners : scan[s].pc = "idle"
ResolversIdle == \A r \in Resolvers : res[r].pc = "idle"
ImportersIdle == \A i \in Importers : imp[i].pc = "idle"
PublishersIdle == \A u \in Publishers : pub[u].pc = "idle"

OneThread ==
    /\ ScansIdle \/ (ResolversIdle /\ ImportersIdle /\ PublishersIdle)
    /\ ResolversIdle \/ (ScansIdle /\ ImportersIdle /\ PublishersIdle)
    /\ ImportersIdle \/ (ScansIdle /\ ResolversIdle /\ PublishersIdle)
    /\ \A r, t \in Resolvers : res[r].pc # "idle" /\ res[t].pc # "idle" => r = t
    /\ \A i, t \in Importers : imp[i].pc # "idle" /\ imp[t].pc # "idle" => i = t
    /\ \A u, t \in Publishers : pub[u].pc # "idle" /\ pub[t].pc # "idle" => u = t

\* An own transaction is on the chain or in the table only once broadcast.
OwnSent == \A p \in OwnPoints :
    p \in PointsOf(chain) \/ commitments[p].hash # None => p \in sent

\* A confirmed anchor is confirmed by the block of its commitment, and a
\* resolved commitment has a confirmed anchor.
AnchorsMatch == \A p \in Points :
    /\ anchors[p].status = "confirmed" => anchors[p].hash = commitments[p].hash
    /\ commitments[p].hash # None /\ commitments[p].resolved
         => anchors[p].status = "confirmed"

\* What a thread is about to write agrees with the tables as they are.
ScanWrites(l) ==
    /\ l.pc = "write" => l.com.hash = commitments[ScanPoint(l)].hash
    /\ l.pc = "mark" => anchors[ScanPoint(l)].status = "confirmed"
ResWrites(l) ==
    /\ l.pc = "write" => l.com.hash = commitments[l.pt].hash
    /\ l.pc \in {"mark", "again"} => anchors[l.pt].status = "confirmed"
ImpWrites(l) == l.pc = "write" =>
    /\ anchors[l.pt].status = "confirmed" => l.row.status = "confirmed"
    /\ l.row.status = "confirmed" => l.row.hash = commitments[l.pt].hash
PubWrites(l) == l.pc = "save" => commitments[l.pt].hash = None

AInv == /\ OneThread /\ OwnSent /\ AnchorsMatch
        /\ \A s \in Scanners : ScanWrites(scan[s])
        /\ \A r \in Resolvers : ResWrites(res[r])
        /\ \A i \in Importers : ImpWrites(imp[i])
        /\ \A u \in Publishers : PubWrites(pub[u])

\* Everything AInv rests on.
CalmInv == IInv /\ SInv /\ AInv

\* Writing one anchor row.
LEMMA MatchWritten ==
    ASSUME IInv, AnchorsMatch, NEW p \in Points, NEW row, AddAnchor(p, row),
           UNCHANGED commitments,
           row.status = "confirmed" => row.hash = commitments[p].hash,
           commitments[p].hash # None /\ commitments[p].resolved
              => row.status = "confirmed"
    PROVE  AnchorsMatch' /\ anchors'[p] = row
<1>1. \A q \in Points : anchors'[q] = IF q = p THEN row ELSE anchors[q]
  BY DEF AddAnchor, IInv, AnchorsOK
<1> QED
  BY <1>1 DEF AnchorsMatch

\* Marking a commitment whose anchor is confirmed.
LEMMA MatchMarked ==
    ASSUME IInv, AnchorsMatch, NEW p \in Points, MarkResolved(p), UNCHANGED anchors,
           anchors[p].status = "confirmed"
    PROVE  AnchorsMatch'
<1>1. \A q \in Points : commitments'[q].hash = commitments[q].hash
  BY MarkKeepsHash DEF IInv
<1>2. \A q \in Points : q # p => commitments'[q] = commitments[q]
  BY DEF MarkResolved, IInv, CommitmentsOK
<1> QED
  BY <1>1, <1>2 DEF AnchorsMatch

\* Rows keep their block and the chain stays: the own points stay broadcast.
LEMMA OwnKept ==
    ASSUME OwnSent, UNCHANGED chain, sent \subseteq sent',
           \A p \in Points : commitments'[p].hash = commitments[p].hash
    PROVE  OwnSent'
<1>1. OwnPoints \subseteq Points
  BY NodeAssumption
<1> QED
  BY <1>1 DEF OwnSent

----------------------------------------------------------------------------
\* Turns: a thread that is at work, or starts, is the only one.
LEMMA ScanTurn ==
    ASSUME Calm, CalmInv, NEW s \in Scanners, scan[s].pc # "idle" \/ ScanBegin(s)
    PROVE  ResolversIdle /\ ImportersIdle /\ PublishersIdle /\ Solo(s) /\ Steady
<1>1. Steady
  BY DEF Calm, Steady
<1>2. Solo(s)
  BY <1>1, Alone DEF CalmInv
<1>3. ResolversIdle /\ ImportersIdle /\ PublishersIdle
  BY DEF CalmInv, AInv, OneThread, ScansIdle, ResolversIdle, ImportersIdle,
         PublishersIdle, ScanBegin, MayStart, AllIdle, Calm
<1> QED
  BY <1>1, <1>2, <1>3

LEMMA ResTurn ==
    ASSUME Calm, CalmInv, NEW r \in Resolvers, res[r].pc # "idle" \/ ResolveBegin(r)
    PROVE  /\ ScansIdle /\ ImportersIdle /\ PublishersIdle
           /\ \A t \in Resolvers : t # r => res[t].pc = "idle"
  BY DEF CalmInv, AInv, OneThread, ScansIdle, ResolversIdle, ImportersIdle,
         PublishersIdle, ResolveBegin, MayStart, AllIdle, Calm

LEMMA ImpTurn ==
    ASSUME Calm, CalmInv, NEW i \in Importers, imp[i].pc # "idle" \/ AllIdle
    PROVE  /\ ScansIdle /\ ResolversIdle /\ PublishersIdle
           /\ \A t \in Importers : t # i => imp[t].pc = "idle"
  BY DEF CalmInv, AInv, OneThread, ScansIdle, ResolversIdle, ImportersIdle,
         PublishersIdle, AllIdle

LEMMA PubTurn ==
    ASSUME Calm, CalmInv, NEW u \in Publishers, pub[u].pc # "idle" \/ AllIdle
    PROVE  /\ ScansIdle /\ ResolversIdle /\ ImportersIdle
           /\ \A t \in Publishers : t # u => pub[t].pc = "idle"
  BY DEF CalmInv, AInv, OneThread, ScansIdle, ResolversIdle, ImportersIdle,
         PublishersIdle, AllIdle

\* In a scan's turn its own writes and the tables are all there is to show.
LEMMA ScanTurnStep ==
    ASSUME Calm, CalmInv, NEW s \in Scanners, scan[s].pc # "idle" \/ ScanBegin(s),
           NEW l, SetScan(s, l), UNCHANGED <<res, imp, pub>>,
           OwnSent', AnchorsMatch', ScanWrites(scan[s])'
    PROVE  AInv'
<1>1. ResolversIdle /\ ImportersIdle /\ PublishersIdle /\ Solo(s)
  BY ScanTurn
<1>2. \A t \in Scanners : t # s => scan'[t].pc = "idle"
  BY <1>1 DEF SetScan, Solo, CalmInv, IInv, ScanOK
<1>3. ResolversIdle' /\ ImportersIdle' /\ PublishersIdle'
  BY <1>1 DEF ResolversIdle, ImportersIdle, PublishersIdle
<1>4. OneThread'
  BY <1>3 DEF OneThread, ResolversIdle, ImportersIdle, PublishersIdle
<1>5. \A t \in Scanners : ScanWrites(scan[t])'
  BY <1>2 DEF ScanWrites
<1>6. /\ \A r \in Resolvers : ResWrites(res[r])'
      /\ \A i \in Importers : ImpWrites(imp[i])'
      /\ \A u \in Publishers : PubWrites(pub[u])'
  BY <1>3 DEF ResolversIdle, ImportersIdle, PublishersIdle, ResWrites, ImpWrites, PubWrites
<1> QED
  BY <1>4, <1>5, <1>6 DEF AInv

LEMMA ResTurnStep ==
    ASSUME Calm, CalmInv, NEW r \in Resolvers, res[r].pc # "idle" \/ ResolveBegin(r),
           NEW l, SetRes(r, l), UNCHANGED <<scan, imp, pub>>,
           OwnSent', AnchorsMatch', ResWrites(res[r])'
    PROVE  AInv'
<1>1. /\ ScansIdle /\ ImportersIdle /\ PublishersIdle
      /\ \A t \in Resolvers : t # r => res[t].pc = "idle"
  BY ResTurn
<1>2. \A t \in Resolvers : t # r => res'[t].pc = "idle"
  BY <1>1 DEF SetRes, CalmInv, IInv, ResOK
<1>3. ScansIdle' /\ ImportersIdle' /\ PublishersIdle'
  BY <1>1 DEF ScansIdle, ImportersIdle, PublishersIdle
<1>4. OneThread'
  BY <1>2, <1>3 DEF OneThread, ScansIdle, ImportersIdle, PublishersIdle
<1>5. \A t \in Resolvers : ResWrites(res[t])'
  BY <1>2 DEF ResWrites
<1>6. /\ \A s \in Scanners : ScanWrites(scan[s])'
      /\ \A i \in Importers : ImpWrites(imp[i])'
      /\ \A u \in Publishers : PubWrites(pub[u])'
  BY <1>3 DEF ScansIdle, ImportersIdle, PublishersIdle, ScanWrites, ImpWrites, PubWrites
<1> QED
  BY <1>4, <1>5, <1>6 DEF AInv

LEMMA ImpTurnStep ==
    ASSUME Calm, CalmInv, NEW i \in Importers, imp[i].pc # "idle" \/ AllIdle,
           NEW l, SetImp(i, l), UNCHANGED <<scan, res, pub>>,
           OwnSent', AnchorsMatch', ImpWrites(imp[i])'
    PROVE  AInv'
<1>1. /\ ScansIdle /\ ResolversIdle /\ PublishersIdle
      /\ \A t \in Importers : t # i => imp[t].pc = "idle"
  BY ImpTurn
<1>2. \A t \in Importers : t # i => imp'[t].pc = "idle"
  BY <1>1 DEF SetImp, CalmInv, IInv, ImpOK
<1>3. ScansIdle' /\ ResolversIdle' /\ PublishersIdle'
  BY <1>1 DEF ScansIdle, ResolversIdle, PublishersIdle
<1>4. OneThread'
  BY <1>2, <1>3 DEF OneThread, ScansIdle, ResolversIdle, PublishersIdle
<1>5. \A t \in Importers : ImpWrites(imp[t])'
  BY <1>2 DEF ImpWrites
<1>6. /\ \A s \in Scanners : ScanWrites(scan[s])'
      /\ \A r \in Resolvers : ResWrites(res[r])'
      /\ \A u \in Publishers : PubWrites(pub[u])'
  BY <1>3 DEF ScansIdle, ResolversIdle, PublishersIdle, ScanWrites, ResWrites, PubWrites
<1> QED
  BY <1>4, <1>5, <1>6 DEF AInv

LEMMA PubTurnStep ==
    ASSUME Calm, CalmInv, NEW u \in Publishers, pub[u].pc # "idle" \/ AllIdle,
           NEW l, SetPub(u, l), UNCHANGED <<scan, res, imp>>,
           OwnSent', AnchorsMatch', PubWrites(pub[u])'
    PROVE  AInv'
<1>1. /\ ScansIdle /\ ResolversIdle /\ ImportersIdle
      /\ \A t \in Publishers : t # u => pub[t].pc = "idle"
  BY PubTurn
<1>2. \A t \in Publishers : t # u => pub'[t].pc = "idle"
  BY <1>1 DEF SetPub, CalmInv, IInv, PubOK
<1>3. ScansIdle' /\ ResolversIdle' /\ ImportersIdle'
  BY <1>1 DEF ScansIdle, ResolversIdle, ImportersIdle
<1>4. OneThread'
  BY <1>2, <1>3 DEF OneThread, ScansIdle, ResolversIdle, ImportersIdle
<1>5. \A t \in Publishers : PubWrites(pub[t])'
  BY <1>2 DEF PubWrites
<1>6. /\ \A s \in Scanners : ScanWrites(scan[s])'
      /\ \A r \in Resolvers : ResWrites(res[r])'
      /\ \A i \in Importers : ImpWrites(imp[i])'
  BY <1>3 DEF ScansIdle, ResolversIdle, ImportersIdle, ScanWrites, ResWrites, ImpWrites
<1> QED
  BY <1>4, <1>5, <1>6 DEF AInv


----------------------------------------------------------------------------
\* AInv is inductive

\* A scan step that leaves rows and anchors alone and prepares no write.
LEMMA ScanQuiet ==
    ASSUME Calm, CalmInv, NEW s \in Scanners, scan[s].pc # "idle" \/ ScanBegin(s),
           NEW l, SetScan(s, l), l.pc \notin {"write", "mark"},
           UNCHANGED <<chain, sent, commitments, anchors, res, imp, pub>>
    PROVE  AInv'
<1>1. OwnSent' /\ AnchorsMatch'
  BY DEF CalmInv, AInv, OwnSent, AnchorsMatch
<1>2. scan'[s] = l
  BY DEF SetScan, CalmInv, IInv, ScanOK
<1>3. ScanWrites(scan[s])'
  BY <1>2 DEF ScanWrites
<1> QED
  BY <1>1, <1>3, ScanTurnStep

\* The steps that look for the range and at the outputs, and the save.
LEMMA ScanSearches ==
    ASSUME Calm, CalmInv, NEW s \in Scanners,
           \/ ScanBegin(s) \/ ScanStored(s) \/ ScanCheck(s) \/ ScanWalk(s)
           \/ ScanCompare(s) \/ ScanHash(s) \/ ScanLookup(s) \/ ScanSave(s)
    PROVE  AInv'
<1> USE DEF chainVars, tables
<1>0. scan[s] \in ScanThread
  BY DEF CalmInv, IInv, ScanOK
<1>1. \A first : Plan(scan[s], first).pc \in {"idle", "hash"}
  BY PlanFields DEF IdleScan
<1>2. Lower(scan[s]).pc \in {"rewind", "walk"}
  BY <1>0 DEF Lower, ScanThread
<1>3. NextOutput(scan[s]).pc \in {"commit", "save"}
  BY <1>0 DEF NextOutput, ScanThread
<1>4. \A v : [scan[s] EXCEPT !.pc = v].pc = v
  BY <1>0 DEF ScanThread
<1>5. CASE ScanBegin(s)
  <2> DEFINE l == [IdleScan EXCEPT !.pc = "stored", !.tip = BlockCount(chain)]
  <2>1. l.pc = "stored"
    BY DEF IdleScan
  <2> QED
    BY <1>5, <2>1, ScanQuiet DEF ScanBegin
<1>6. CASE ScanStored(s)
  <2>1. \A h : [scan[s] EXCEPT !.pc = "check", !.cand = h, !.seen = blocks[h]].pc = "check"
    BY <1>0 DEF ScanThread
  <2>2. [scan[s] EXCEPT !.pc = "walk", !.cand = scan[s].tip].pc = "walk"
    BY <1>0 DEF ScanThread
  <2>3. PICK l : SetScan(s, l) /\ l.pc \in {"idle", "hash", "check", "walk"}
    BY <1>1, <1>6, <2>1, <2>2 DEF ScanStored
  <2> QED
    BY <1>6, <2>3, ScanQuiet DEF ScanStored
<1>7. CASE ScanCheck(s)
  <2>1. [scan[s] EXCEPT !.pc = "walk", !.seen = None].pc = "walk"
    BY <1>0 DEF ScanThread
  <2>2. PICK l : SetScan(s, l) /\ l.pc \in {"idle", "hash", "walk"}
    BY <1>1, <1>7, <2>1 DEF ScanCheck
  <2> QED
    BY <1>7, <2>2, ScanQuiet DEF ScanCheck
<1>8. CASE ScanWalk(s)
  <2>1. [scan[s] EXCEPT !.pc = "compare", !.seen = blocks[scan[s].cand]].pc = "compare"
    BY <1>0 DEF ScanThread
  <2>2. PICK l : SetScan(s, l) /\ l.pc \in {"rewind", "walk", "compare"}
    BY <1>2, <1>8, <2>1 DEF ScanWalk
  <2> QED
    BY <1>8, <2>2, ScanQuiet DEF ScanWalk
<1>9. CASE ScanCompare(s)
  <2>1. [scan[s] EXCEPT !.pc = "rewind", !.seen = None].pc = "rewind"
    BY <1>0 DEF ScanThread
  <2>2. PICK l : SetScan(s, l) /\ l.pc \in {"rewind", "walk"}
    BY <1>2, <1>9, <2>1 DEF ScanCompare
  <2> QED
    BY <1>9, <2>2, ScanQuiet DEF ScanCompare
<1>10. CASE ScanHash(s)
  <2>1. \A a : [scan[s] EXCEPT !.hash = a, !.i = 1,
                  !.pc = IF Len(Outputs[a]) = 0 THEN "save" ELSE "commit"].pc
               \in {"save", "commit"}
    BY <1>0 DEF ScanThread
  <2>2. IdleScan.pc = "idle"
    BY DEF IdleScan
  <2>3. PICK l : SetScan(s, l) /\ l.pc \in {"idle", "save", "commit"}
    BY <1>10, <2>1, <2>2 DEF ScanHash
  <2> QED
    BY <1>10, <2>3, ScanQuiet DEF ScanHash
<1>11. CASE ScanLookup(s)
  <2>1. PICK l : SetScan(s, l) /\ l.pc \in {"read", "commit", "save"}
    BY <1>3, <1>4, <1>11 DEF ScanLookup
  <2> QED
    BY <1>11, <2>1, ScanQuiet DEF ScanLookup
<1>12. CASE ScanSave(s)
  <2>1. [scan[s] EXCEPT !.pc = "hash", !.next = @ + 1, !.hash = None, !.i = 1].pc = "hash"
    BY <1>0 DEF ScanThread
  <2>2. IdleScan.pc = "idle"
    BY DEF IdleScan
  <2>3. PICK l : SetScan(s, l) /\ l.pc \in {"idle", "hash"}
    BY <1>12, <2>1, <2>2 DEF ScanSave
  <2> QED
    BY <1>12, <2>3, ScanQuiet DEF ScanSave
<1> QED
  BY <1>5, <1>6, <1>7, <1>8, <1>9, <1>10, <1>11, <1>12

\* What the rewind does to one row and its anchor.
LEMMA RewoundRow ==
    ASSUME IInv, NEW a, RewindBitcoinScan(a), NEW p \in Points
    PROVE  \/ /\ commitments[p].hash # None /\ commitments[p].height > a
              /\ commitments'[p].hash = None /\ anchors'[p].status # "confirmed"
           \/ /\ ~(commitments[p].hash # None /\ commitments[p].height > a)
              /\ commitments'[p].hash = commitments[p].hash
              /\ commitments'[p].resolved = commitments[p].resolved
              /\ anchors'[p] = anchors[p]
<1>1. commitments[p] \in CommitmentRow /\ anchors[p] \in AnchorRow
  BY DEF IInv, CommitmentsOK, AnchorsOK
<1>2. CASE commitments[p].hash # None /\ commitments[p].height > a
  <2>1. commitments'[p] = NoCommitment
    BY <1>2 DEF RewindBitcoinScan, Present
  <2>2. anchors'[p] = IF anchors[p].status # "absent"
                      THEN [anchors[p] EXCEPT !.status = "reorganised"] ELSE anchors[p]
    BY <1>2 DEF RewindBitcoinScan, Present
  <2>3. anchors'[p].status # "confirmed"
    BY <1>1, <2>2 DEF AnchorRow
  <2>4. commitments'[p].hash = None
    BY <2>1 DEF NoCommitment
  <2> QED
    BY <1>2, <2>3, <2>4, Zenon
<1>3. CASE ~(commitments[p].hash # None /\ commitments[p].height > a)
  <2>1. commitments'[p] = [commitments[p] EXCEPT !.before =
            @ \ {q \in Present : commitments[q].height > a}]
    BY <1>3 DEF RewindBitcoinScan, Present
  <2>2. anchors'[p] = anchors[p]
    BY <1>3 DEF RewindBitcoinScan, Present
  <2> QED
    BY <1>1, <1>3, <2>1, <2>2 DEF CommitmentRow
<1> QED
  BY <1>2, <1>3

LEMMA ScanRewindCalm ==
    ASSUME Calm, CalmInv, NEW s \in Scanners, ScanRewind(s)
    PROVE  AInv'
<1> DEFINE first == IF StartHeight > scan[s].cand + 1 THEN StartHeight
                    ELSE scan[s].cand + 1
<1>1. /\ scan[s].pc # "idle" /\ SetScan(s, Plan(scan[s], first))
      /\ UNCHANGED <<chain, sent, res, imp, pub>> /\ RewindBitcoinScan(scan[s].cand)
  BY DEF ScanRewind, chainVars
<1>2. scan'[s].pc \in {"idle", "hash"}
  <2>1. scan'[s] = Plan(scan[s], first)
    BY <1>1 DEF SetScan, CalmInv, IInv, ScanOK
  <2> QED
    BY <2>1, PlanFields DEF IdleScan
<1>3. ScanWrites(scan[s])'
  BY <1>2 DEF ScanWrites
<1>4. \A p \in Points :
         \/ commitments'[p].hash = None /\ anchors'[p].status # "confirmed"
         \/ /\ commitments'[p].hash = commitments[p].hash
            /\ commitments'[p].resolved = commitments[p].resolved
            /\ anchors'[p] = anchors[p]
  BY <1>1, RewoundRow DEF CalmInv
<1>5. AnchorsMatch'
  BY <1>4 DEF CalmInv, AInv, AnchorsMatch
<1>6. OwnSent'
  BY <1>1, <1>4, NodeAssumption DEF CalmInv, AInv, OwnSent
<1> QED
  BY <1>1, <1>3, <1>5, <1>6, ScanTurnStep

\* An output that has a row already keeps its block.
LEMMA ScanCommitCalm ==
    ASSUME Calm, CalmInv, NEW s \in Scanners, ScanCommit(s)
    PROVE  AInv'
<1> DEFINE x == ScanPoint(scan[s])
           hb == scan[s].hash
           l == [scan[s] EXCEPT !.pc = "lookup"]
<1>1. /\ scan[s].pc = "commit" /\ SetScan(s, l)
      /\ UNCHANGED <<chain, sent, anchors, res, imp, pub>>
      /\ AddCommitment(x, scan[s].next, hb)
  BY DEF ScanCommit, chainVars
<1>2. Steady /\ IInv /\ SInv
  BY <1>1, ScanTurn DEF CalmInv
<1>3. scan[s] \in ScanThread /\ RowsUnder(s) /\ chain \in Branches
  BY <1>1, <1>2, Scanning
<1>4. /\ hb \in Blocks /\ hb # None /\ x \in Points /\ x \in OutputSet(hb)
      /\ scan[s].next + 1 \in 1 .. Len(chain) /\ hb = chain[scan[s].next + 1]
      /\ \A b \in Blocks : x \in OutputSet(b) => blocks[Height[b]] # b
  BY <1>1, <1>2, AtPoint DEF InOutputs
<1>5. commitments[x].hash \in {None, hb}
  <2> SUFFICES ASSUME commitments[x].hash # None PROVE commitments[x].hash = hb
    OBVIOUS
  <2>1. commitments[x].hash \in Blocks
    BY <1>2, <1>4 DEF IInv, CommitmentsOK, InBlock
  <2>2. Committed(scan[s], x, commitments[x].hash)
    BY <1>3, <1>4, <2>1 DEF RowsUnder
  <2> QED
    BY <2>2 DEF Committed
<1>6. \A p \in Points : commitments'[p].hash = IF p = x THEN hb ELSE commitments[p].hash
  BY <1>1, <1>2, <1>4, AddedHash DEF IInv
<1>7. \A p \in Points : commitments'[p].resolved =>
         (commitments[p].resolved /\ commitments[p].hash # None) \/ p # x
  <2>1. commitments[x] \in CommitmentRow
    BY <1>2, <1>4 DEF IInv, CommitmentsOK
  <2>2. commitments'[x] = IF x \in Present
            THEN [commitments[x] EXCEPT !.hash = hb, !.height = scan[s].next]
            ELSE [hash |-> hb, height |-> scan[s].next, resolved |-> FALSE, before |-> Present]
    BY <1>1, <1>2, <1>4 DEF AddCommitment, IInv, CommitmentsOK
  <2>3. CASE x \in Present
    BY <2>1, <2>2, <2>3 DEF CommitmentRow, Present
  <2>4. CASE x \notin Present
    BY <2>2, <2>4
  <2> QED
    BY <2>3, <2>4
<1>8. \A p \in Points : p # x => commitments'[p] = commitments[p]
  BY <1>1, <1>2 DEF AddCommitment, IInv, CommitmentsOK
<1>9. AnchorsMatch'
  <2> SUFFICES ASSUME NEW p \in Points
               PROVE  /\ anchors[p].status = "confirmed"
                            => anchors[p].hash = commitments'[p].hash
                      /\ commitments'[p].hash # None /\ commitments'[p].resolved
                            => anchors[p].status = "confirmed"
    BY <1>1 DEF AnchorsMatch
  <2>1. /\ anchors[p].status = "confirmed" => anchors[p].hash = commitments[p].hash
        /\ commitments[p].hash # None /\ commitments[p].resolved
             => anchors[p].status = "confirmed"
    BY DEF CalmInv, AInv, AnchorsMatch
  <2>2. anchors[p].status = "confirmed" => anchors[p].hash # None
    BY <1>2, ChainAssumption DEF IInv, AnchorsOK, Genuine, InBlock
  <2>3. CASE p = x
    BY <1>5, <1>6, <1>7, <2>1, <2>2, <2>3
  <2>4. CASE p # x
    BY <1>8, <2>1, <2>4
  <2> QED
    BY <2>3, <2>4
<1>10. OwnSent'
  <2>1. x \in PointsOf(chain)
    BY <1>4 DEF PointsOf, BlocksOf
  <2> QED
    BY <1>1, <1>6, <2>1, NodeAssumption DEF CalmInv, AInv, OwnSent
<1>11. ScanWrites(scan[s])'
  <2>1. scan'[s] = l /\ l.pc = "lookup"
    BY <1>1, <1>2, <1>3 DEF SetScan, IInv, ScanOK, ScanThread
  <2> HIDE DEF l
  <2> QED
    BY <2>1 DEF ScanWrites
<1> QED
  BY <1>1, <1>9, <1>10, <1>11, ScanTurnStep


LEMMA ScanRegisterReadCalm ==
    ASSUME Calm, CalmInv, NEW s \in Scanners, ScanRegisterRead(s)
    PROVE  AInv'
<1> DEFINE x == ScanPoint(scan[s])
           l == [scan[s] EXCEPT !.pc = "write", !.com = Context(x)]
<1>1. /\ scan[s].pc = "read"
      /\ UNCHANGED <<chain, sent, commitments, anchors, res, imp, pub>>
  BY DEF ScanRegisterRead, chainVars, tables
<1>2. Steady /\ IInv /\ SInv
  BY <1>1, ScanTurn DEF CalmInv
<1>3. SetScan(s, l)
  BY <1>1, <1>2, PointIsPresent, PresentIsFindable DEF ScanRegisterRead, Steady
<1>4. scan[s] \in ScanThread
  BY <1>2 DEF IInv, ScanOK
<1>5. /\ l.pc = "write" /\ l.com = Context(x) /\ l.hash = scan[s].hash /\ l.i = scan[s].i
  BY <1>4 DEF ScanThread
<1> HIDE DEF l
<1>6. l.com.hash = commitments[ScanPoint(l)].hash
  BY <1>5 DEF Context, ScanPoint
<1>7. scan'[s] = l
  BY <1>2, <1>3 DEF SetScan, IInv, ScanOK
<1>8. ScanWrites(scan[s])'
  BY <1>1, <1>5, <1>6, <1>7 DEF ScanWrites
<1>9. OwnSent' /\ AnchorsMatch'
  BY <1>1 DEF CalmInv, AInv, OwnSent, AnchorsMatch
<1> QED
  BY <1>1, <1>3, <1>8, <1>9, ScanTurnStep

LEMMA ScanRegisterWriteCalm ==
    ASSUME Calm, CalmInv, NEW s \in Scanners, ScanRegisterWrite(s)
    PROVE  AInv'
<1> DEFINE x == ScanPoint(scan[s])
           l == [scan[s] EXCEPT !.pc = "mark"]
           row == ConfirmedAnchor(x, scan[s].com)
<1>1. /\ scan[s].pc = "write" /\ SetScan(s, l) /\ AddAnchor(x, row)
      /\ UNCHANGED <<chain, sent, commitments, res, imp, pub>>
  BY DEF ScanRegisterWrite, chainVars
<1>2. Steady /\ IInv /\ SInv
  BY <1>1, ScanTurn DEF CalmInv
<1>3. scan[s] \in ScanThread /\ x \in Points
  BY <1>1, <1>2, AtOutput DEF InOutputs
<1>4. scan[s].com.hash = commitments[x].hash
  BY <1>1 DEF CalmInv, AInv, ScanWrites
<1>5. row.status = "confirmed" /\ row.hash = scan[s].com.hash
  BY DEF ConfirmedAnchor
<1>6. l.pc = "mark" /\ l.hash = scan[s].hash /\ l.i = scan[s].i
  BY <1>3 DEF ScanThread
<1>7. ScanPoint(l) = x
  BY <1>6 DEF ScanPoint
<1> HIDE DEF l, x, row
<1>8. AnchorsMatch' /\ anchors'[x] = row
  BY <1>1, <1>2, <1>3, <1>4, <1>5, MatchWritten DEF CalmInv, AInv
<1>9. OwnSent'
  BY <1>1, OwnKept DEF CalmInv, AInv
<1>10. scan'[s] = l
  BY <1>1, <1>2 DEF SetScan, IInv, ScanOK
<1>11. ScanWrites(scan[s])'
  BY <1>5, <1>6, <1>7, <1>8, <1>10 DEF ScanWrites
<1> QED
  BY <1>1, <1>8, <1>9, <1>11, ScanTurnStep

LEMMA ScanRegisterMarkCalm ==
    ASSUME Calm, CalmInv, NEW s \in Scanners, ScanRegisterMark(s)
    PROVE  AInv'
<1> DEFINE x == ScanPoint(scan[s])
<1>1. /\ scan[s].pc = "mark" /\ SetScan(s, NextOutput(scan[s])) /\ MarkResolved(x)
      /\ UNCHANGED <<chain, sent, anchors, res, imp, pub>>
  BY DEF ScanRegisterMark, chainVars
<1>2. Steady /\ IInv /\ SInv
  BY <1>1, ScanTurn DEF CalmInv
<1>3. scan[s] \in ScanThread /\ x \in Points
  BY <1>1, <1>2, AtOutput DEF InOutputs
<1>4. anchors[x].status = "confirmed"
  BY <1>1 DEF CalmInv, AInv, ScanWrites
<1>5. AnchorsMatch'
  BY <1>1, <1>2, <1>3, <1>4, MatchMarked DEF CalmInv, AInv
<1>6. \A p \in Points : commitments'[p].hash = commitments[p].hash
  BY <1>1, <1>2, MarkKeepsHash DEF IInv
<1>7. OwnSent'
  BY <1>1, <1>6, OwnKept DEF CalmInv, AInv
<1>8. NextOutput(scan[s]).pc \in {"commit", "save"}
  BY <1>3 DEF NextOutput, ScanThread
<1>9. scan'[s] = NextOutput(scan[s])
  BY <1>1, <1>2 DEF SetScan, IInv, ScanOK
<1>10. ScanWrites(scan[s])'
  BY <1>8, <1>9 DEF ScanWrites
<1> QED
  BY <1>1, <1>5, <1>7, <1>10, ScanTurnStep

\* A resolution step that leaves rows and anchors alone and prepares no write.
LEMMA ResQuiet ==
    ASSUME Calm, CalmInv, NEW r \in Resolvers, res[r].pc # "idle" \/ ResolveBegin(r),
           NEW l, SetRes(r, l), l.pc \notin {"write", "mark", "again"},
           UNCHANGED <<chain, sent, commitments, anchors, scan, imp, pub>>
    PROVE  AInv'
<1>1. OwnSent' /\ AnchorsMatch'
  BY DEF CalmInv, AInv, OwnSent, AnchorsMatch
<1>2. res'[r] = l
  BY DEF SetRes, CalmInv, IInv, ResOK
<1>3. ResWrites(res[r])'
  BY <1>2 DEF ResWrites
<1> QED
  BY <1>1, <1>3, ResTurnStep

LEMMA ResSearches ==
    ASSUME Calm, CalmInv, NEW r \in Resolvers,
           ResolveBegin(r) \/ ResolveMissing(r) \/ \E p \in Points : ResolveImport(r, p)
    PROVE  AInv'
<1> USE DEF chainVars, tables
<1>0. res[r] \in ResThread
  BY DEF CalmInv, IInv, ResOK
<1>1. CASE ResolveBegin(r)
  <2> DEFINE q == {[pt |-> p, before |-> commitments[p].before \cap Oldest] : p \in Oldest}
             l == [IdleRes EXCEPT !.pc = "next", !.queue = q]
  <2>1. l.pc = "next"
    BY DEF IdleRes
  <2>2. SetRes(r, l)
    BY <1>1 DEF ResolveBegin
  <2> HIDE DEF l
  <2> QED
    BY <1>1, <2>1, <2>2, ResQuiet DEF ResolveBegin
<1>2. CASE ResolveMissing(r)
  <2>1. \A e : [res[r] EXCEPT !.queue = @ \ {e}].pc = res[r].pc
    BY <1>0 DEF ResThread
  <2>2. IdleRes.pc = "idle"
    BY DEF IdleRes
  <2>3. PICK l : SetRes(r, l) /\ l.pc \in {"idle", "next"}
    BY <1>2, <2>1, <2>2 DEF ResolveMissing
  <2> QED
    BY <1>2, <2>3, ResQuiet DEF ResolveMissing
<1>3. ASSUME NEW p \in Points, ResolveImport(r, p) PROVE AInv'
  <2>1. \A e : [res[r] EXCEPT !.pc = "read", !.pt = e.pt, !.queue = @ \ {e}].pc = "read"
    BY <1>0 DEF ResThread
  <2>2. PICK l : SetRes(r, l) /\ l.pc = "read"
    BY <1>3, <2>1 DEF ResolveImport
  <2> QED
    BY <1>3, <2>2, ResQuiet DEF ResolveImport
<1> QED
  BY <1>1, <1>2, <1>3

LEMMA ResolveRegisterReadCalm ==
    ASSUME Calm, CalmInv, NEW r \in Resolvers, ResolveRegisterRead(r)
    PROVE  AInv'
<1> DEFINE l == [res[r] EXCEPT !.pc = "write", !.com = Context(res[r].pt)]
<1>1. /\ res[r].pc = "read"
      /\ UNCHANGED <<chain, sent, commitments, anchors, scan, imp, pub>>
  BY DEF ResolveRegisterRead, chainVars, tables
<1>2. CASE SetRes(r, IdleRes)
  <2>1. IdleRes.pc = "idle"
    BY DEF IdleRes
  <2> QED
    BY <1>1, <1>2, <2>1, ResQuiet
<1>3. CASE SetRes(r, l)
  <2>1. l.pc = "write" /\ l.pt = res[r].pt /\ l.com = Context(res[r].pt)
    BY DEF CalmInv, IInv, ResOK, ResThread
  <2> HIDE DEF l
  <2>2. l.com.hash = commitments[l.pt].hash
    BY <2>1 DEF Context
  <2>3. res'[r] = l
    BY <1>3 DEF SetRes, CalmInv, IInv, ResOK
  <2>4. ResWrites(res[r])'
    BY <1>1, <2>1, <2>2, <2>3 DEF ResWrites
  <2>5. OwnSent' /\ AnchorsMatch'
    BY <1>1 DEF CalmInv, AInv, OwnSent, AnchorsMatch
  <2> QED
    BY <1>1, <1>3, <2>4, <2>5, ResTurnStep
<1> QED
  BY <1>2, <1>3 DEF ResolveRegisterRead

LEMMA ResolveRegisterWriteCalm ==
    ASSUME Calm, CalmInv, NEW r \in Resolvers, ResolveRegisterWrite(r)
    PROVE  AInv'
<1> DEFINE x == res[r].pt
           l == [res[r] EXCEPT !.pc = "mark", !.com = NoContext]
           row == ConfirmedAnchor(x, res[r].com)
<1>1. /\ res[r].pc = "write" /\ SetRes(r, l) /\ AddAnchor(x, row)
      /\ UNCHANGED <<chain, sent, commitments, scan, imp, pub>>
  BY DEF ResolveRegisterWrite, chainVars
<1>2. res[r] \in ResThread /\ x \in Points /\ res[r].com.hash = commitments[x].hash
  BY <1>1 DEF CalmInv, IInv, ResOK, ResKnows, AInv, ResWrites
<1>3. row.status = "confirmed" /\ row.hash = res[r].com.hash
  BY DEF ConfirmedAnchor
<1>4. l.pc = "mark" /\ l.pt = x
  BY <1>2 DEF ResThread
<1> HIDE DEF l, x, row
<1>5. AnchorsMatch' /\ anchors'[x] = row
  BY <1>1, <1>2, <1>3, MatchWritten DEF CalmInv, AInv
<1>6. OwnSent'
  BY <1>1, OwnKept DEF CalmInv, AInv
<1>7. res'[r] = l
  BY <1>1 DEF SetRes, CalmInv, IInv, ResOK
<1>8. ResWrites(res[r])'
  BY <1>3, <1>4, <1>5, <1>7 DEF ResWrites
<1> QED
  BY <1>1, <1>5, <1>6, <1>8, ResTurnStep

LEMMA ResolveRegisterMarkCalm ==
    ASSUME Calm, CalmInv, NEW r \in Resolvers, ResolveRegisterMark(r)
    PROVE  AInv'
<1> DEFINE x == res[r].pt
<1>1. /\ res[r].pc \in {"mark", "again"} /\ MarkResolved(x)
      /\ UNCHANGED <<chain, sent, anchors, scan, imp, pub>>
  BY DEF ResolveRegisterMark, chainVars
<1>2. res[r] \in ResThread /\ x \in Points /\ anchors[x].status = "confirmed"
  BY <1>1 DEF CalmInv, IInv, ResOK, ResKnows, AInv, ResWrites
<1>3. AnchorsMatch'
  BY <1>1, <1>2, MatchMarked DEF CalmInv, AInv
<1>4. \A p \in Points : commitments'[p].hash = commitments[p].hash
  BY <1>1, MarkKeepsHash DEF CalmInv, IInv
<1>5. OwnSent'
  BY <1>1, <1>4, OwnKept DEF CalmInv, AInv
<1>6. PICK l : SetRes(r, l) /\ ((l.pc = "again" /\ l.pt = x) \/ l.pc \in {"idle", "next"})
  <2>1. /\ [res[r] EXCEPT !.pc = "again"].pc = "again"
        /\ [res[r] EXCEPT !.pc = "again"].pt = x
    BY <1>2 DEF ResThread
  <2>2. [res[r] EXCEPT !.pc = "next", !.pt = None].pc = "next"
    BY <1>2 DEF ResThread
  <2>3. IdleRes.pc = "idle"
    BY DEF IdleRes
  <2>4. CASE SetRes(r, [res[r] EXCEPT !.pc = "again"])
    BY <2>1, <2>4
  <2>5. CASE SetRes(r, [res[r] EXCEPT !.pc = "next", !.pt = None])
    BY <2>2, <2>5
  <2>6. CASE SetRes(r, IdleRes)
    BY <2>3, <2>6
  <2> QED
    BY <2>4, <2>5, <2>6 DEF ResolveRegisterMark
<1>7. res'[r] = l
  BY <1>6 DEF SetRes, CalmInv, IInv, ResOK
<1>8. ResWrites(res[r])'
  BY <1>1, <1>2, <1>6, <1>7 DEF ResWrites
<1> QED
  BY <1>1, <1>3, <1>5, <1>6, <1>8, ResTurnStep


\* The reference that was read keeps a confirmed row confirmed.
LEMMA ImportReadCalm ==
    ASSUME Calm, CalmInv, NEW i \in Importers, NEW p \in Points, NEW b \in Batches,
           NEW claim \in Claims, ImportRead(i, p, b, claim)
    PROVE  AInv'
<1> DEFINE row == IF anchors[p].status \in LocallyChecked
                  THEN [anchors[p] EXCEPT !.network = Network[b]]
                  ELSE [status |-> "unverified", batch |-> b, network |-> Network[b],
                        hash |-> claim.hash, height |-> claim.height]
           l == [pc |-> "write", pt |-> p, row |-> row]
<1>1. /\ SetImp(i, l) /\ AllIdle
      /\ UNCHANGED <<chain, sent, commitments, anchors, scan, res, pub>>
  BY DEF ImportRead, chainVars, tables, MayStart, Calm
<1>2. anchors[p] \in AnchorRow
  BY DEF CalmInv, IInv, AnchorsOK
<1>3. /\ anchors[p].status = "confirmed" => row.status = "confirmed"
      /\ row.status = "confirmed" =>
            anchors[p].status = "confirmed" /\ row.hash = anchors[p].hash
  <2>1. CASE anchors[p].status \in LocallyChecked
    BY <1>2, <2>1 DEF AnchorRow
  <2>2. CASE anchors[p].status \notin LocallyChecked
    BY <2>2 DEF LocallyChecked
  <2> QED
    BY <2>1, <2>2
<1>4. l.pc = "write" /\ l.pt = p /\ l.row = row
  OBVIOUS
<1> HIDE DEF row, l
<1>5. anchors[p].status = "confirmed" => anchors[p].hash = commitments[p].hash
  BY DEF CalmInv, AInv, AnchorsMatch
<1>6. imp'[i] = l
  BY <1>1 DEF SetImp, CalmInv, IInv, ImpOK
<1>7. ImpWrites(imp[i])'
  BY <1>1, <1>3, <1>4, <1>5, <1>6 DEF ImpWrites
<1>8. OwnSent' /\ AnchorsMatch'
  BY <1>1 DEF CalmInv, AInv, OwnSent, AnchorsMatch
<1> QED
  BY <1>1, <1>7, <1>8, ImpTurnStep

LEMMA ImportWriteCalm ==
    ASSUME Calm, CalmInv, NEW i \in Importers, ImportWrite(i)
    PROVE  AInv'
<1>1. /\ imp[i].pc = "write" /\ SetImp(i, IdleImp) /\ AddAnchor(imp[i].pt, imp[i].row)
      /\ UNCHANGED <<chain, sent, commitments, scan, res, pub>>
  BY DEF ImportWrite, chainVars
<1>2. /\ imp[i].pt \in Points
      /\ anchors[imp[i].pt].status = "confirmed" => imp[i].row.status = "confirmed"
      /\ imp[i].row.status = "confirmed" => imp[i].row.hash = commitments[imp[i].pt].hash
  BY <1>1 DEF CalmInv, IInv, ImpOK, ImpKnows, AInv, ImpWrites
<1>3. commitments[imp[i].pt].hash # None /\ commitments[imp[i].pt].resolved
         => imp[i].row.status = "confirmed"
  BY <1>2 DEF CalmInv, AInv, AnchorsMatch
<1>4. AnchorsMatch'
  BY <1>1, <1>2, <1>3, MatchWritten DEF CalmInv, AInv
<1>5. OwnSent'
  BY <1>1, OwnKept DEF CalmInv, AInv
<1>6. imp'[i].pc = "idle"
  BY <1>1 DEF SetImp, CalmInv, IInv, ImpOK, IdleImp
<1>7. ImpWrites(imp[i])'
  BY <1>6 DEF ImpWrites
<1> QED
  BY <1>1, <1>4, <1>5, <1>7, ImpTurnStep

\* A transaction that is broadcast now has no row yet.
LEMMA PublishSendCalm ==
    ASSUME Calm, CalmInv, NEW u \in Publishers, NEW p \in Points, PublishSend(u, p)
    PROVE  AInv'
<1> DEFINE l == [pc |-> "save", pt |-> p]
<1>1. /\ SetPub(u, l) /\ AllIdle /\ p \in OwnPoints /\ p \notin sent
      /\ sent' = sent \cup {p}
      /\ UNCHANGED <<chain, commitments, anchors, scan, res, imp>>
  BY DEF PublishSend, tables, MayStart, Calm
<1>2. commitments[p].hash = None
  BY <1>1 DEF CalmInv, AInv, OwnSent
<1>3. pub'[u] = l
  BY <1>1 DEF SetPub, CalmInv, IInv, PubOK
<1>4. PubWrites(pub[u])'
  BY <1>1, <1>2, <1>3 DEF PubWrites
<1>5. OwnSent' /\ AnchorsMatch'
  BY <1>1 DEF CalmInv, AInv, OwnSent, AnchorsMatch
<1> QED
  BY <1>1, <1>4, <1>5, PubTurnStep

LEMMA PublishSaveCalm ==
    ASSUME Calm, CalmInv, NEW u \in Publishers, PublishSave(u)
    PROVE  AInv'
<1> DEFINE row == [status |-> "broadcast", batch |-> Manifest[pub[u].pt],
                   network |-> NodeNetwork, hash |-> None, height |-> None]
<1>1. /\ pub[u].pc = "save" /\ SetPub(u, IdlePub) /\ AddAnchor(pub[u].pt, row)
      /\ UNCHANGED <<chain, sent, commitments, scan, res, imp>>
  BY DEF PublishSave, chainVars
<1>2. pub[u].pt \in Points /\ commitments[pub[u].pt].hash = None
  BY <1>1 DEF CalmInv, IInv, PubOK, PubKnows, AInv, PubWrites
<1>3. row.status # "confirmed"
  OBVIOUS
<1> HIDE DEF row
<1>4. AnchorsMatch'
  BY <1>1, <1>2, <1>3, MatchWritten DEF CalmInv, AInv
<1>5. OwnSent'
  BY <1>1, OwnKept DEF CalmInv, AInv
<1>6. pub'[u].pc = "idle"
  BY <1>1 DEF SetPub, CalmInv, IInv, PubOK, IdlePub
<1>7. PubWrites(pub[u])'
  BY <1>6 DEF PubWrites
<1> QED
  BY <1>1, <1>4, <1>5, <1>7, PubTurnStep

\* No thread moves and the tables of AInv stay.
LEMMA NobodyMoves ==
    ASSUME AInv, UNCHANGED <<commitments, anchors, scan, res, imp, pub>>, OwnSent'
    PROVE  AInv'
<1>1. OneThread'
  BY DEF AInv, OneThread, ScansIdle, ResolversIdle, ImportersIdle, PublishersIdle
<1>2. AnchorsMatch'
  BY DEF AInv, AnchorsMatch
<1>3. /\ \A s \in Scanners : ScanWrites(scan[s])'
      /\ \A r \in Resolvers : ResWrites(res[r])'
      /\ \A i \in Importers : ImpWrites(imp[i])'
      /\ \A u \in Publishers : PubWrites(pub[u])'
  BY DEF AInv, ScanWrites, ResWrites, ImpWrites, PubWrites
<1> QED
  BY <1>1, <1>2, <1>3 DEF AInv

LEMMA EnvironmentCalm ==
    ASSUME Calm, CalmInv, Environment \/ UNCHANGED vars
    PROVE  AInv'
<1>1. ASSUME NEW c \in Branches, MoveChain(c) PROVE AInv'
  <2>1. UNCHANGED <<sent, commitments, anchors, scan, res, imp, pub>>
    BY <1>1 DEF MoveChain, tables, threads
  <2>2. \A p \in OwnPoints : p \in PointsOf(chain') => p \in sent
    BY <1>1 DEF MoveChain
  <2>3. OwnSent'
    BY <2>1, <2>2 DEF CalmInv, AInv, OwnSent
  <2> QED
    BY <2>1, <2>3, NobodyMoves DEF CalmInv
<1>2. ASSUME UNCHANGED <<chain, sent, commitments, anchors, scan, res, imp, pub>>
      PROVE  AInv'
  <2>1. OwnSent'
    BY <1>2 DEF CalmInv, AInv, OwnSent
  <2> QED
    BY <1>2, <2>1, NobodyMoves DEF CalmInv
<1>3. ASSUME NEW b \in Batches, ImportPackage(b) PROVE AInv'
  BY <1>2, <1>3 DEF ImportPackage, chainVars, threads
<1>4. CASE UNCHANGED vars
  BY <1>2, <1>4 DEF vars
<1>5. CASE Crash
  BY <1>5 DEF Crash, Calm
<1> QED
  BY <1>1, <1>3, <1>4, <1>5 DEF Environment

LEMMA NextCalm == Calm /\ CalmInv /\ [Next]_vars => AInv'
<1> SUFFICES ASSUME Calm, CalmInv, [Next]_vars PROVE AInv'
  OBVIOUS
<1>1. ASSUME NEW s \in Scanners, ScanBegin(s) \/ ScanStep(s) PROVE AInv'
  BY <1>1, ScanSearches, ScanRewindCalm, ScanCommitCalm, ScanRegisterReadCalm,
     ScanRegisterWriteCalm, ScanRegisterMarkCalm DEF ScanStep
<1>2. ASSUME NEW r \in Resolvers, ResolveBegin(r) \/ ResolveStep(r) PROVE AInv'
  BY <1>2, ResSearches, ResolveRegisterReadCalm, ResolveRegisterWriteCalm,
     ResolveRegisterMarkCalm DEF ResolveStep
<1>3. CASE Import
  BY <1>3, ImportReadCalm, ImportWriteCalm DEF Import
<1>4. CASE Publish
  BY <1>4, PublishSendCalm, PublishSaveCalm DEF Publish
<1>5. CASE Verify
  BY <1>5 DEF Verify, Calm
<1>6. CASE Environment \/ UNCHANGED vars
  BY <1>6, EnvironmentCalm
<1> QED
  BY <1>1, <1>2, <1>3, <1>4, <1>5, <1>6 DEF Next, Scan, Resolve

LEMMA InitCalm == Init => AInv
<1> SUFFICES ASSUME Init PROVE AInv
  OBVIOUS
<1>1. /\ \A s \in Scanners : scan[s].pc = "idle"
      /\ \A r \in Resolvers : res[r].pc = "idle"
      /\ \A i \in Importers : imp[i].pc = "idle"
      /\ \A u \in Publishers : pub[u].pc = "idle"
  BY DEF Init, IdleScan, IdleRes, IdleImp, IdlePub
<1>2. /\ \A p \in Points : commitments[p].hash = None /\ anchors[p].status = "absent"
      /\ PointsOf(chain) \cap OwnPoints = {}
  BY DEF Init, NoCommitment, NoAnchor
<1>3. OneThread
  BY <1>1 DEF OneThread, ScansIdle, ResolversIdle, ImportersIdle, PublishersIdle
<1>4. OwnSent /\ AnchorsMatch
  BY <1>2, NodeAssumption DEF OwnSent, AnchorsMatch
<1>5. /\ \A s \in Scanners : ScanWrites(scan[s])
      /\ \A r \in Resolvers : ResWrites(res[r])
      /\ \A i \in Importers : ImpWrites(imp[i])
      /\ \A u \in Publishers : PubWrites(pub[u])
  BY <1>1 DEF ScanWrites, ResWrites, ImpWrites, PubWrites
<1> QED
  BY <1>3, <1>4, <1>5 DEF AInv

\* In a calm environment the anchors agree with the commitments at every step.
THEOREM AnchorsFollow == Calm => (Spec => []CalmInv)
<1> SUFFICES ASSUME Calm PROVE Spec => []CalmInv
  OBVIOUS
<1>0. Steady
  BY DEF Calm, Steady
<1>1. Init => IInv /\ SInv /\ AInv
  BY InitOK, InitFollows, InitCalm
<1>2. CalmInv /\ [Next]_vars => IInv' /\ SInv' /\ AInv'
  BY <1>0, NextOK, NextFollows, NextCalm DEF CalmInv
<1>3. CalmInv' <=> IInv' /\ SInv' /\ AInv'
  BY DEF CalmInv
<1>4. Init => CalmInv
  BY <1>1 DEF CalmInv
<1>5. CalmInv /\ [Next]_vars => CalmInv'
  BY <1>2, <1>3
<1> QED
  BY <1>4, <1>5, PTL DEF Spec

(***************************************************************************)
(* After a scan that reached the tip no anchor is reported confirmed in a  *)
(* block off the active chain: every confirmation is demoted through its   *)
(* commitment when the scan rewinds (rewind_bitcoin_scan).                 *)
(***************************************************************************)
THEOREM NoConfirmationIsStale == Calm => (Spec => []NoStaleConfirmed)
<1> SUFFICES ASSUME Calm PROVE Spec => []NoStaleConfirmed
  OBVIOUS
<1>1. CalmInv => NoStaleConfirmed
  <2> SUFFICES ASSUME CalmInv, Synced, NEW p \in Points, anchors[p].status = "confirmed"
               PROVE  anchors[p].hash \in BlocksOf(chain)
    BY DEF NoStaleConfirmed
  <2> DEFINE b == anchors[p].hash
  <2>1. b \in Blocks /\ b # None /\ b = commitments[p].hash
    BY ChainAssumption DEF CalmInv, IInv, AnchorsOK, Genuine, InBlock, AInv, AnchorsMatch
  <2>2. /\ Stored(chain, Len(chain)) /\ chain \in Branches
        /\ \A s \in Scanners : scan[s].pc = "idle"
    BY CaughtUpStored DEF CalmInv, Synced, AllIdle
  <2>3. blocks[Height[b]] = b /\ Height[b] \in Heights
    BY <2>1, <2>2, RowsAtRest, ChainAssumption DEF CalmInv
  <2>4. Len(chain) \in Nat /\ Len(chain) \in 0 .. Len(chain)
    BY <2>2, BranchFacts
  <2>5. Height[b] \in Nat /\ Height[b] < Len(chain) /\ b = chain[Height[b] + 1]
    BY <2>1, <2>2, <2>3, <2>4, StoredFacts
  <2> HIDE DEF b
  <2>6. Height[b] + 1 \in 1 .. Len(chain)
    BY <2>4, <2>5
  <2>7. b \in BlocksOf(chain)
    BY <2>5, <2>6 DEF BlocksOf
  <2> QED
    BY <2>7 DEF b
<1> QED
  BY <1>1, AnchorsFollow, PTL

(***************************************************************************)
(* Between cycles a resolved commitment has a confirmed anchor in the same *)
(* block: no import, publication, re-scan or rewind undoes what            *)
(* register_scanned_anchor established.                                    *)
(***************************************************************************)
THEOREM ResolutionsAreConfirmed == Calm => (Spec => []ResolvedIsConfirmed)
<1> SUFFICES ASSUME Calm PROVE Spec => []ResolvedIsConfirmed
  OBVIOUS
<1>1. CalmInv => ResolvedIsConfirmed
  BY DEF CalmInv, AInv, AnchorsMatch, ResolvedIsConfirmed, Present
<1> QED
  BY <1>1, AnchorsFollow, PTL

\* A block that is stored but not on the chain at its height is off the chain.
LEMMA OffChain ==
    ASSUME chain \in Branches, NEW b \in Blocks, b # BlockHash(chain, Height[b])
    PROVE  b \notin BlocksOf(chain)
<1> SUFFICES ASSUME b \in BlocksOf(chain) PROVE FALSE
  OBVIOUS
<1>1. PICK i \in 1 .. Len(chain) : b = chain[i]
  BY DEF BlocksOf
<1>2. Height[b] = i - 1 /\ Len(chain) \in Nat
  BY <1>1, BranchFacts
<1>3. i - 1 \in 0 .. Len(chain) - 1 /\ (i - 1) + 1 = i
  BY <1>2
<1>4. BlockHash(chain, i - 1) = chain[i]
  BY <1>3 DEF BlockHash, BlockCount
<1> QED
  BY <1>1, <1>2, <1>4

(***************************************************************************)
(* With an RPC that answers, an anchor goes from confirmed to reorganised  *)
(* only when its block has left the active chain: the walk of              *)
(* _find_common_ancestor stops at the highest common block.                *)
(***************************************************************************)
THEOREM DemotionsAreDue == Calm /\ ~RpcFails => (Spec => DemotedOnlyOffChain)
<1> SUFFICES ASSUME Calm, ~RpcFails PROVE Spec => DemotedOnlyOffChain
  OBVIOUS
<1> DEFINE Due == \A p \in Points :
              anchors[p].status = "confirmed" /\ anchors'[p].status = "reorganised"
                => anchors[p].hash \notin BlocksOf(chain)
<1>1. ASSUME CalmInv, Next PROVE Due
  <2> SUFFICES ASSUME NEW p \in Points, anchors[p].status = "confirmed",
                      anchors'[p].status = "reorganised"
               PROVE  anchors[p].hash \notin BlocksOf(chain)
    OBVIOUS
  <2>1. ASSUME NEW s \in Scanners, ScanRewind(s)
        PROVE  anchors[p].hash \notin BlocksOf(chain)
    <3> DEFINE b == anchors[p].hash
    <3>1. Steady /\ scan[s].pc = "rewind" /\ RewindBitcoinScan(scan[s].cand)
      BY <1>1, <2>1, ScanTurn DEF ScanRewind
    <3>2. RowsUnder(s) /\ ScanPlace(scan[s]) /\ chain \in Branches
      BY <1>1, <3>1, Scanning DEF CalmInv
    <3>3. commitments[p].hash # None /\ commitments[p].height > scan[s].cand
      BY <1>1, <3>1, RewoundRow DEF CalmInv
    <3>4. b \in Blocks /\ b # None /\ b = commitments[p].hash
      BY <1>1, ChainAssumption DEF CalmInv, IInv, AnchorsOK, Genuine, InBlock, AInv,
         AnchorsMatch
    <3>5. commitments[p].height = Height[b] /\ Height[b] \in Heights
      BY <1>1, <3>3, <3>4, ChainAssumption DEF CalmInv, IInv, CommitmentsOK, InBlock
    <3>6. ~Committed(scan[s], p, b)
      BY <3>1 DEF Committed, InOutputs
    <3>7. blocks[Height[b]] = b
      BY <3>2, <3>4, <3>6 DEF RowsUnder
    <3>8. OffAbove(scan[s].cand)
      BY <3>1, <3>2 DEF ScanPlace
    <3>9. b # BlockHash(chain, Height[b])
      BY <3>3, <3>4, <3>5, <3>7, <3>8 DEF OffAbove
    <3> QED
      BY <3>2, <3>4, <3>9, OffChain
  <2>2. ASSUME NEW i \in Importers, ImportWrite(i) PROVE FALSE
    <3>1. imp[i].pc = "write" /\ anchors' = [anchors EXCEPT ![imp[i].pt] = imp[i].row]
      BY <2>2 DEF ImportWrite, AddAnchor
    <3>2. anchors[imp[i].pt].status = "confirmed" => imp[i].row.status = "confirmed"
      BY <1>1, <3>1 DEF CalmInv, AInv, ImpWrites
    <3>3. anchors'[p] = IF p = imp[i].pt THEN imp[i].row ELSE anchors[p]
      BY <1>1, <3>1 DEF CalmInv, IInv, AnchorsOK
    <3> QED
      BY <3>2, <3>3
  <2>3. ASSUME NEW q, NEW row, AddAnchor(q, row), row.status \in {"confirmed", "broadcast"}
        PROVE  FALSE
    <3>1. anchors'[p] = IF p = q THEN row ELSE anchors[p]
      BY <1>1, <2>3 DEF AddAnchor, CalmInv, IInv, AnchorsOK
    <3> QED
      BY <2>3, <3>1
  <2>4. anchors' # anchors
    OBVIOUS
  <2> USE DEF tables
  <2>5. ASSUME NEW s \in Scanners, ScanBegin(s) \/ ScanStep(s)
        PROVE  anchors[p].hash \notin BlocksOf(chain)
    <3>1. ScanRewind(s) \/ ScanRegisterWrite(s)
      BY <2>4, <2>5 DEF ScanBegin, ScanStep, ScanStored, ScanCheck, ScanWalk, ScanCompare,
         ScanHash, ScanCommit, ScanLookup, ScanRegisterRead, ScanRegisterMark, ScanSave
    <3> QED
      BY <2>1, <2>3, <3>1 DEF ScanRegisterWrite, ConfirmedAnchor
  <2>6. ASSUME NEW r \in Resolvers, ResolveBegin(r) \/ ResolveStep(r) PROVE FALSE
    <3>1. ResolveRegisterWrite(r)
      BY <2>4, <2>6 DEF ResolveBegin, ResolveStep, ResolveMissing, ResolveImport,
         ResolveRegisterRead, ResolveRegisterMark
    <3> QED
      BY <2>3, <3>1 DEF ResolveRegisterWrite, ConfirmedAnchor
  <2>7. CASE Import
    BY <2>2, <2>4, <2>7 DEF Import, ImportRead
  <2>8. CASE Publish
    BY <2>3, <2>4, <2>8 DEF Publish, PublishSend, PublishSave
  <2>9. CASE Verify
    BY <2>9 DEF Verify, Calm
  <2>10. CASE Environment
    BY <2>4, <2>10 DEF Environment, MoveChain, ImportPackage, Crash
  <2> QED
    BY <1>1, <2>5, <2>6, <2>7, <2>8, <2>9, <2>10 DEF Next, Scan, Resolve
<1>2. CalmInv /\ [Next]_vars => [Due]_vars
  BY <1>1
<1>3. DemotedOnlyOffChain <=> [][Due]_vars
  BY DEF DemotedOnlyOffChain
<1> HIDE DEF Due
<1> QED
  BY <1>2, <1>3, AnchorsFollow, PTL DEF Spec

=============================================================================
