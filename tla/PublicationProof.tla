-------------------------- MODULE PublicationProof --------------------------
(***************************************************************************)
(* Proofs about Publication, for every chain, every set of threads and     *)
(* every environment.                                                      *)
(*                                                                         *)
(* ConfirmedIsWitnessed and ResolvedHasAnchor are not inductive: a thread  *)
(* writes what it read some steps earlier.  The inductive invariant        *)
(* therefore says what each thread knows at each program counter about the *)
(* values in its local variables, and that every commitments row names the *)
(* block that contains its output.                                         *)
(*                                                                         *)
(* For the refinement of AnchorLedger, at the end, that invariant is       *)
(* joined by another one, SawInv: every block hash a thread or a table may *)
(* still turn into a confirmation has been on the active chain at some     *)
(* time.                                                                   *)
(***************************************************************************)
EXTENDS LedgerRefinement, TLAPS

\* A row that says "confirmed" does so on evidence; bt: the batches held.
Genuine(p, row, bt) ==
    row.status = "confirmed" =>
        /\ InBlock(p, row)
        /\ p \in Exact
        /\ row.batch = Manifest[p]
        /\ row.batch \in bt

InRange == {"hash", "commit", "lookup", "read", "write", "mark", "save"}
InOutputs == {"commit", "lookup", "read", "write", "mark"}

\* What a thread knows from its locals l; bt and an: the tables it relies on.
ScanKnows(l, bt, an) ==
    /\ l.pc \in {"check", "walk", "compare"} => l.cand \in Heights
    /\ l.pc \in InRange => l.next <= l.end /\ l.end <= l.tip
    /\ l.pc \in InOutputs \cup {"save"} => l.hash \in Blocks /\ l.next = Height[l.hash]
    /\ l.pc \in InOutputs => l.i \in 1 .. Len(Outputs[l.hash])
    /\ l.pc \in {"read", "write", "mark"} =>
          ScanPoint(l) \in Exact /\ Manifest[ScanPoint(l)] \in bt
    /\ l.pc = "write" => InBlock(ScanPoint(l), l.com)
    /\ l.pc = "mark" => an[ScanPoint(l)].status # "absent"

ResKnows(l, bt, an) ==
    /\ l.pc \in {"read", "write", "mark", "again"} =>
          l.pt \in Points /\ Manifest[l.pt] \in bt
    /\ l.pc = "write" => l.pt \in Exact /\ InBlock(l.pt, l.com)
    /\ l.pc \in {"mark", "again"} => an[l.pt].status # "absent"

ImpKnows(l, bt) == l.pc = "write" =>
    l.pt \in Points /\ l.row.status # "absent" /\ Genuine(l.pt, l.row, bt)

PubKnows(l) == l.pc = "save" => l.pt \in Points

VerKnows(l, bt) ==
    /\ l.pc # "idle" => /\ l.pt \in Exact
                        /\ l.row.batch = Manifest[l.pt]
                        /\ l.row.batch \in bt
    /\ l.pc = "context" => l.row.hash \in Blocks /\ l.pt \in OutputSet(l.row.hash)
    /\ l.pc = "write" => l.row.status # "absent" /\ Genuine(l.pt, l.row, bt)

ScanOK == /\ scan \in [Scanners -> ScanThread]
          /\ \A s \in Scanners : ScanKnows(scan[s], batches, anchors)
ResOK == /\ res \in [Resolvers -> ResThread]
         /\ \A r \in Resolvers : ResKnows(res[r], batches, anchors)
ImpOK == /\ imp \in [Importers -> ImpThread]
         /\ \A i \in Importers : ImpKnows(imp[i], batches)
PubOK == /\ pub \in [Publishers -> PubThread]
         /\ \A u \in Publishers : PubKnows(pub[u])
VerOK == /\ ver \in [Verifiers -> VerThread]
         /\ \A v \in Verifiers : VerKnows(ver[v], batches)

ChainOK == /\ chain \in Branches
           /\ moves \in 0 .. MaxMoves
           /\ sent \subseteq OwnPoints
BlocksOK == blocks \in [Heights -> Blocks \cup {None}]
CommitmentsOK ==
    /\ commitments \in [Points -> CommitmentRow]
    /\ \A p \in Points : commitments[p].hash # None => InBlock(p, commitments[p])
AnchorsOK ==
    /\ batches \subseteq Batches
    /\ anchors \in [Points -> AnchorRow]
    /\ \A p \in Points : Genuine(p, anchors[p], batches)
ResolvedOK == \A p \in Points :
    commitments[p].resolved => anchors[p].status # "absent"

IInv ==
    /\ ChainOK /\ BlocksOK /\ CommitmentsOK /\ AnchorsOK /\ ResolvedOK
    /\ ScanOK /\ ResOK /\ ImpOK /\ PubOK /\ VerOK

\* Steps only add batches and never remove an anchor row.
Kept == /\ batches \subseteq batches'
        /\ \A p \in Points :
              anchors[p].status # "absent" => anchors'[p].status # "absent"

----------------------------------------------------------------------------
\* Lemmas about the operators

\* An output of a block is a point.
LEMMA OutputIsPoint ==
    ASSUME NEW b \in Blocks, NEW i \in 1 .. Len(Outputs[b])
    PROVE  Outputs[b][i] \in Points /\ Outputs[b][i] \in OutputSet(b)
<1>1. Outputs[b] \in Seq(Points)
  BY ChainAssumption
<1>2. Outputs[b][i] \in Points
  BY <1>1
<1> QED
  BY <1>2 DEF OutputSet

\* What the chain answers for a height is a block of that height.
LEMMA AnswerHasHeight ==
    ASSUME chain \in Branches, NEW h \in Int, NEW a \in HashAnswers(h), a # None
    PROVE  a \in Blocks /\ h \in Heights /\ Height[a] = h
<1>1. a = BlockHash(chain, h)
  BY DEF HashAnswers
<1>2. chain \in Seq(Blocks) /\ Len(chain) \in Nat
  BY ChainAssumption
<1>3. h \in 0 .. Len(chain) - 1 /\ a = chain[h + 1]
  BY <1>1 DEF BlockHash, BlockCount
<1>4. h + 1 \in 1 .. Len(chain)
  BY <1>2, <1>3
<1>5. a \in Blocks /\ Height[a] = (h + 1) - 1
  BY <1>2, <1>3, <1>4, ChainAssumption
<1> QED
  BY <1>5, ChainAssumption

\* The tip the scan reads is a height.
LEMMA TipIsHeight ==
    ASSUME chain \in Branches
    PROVE  BlockCount(chain) \in Heights
<1>1. chain \in Seq(Blocks) /\ Len(chain) \in Nat /\ 1 <= Len(chain)
  BY ChainAssumption
<1>2. PICK n \in Nat : n = Len(chain) /\ n \in 1 .. Len(chain)
  BY <1>1
<1>3. Height[chain[n]] = n - 1
  BY <1>2, ChainAssumption
<1>4. chain[n] \in Blocks
  BY <1>1, <1>2
<1> QED
  BY <1>2, <1>3, <1>4, ChainAssumption DEF BlockCount

\* The empty local states are well typed and claim nothing.
LEMMA IdleFacts ==
    /\ IdleScan \in ScanThread /\ \A bt, an : ScanKnows(IdleScan, bt, an)
    /\ IdleRes \in ResThread /\ \A bt, an : ResKnows(IdleRes, bt, an)
    /\ IdleImp \in ImpThread /\ \A bt : ImpKnows(IdleImp, bt)
    /\ IdlePub \in PubThread /\ PubKnows(IdlePub)
    /\ IdleVer \in VerThread /\ \A bt : VerKnows(IdleVer, bt)
    /\ NoAnchor \in AnchorRow /\ NoCommitment \in CommitmentRow
    /\ NoContext \in ContextType
<1> USE ChainAssumption, NodeAssumption
<1>1. NoContext \in ContextType /\ NoCommitment \in CommitmentRow
  BY DEF NoContext, ContextType, NoCommitment, CommitmentRow, Heights
<1>2. NoAnchor \in AnchorRow
  BY DEF NoAnchor, AnchorRow, Status
<1>3. IdleScan \in ScanThread /\ \A bt, an : ScanKnows(IdleScan, bt, an)
  BY <1>1 DEF IdleScan, ScanThread, ScanKnows, InRange, InOutputs, Heights
<1>4. IdleRes \in ResThread /\ \A bt, an : ResKnows(IdleRes, bt, an)
  BY <1>1 DEF IdleRes, ResThread, ResKnows
<1>5. IdleImp \in ImpThread /\ \A bt : ImpKnows(IdleImp, bt)
  BY <1>2 DEF IdleImp, ImpThread, ImpKnows
<1>6. IdlePub \in PubThread /\ PubKnows(IdlePub)
  BY DEF IdlePub, PubThread, PubKnows
<1>7. IdleVer \in VerThread /\ \A bt : VerKnows(IdleVer, bt)
  BY <1>2 DEF IdleVer, VerThread, VerKnows
<1> QED
  BY <1>1, <1>2, <1>3, <1>4, <1>5, <1>6, <1>7

\* A thread that is not at work keeps what it knows.
LEMMA ScanKept == ScanOK /\ Kept /\ UNCHANGED scan => ScanOK'
<1> SUFFICES ASSUME ScanOK, Kept, UNCHANGED scan, NEW s \in Scanners
             PROVE  ScanKnows(scan[s], batches', anchors')
  BY DEF ScanOK
<1>1. ScanKnows(scan[s], batches, anchors)
  BY DEF ScanOK
<1>2. scan[s].pc = "mark" => ScanPoint(scan[s]) \in Points
  BY <1>1, OutputIsPoint DEF ScanKnows, InOutputs, ScanPoint
<1> QED
  BY <1>1, <1>2 DEF ScanKnows, Kept

LEMMA ResKept == ResOK /\ Kept /\ UNCHANGED res => ResOK'
<1> SUFFICES ASSUME ResOK, Kept, UNCHANGED res, NEW r \in Resolvers
             PROVE  ResKnows(res[r], batches', anchors')
  BY DEF ResOK
<1>1. ResKnows(res[r], batches, anchors)
  BY DEF ResOK
<1> QED
  BY <1>1 DEF ResKnows, Kept

LEMMA ImpKept == ImpOK /\ Kept /\ UNCHANGED imp => ImpOK'
  BY DEF ImpOK, Kept, ImpKnows, Genuine

LEMMA PubKept == PubOK /\ UNCHANGED pub => PubOK'
  BY DEF PubOK

LEMMA VerKept == VerOK /\ Kept /\ UNCHANGED ver => VerOK'
  BY DEF VerOK, Kept, VerKnows, Genuine

\* A thread at work replaces its own locals.
LEMMA ScanSet ==
    ASSUME ScanOK, Kept, NEW s \in Scanners, NEW l \in ScanThread,
           ScanKnows(l, batches', anchors'), SetScan(s, l)
    PROVE  ScanOK'
<1>1. scan' = [scan EXCEPT ![s] = l]
  BY DEF SetScan
<1>2. scan' \in [Scanners -> ScanThread]
  BY <1>1 DEF ScanOK
<1>3. ASSUME NEW t \in Scanners PROVE ScanKnows(scan'[t], batches', anchors')
  <2>1. CASE t = s
    BY <2>1, <1>1 DEF ScanOK
  <2>2. CASE t # s
    <3>1. scan'[t] = scan[t] /\ ScanKnows(scan[t], batches, anchors)
      BY <2>2, <1>1 DEF ScanOK
    <3>2. scan[t].pc = "mark" => ScanPoint(scan[t]) \in Points
      BY <3>1, OutputIsPoint DEF ScanKnows, InOutputs, ScanPoint
    <3> QED
      BY <3>1, <3>2 DEF ScanKnows, Kept
  <2> QED
    BY <2>1, <2>2
<1> QED
  BY <1>2, <1>3 DEF ScanOK

LEMMA ResSet ==
    ASSUME ResOK, Kept, NEW r \in Resolvers, NEW l \in ResThread,
           ResKnows(l, batches', anchors'), SetRes(r, l)
    PROVE  ResOK'
<1>1. res' = [res EXCEPT ![r] = l]
  BY DEF SetRes
<1>2. res' \in [Resolvers -> ResThread]
  BY <1>1 DEF ResOK
<1>3. ASSUME NEW t \in Resolvers PROVE ResKnows(res'[t], batches', anchors')
  <2>1. CASE t = r
    BY <2>1, <1>1 DEF ResOK
  <2>2. CASE t # r
    <3>1. res'[t] = res[t] /\ ResKnows(res[t], batches, anchors)
      BY <2>2, <1>1 DEF ResOK
    <3> QED
      BY <3>1 DEF ResKnows, Kept
  <2> QED
    BY <2>1, <2>2
<1> QED
  BY <1>2, <1>3 DEF ResOK

LEMMA ImpSet ==
    ASSUME ImpOK, Kept, NEW i \in Importers, NEW l \in ImpThread,
           ImpKnows(l, batches'), SetImp(i, l)
    PROVE  ImpOK'
<1>1. imp' = [imp EXCEPT ![i] = l] /\ imp' \in [Importers -> ImpThread]
  BY DEF SetImp, ImpOK
<1>2. ASSUME NEW t \in Importers PROVE ImpKnows(imp'[t], batches')
  BY <1>1 DEF ImpOK, Kept, ImpKnows, Genuine
<1> QED
  BY <1>1, <1>2 DEF ImpOK

LEMMA VerSet ==
    ASSUME VerOK, Kept, NEW v \in Verifiers, NEW l \in VerThread,
           VerKnows(l, batches'), SetVer(v, l)
    PROVE  VerOK'
<1>1. ver' = [ver EXCEPT ![v] = l] /\ ver' \in [Verifiers -> VerThread]
  BY DEF SetVer, VerOK
<1>2. ASSUME NEW t \in Verifiers PROVE VerKnows(ver'[t], batches')
  <2>1. CASE t = v
    BY <2>1, <1>1 DEF VerOK
  <2>2. CASE t # v
    <3>1. ver'[t] = ver[t] /\ VerKnows(ver[t], batches)
      BY <2>2, <1>1 DEF VerOK
    <3> QED
      BY <3>1 DEF VerKnows, Kept, Genuine
  <2> QED
    BY <2>1, <2>2
<1> QED
  BY <1>1, <1>2 DEF VerOK

LEMMA PubSet ==
    ASSUME PubOK, NEW u \in Publishers, NEW l \in PubThread, PubKnows(l),
           SetPub(u, l)
    PROVE  PubOK'
  BY DEF PubOK, SetPub

\* Writing one anchor row: the other rows stay, no row disappears.
LEMMA AnchorWritten ==
    ASSUME AnchorsOK, ResolvedOK, NEW p \in Points, NEW row \in AnchorRow,
           row.status # "absent", Genuine(p, row, batches),
           AddAnchor(p, row), UNCHANGED <<batches, commitments>>
    PROVE  AnchorsOK' /\ ResolvedOK' /\ Kept /\ anchors'[p] = row
<1>1. anchors' = [anchors EXCEPT ![p] = row] /\ anchors' \in [Points -> AnchorRow]
  BY DEF AddAnchor, AnchorsOK
<1>2. \A q \in Points : anchors'[q] = IF q = p THEN row ELSE anchors[q]
  BY <1>1 DEF AnchorsOK
<1>3. Kept
  BY <1>2 DEF Kept
<1>4. \A q \in Points : Genuine(q, anchors'[q], batches')
  BY <1>2 DEF AnchorsOK
<1> QED
  BY <1>1, <1>2, <1>3, <1>4 DEF AnchorsOK, ResolvedOK

\* Marking a commitment whose anchor exists.
LEMMA CommitmentMarked ==
    ASSUME CommitmentsOK, ResolvedOK, NEW p \in Points,
           anchors[p].status # "absent", MarkResolved(p), UNCHANGED anchors
    PROVE  CommitmentsOK' /\ ResolvedOK'
<1>1. \/ commitments' = [commitments EXCEPT ![p].resolved = TRUE]
      \/ commitments' = commitments
  BY DEF MarkResolved
<1>2. ASSUME NEW q \in Points
      PROVE  /\ commitments'[q] \in CommitmentRow
             /\ commitments'[q].hash = commitments[q].hash
             /\ commitments'[q].height = commitments[q].height
             /\ q # p => commitments'[q] = commitments[q]
  <2>1. commitments[q] \in CommitmentRow
    BY DEF CommitmentsOK
  <2>2. \/ commitments'[q] = [commitments[q] EXCEPT !.resolved = TRUE] /\ q = p
        \/ commitments'[q] = commitments[q]
    BY <1>1 DEF CommitmentsOK
  <2> QED
    BY <2>1, <2>2 DEF CommitmentRow
<1>3. commitments' \in [Points -> CommitmentRow]
  BY <1>1, <1>2 DEF CommitmentsOK
<1> QED
  BY <1>2, <1>3 DEF CommitmentsOK, ResolvedOK, InBlock

\* A new or updated commitments row for an output of block b.
LEMMA CommitmentAdded ==
    ASSUME CommitmentsOK, ResolvedOK, NEW p \in Points, NEW b \in Blocks,
           p \in OutputSet(b), AddCommitment(p, Height[b], b), UNCHANGED anchors
    PROVE  CommitmentsOK' /\ ResolvedOK'
<1>0. Height[b] \in Heights /\ b # None
  BY ChainAssumption
<1> DEFINE new == IF p \in Present
                  THEN [commitments[p] EXCEPT !.hash = b, !.height = Height[b]]
                  ELSE [hash |-> b, height |-> Height[b], resolved |-> FALSE,
                        before |-> Present]
<1>1. commitments' = [commitments EXCEPT ![p] = new]
  BY DEF AddCommitment
<1>2. /\ new \in CommitmentRow
      /\ new.hash = b /\ new.height = Height[b]
      /\ new.resolved => commitments[p].resolved
  <2>1. commitments[p] \in CommitmentRow /\ Present \subseteq Points
    BY DEF CommitmentsOK, Present
  <2> QED
    BY <1>0, <2>1 DEF CommitmentRow
<1> HIDE DEF new
<1>3. \A q \in Points : commitments'[q] = IF q = p THEN new ELSE commitments[q]
  BY <1>1 DEF CommitmentsOK
<1>4. commitments' \in [Points -> CommitmentRow]
  BY <1>1, <1>2 DEF CommitmentsOK
<1> QED
  BY <1>2, <1>3, <1>4 DEF CommitmentsOK, ResolvedOK, InBlock

\* The rewind demotes and deletes; it confirms and resolves nothing.
LEMMA Rewound ==
    ASSUME BlocksOK, CommitmentsOK, AnchorsOK, ResolvedOK, NEW a,
           RewindBitcoinScan(a), UNCHANGED batches
    PROVE  BlocksOK' /\ CommitmentsOK' /\ AnchorsOK' /\ ResolvedOK' /\ Kept
<1> DEFINE gone == {p \in Present : commitments[p].height > a}
<1>1. BlocksOK'
  BY DEF RewindBitcoinScan, BlocksOK
<1>2. ASSUME NEW p \in Points
      PROVE  /\ anchors'[p] \in AnchorRow
             /\ anchors'[p] = anchors[p] \/ anchors'[p].status = "reorganised"
             /\ anchors'[p].status = "absent" <=> anchors[p].status = "absent"
  <2>1. anchors[p] \in AnchorRow
    BY DEF AnchorsOK
  <2>2. \/ /\ anchors'[p] = [anchors[p] EXCEPT !.status = "reorganised"]
           /\ anchors[p].status # "absent"
        \/ anchors'[p] = anchors[p]
    BY DEF RewindBitcoinScan
  <2> QED
    BY <2>1, <2>2 DEF AnchorRow, Status
<1>3. ASSUME NEW p \in Points
      PROVE  /\ commitments'[p] \in CommitmentRow
             /\ \/ commitments'[p].hash = None /\ ~commitments'[p].resolved
                \/ /\ commitments'[p].hash = commitments[p].hash
                   /\ commitments'[p].height = commitments[p].height
                   /\ commitments'[p].resolved = commitments[p].resolved
  <2>1. commitments[p] \in CommitmentRow
    BY DEF CommitmentsOK
  <2>2. \/ commitments'[p] = NoCommitment
        \/ commitments'[p] = [commitments[p] EXCEPT !.before = @ \ gone]
    BY DEF RewindBitcoinScan
  <2>3. CASE commitments'[p] = NoCommitment
    BY <2>3, IdleFacts DEF NoCommitment
  <2>4. CASE commitments'[p] = [commitments[p] EXCEPT !.before = @ \ gone]
    BY <2>1, <2>4 DEF CommitmentRow
  <2> QED
    BY <2>2, <2>3, <2>4
<1>4. /\ anchors' \in [Points -> AnchorRow]
      /\ commitments' \in [Points -> CommitmentRow]
  BY <1>2, <1>3 DEF RewindBitcoinScan
<1>5. CommitmentsOK'
  BY <1>3, <1>4 DEF CommitmentsOK, InBlock
<1>6. AnchorsOK'
  BY <1>2, <1>4 DEF AnchorsOK, Genuine
<1>7. ResolvedOK' /\ Kept
  BY <1>2, <1>3 DEF ResolvedOK, Kept
<1> QED
  BY <1>1, <1>5, <1>6, <1>7

----------------------------------------------------------------------------
\* scan_bitcoin

LEMMA PlanOK ==
    ASSUME NEW l \in ScanThread, NEW first \in Nat, NEW bt, NEW an
    PROVE  Plan(l, first) \in ScanThread /\ ScanKnows(Plan(l, first), bt, an)
<1>1. CASE first > l.tip
  BY <1>1, IdleFacts DEF Plan
<1>2. CASE ~(first > l.tip)
  <2> DEFINE last == first + (IF MaxBlocks < 1 THEN 1 ELSE MaxBlocks) - 1
             end == IF l.tip < last THEN l.tip ELSE last
  <2>1. l.tip \in Heights /\ first <= l.tip /\ MaxHeight \in Nat /\ MaxBlocks \in Nat
    BY <1>2, ChainAssumption, NodeAssumption DEF ScanThread, Heights
  <2>2. end \in Heights /\ first <= end /\ end <= l.tip /\ first \in Heights
    BY <2>1 DEF Heights
  <2> HIDE DEF end
  <2>3. Plan(l, first) = [IdleScan EXCEPT !.pc = "hash", !.tip = l.tip,
                            !.next = first, !.end = end]
    BY <1>2 DEF Plan, end
  <2>4. Plan(l, first) \in ScanThread
    BY <2>1, <2>2, <2>3, IdleFacts DEF ScanThread
  <2> QED
    BY <2>1, <2>2, <2>3, <2>4 DEF IdleScan, ScanKnows, InRange, InOutputs
<1> QED
  BY <1>1, <1>2

LEMMA LowerOK ==
    ASSUME NEW l \in ScanThread, l.cand \in Heights, NEW bt, NEW an
    PROVE  Lower(l) \in ScanThread /\ ScanKnows(Lower(l), bt, an)
<1>1. MaxHeight \in Nat
  BY ChainAssumption
<1>2. l.cand - 1 \in {-1} \cup Heights /\ (l.cand # 0 => l.cand - 1 \in Heights)
  BY <1>1 DEF Heights
<1>3. Lower(l) \in ScanThread
  BY <1>2 DEF Lower, ScanThread
<1> QED
  BY <1>2, <1>3 DEF Lower, ScanThread, ScanKnows, InRange, InOutputs

LEMMA NextOutputOK ==
    ASSUME NEW l \in ScanThread, NEW bt, NEW an, ScanKnows(l, bt, an),
           l.pc \in {"lookup", "mark"}
    PROVE  NextOutput(l) \in ScanThread /\ ScanKnows(NextOutput(l), bt, an)
<1>1. /\ l.hash \in Blocks /\ l.next = Height[l.hash]
      /\ l.i \in 1 .. Len(Outputs[l.hash]) /\ l.next <= l.end /\ l.end <= l.tip
  BY DEF ScanKnows, InRange, InOutputs
<1>2. Len(Outputs[l.hash]) \in Nat
  BY <1>1, ChainAssumption
<1>3. NoContext \in ContextType
  BY IdleFacts
<1>4. NextOutput(l) \in ScanThread
  <2>1. l.i + 1 \in Nat \ {0}
    BY <1>1, <1>2
  <2>2. CASE NextOutput(l) = [l EXCEPT !.pc = "commit", !.i = l.i + 1, !.com = NoContext]
    BY <1>3, <2>1, <2>2 DEF ScanThread
  <2>3. CASE NextOutput(l) = [l EXCEPT !.pc = "save", !.com = NoContext]
    BY <1>3, <2>3 DEF ScanThread
  <2> QED
    BY <2>2, <2>3 DEF NextOutput
<1>5. CASE l.i < Len(Outputs[l.hash])
  <2>1. /\ NextOutput(l).pc = "commit" /\ NextOutput(l).i = l.i + 1
        /\ NextOutput(l).hash = l.hash /\ NextOutput(l).next = l.next
        /\ NextOutput(l).end = l.end /\ NextOutput(l).tip = l.tip
    BY <1>5 DEF NextOutput, ScanThread
  <2>2. l.i + 1 \in 1 .. Len(Outputs[l.hash])
    BY <1>1, <1>2, <1>5
  <2> QED
    BY <1>1, <1>4, <2>1, <2>2 DEF ScanKnows, InRange, InOutputs
<1>6. CASE ~(l.i < Len(Outputs[l.hash]))
  BY <1>1, <1>4, <1>6 DEF NextOutput, ScanThread, ScanKnows, InRange, InOutputs
<1> QED
  BY <1>4, <1>5, <1>6

\* A step that changes no table.
LEMMA ScanLocal ==
    ASSUME IInv, NEW s \in Scanners, NEW l \in ScanThread,
           ScanKnows(l, batches, anchors), SetScan(s, l),
           UNCHANGED <<chainVars, tables, res, imp, pub, ver>>
    PROVE  IInv'
<1> USE DEF chainVars, tables, IInv
<1>1. Kept
  BY DEF Kept
<1>2. ScanOK'
  BY <1>1, ScanSet
<1>3. ResOK' /\ ImpOK' /\ PubOK' /\ VerOK'
  BY <1>1, ResKept, ImpKept, PubKept, VerKept
<1>4. ChainOK' /\ BlocksOK' /\ CommitmentsOK' /\ AnchorsOK' /\ ResolvedOK'
  BY DEF ChainOK, BlocksOK, CommitmentsOK, AnchorsOK, ResolvedOK
<1> QED
  BY <1>2, <1>3, <1>4

LEMMA ScanBeginOK ==
    ASSUME IInv, NEW s \in Scanners, ScanBegin(s)
    PROVE  IInv'
<1> DEFINE l == [IdleScan EXCEPT !.pc = "stored", !.tip = BlockCount(chain)]
<1>1. l \in ScanThread
  BY IdleFacts, TipIsHeight DEF IInv, ChainOK, ScanThread
<1>2. ScanKnows(l, batches, anchors)
  BY DEF IdleScan, ScanKnows, InRange, InOutputs
<1> QED
  BY <1>1, <1>2, ScanLocal DEF ScanBegin

LEMMA ScanStoredOK ==
    ASSUME IInv, NEW s \in Scanners, ScanStored(s)
    PROVE  IInv'
<1>0. scan[s] \in ScanThread /\ scan[s].pc = "stored"
  BY DEF IInv, ScanOK, ScanStored
<1>1. CASE SetScan(s, Plan(scan[s], StartHeight))
  BY <1>0, <1>1, PlanOK, ScanLocal, NodeAssumption DEF ScanStored
<1>2. ASSUME NEW h \in Heights,
             SetScan(s, [scan[s] EXCEPT !.pc = "check", !.cand = h, !.seen = blocks[h]])
      PROVE  IInv'
  <2> DEFINE l == [scan[s] EXCEPT !.pc = "check", !.cand = h, !.seen = blocks[h]]
  <2>1. l \in ScanThread /\ ScanKnows(l, batches, anchors)
    BY <1>0 DEF IInv, BlocksOK, ScanThread, ScanKnows, InRange, InOutputs
  <2> QED
    BY <1>2, <2>1, ScanLocal DEF ScanStored
<1>3. CASE SetScan(s, [scan[s] EXCEPT !.pc = "walk", !.cand = scan[s].tip])
  <2> DEFINE l == [scan[s] EXCEPT !.pc = "walk", !.cand = scan[s].tip]
  <2>1. l \in ScanThread /\ ScanKnows(l, batches, anchors)
    BY <1>0 DEF ScanThread, ScanKnows, InRange, InOutputs
  <2> QED
    BY <1>3, <2>1, ScanLocal DEF ScanStored
<1> QED
  BY <1>1, <1>2, <1>3 DEF ScanStored

LEMMA ScanCheckOK ==
    ASSUME IInv, NEW s \in Scanners, ScanCheck(s)
    PROVE  IInv'
<1>0. scan[s] \in ScanThread /\ scan[s].cand \in Heights /\ scan[s].pc = "check"
  BY DEF IInv, ScanOK, ScanCheck, ScanKnows
<1>1. CASE SetScan(s, Plan(scan[s], scan[s].cand + 1))
  <2>1. scan[s].cand + 1 \in Nat
    BY <1>0, ChainAssumption DEF Heights
  <2> QED
    BY <1>0, <1>1, <2>1, PlanOK, ScanLocal DEF ScanCheck
<1>2. CASE SetScan(s, [scan[s] EXCEPT !.pc = "walk", !.seen = None])
  <2> DEFINE l == [scan[s] EXCEPT !.pc = "walk", !.seen = None]
  <2>1. l \in ScanThread /\ ScanKnows(l, batches, anchors)
    BY <1>0 DEF ScanThread, ScanKnows, InRange, InOutputs
  <2> QED
    BY <1>2, <2>1, ScanLocal DEF ScanCheck
<1> QED
  BY <1>1, <1>2 DEF ScanCheck

LEMMA ScanWalkOK ==
    ASSUME IInv, NEW s \in Scanners, ScanWalk(s)
    PROVE  IInv'
<1>0. scan[s] \in ScanThread /\ scan[s].cand \in Heights /\ scan[s].pc = "walk"
  BY DEF IInv, ScanOK, ScanWalk, ScanKnows
<1>1. CASE SetScan(s, Lower(scan[s]))
  BY <1>0, <1>1, LowerOK, ScanLocal DEF ScanWalk
<1>2. CASE SetScan(s, [scan[s] EXCEPT !.pc = "compare", !.seen = blocks[scan[s].cand]])
  <2> DEFINE l == [scan[s] EXCEPT !.pc = "compare", !.seen = blocks[scan[s].cand]]
  <2>1. l \in ScanThread /\ ScanKnows(l, batches, anchors)
    BY <1>0 DEF IInv, BlocksOK, ScanThread, ScanKnows, InRange, InOutputs
  <2> QED
    BY <1>2, <2>1, ScanLocal DEF ScanWalk
<1> QED
  BY <1>1, <1>2 DEF ScanWalk

LEMMA ScanCompareOK ==
    ASSUME IInv, NEW s \in Scanners, ScanCompare(s)
    PROVE  IInv'
<1>0. scan[s] \in ScanThread /\ scan[s].cand \in Heights /\ scan[s].pc = "compare"
  BY DEF IInv, ScanOK, ScanCompare, ScanKnows
<1>1. CASE SetScan(s, Lower(scan[s]))
  BY <1>0, <1>1, LowerOK, ScanLocal DEF ScanCompare
<1>2. CASE SetScan(s, [scan[s] EXCEPT !.pc = "rewind", !.seen = None])
  <2> DEFINE l == [scan[s] EXCEPT !.pc = "rewind", !.seen = None]
  <2>1. l \in ScanThread /\ ScanKnows(l, batches, anchors)
    BY <1>0 DEF ScanThread, ScanKnows, InRange, InOutputs
  <2> QED
    BY <1>2, <2>1, ScanLocal DEF ScanCompare
<1> QED
  BY <1>1, <1>2 DEF ScanCompare

LEMMA ScanRewindOK ==
    ASSUME IInv, NEW s \in Scanners, ScanRewind(s)
    PROVE  IInv'
<1> USE DEF IInv, chainVars
<1> DEFINE first == IF StartHeight > scan[s].cand + 1 THEN StartHeight
                    ELSE scan[s].cand + 1
<1>1. scan[s] \in ScanThread
  BY DEF ScanOK
<1>2. first \in Nat
  BY <1>1, ChainAssumption, NodeAssumption DEF ScanThread, Heights
<1>3. BlocksOK' /\ CommitmentsOK' /\ AnchorsOK' /\ ResolvedOK' /\ Kept
  BY Rewound DEF ScanRewind
<1>4. ScanOK'
  BY <1>1, <1>2, <1>3, PlanOK, ScanSet DEF ScanRewind
<1>5. ResOK' /\ ImpOK' /\ PubOK' /\ VerOK'
  BY <1>3, ResKept, ImpKept, PubKept, VerKept DEF ScanRewind
<1>6. ChainOK'
  BY DEF ScanRewind, ChainOK
<1> QED
  BY <1>3, <1>4, <1>5, <1>6

LEMMA ScanHashOK ==
    ASSUME IInv, NEW s \in Scanners, ScanHash(s)
    PROVE  IInv'
<1>0. scan[s] \in ScanThread /\ scan[s].next <= scan[s].end /\ scan[s].end <= scan[s].tip
  BY DEF IInv, ScanOK, ScanHash, ScanKnows, InRange
<1>1. CASE SetScan(s, IdleScan)
  BY <1>1, IdleFacts, ScanLocal DEF ScanHash
<1>2. ASSUME NEW answer \in HashAnswers(scan[s].next), answer # None,
             SetScan(s, [scan[s] EXCEPT !.hash = answer, !.i = 1,
                           !.pc = IF Len(Outputs[answer]) = 0 THEN "save"
                                  ELSE "commit"])
      PROVE  IInv'
  <2> DEFINE l == [scan[s] EXCEPT !.hash = answer, !.i = 1,
                     !.pc = IF Len(Outputs[answer]) = 0 THEN "save" ELSE "commit"]
  <2>1. scan[s].next \in Int
    BY <1>0, ChainAssumption DEF ScanThread, Heights
  <2>2. answer \in Blocks /\ Height[answer] = scan[s].next
    BY <1>2, <2>1, AnswerHasHeight DEF IInv, ChainOK
  <2>3. Len(Outputs[answer]) \in Nat
    BY <2>2, ChainAssumption
  <2>4. l \in ScanThread
    <3>1. 1 \in Nat \ {0}
      OBVIOUS
    <3>2. l = [scan[s] EXCEPT !.hash = answer, !.i = 1, !.pc = l.pc]
          /\ l.pc \in {"save", "commit"}
      BY <1>0 DEF ScanThread
    <3> QED
      BY <1>0, <2>2, <3>1, <3>2 DEF ScanThread
  <2>5. /\ l.hash = answer /\ l.i = 1 /\ l.next = scan[s].next
        /\ l.end = scan[s].end /\ l.tip = scan[s].tip
        /\ l.pc = IF Len(Outputs[answer]) = 0 THEN "save" ELSE "commit"
    BY <1>0 DEF ScanThread
  <2>6. ScanKnows(l, batches, anchors)
    BY <1>0, <2>2, <2>3, <2>5 DEF ScanKnows, InRange, InOutputs
  <2> QED
    BY <1>2, <2>4, <2>6, ScanLocal DEF ScanHash
<1> QED
  BY <1>1, <1>2 DEF ScanHash

\* What the scanner knows while it works on an output.
LEMMA AtOutput ==
    ASSUME IInv, NEW s \in Scanners, scan[s].pc \in InOutputs
    PROVE  /\ scan[s] \in ScanThread /\ ScanKnows(scan[s], batches, anchors)
           /\ scan[s].hash \in Blocks /\ scan[s].next = Height[scan[s].hash]
           /\ ScanPoint(scan[s]) \in Points
           /\ ScanPoint(scan[s]) \in OutputSet(scan[s].hash)
<1>1. /\ scan[s] \in ScanThread /\ ScanKnows(scan[s], batches, anchors)
      /\ scan[s].hash \in Blocks /\ scan[s].next = Height[scan[s].hash]
      /\ scan[s].i \in 1 .. Len(Outputs[scan[s].hash])
  BY DEF IInv, ScanOK, ScanKnows
<1> QED
  BY <1>1, OutputIsPoint DEF ScanPoint

LEMMA ScanCommitOK ==
    ASSUME IInv, NEW s \in Scanners, ScanCommit(s)
    PROVE  IInv'
<1> USE DEF IInv, chainVars
<1> DEFINE l == [scan[s] EXCEPT !.pc = "lookup"]
           p == ScanPoint(scan[s])
<1>1. /\ scan[s] \in ScanThread /\ ScanKnows(scan[s], batches, anchors)
      /\ scan[s].hash \in Blocks /\ scan[s].next = Height[scan[s].hash]
      /\ p \in Points /\ p \in OutputSet(scan[s].hash) /\ scan[s].pc = "commit"
  BY AtOutput DEF ScanCommit, InOutputs
<1>2. CommitmentsOK' /\ ResolvedOK'
  BY <1>1, CommitmentAdded DEF ScanCommit
<1>3. Kept
  BY DEF ScanCommit, Kept
<1>4. l \in ScanThread /\ ScanKnows(l, batches', anchors')
  BY <1>1 DEF ScanCommit, ScanThread, ScanKnows, InRange, InOutputs
<1>5. ScanOK'
  BY <1>3, <1>4, ScanSet DEF ScanCommit
<1>6. ResOK' /\ ImpOK' /\ PubOK' /\ VerOK'
  BY <1>3, ResKept, ImpKept, PubKept, VerKept DEF ScanCommit
<1>7. ChainOK' /\ BlocksOK' /\ AnchorsOK'
  BY DEF ScanCommit, ChainOK, BlocksOK, AnchorsOK
<1> QED
  BY <1>2, <1>5, <1>6, <1>7

LEMMA ScanLookupOK ==
    ASSUME IInv, NEW s \in Scanners, ScanLookup(s)
    PROVE  IInv'
<1>1. /\ scan[s] \in ScanThread /\ ScanKnows(scan[s], batches, anchors)
      /\ scan[s].pc = "lookup"
  BY AtOutput DEF ScanLookup, InOutputs
<1>2. CASE SetScan(s, NextOutput(scan[s]))
  BY <1>1, <1>2, NextOutputOK, ScanLocal DEF ScanLookup
<1>3. CASE /\ Manifest[ScanPoint(scan[s])] \in batches
           /\ ScanPoint(scan[s]) \in Exact
           /\ SetScan(s, [scan[s] EXCEPT !.pc = "read"])
  <2> DEFINE l == [scan[s] EXCEPT !.pc = "read"]
  <2>1. l \in ScanThread /\ ScanPoint(l) = ScanPoint(scan[s])
    BY <1>1 DEF ScanThread, ScanPoint
  <2>2. ScanKnows(l, batches, anchors)
    BY <1>1, <1>3, <2>1 DEF ScanThread, ScanKnows, InRange, InOutputs
  <2> QED
    BY <1>3, <2>1, <2>2, ScanLocal DEF ScanLookup
<1> QED
  BY <1>2, <1>3 DEF ScanLookup

LEMMA ScanRegisterReadOK ==
    ASSUME IInv, NEW s \in Scanners, ScanRegisterRead(s)
    PROVE  IInv'
<1> DEFINE p == ScanPoint(scan[s])
<1>1. /\ scan[s] \in ScanThread /\ ScanKnows(scan[s], batches, anchors)
      /\ p \in Points /\ scan[s].pc = "read"
  BY AtOutput DEF ScanRegisterRead, InOutputs
<1>2. CASE SetScan(s, IdleScan)
  BY <1>2, IdleFacts, ScanLocal DEF ScanRegisterRead
<1>3. CASE p \in Findable /\ SetScan(s, [scan[s] EXCEPT !.pc = "write", !.com = Context(p)])
  <2> DEFINE l == [scan[s] EXCEPT !.pc = "write", !.com = Context(p)]
  <2>1. Context(p) \in ContextType /\ InBlock(p, Context(p))
    BY <1>1, <1>3 DEF IInv, CommitmentsOK, CommitmentRow, Findable, Present, Context,
                      ContextType, InBlock
  <2>2. l \in ScanThread /\ ScanPoint(l) = p /\ l.com = Context(p)
    BY <1>1, <2>1 DEF ScanThread, ScanPoint
  <2>3. ScanKnows(l, batches, anchors)
    BY <1>1, <2>1, <2>2 DEF ScanThread, ScanKnows, InRange, InOutputs
  <2> QED
    BY <1>3, <2>2, <2>3, ScanLocal DEF ScanRegisterRead
<1> QED
  BY <1>2, <1>3 DEF ScanRegisterRead

\* The anchor register_scanned_anchor writes is genuine.
LEMMA ConfirmedAnchorOK ==
    ASSUME NEW p \in Points, NEW com \in ContextType, InBlock(p, com),
           p \in Exact, Manifest[p] \in batches
    PROVE  /\ ConfirmedAnchor(p, com) \in AnchorRow
           /\ ConfirmedAnchor(p, com).status # "absent"
           /\ Genuine(p, ConfirmedAnchor(p, com), batches)
<1>1. Manifest[p] \in Batches /\ NodeNetwork \in Networks
  BY ChainAssumption, NodeAssumption
<1> QED
  BY <1>1 DEF ConfirmedAnchor, AnchorRow, Status, ContextType, Genuine, InBlock

LEMMA ScanRegisterWriteOK ==
    ASSUME IInv, NEW s \in Scanners, ScanRegisterWrite(s)
    PROVE  IInv'
<1> USE DEF IInv, chainVars
<1> DEFINE l == [scan[s] EXCEPT !.pc = "mark"]
           p == ScanPoint(scan[s])
           row == ConfirmedAnchor(p, scan[s].com)
<1>1. /\ scan[s] \in ScanThread /\ ScanKnows(scan[s], batches, anchors)
      /\ p \in Points /\ scan[s].pc = "write"
  BY AtOutput DEF ScanRegisterWrite, InOutputs
<1>2. row \in AnchorRow /\ row.status # "absent" /\ Genuine(p, row, batches)
  BY <1>1, ConfirmedAnchorOK DEF ScanKnows, ScanThread
<1> HIDE DEF row
<1>3. AnchorsOK' /\ ResolvedOK' /\ Kept /\ anchors'[p] = row
  BY <1>1, <1>2, AnchorWritten DEF ScanRegisterWrite, row
<1>4. l \in ScanThread /\ ScanPoint(l) = p
  BY <1>1 DEF ScanThread, ScanPoint
<1>5. ScanKnows(l, batches', anchors')
  BY <1>1, <1>2, <1>3, <1>4 DEF ScanThread, ScanKnows, InRange, InOutputs, Kept
<1>6. ScanOK'
  BY <1>3, <1>4, <1>5, ScanSet DEF ScanRegisterWrite
<1>7. ResOK' /\ ImpOK' /\ PubOK' /\ VerOK'
  BY <1>3, ResKept, ImpKept, PubKept, VerKept DEF ScanRegisterWrite
<1>8. ChainOK' /\ BlocksOK' /\ CommitmentsOK'
  BY DEF ScanRegisterWrite, ChainOK, BlocksOK, CommitmentsOK
<1> QED
  BY <1>3, <1>6, <1>7, <1>8

LEMMA ScanRegisterMarkOK ==
    ASSUME IInv, NEW s \in Scanners, ScanRegisterMark(s)
    PROVE  IInv'
<1> USE DEF IInv, chainVars
<1> DEFINE p == ScanPoint(scan[s])
<1>1. /\ scan[s] \in ScanThread /\ ScanKnows(scan[s], batches, anchors)
      /\ p \in Points /\ scan[s].pc = "mark"
  BY AtOutput DEF ScanRegisterMark, InOutputs
<1>2. anchors[p].status # "absent"
  BY <1>1 DEF ScanKnows
<1>3. CommitmentsOK' /\ ResolvedOK'
  BY <1>1, <1>2, CommitmentMarked DEF ScanRegisterMark
<1>4. Kept
  BY DEF ScanRegisterMark, Kept
<1>5. NextOutput(scan[s]) \in ScanThread /\ ScanKnows(NextOutput(scan[s]), batches', anchors')
  BY <1>1, NextOutputOK DEF ScanRegisterMark
<1>6. ScanOK'
  BY <1>4, <1>5, ScanSet DEF ScanRegisterMark
<1>7. ResOK' /\ ImpOK' /\ PubOK' /\ VerOK'
  BY <1>4, ResKept, ImpKept, PubKept, VerKept DEF ScanRegisterMark
<1>8. ChainOK' /\ BlocksOK' /\ AnchorsOK'
  BY DEF ScanRegisterMark, ChainOK, BlocksOK, AnchorsOK
<1> QED
  BY <1>3, <1>6, <1>7, <1>8

LEMMA ScanSaveOK ==
    ASSUME IInv, NEW s \in Scanners, ScanSave(s)
    PROVE  IInv'
<1> USE DEF IInv, chainVars
<1>1. /\ scan[s] \in ScanThread /\ scan[s].hash \in Blocks
      /\ scan[s].next <= scan[s].end /\ scan[s].end <= scan[s].tip
  BY DEF ScanSave, ScanOK, ScanKnows, InRange, InOutputs
<1>2. BlocksOK'
  BY <1>1 DEF ScanSave, AddScannedBlock, BlocksOK, ScanThread
<1>3. Kept
  BY DEF ScanSave, Kept
<1>4. ScanOK'
  <2>1. CASE SetScan(s, IdleScan)
    BY <1>3, <2>1, IdleFacts, ScanSet
  <2>2. CASE /\ scan[s].next # scan[s].end
             /\ SetScan(s, [scan[s] EXCEPT !.pc = "hash", !.next = @ + 1,
                                           !.hash = None, !.i = 1])
    <3> DEFINE l == [scan[s] EXCEPT !.pc = "hash", !.next = scan[s].next + 1,
                                    !.hash = None, !.i = 1]
    <3>1. scan[s].next + 1 \in Heights /\ scan[s].next + 1 <= scan[s].end
      BY <1>1, <2>2, ChainAssumption DEF ScanThread, Heights
    <3>2. l \in ScanThread
      <4>1. 1 \in Nat \ {0}
        OBVIOUS
      <4> QED
        BY <1>1, <3>1, <4>1 DEF ScanThread
    <3>3. ScanKnows(l, batches', anchors')
      BY <1>1, <3>1 DEF ScanThread, ScanKnows, InRange, InOutputs
    <3> QED
      BY <1>3, <2>2, <3>2, <3>3, ScanSet
  <2> QED
    BY <2>1, <2>2 DEF ScanSave
<1>5. ResOK' /\ ImpOK' /\ PubOK' /\ VerOK'
  BY <1>3, ResKept, ImpKept, PubKept, VerKept DEF ScanSave
<1>6. ChainOK' /\ CommitmentsOK' /\ AnchorsOK' /\ ResolvedOK'
  BY DEF ScanSave, ChainOK, CommitmentsOK, AnchorsOK, ResolvedOK
<1> QED
  BY <1>2, <1>4, <1>5, <1>6

----------------------------------------------------------------------------
\* resolve_commitments

LEMMA ResLocal ==
    ASSUME IInv, NEW r \in Resolvers, NEW l \in ResThread,
           ResKnows(l, batches, anchors), SetRes(r, l),
           UNCHANGED <<chainVars, tables, scan, imp, pub, ver>>
    PROVE  IInv'
<1> USE DEF chainVars, tables, IInv
<1>1. Kept
  BY DEF Kept
<1>2. ResOK'
  BY <1>1, ResSet
<1>3. ScanOK' /\ ImpOK' /\ PubOK' /\ VerOK'
  BY <1>1, ScanKept, ImpKept, PubKept, VerKept
<1>4. ChainOK' /\ BlocksOK' /\ CommitmentsOK' /\ AnchorsOK' /\ ResolvedOK'
  BY DEF ChainOK, BlocksOK, CommitmentsOK, AnchorsOK, ResolvedOK
<1> QED
  BY <1>2, <1>3, <1>4

LEMMA ResolveBeginOK ==
    ASSUME IInv, NEW r \in Resolvers, ResolveBegin(r)
    PROVE  IInv'
<1> DEFINE entries == {[pt |-> p, before |-> commitments[p].before \cap Oldest] : p \in Oldest}
           l == [IdleRes EXCEPT !.pc = "next", !.queue = entries]
<1>1. Oldest \subseteq Points
  BY DEF Oldest, Unresolved, Present
<1>2. entries \in SUBSET [pt : Points, before : SUBSET Points]
  BY <1>1
<1> HIDE DEF entries
<1>3. l \in ResThread
  BY <1>2, IdleFacts DEF ResThread
<1>4. ResKnows(l, batches, anchors)
  BY DEF IdleRes, ResKnows
<1>5. SetRes(r, l)
  BY DEF ResolveBegin, entries
<1> QED
  BY <1>3, <1>4, <1>5, ResLocal DEF ResolveBegin

LEMMA ResolveMissingOK ==
    ASSUME IInv, NEW r \in Resolvers, ResolveMissing(r)
    PROVE  IInv'
<1>1. res[r] \in ResThread /\ res[r].pc = "next"
  BY DEF IInv, ResOK, ResolveMissing
<1>2. CASE SetRes(r, IdleRes)
  BY <1>2, IdleFacts, ResLocal DEF ResolveMissing
<1>3. ASSUME NEW e \in res[r].queue, SetRes(r, [res[r] EXCEPT !.queue = @ \ {e}])
      PROVE  IInv'
  <2> DEFINE l == [res[r] EXCEPT !.queue = @ \ {e}]
  <2>1. l \in ResThread /\ ResKnows(l, batches, anchors)
    BY <1>1 DEF ResThread, ResKnows
  <2> QED
    BY <1>3, <2>1, ResLocal DEF ResolveMissing
<1> QED
  BY <1>2, <1>3 DEF ResolveMissing

LEMMA ResolveImportOK ==
    ASSUME IInv, NEW r \in Resolvers, NEW p \in Points, ResolveImport(r, p)
    PROVE  IInv'
<1> USE DEF IInv, chainVars
<1>1. res[r] \in ResThread
  BY DEF ResOK
<1>2. PICK e \in res[r].queue :
        /\ e.pt = p /\ Manifest[p] \in Available
        /\ batches' = batches \cup {Manifest[p]}
        /\ SetRes(r, [res[r] EXCEPT !.pc = "read", !.pt = p, !.queue = @ \ {e}])
  BY DEF ResolveImport
<1>3. Kept
  BY <1>2 DEF ResolveImport, Kept
<1>4. AnchorsOK'
  BY <1>2, NodeAssumption DEF ResolveImport, AnchorsOK, Genuine
<1> DEFINE l == [res[r] EXCEPT !.pc = "read", !.pt = p, !.queue = @ \ {e}]
<1>5. l \in ResThread /\ ResKnows(l, batches', anchors')
  BY <1>1, <1>2 DEF ResThread, ResKnows
<1>6. ResOK'
  BY <1>2, <1>3, <1>5, ResSet
<1>7. ScanOK' /\ ImpOK' /\ PubOK' /\ VerOK'
  BY <1>3, ScanKept, ImpKept, PubKept, VerKept DEF ResolveImport
<1>8. ChainOK' /\ BlocksOK' /\ CommitmentsOK' /\ ResolvedOK'
  BY DEF ResolveImport, ChainOK, BlocksOK, CommitmentsOK, ResolvedOK
<1> QED
  BY <1>4, <1>6, <1>7, <1>8

LEMMA ResolveRegisterReadOK ==
    ASSUME IInv, NEW r \in Resolvers, ResolveRegisterRead(r)
    PROVE  IInv'
<1> DEFINE p == res[r].pt
<1>1. /\ res[r] \in ResThread /\ ResKnows(res[r], batches, anchors)
      /\ res[r].pc = "read"
  BY DEF IInv, ResOK, ResolveRegisterRead
<1>2. CASE SetRes(r, IdleRes)
  BY <1>2, IdleFacts, ResLocal DEF ResolveRegisterRead
<1>3. CASE /\ p \in Findable \cap Exact
           /\ SetRes(r, [res[r] EXCEPT !.pc = "write", !.com = Context(p)])
  <2> DEFINE l == [res[r] EXCEPT !.pc = "write", !.com = Context(p)]
  <2>1. Context(p) \in ContextType /\ InBlock(p, Context(p))
    BY <1>3 DEF IInv, CommitmentsOK, CommitmentRow, Findable, Present, Context,
                ContextType, InBlock
  <2>2. l \in ResThread /\ l.pt = p /\ l.com = Context(p)
    BY <1>1, <2>1 DEF ResThread
  <2>3. ResKnows(l, batches, anchors)
    BY <1>1, <1>3, <2>1, <2>2 DEF ResThread, ResKnows
  <2> QED
    BY <1>3, <2>2, <2>3, ResLocal DEF ResolveRegisterRead
<1> QED
  BY <1>2, <1>3 DEF ResolveRegisterRead

LEMMA ResolveRegisterWriteOK ==
    ASSUME IInv, NEW r \in Resolvers, ResolveRegisterWrite(r)
    PROVE  IInv'
<1> USE DEF IInv, chainVars
<1> DEFINE l == [res[r] EXCEPT !.pc = "mark", !.com = NoContext]
           p == res[r].pt
           row == ConfirmedAnchor(p, res[r].com)
<1>1. /\ res[r] \in ResThread /\ ResKnows(res[r], batches, anchors)
      /\ res[r].pc = "write"
  BY DEF ResOK, ResolveRegisterWrite
<1>2. /\ p \in Points /\ row \in AnchorRow /\ row.status # "absent"
      /\ Genuine(p, row, batches)
  BY <1>1, ConfirmedAnchorOK DEF ResKnows, ResThread
<1> HIDE DEF row
<1>3. AnchorsOK' /\ ResolvedOK' /\ Kept /\ anchors'[p] = row
  BY <1>2, AnchorWritten DEF ResolveRegisterWrite, row
<1>4. l \in ResThread /\ l.pt = p /\ l.pc = "mark"
  BY <1>1, IdleFacts DEF ResThread
<1>5. ResKnows(l, batches', anchors')
  BY <1>1, <1>2, <1>3, <1>4 DEF ResKnows, Kept
<1>6. ResOK'
  BY <1>3, <1>4, <1>5, ResSet DEF ResolveRegisterWrite
<1>7. ScanOK' /\ ImpOK' /\ PubOK' /\ VerOK'
  BY <1>3, ScanKept, ImpKept, PubKept, VerKept DEF ResolveRegisterWrite
<1>8. ChainOK' /\ BlocksOK' /\ CommitmentsOK'
  BY DEF ResolveRegisterWrite, ChainOK, BlocksOK, CommitmentsOK
<1> QED
  BY <1>3, <1>6, <1>7, <1>8

LEMMA ResolveRegisterMarkOK ==
    ASSUME IInv, NEW r \in Resolvers, ResolveRegisterMark(r)
    PROVE  IInv'
<1> USE DEF IInv, chainVars
<1> DEFINE p == res[r].pt
<1>1. /\ res[r] \in ResThread /\ ResKnows(res[r], batches, anchors)
      /\ res[r].pc \in {"mark", "again"}
  BY DEF ResOK, ResolveRegisterMark
<1>2. p \in Points /\ anchors[p].status # "absent"
  BY <1>1 DEF ResKnows
<1>3. CommitmentsOK' /\ ResolvedOK'
  BY <1>2, CommitmentMarked DEF ResolveRegisterMark
<1>4. Kept
  BY DEF ResolveRegisterMark, Kept
<1>5. ResOK'
  <2>1. CASE SetRes(r, IdleRes)
    BY <1>4, <2>1, IdleFacts, ResSet
  <2>2. CASE SetRes(r, [res[r] EXCEPT !.pc = "again"]) /\ res[r].pc = "mark"
    <3>1. [res[r] EXCEPT !.pc = "again"] \in ResThread
      BY <1>1 DEF ResThread
    <3>2. ResKnows([res[r] EXCEPT !.pc = "again"], batches', anchors')
      BY <1>1, <2>2, <3>1 DEF ResKnows, ResThread, ResolveRegisterMark
    <3> QED
      BY <1>4, <2>2, <3>1, <3>2, ResSet
  <2>3. CASE SetRes(r, [res[r] EXCEPT !.pc = "next", !.pt = None])
    <3>1. /\ [res[r] EXCEPT !.pc = "next", !.pt = None] \in ResThread
          /\ ResKnows([res[r] EXCEPT !.pc = "next", !.pt = None], batches', anchors')
      BY <1>1 DEF ResThread, ResKnows
    <3> QED
      BY <1>4, <2>3, <3>1, ResSet
  <2> QED
    BY <2>1, <2>2, <2>3 DEF ResolveRegisterMark
<1>6. ScanOK' /\ ImpOK' /\ PubOK' /\ VerOK'
  BY <1>4, ScanKept, ImpKept, PubKept, VerKept DEF ResolveRegisterMark
<1>7. ChainOK' /\ BlocksOK' /\ AnchorsOK'
  BY DEF ResolveRegisterMark, ChainOK, BlocksOK, AnchorsOK
<1> QED
  BY <1>3, <1>5, <1>6, <1>7

----------------------------------------------------------------------------
\* import_anchor_reference, anchor_batch

LEMMA ImportReadOK ==
    ASSUME IInv, NEW i \in Importers, NEW p \in Points, NEW b \in Batches,
           NEW claim \in Claims, ImportRead(i, p, b, claim)
    PROVE  IInv'
<1> USE DEF IInv, chainVars, tables
<1> DEFINE row == IF anchors[p].status \in LocallyChecked
                  THEN [anchors[p] EXCEPT !.network = Network[b]]
                  ELSE [status |-> "unverified", batch |-> b, network |-> Network[b],
                        hash |-> claim.hash, height |-> claim.height]
           l == [pc |-> "write", pt |-> p, row |-> row]
<1>1. Kept
  BY DEF ImportRead, Kept
<1>2. row \in AnchorRow /\ row.status # "absent" /\ Genuine(p, row, batches')
  <2>1. anchors[p] \in AnchorRow /\ Genuine(p, anchors[p], batches')
    BY DEF AnchorsOK, ImportRead
  <2>2. /\ Network[b] \in Networks
        /\ claim \in [hash : Blocks \cup {None}, height : Heights \cup {None}]
    BY NodeAssumption
  <2>3. CASE anchors[p].status \in LocallyChecked
    BY <2>1, <2>2, <2>3 DEF AnchorRow, LocallyChecked, Genuine, InBlock
  <2>4. CASE anchors[p].status \notin LocallyChecked
    BY <2>2, <2>4 DEF AnchorRow, Status, Genuine
  <2> QED
    BY <2>3, <2>4
<1>3. SetImp(i, l)
  BY DEF ImportRead
<1> HIDE DEF row
<1>4. l \in ImpThread /\ ImpKnows(l, batches')
  BY <1>2 DEF ImpThread, ImpKnows
<1>5. ImpOK'
  BY <1>1, <1>3, <1>4, ImpSet
<1>6. ScanOK' /\ ResOK' /\ PubOK' /\ VerOK'
  BY <1>1, ScanKept, ResKept, PubKept, VerKept DEF ImportRead
<1>7. ChainOK' /\ BlocksOK' /\ CommitmentsOK' /\ AnchorsOK' /\ ResolvedOK'
  BY DEF ImportRead, ChainOK, BlocksOK, CommitmentsOK, AnchorsOK, ResolvedOK
<1> QED
  BY <1>5, <1>6, <1>7

LEMMA ImportWriteOK ==
    ASSUME IInv, NEW i \in Importers, ImportWrite(i)
    PROVE  IInv'
<1> USE DEF IInv, chainVars
<1>1. imp[i] \in ImpThread /\ ImpKnows(imp[i], batches) /\ imp[i].pc = "write"
  BY DEF ImpOK, ImportWrite
<1>2. /\ imp[i].pt \in Points /\ imp[i].row \in AnchorRow
      /\ imp[i].row.status # "absent" /\ Genuine(imp[i].pt, imp[i].row, batches)
  BY <1>1 DEF ImpKnows, ImpThread
<1>3. AnchorsOK' /\ ResolvedOK' /\ Kept
  BY <1>2, AnchorWritten DEF ImportWrite
<1>4. ImpOK'
  BY <1>3, IdleFacts, ImpSet DEF ImportWrite
<1>5. ScanOK' /\ ResOK' /\ PubOK' /\ VerOK'
  BY <1>3, ScanKept, ResKept, PubKept, VerKept DEF ImportWrite
<1>6. ChainOK' /\ BlocksOK' /\ CommitmentsOK'
  BY DEF ImportWrite, ChainOK, BlocksOK, CommitmentsOK
<1> QED
  BY <1>3, <1>4, <1>5, <1>6

LEMMA PublishSendOK ==
    ASSUME IInv, NEW u \in Publishers, NEW p \in Points, PublishSend(u, p)
    PROVE  IInv'
<1> USE DEF IInv, tables
<1>1. Kept
  BY DEF PublishSend, Kept
<1>2. [pc |-> "save", pt |-> p] \in PubThread /\ PubKnows([pc |-> "save", pt |-> p])
  BY DEF PubThread, PubKnows
<1>3. PubOK'
  BY <1>2, PubSet DEF PublishSend
<1>4. ScanOK' /\ ResOK' /\ ImpOK' /\ VerOK'
  BY <1>1, ScanKept, ResKept, ImpKept, VerKept DEF PublishSend
<1>5. ChainOK' /\ BlocksOK' /\ CommitmentsOK' /\ AnchorsOK' /\ ResolvedOK'
  BY DEF PublishSend, ChainOK, BlocksOK, CommitmentsOK, AnchorsOK, ResolvedOK
<1> QED
  BY <1>3, <1>4, <1>5

LEMMA PublishSaveOK ==
    ASSUME IInv, NEW u \in Publishers, PublishSave(u)
    PROVE  IInv'
<1> USE DEF IInv, chainVars
<1> DEFINE row == [status |-> "broadcast", batch |-> Manifest[pub[u].pt],
                   network |-> NodeNetwork, hash |-> None, height |-> None]
<1>1. pub[u].pt \in Points
  BY DEF PubOK, PubKnows, PublishSave
<1>2. row \in AnchorRow /\ row.status # "absent" /\ Genuine(pub[u].pt, row, batches)
  BY <1>1, ChainAssumption, NodeAssumption DEF AnchorRow, Status, Genuine
<1>3. AnchorsOK' /\ ResolvedOK' /\ Kept
  BY <1>1, <1>2, AnchorWritten DEF PublishSave
<1>4. PubOK'
  BY IdleFacts, PubSet DEF PublishSave
<1>5. ScanOK' /\ ResOK' /\ ImpOK' /\ VerOK'
  BY <1>3, ScanKept, ResKept, ImpKept, VerKept DEF PublishSave
<1>6. ChainOK' /\ BlocksOK' /\ CommitmentsOK'
  BY DEF PublishSave, ChainOK, BlocksOK, CommitmentsOK
<1> QED
  BY <1>3, <1>4, <1>5, <1>6

----------------------------------------------------------------------------
\* verify_bitcoin_anchor

LEMMA VerLocal ==
    ASSUME IInv, NEW v \in Verifiers, NEW l \in VerThread,
           VerKnows(l, batches), SetVer(v, l),
           UNCHANGED <<chainVars, tables, scan, res, imp, pub>>
    PROVE  IInv'
<1> USE DEF chainVars, tables, IInv
<1>1. Kept
  BY DEF Kept
<1>2. VerOK'
  BY <1>1, VerSet
<1>3. ScanOK' /\ ResOK' /\ ImpOK' /\ PubOK'
  BY <1>1, ScanKept, ResKept, ImpKept, PubKept
<1>4. ChainOK' /\ BlocksOK' /\ CommitmentsOK' /\ AnchorsOK' /\ ResolvedOK'
  BY DEF ChainOK, BlocksOK, CommitmentsOK, AnchorsOK, ResolvedOK
<1> QED
  BY <1>2, <1>3, <1>4

LEMMA VerifyReadOK ==
    ASSUME IInv, NEW v \in Verifiers, NEW p \in Points, VerifyRead(v, p)
    PROVE  IInv'
<1> DEFINE row == IF p \in RowsOf(Manifest[p]) THEN anchors[p]
                  ELSE [NoAnchor EXCEPT !.batch = Manifest[p]]
           l == [IdleVer EXCEPT !.pc = "tx", !.pt = p, !.row = row]
<1>1. row \in AnchorRow /\ row.batch = Manifest[p]
  <2>1. Manifest[p] \in Batches /\ anchors[p] \in AnchorRow
    BY ChainAssumption DEF IInv, AnchorsOK
  <2> QED
    BY <2>1, IdleFacts DEF RowsOf, AnchorRow
<1>2. SetVer(v, l)
  BY DEF VerifyRead
<1> HIDE DEF row
<1>3. l \in VerThread
  BY <1>1, IdleFacts DEF VerThread
<1>4. l.pc = "tx" /\ l.pt = p /\ l.row = row
  BY IdleFacts DEF VerThread
<1>5. VerKnows(l, batches)
  BY <1>1, <1>4 DEF VerifyRead, VerKnows
<1> QED
  BY <1>2, <1>3, <1>5, VerLocal DEF VerifyRead

\* A block the RPC reports contains the point.
LEMMA TransactionOK ==
    ASSUME chain \in Branches, NEW p, NEW known,
           NEW b \in Transaction(chain, p, known), b # None
    PROVE  b \in Blocks /\ p \in OutputSet(b)
<1>1. BlocksOf(chain) \subseteq Blocks
  BY ChainAssumption DEF BlocksOf
<1> QED
  BY <1>1 DEF Transaction

LEMMA VerifyTransactionOK ==
    ASSUME IInv, NEW v \in Verifiers, VerifyTransaction(v)
    PROVE  IInv'
<1>1. /\ ver[v] \in VerThread /\ VerKnows(ver[v], batches) /\ ver[v].pc = "tx"
  BY DEF IInv, VerOK, VerifyTransaction
<1>2. PICK b \in Transaction(chain, ver[v].pt, ver[v].row.hash) :
        SetVer(v, [pc |-> IF b = None THEN "write" ELSE "context",
                   pt |-> ver[v].pt,
                   row |-> [ver[v].row EXCEPT !.status = "broadcast", !.hash = b,
                                              !.height = None],
                   mined |-> b \in BlocksOf(chain)])
  BY DEF VerifyTransaction
<1> DEFINE mined == b \in BlocksOf(chain)
           pc == IF b = None THEN "write" ELSE "context"
           row == [ver[v].row EXCEPT !.status = "broadcast", !.hash = b, !.height = None]
           l == [pc |-> pc, pt |-> ver[v].pt, row |-> row, mined |-> mined]
<1>3. b # None => b \in Blocks /\ ver[v].pt \in OutputSet(b)
  BY TransactionOK DEF IInv, ChainOK
<1>4. /\ row \in AnchorRow /\ row.batch = ver[v].row.batch
      /\ row.status = "broadcast" /\ row.hash = b
  BY <1>1, <1>3 DEF VerThread, AnchorRow, Status
<1>5. SetVer(v, l)
  BY <1>2
<1>6. mined \in BOOLEAN /\ pc \in {"write", "context"}
  OBVIOUS
<1> HIDE DEF row, mined
<1>7. l \in VerThread
  BY <1>1, <1>4, <1>6 DEF VerThread
<1>8. VerKnows(l, batches)
  BY <1>1, <1>3, <1>4 DEF VerKnows, Genuine
<1> QED
  BY <1>5, <1>7, <1>8, VerLocal DEF VerifyTransaction

LEMMA VerifyContextOK ==
    ASSUME IInv, NEW v \in Verifiers, VerifyContext(v)
    PROVE  IInv'
<1> DEFINE b == ver[v].row.hash
           status == IF ~(b \in BlocksOf(chain)) THEN "reorganised"
                     ELSE IF ver[v].mined THEN "confirmed" ELSE "broadcast"
           row == [ver[v].row EXCEPT !.height = Height[b], !.status = status]
           l == [ver[v] EXCEPT !.pc = "write", !.row = row]
<1>1. /\ ver[v] \in VerThread /\ VerKnows(ver[v], batches) /\ ver[v].pc = "context"
  BY DEF IInv, VerOK, VerifyContext
<1>2. b \in Blocks /\ ver[v].pt \in OutputSet(b) /\ Height[b] \in Heights
  BY <1>1, ChainAssumption DEF VerKnows
<1>3. status \in {"reorganised", "confirmed", "broadcast"}
  OBVIOUS
<1>4. SetVer(v, l)
  BY <1>1 DEF VerifyContext, VerThread, AnchorRow
<1> HIDE DEF status
<1>5. /\ row \in AnchorRow /\ row.batch = ver[v].row.batch
      /\ row.status = status /\ row.hash = b /\ row.height = Height[b]
  BY <1>1, <1>2, <1>3 DEF VerThread, AnchorRow, Status
<1> HIDE DEF row
<1>6. l \in VerThread /\ l.pc = "write" /\ l.pt = ver[v].pt /\ l.row = row
  BY <1>1, <1>5 DEF VerThread
<1>7. VerKnows(l, batches)
  BY <1>1, <1>2, <1>3, <1>5, <1>6 DEF VerKnows, Genuine, InBlock
<1> QED
  BY <1>4, <1>6, <1>7, VerLocal DEF VerifyContext

LEMMA VerifyWriteOK ==
    ASSUME IInv, NEW v \in Verifiers, VerifyWrite(v)
    PROVE  IInv'
<1> USE DEF IInv, chainVars
<1>1. ver[v] \in VerThread /\ VerKnows(ver[v], batches) /\ ver[v].pc = "write"
  BY DEF VerOK, VerifyWrite
<1>2. /\ ver[v].pt \in Points /\ ver[v].row \in AnchorRow
      /\ ver[v].row.status # "absent" /\ Genuine(ver[v].pt, ver[v].row, batches)
  BY <1>1, ChainAssumption DEF VerKnows, VerThread
<1>3. AnchorsOK' /\ ResolvedOK' /\ Kept
  BY <1>2, AnchorWritten DEF VerifyWrite
<1>4. VerOK'
  BY <1>3, IdleFacts, VerSet DEF VerifyWrite
<1>5. ScanOK' /\ ResOK' /\ ImpOK' /\ PubOK'
  BY <1>3, ScanKept, ResKept, ImpKept, PubKept DEF VerifyWrite
<1>6. ChainOK' /\ BlocksOK' /\ CommitmentsOK'
  BY DEF VerifyWrite, ChainOK, BlocksOK, CommitmentsOK
<1> QED
  BY <1>3, <1>4, <1>5, <1>6

LEMMA VerifyFailOK ==
    ASSUME IInv, NEW v \in Verifiers, VerifyFail(v)
    PROVE  IInv'
  BY IdleFacts, VerLocal DEF VerifyFail

----------------------------------------------------------------------------
\* Environment

LEMMA MoveChainOK ==
    ASSUME IInv, NEW c \in Branches, MoveChain(c)
    PROVE  IInv'
<1> USE DEF IInv, tables, threads
<1>1. Kept
  BY DEF MoveChain, Kept
<1>2. ChainOK'
  BY NodeAssumption DEF MoveChain, ChainOK
<1>3. ScanOK' /\ ResOK' /\ ImpOK' /\ PubOK' /\ VerOK'
  BY <1>1, ScanKept, ResKept, ImpKept, PubKept, VerKept DEF MoveChain
<1>4. BlocksOK' /\ CommitmentsOK' /\ AnchorsOK' /\ ResolvedOK'
  BY DEF MoveChain, BlocksOK, CommitmentsOK, AnchorsOK, ResolvedOK
<1> QED
  BY <1>2, <1>3, <1>4

LEMMA ImportPackageOK ==
    ASSUME IInv, NEW b \in Batches, ImportPackage(b)
    PROVE  IInv'
<1> USE DEF IInv, chainVars, threads
<1>1. Kept
  BY DEF ImportPackage, Kept
<1>2. AnchorsOK'
  BY DEF ImportPackage, AnchorsOK, Genuine
<1>3. ScanOK' /\ ResOK' /\ ImpOK' /\ PubOK' /\ VerOK'
  BY <1>1, ScanKept, ResKept, ImpKept, PubKept, VerKept DEF ImportPackage
<1>4. ChainOK' /\ BlocksOK' /\ CommitmentsOK' /\ ResolvedOK'
  BY DEF ImportPackage, ChainOK, BlocksOK, CommitmentsOK, ResolvedOK
<1> QED
  BY <1>2, <1>3, <1>4

\* All threads idle: after a restart, and initially.
LEMMA IdleOK ==
    ASSUME scan = [s \in Scanners |-> IdleScan], res = [r \in Resolvers |-> IdleRes],
           imp = [i \in Importers |-> IdleImp], pub = [u \in Publishers |-> IdlePub],
           ver = [v \in Verifiers |-> IdleVer]
    PROVE  ScanOK /\ ResOK /\ ImpOK /\ PubOK /\ VerOK
  BY IdleFacts DEF ScanOK, ResOK, ImpOK, PubOK, VerOK

LEMMA CrashOK ==
    ASSUME IInv, Crash
    PROVE  IInv'
<1>1. ScanOK' /\ ResOK' /\ ImpOK' /\ PubOK' /\ VerOK'
  BY IdleFacts DEF Crash, ScanOK, ResOK, ImpOK, PubOK, VerOK
<1>2. ChainOK' /\ BlocksOK' /\ CommitmentsOK' /\ AnchorsOK' /\ ResolvedOK'
  BY DEF IInv, Crash, chainVars, tables, ChainOK, BlocksOK, CommitmentsOK,
         AnchorsOK, ResolvedOK
<1> QED
  BY <1>1, <1>2 DEF IInv

----------------------------------------------------------------------------
LEMMA InitOK == Init => IInv
<1> SUFFICES ASSUME Init PROVE IInv
  OBVIOUS
<1>1. ScanOK /\ ResOK /\ ImpOK /\ PubOK /\ VerOK
  BY IdleOK DEF Init
<1>2. ChainOK /\ BlocksOK
  BY NodeAssumption DEF Init, ChainOK, BlocksOK
<1>3. \A p \in Points : commitments[p] = NoCommitment /\ anchors[p] = NoAnchor
  BY DEF Init
<1>4. CommitmentsOK /\ ResolvedOK
  BY <1>3, IdleFacts DEF Init, CommitmentsOK, ResolvedOK, NoCommitment
<1>5. AnchorsOK
  BY <1>3, IdleFacts DEF Init, AnchorsOK, NoAnchor, Genuine
<1> QED
  BY <1>1, <1>2, <1>4, <1>5 DEF IInv

\* Every step of every thread and of the environment keeps the invariant.
LEMMA NextOK == IInv /\ [Next]_vars => IInv'
<1> SUFFICES ASSUME IInv, [Next]_vars PROVE IInv'
  OBVIOUS
<1>1. CASE Environment
  BY <1>1, MoveChainOK, ImportPackageOK, CrashOK DEF Environment
<1>2. CASE Scan
  BY <1>2, ScanBeginOK, ScanStoredOK, ScanCheckOK, ScanWalkOK, ScanCompareOK,
     ScanRewindOK, ScanHashOK, ScanCommitOK, ScanLookupOK, ScanRegisterReadOK,
     ScanRegisterWriteOK, ScanRegisterMarkOK, ScanSaveOK DEF Scan, ScanStep
<1>3. CASE Resolve
  BY <1>3, ResolveBeginOK, ResolveMissingOK, ResolveImportOK, ResolveRegisterReadOK,
     ResolveRegisterWriteOK, ResolveRegisterMarkOK DEF Resolve, ResolveStep
<1>4. CASE Import
  BY <1>4, ImportReadOK, ImportWriteOK DEF Import
<1>5. CASE Publish
  BY <1>5, PublishSendOK, PublishSaveOK DEF Publish
<1>6. CASE Verify
  BY <1>6, VerifyReadOK, VerifyTransactionOK, VerifyContextOK, VerifyWriteOK,
     VerifyFailOK DEF Verify
<1>7. CASE UNCHANGED vars
  BY <1>7 DEF vars, IInv, ChainOK, BlocksOK, CommitmentsOK, AnchorsOK, ResolvedOK,
     ScanOK, ResOK, ImpOK, PubOK, VerOK
<1> QED
  BY <1>1, <1>2, <1>3, <1>4, <1>5, <1>6, <1>7 DEF Next

THEOREM Invariance == Spec => []IInv
  BY InitOK, NextOK, PTL DEF Spec

(***************************************************************************)
(* The tables and the locals of every thread keep their types.             *)
(***************************************************************************)
THEOREM TypeCorrect == Spec => []TypeOK
<1>1. IInv => TypeOK
  BY DEF IInv, ChainOK, BlocksOK, CommitmentsOK, AnchorsOK, ScanOK, ResOK,
         ImpOK, PubOK, VerOK, TypeOK
<1> QED
  BY <1>1, Invariance, PTL

(***************************************************************************)
(* No interleaving, crash, RPC error or reorganisation makes the node      *)
(* report an anchor as confirmed without a block that contains it: what    *)
(* the scanner, the resolver, the importer and the verifier write from     *)
(* stale reads is still backed by Bitcoin.                                 *)
(***************************************************************************)
THEOREM ConfirmationsAreWitnessed == Spec => []ConfirmedIsWitnessed
<1>1. IInv => ConfirmedIsWitnessed
  BY DEF IInv, AnchorsOK, Genuine, ConfirmedIsWitnessed
<1> QED
  BY <1>1, Invariance, PTL

(***************************************************************************)
(* A commitment is marked resolved only when its anchor row exists, so     *)
(* the resolver never skips a commitment that nothing refers to.           *)
(***************************************************************************)
THEOREM ResolutionsHaveAnchors == Spec => []ResolvedHasAnchor
<1>1. IInv => ResolvedHasAnchor
  BY DEF IInv, ResolvedOK, ResolvedHasAnchor, Present
<1> QED
  BY <1>1, Invariance, PTL

----------------------------------------------------------------------------
\* The publication core implements AnchorLedger

\* Hashes in the locals of a thread that it may write; Z: the blocks seen.
ScanSaw(l, Z) ==
    /\ l.pc \in InOutputs => l.hash \in Z
    /\ l.pc = "write" => l.com.hash \in Z
ResSaw(l, Z) == l.pc = "write" => l.com.hash \in Z
RowSaw(row, Z) == row.status = "confirmed" => row.hash \in Z
WriterSaw(l, Z) == l.pc = "write" => RowSaw(l.row, Z)

ScansSaw == \A s \in Scanners : ScanSaw(scan[s], seen)
ResolversSaw == \A r \in Resolvers : ResSaw(res[r], seen)
ImportersSaw == \A i \in Importers : WriterSaw(imp[i], seen)
VerifiersSaw == \A v \in Verifiers : WriterSaw(ver[v], seen)
CommitmentsSaw == \A p \in Points : commitments[p].hash # None => commitments[p].hash \in seen
AnchorsSaw == \A p \in Points : RowSaw(anchors[p], seen)

SawInv ==
    /\ BlocksOf(chain) \subseteq seen
    /\ CommitmentsSaw /\ AnchorsSaw
    /\ ScansSaw /\ ResolversSaw /\ ImportersSaw /\ VerifiersSaw

\* A step of the node, seen as a step of the ledger
LedgerStep == [Ledger!LedgerNext]_(Ledger!ledgerVars)
Good == SawInv' /\ LedgerStep

USE DEF chainVars, tables, threads

----------------------------------------------------------------------------
\* Steps that move no chain

\* Only a move of the chain adds to what was seen.
LEMMA SeenStays ==
    ASSUME SawInv, UNCHANGED chain, seen' = seen \cup BlocksOf(chain')
    PROVE  seen' = seen
  BY DEF SawInv

\* A step that leaves anchors and batches alone is a stuttering step.
LEMMA Stutters ==
    ASSUME UNCHANGED <<seen, batches, anchors>>
    PROVE  LedgerStep
  BY DEF LedgerStep, Ledger!ledgerVars

\* A row that claims nothing, or is a witnessed confirmation, is written.
LEMMA RowWritten ==
    ASSUME IInv, SawInv, NEW p \in Points, NEW row \in AnchorRow, row.status # "absent",
           Genuine(p, row, batches), RowSaw(row, seen),
           anchors' = [anchors EXCEPT ![p] = row], UNCHANGED <<seen, batches>>
    PROVE  AnchorsSaw' /\ LedgerStep
<1>1. anchors \in [Points -> AnchorRow]
  BY DEF IInv, AnchorsOK
<1>2. AnchorsSaw'
  BY <1>1 DEF AnchorsSaw, SawInv
<1> DEFINE before == [q \in Points |-> Entry(anchors[q])]
           after == [q \in Points |-> Entry(anchors'[q])]
<1>3. after = [before EXCEPT ![p] = Entry(row)]
  BY <1>1
<1>4. CASE row.status = "confirmed"
  <2>1. Entry(row) = [status |-> "confirmed", block |-> row.hash]
    BY <1>4 DEF Entry
  <2>2. /\ p \in Exact /\ Manifest[p] \in batches
        /\ row.hash \in Blocks /\ row.hash \in seen /\ p \in OutputSet(row.hash)
    BY <1>4 DEF Genuine, InBlock, RowSaw
  <2>3. Ledger!Confirm(p, row.hash)
    BY <1>3, <2>1, <2>2 DEF Ledger!Confirm, Ledger!Confirmation, Ledger!OutputSet, OutputSet
  <2> QED
    BY <1>2, <2>2, <2>3 DEF LedgerStep, Ledger!LedgerNext
<1>5. CASE row.status # "confirmed"
  <2>1. row.status \in {"unverified", "broadcast", "invalid", "reorganised"}
    BY <1>5 DEF AnchorRow, Status
  <2>2. Entry(row) = [status |-> row.status, block |-> None]
    BY <1>5 DEF Entry
  <2>3. Ledger!Note(p, row.status)
    BY <1>3, <2>2 DEF Ledger!Note, Ledger!Report
  <2> QED
    BY <1>2, <2>1, <2>3 DEF LedgerStep, Ledger!LedgerNext, Ledger!Reports
<1> QED
  BY <1>4, <1>5

\* Batches arrive.
LEMMA Held ==
    ASSUME NEW b \in Batches, batches' = batches \cup {b}, UNCHANGED <<seen, anchors>>
    PROVE  LedgerStep
<1>1. Ledger!Hold(b)
  BY DEF Ledger!Hold
<1> QED
  BY <1>1 DEF LedgerStep, Ledger!LedgerNext

\* A step that only changes the locals of one scanner.
LEMMA ScanOnly ==
    ASSUME IInv, SawInv, NEW s \in Scanners, NEW l, ScanSaw(l, seen), SetScan(s, l),
           UNCHANGED <<chain, seen, batches, commitments, anchors, res, imp, ver>>
    PROVE  Good
<1>1. ScansSaw'
  BY DEF IInv, ScanOK, SawInv, ScansSaw, SetScan
<1>2. LedgerStep
  BY Stutters
<1> QED
  BY <1>1, <1>2 DEF Good, SawInv, CommitmentsSaw, AnchorsSaw, ResolversSaw,
                    ImportersSaw, VerifiersSaw

LEMMA ResOnly ==
    ASSUME IInv, SawInv, NEW r \in Resolvers, NEW l, ResSaw(l, seen), SetRes(r, l),
           UNCHANGED <<chain, seen, commitments, anchors, scan, imp, ver>>, LedgerStep
    PROVE  Good
<1>1. ResolversSaw'
  BY DEF IInv, ResOK, SawInv, ResolversSaw, SetRes
<1> QED
  BY <1>1 DEF Good, SawInv, CommitmentsSaw, AnchorsSaw, ScansSaw, ImportersSaw, VerifiersSaw

LEMMA VerOnly ==
    ASSUME IInv, SawInv, NEW v \in Verifiers, NEW l, WriterSaw(l, seen), SetVer(v, l),
           UNCHANGED <<chain, seen, batches, commitments, anchors, scan, res, imp>>
    PROVE  Good
<1>1. VerifiersSaw'
  BY DEF IInv, VerOK, SawInv, VerifiersSaw, SetVer
<1>2. LedgerStep
  BY Stutters
<1> QED
  BY <1>1, <1>2 DEF Good, SawInv, CommitmentsSaw, AnchorsSaw, ScansSaw, ResolversSaw, ImportersSaw

----------------------------------------------------------------------------
\* The scanner

\* A range of heights is planned, or the next candidate is taken: no hash.
LEMMA NoHashYet ==
    ASSUME NEW l \in ScanThread, NEW first, NEW Z
    PROVE  /\ ScanSaw(Plan(l, first), Z)
           /\ ScanSaw(Lower(l), Z)
           /\ ScanSaw(IdleScan, Z)
<1>1. Plan(l, first).pc \in {"idle", "hash"}
  BY DEF Plan, IdleScan
<1>2. Lower(l).pc \in {"rewind", "walk"}
  BY DEF Lower, ScanThread
<1>3. IdleScan.pc = "idle"
  BY DEF IdleScan
<1> QED
  BY <1>1, <1>2, <1>3 DEF ScanSaw, InOutputs

\* The next output of the same block.
LEMMA NextOutputSaw ==
    ASSUME NEW l \in ScanThread, NEW Z, l.hash \in Z
    PROVE  ScanSaw(NextOutput(l), Z)
  BY DEF NextOutput, ScanSaw, ScanThread, InOutputs

\* Steps up to the first hash of the range.
LEMMA ScanSearch ==
    ASSUME IInv, SawInv, UNCHANGED seen, NEW s \in Scanners,
           ScanBegin(s) \/ ScanStored(s) \/ ScanCheck(s) \/ ScanWalk(s) \/ ScanCompare(s)
    PROVE  Good
<1>1. scan[s] \in ScanThread
  BY DEF IInv, ScanOK
<1>2. \E l : ScanSaw(l, seen) /\ SetScan(s, l)
  <2>1. CASE ScanBegin(s)
    <3>1. [IdleScan EXCEPT !.pc = "stored", !.tip = BlockCount(chain)].pc = "stored"
      BY DEF IdleScan
    <3> QED
      BY <2>1, <3>1 DEF ScanBegin, ScanSaw, InOutputs
  <2>2. CASE ScanStored(s)
    <3>1. ASSUME NEW h
          PROVE  /\ [scan[s] EXCEPT !.pc = "check", !.cand = h, !.seen = blocks[h]].pc = "check"
                 /\ [scan[s] EXCEPT !.pc = "walk", !.cand = scan[s].tip].pc = "walk"
      BY <1>1 DEF ScanThread
    <3> QED
      BY <1>1, <2>2, <3>1, NoHashYet DEF ScanStored, ScanSaw, InOutputs
  <2>3. CASE ScanCheck(s)
    <3>1. [scan[s] EXCEPT !.pc = "walk", !.seen = None].pc = "walk"
      BY <1>1 DEF ScanThread
    <3> QED
      BY <1>1, <2>3, <3>1, NoHashYet DEF ScanCheck, ScanSaw, InOutputs
  <2>4. CASE ScanWalk(s)
    <3>1. [scan[s] EXCEPT !.pc = "compare", !.seen = blocks[scan[s].cand]].pc = "compare"
      BY <1>1 DEF ScanThread
    <3> QED
      BY <1>1, <2>4, <3>1, NoHashYet DEF ScanWalk, ScanSaw, InOutputs
  <2>5. CASE ScanCompare(s)
    <3>1. [scan[s] EXCEPT !.pc = "rewind", !.seen = None].pc = "rewind"
      BY <1>1 DEF ScanThread
    <3> QED
      BY <1>1, <2>5, <3>1, NoHashYet DEF ScanCompare, ScanSaw, InOutputs
  <2> QED
    BY <2>1, <2>2, <2>3, <2>4, <2>5
<1>3. UNCHANGED <<chain, batches, commitments, anchors, res, imp, ver>>
  BY DEF ScanBegin, ScanStored, ScanCheck, ScanWalk, ScanCompare
<1> QED
  BY <1>2, <1>3, ScanOnly

\* A rewind withdraws reports and forgets commitments.
LEMMA ScanRewindGood ==
    ASSUME IInv, SawInv, UNCHANGED seen, NEW s \in Scanners, ScanRewind(s)
    PROVE  Good
<1> DEFINE gone == {p \in Present : commitments[p].height > scan[s].cand}
           left == {p \in gone : anchors[p].status # "absent"}
           before == [p \in Points |-> Entry(anchors[p])]
           after == [p \in Points |-> Entry(anchors'[p])]
<1>1. /\ scan[s] \in ScanThread /\ anchors \in [Points -> AnchorRow]
      /\ commitments \in [Points -> CommitmentRow]
  BY DEF IInv, ScanOK, AnchorsOK, CommitmentsOK
<1>2. /\ \A p \in Points : anchors'[p] = IF p \in left
                             THEN [anchors[p] EXCEPT !.status = "reorganised"] ELSE anchors[p]
      /\ \A p \in Points : commitments'[p] = IF p \in gone THEN NoCommitment
                             ELSE [commitments[p] EXCEPT !.before = @ \ gone]
      /\ UNCHANGED <<chain, batches, res, imp, ver>>
  BY DEF ScanRewind, RewindBitcoinScan
<1>3. AnchorsSaw'
  <2>1. \A p \in left : anchors'[p].status = "reorganised"
    BY <1>1, <1>2, ZenonT(40) DEF AnchorRow, Present
  <2> QED
    BY <1>2, <2>1 DEF AnchorsSaw, RowSaw, SawInv
<1>4. CommitmentsSaw'
  <2>1. NoCommitment.hash = None
    BY DEF NoCommitment
  <2>2. \A p \in Points : [commitments[p] EXCEPT !.before = @ \ gone].hash = commitments[p].hash
    BY <1>1 DEF CommitmentRow
  <2> QED
    BY <1>2, <2>1, <2>2 DEF CommitmentsSaw, SawInv
<1>5. ScansSaw'
  <2>1. PICK l : ScanSaw(l, seen) /\ SetScan(s, l)
    BY <1>1, NoHashYet DEF ScanRewind
  <2> QED
    BY <2>1 DEF IInv, ScanOK, SawInv, ScansSaw, SetScan
<1>6. Ledger!Withdraw(left)
  <2>1. \A p \in left : before[p].status # "absent"
    BY DEF Entry, Present
  <2>2. ASSUME NEW p \in Points
        PROVE  after[p] = IF p \in left THEN [status |-> "reorganised", block |-> None]
                          ELSE before[p]
    <3>1. CASE p \in left
      <4>1. anchors'[p].status = "reorganised"
        BY <1>1, <1>2, <3>1, ZenonT(40) DEF AnchorRow
      <4> QED
        BY <3>1, <4>1 DEF Entry
    <3>2. CASE p \notin left
      BY <1>2, <3>2
    <3> QED
      BY <3>1, <3>2
  <2>3. after = [p \in Points |-> IF p \in left THEN [status |-> "reorganised", block |-> None]
                                  ELSE before[p]]
    BY <2>2
  <2> QED
    BY <1>2, <2>1, <2>3 DEF Ledger!Withdraw, Ledger!Report
<1>7. LedgerStep
  BY <1>6 DEF LedgerStep, Ledger!LedgerNext, Present
<1> QED
  BY <1>2, <1>3, <1>4, <1>5, <1>7 DEF Good, SawInv, ResolversSaw, ImportersSaw, VerifiersSaw

\* A hash the chain answers with is a block of the chain.
LEMMA AnswerIsActive ==
    ASSUME IInv, NEW h \in Int, NEW a \in HashAnswers(h), a # None
    PROVE  a \in BlocksOf(chain)
<1>1. chain \in Seq(Blocks) /\ Len(chain) \in Nat
  BY ChainAssumption DEF IInv, ChainOK
<1>2. h \in 0 .. Len(chain) - 1 /\ a = chain[h + 1]
  BY DEF HashAnswers, BlockHash, BlockCount
<1>3. h + 1 \in 1 .. Len(chain)
  BY <1>1, <1>2
<1> QED
  BY <1>2, <1>3 DEF BlocksOf

LEMMA ScanHashGood ==
    ASSUME IInv, SawInv, UNCHANGED seen, NEW s \in Scanners, ScanHash(s)
    PROVE  Good
<1>1. scan[s] \in ScanThread /\ scan[s].next \in Int
  BY ChainAssumption DEF IInv, ScanOK, ScanThread, Heights
<1>2. PICK a \in HashAnswers(scan[s].next) :
        SetScan(s, IF a = None THEN IdleScan
                   ELSE [scan[s] EXCEPT !.hash = a, !.i = 1,
                           !.pc = IF Len(Outputs[a]) = 0 THEN "save" ELSE "commit"])
  BY DEF ScanHash
<1>3. UNCHANGED <<chain, batches, commitments, anchors, res, imp, ver>>
  BY DEF ScanHash
<1>4. CASE a = None
  BY <1>1, <1>2, <1>3, <1>4, NoHashYet, ScanOnly
<1>5. CASE a # None
  <2> DEFINE l == [scan[s] EXCEPT !.hash = a, !.i = 1,
                     !.pc = IF Len(Outputs[a]) = 0 THEN "save" ELSE "commit"]
  <2>1. a \in seen
    BY <1>1, <1>5, AnswerIsActive DEF SawInv
  <2>2. l.hash = a /\ l.pc \in {"save", "commit"}
    BY <1>1 DEF ScanThread
  <2>3. ScanSaw(l, seen)
    BY <2>1, <2>2 DEF ScanSaw
  <2>4. SetScan(s, l)
    BY <1>2, <1>5
  <2> QED
    BY <1>3, <2>3, <2>4, ScanOnly
<1> QED
  BY <1>4, <1>5

\* The output a scanner is at, while its block is being read.
LEMMA ScanAt ==
    ASSUME IInv, SawInv, NEW s \in Scanners, scan[s].pc \in InOutputs
    PROVE  /\ scan[s] \in ScanThread /\ scan[s].hash \in seen
           /\ ScanPoint(scan[s]) \in Points
<1>1. scan[s].hash \in Blocks /\ scan[s].i \in 1 .. Len(Outputs[scan[s].hash])
  BY DEF IInv, ScanOK, ScanKnows
<1> QED
  BY <1>1, OutputIsPoint DEF IInv, ScanOK, SawInv, ScansSaw, ScanSaw, ScanPoint

LEMMA ScanCommitGood ==
    ASSUME IInv, SawInv, UNCHANGED seen, NEW s \in Scanners, ScanCommit(s)
    PROVE  Good
<1> DEFINE p == ScanPoint(scan[s])
           l == [scan[s] EXCEPT !.pc = "lookup"]
<1>1. scan[s] \in ScanThread /\ scan[s].hash \in seen /\ p \in Points
  BY ScanAt DEF ScanCommit, InOutputs
<1>2. commitments \in [Points -> CommitmentRow]
  BY DEF IInv, CommitmentsOK
<1>3. \A q \in Points : q # p => commitments'[q] = commitments[q]
  BY <1>2 DEF ScanCommit, AddCommitment
<1>4. commitments'[p].hash = scan[s].hash
  BY <1>1, <1>2 DEF ScanCommit, AddCommitment, CommitmentRow
<1>5. CommitmentsSaw'
  BY <1>1, <1>3, <1>4 DEF CommitmentsSaw, SawInv
<1>6. ScanSaw(l, seen)
  BY <1>1 DEF ScanSaw, ScanThread
<1>7. ScansSaw'
  BY <1>6 DEF ScanCommit, SetScan, IInv, ScanOK, SawInv, ScansSaw
<1>8. UNCHANGED <<chain, batches, anchors, res, imp, ver>>
  BY DEF ScanCommit
<1>9. LedgerStep
  BY <1>8, Stutters
<1> QED
  BY <1>5, <1>7, <1>8, <1>9 DEF Good, SawInv, AnchorsSaw, ResolversSaw, ImportersSaw, VerifiersSaw

LEMMA ScanLookupGood ==
    ASSUME IInv, SawInv, UNCHANGED seen, NEW s \in Scanners, ScanLookup(s)
    PROVE  Good
<1>1. scan[s] \in ScanThread /\ scan[s].hash \in seen
  BY ScanAt DEF ScanLookup, InOutputs
<1>2. ScanSaw([scan[s] EXCEPT !.pc = "read"], seen)
  BY <1>1 DEF ScanSaw, ScanThread
<1>3. ScanSaw(NextOutput(scan[s]), seen)
  BY <1>1, NextOutputSaw
<1>4. \E l : ScanSaw(l, seen) /\ SetScan(s, l)
  BY <1>2, <1>3 DEF ScanLookup
<1>5. UNCHANGED <<chain, batches, commitments, anchors, res, imp, ver>>
  BY DEF ScanLookup
<1> QED
  BY <1>4, <1>5, ScanOnly

LEMMA ScanRegisterReadGood ==
    ASSUME IInv, SawInv, UNCHANGED seen, NEW s \in Scanners, ScanRegisterRead(s)
    PROVE  Good
<1> DEFINE p == ScanPoint(scan[s])
<1>1. scan[s] \in ScanThread /\ scan[s].hash \in seen /\ p \in Points
  BY ScanAt DEF ScanRegisterRead, InOutputs
<1>2. p \in Present => ScanSaw([scan[s] EXCEPT !.pc = "write", !.com = Context(p)], seen)
  <2> SUFFICES ASSUME p \in Present
               PROVE  ScanSaw([scan[s] EXCEPT !.pc = "write", !.com = Context(p)], seen)
    OBVIOUS
  <2>1. commitments[p].hash \in seen
    BY <1>1 DEF Present, SawInv, CommitmentsSaw
  <2>2. Context(p).hash = commitments[p].hash
    BY DEF Context
  <2> DEFINE l == [scan[s] EXCEPT !.pc = "write", !.com = Context(p)]
  <2>3. l.hash = scan[s].hash /\ l.com = Context(p)
    BY <1>1 DEF ScanThread
  <2> QED
    BY <1>1, <2>1, <2>2, <2>3 DEF ScanSaw
<1>3. ScanSaw(IdleScan, seen)
  BY <1>1, NoHashYet
<1>4. \E l : ScanSaw(l, seen) /\ SetScan(s, l)
  BY <1>2, <1>3 DEF ScanRegisterRead, Findable
<1>5. UNCHANGED <<chain, batches, commitments, anchors, res, imp, ver>>
  BY DEF ScanRegisterRead
<1> QED
  BY <1>4, <1>5, ScanOnly

\* What register_scanned_anchor writes is a confirmation of the ledger.
LEMMA RegisterWritten ==
    ASSUME IInv, SawInv, NEW p \in Exact, NEW com, InBlock(p, com), com.hash \in seen,
           Manifest[p] \in batches, AddAnchor(p, ConfirmedAnchor(p, com)),
           UNCHANGED <<seen, batches>>
    PROVE  AnchorsSaw' /\ LedgerStep
<1>1. p \in Points
  BY ChainAssumption
<1>2. PICK row : row = ConfirmedAnchor(p, com)
  OBVIOUS
<1>3. /\ row \in AnchorRow /\ row.status # "absent"
      /\ Genuine(p, row, batches) /\ RowSaw(row, seen)
  <2>1. /\ row.status = "confirmed" /\ row.batch = Manifest[p] /\ row.network = NodeNetwork
        /\ row.hash = com.hash /\ row.height = com.height
    BY <1>2 DEF ConfirmedAnchor
  <2>2. InBlock(p, row)
    BY <2>1 DEF InBlock
  <2>3. row \in AnchorRow
    BY <1>1, <1>2, ChainAssumption, NodeAssumption DEF ConfirmedAnchor, AnchorRow, InBlock, Status
  <2> QED
    BY <2>1, <2>2, <2>3 DEF Genuine, RowSaw
<1>4. anchors' = [anchors EXCEPT ![p] = row]
  BY <1>2 DEF AddAnchor
<1> QED
  BY <1>1, <1>3, <1>4, RowWritten

LEMMA ScanRegisterWriteGood ==
    ASSUME IInv, SawInv, UNCHANGED seen, NEW s \in Scanners, ScanRegisterWrite(s)
    PROVE  Good
<1> DEFINE p == ScanPoint(scan[s])
<1>1. scan[s] \in ScanThread /\ scan[s].hash \in seen /\ scan[s].pc = "write"
  BY ScanAt DEF ScanRegisterWrite, InOutputs
<1>2. /\ p \in Exact /\ Manifest[p] \in batches /\ InBlock(p, scan[s].com)
      /\ scan[s].com.hash \in seen
  BY <1>1 DEF IInv, ScanOK, ScanKnows, SawInv, ScansSaw, ScanSaw
<1>3. AnchorsSaw' /\ LedgerStep
  BY <1>2, RegisterWritten DEF ScanRegisterWrite
<1>4. ScanSaw([scan[s] EXCEPT !.pc = "mark"], seen)
  BY <1>1 DEF ScanSaw, ScanThread
<1>5. ScansSaw'
  BY <1>4 DEF ScanRegisterWrite, SetScan, IInv, ScanOK, SawInv, ScansSaw
<1> QED
  BY <1>3, <1>5 DEF ScanRegisterWrite, Good, SawInv, CommitmentsSaw, ResolversSaw,
                    ImportersSaw, VerifiersSaw

\* Marking a commitment changes no hash.
LEMMA MarkedSaw ==
    ASSUME IInv, SawInv, NEW p, MarkResolved(p), UNCHANGED seen
    PROVE  CommitmentsSaw'
<1>1. commitments \in [Points -> CommitmentRow]
  BY DEF IInv, CommitmentsOK
<1>2. \A q \in Points : commitments'[q].hash = commitments[q].hash
  BY <1>1 DEF MarkResolved, Present, CommitmentRow
<1> QED
  BY <1>2 DEF CommitmentsSaw, SawInv

LEMMA ScanRegisterMarkGood ==
    ASSUME IInv, SawInv, UNCHANGED seen, NEW s \in Scanners, ScanRegisterMark(s)
    PROVE  Good
<1>1. scan[s] \in ScanThread /\ scan[s].hash \in seen
  BY ScanAt DEF ScanRegisterMark, InOutputs
<1>2. ScanSaw(NextOutput(scan[s]), seen)
  BY <1>1, NextOutputSaw
<1>3. ScansSaw'
  BY <1>2 DEF ScanRegisterMark, SetScan, IInv, ScanOK, SawInv, ScansSaw
<1>4. CommitmentsSaw'
  BY MarkedSaw DEF ScanRegisterMark
<1>5. LedgerStep
  BY Stutters DEF ScanRegisterMark
<1> QED
  BY <1>3, <1>4, <1>5 DEF ScanRegisterMark, Good, SawInv, AnchorsSaw, ResolversSaw,
                          ImportersSaw, VerifiersSaw

LEMMA ScanSaveGood ==
    ASSUME IInv, SawInv, UNCHANGED seen, NEW s \in Scanners, ScanSave(s)
    PROVE  Good
<1>1. scan[s] \in ScanThread
  BY DEF IInv, ScanOK
<1>2. ScanSaw([scan[s] EXCEPT !.pc = "hash", !.next = @ + 1, !.hash = None, !.i = 1], seen)
  BY <1>1 DEF ScanSaw, ScanThread, InOutputs
<1>3. \E l : ScanSaw(l, seen) /\ SetScan(s, l)
  BY <1>1, <1>2, NoHashYet DEF ScanSave
<1>4. UNCHANGED <<chain, batches, commitments, anchors, res, imp, ver>>
  BY DEF ScanSave
<1> QED
  BY <1>3, <1>4, ScanOnly

LEMMA ScanGood ==
    ASSUME IInv, SawInv, UNCHANGED seen, Scan
    PROVE  Good
  BY ScanSearch, ScanRewindGood, ScanHashGood, ScanCommitGood, ScanLookupGood,
     ScanRegisterReadGood, ScanRegisterWriteGood, ScanRegisterMarkGood, ScanSaveGood
     DEF Scan, ScanStep

----------------------------------------------------------------------------
\* The resolver

LEMMA ResolveGood ==
    ASSUME IInv, SawInv, UNCHANGED seen, Resolve
    PROVE  Good
<1>1. PICK r \in Resolvers : ResolveBegin(r) \/ ResolveStep(r)
  BY DEF Resolve
<1>2. res[r] \in ResThread
  BY DEF IInv, ResOK
<1>3. ResSaw(IdleRes, seen)
  BY DEF ResSaw, IdleRes
<1>4. CASE ResolveBegin(r)
  <2>1. PICK Q : SetRes(r, [IdleRes EXCEPT !.pc = "next", !.queue = Q])
    BY <1>4 DEF ResolveBegin
  <2>2. ResSaw([IdleRes EXCEPT !.pc = "next", !.queue = Q], seen)
    BY DEF ResSaw, IdleRes
  <2>3. UNCHANGED <<chain, batches, commitments, anchors, scan, imp, ver>>
    BY <1>4 DEF ResolveBegin
  <2> QED
    BY <2>1, <2>2, <2>3, Stutters, ResOnly
<1>5. CASE ResolveMissing(r)
  <2>1. PICK e : SetRes(r, IF res[r].queue = {e} THEN IdleRes ELSE [res[r] EXCEPT !.queue = @ \ {e}])
    BY <1>5 DEF ResolveMissing
  <2>2. ResSaw([res[r] EXCEPT !.queue = @ \ {e}], seen)
    BY <1>2, <1>5 DEF ResolveMissing, ResSaw, ResThread
  <2>3. UNCHANGED <<chain, batches, commitments, anchors, scan, imp, ver>>
    BY <1>5 DEF ResolveMissing
  <2> QED
    BY <1>3, <2>1, <2>2, <2>3, Stutters, ResOnly
<1>6. ASSUME NEW p \in Points, ResolveImport(r, p) PROVE Good
  <2>1. PICK e : /\ e \in res[r].queue
                 /\ batches' = batches \cup {Manifest[e.pt]}
                 /\ SetRes(r, [res[r] EXCEPT !.pc = "read", !.pt = e.pt, !.queue = @ \ {e}])
    BY <1>6 DEF ResolveImport
  <2>2. ResSaw([res[r] EXCEPT !.pc = "read", !.pt = e.pt, !.queue = @ \ {e}], seen)
    BY <1>2 DEF ResSaw, ResThread
  <2>3. UNCHANGED <<chain, commitments, anchors, scan, imp, ver>>
    BY <1>6 DEF ResolveImport
  <2>4. Manifest[e.pt] \in Batches
    BY <1>2, <2>1, ChainAssumption DEF ResThread
  <2> QED
    BY <2>1, <2>2, <2>3, <2>4, Held, ResOnly
<1>7. CASE ResolveRegisterRead(r)
  <2> DEFINE p == res[r].pt
             l == [res[r] EXCEPT !.pc = "write", !.com = Context(p)]
  <2>1. p \in Present => ResSaw(l, seen)
    <3>1. l.com = Context(p) /\ Context(p).hash = commitments[p].hash
      BY <1>2 DEF ResThread, Context
    <3> QED
      BY <3>1 DEF ResSaw, Present, SawInv, CommitmentsSaw
  <2>2. \E k : ResSaw(k, seen) /\ SetRes(r, k)
    BY <1>3, <1>7, <2>1 DEF ResolveRegisterRead, Findable
  <2>3. UNCHANGED <<chain, batches, commitments, anchors, scan, imp, ver>>
    BY <1>7 DEF ResolveRegisterRead
  <2> QED
    BY <2>2, <2>3, Stutters, ResOnly
<1>8. CASE ResolveRegisterWrite(r)
  <2>1. /\ res[r].pt \in Exact /\ Manifest[res[r].pt] \in batches
        /\ InBlock(res[r].pt, res[r].com) /\ res[r].com.hash \in seen
    BY <1>8 DEF ResolveRegisterWrite, IInv, ResOK, ResKnows, SawInv, ResolversSaw, ResSaw
  <2>2. AnchorsSaw' /\ LedgerStep
    BY <1>8, <2>1, RegisterWritten DEF ResolveRegisterWrite
  <2>3. ResSaw([res[r] EXCEPT !.pc = "mark", !.com = NoContext], seen)
    BY <1>2 DEF ResSaw, ResThread
  <2>4. ResolversSaw'
    BY <1>8, <2>3 DEF ResolveRegisterWrite, SetRes, IInv, ResOK, SawInv, ResolversSaw
  <2> QED
    BY <1>8, <2>2, <2>4 DEF ResolveRegisterWrite, Good, SawInv, CommitmentsSaw, ScansSaw,
                            ImportersSaw, VerifiersSaw
<1>9. CASE ResolveRegisterMark(r)
  <2>1. /\ ResSaw([res[r] EXCEPT !.pc = "again"], seen)
        /\ ResSaw([res[r] EXCEPT !.pc = "next", !.pt = None], seen)
    BY <1>2 DEF ResSaw, ResThread
  <2>2. PICK l : ResSaw(l, seen) /\ SetRes(r, l)
    BY <1>3, <1>9, <2>1 DEF ResolveRegisterMark
  <2>3. ResolversSaw'
    BY <2>2 DEF SetRes, IInv, ResOK, SawInv, ResolversSaw
  <2>4. CommitmentsSaw' /\ LedgerStep
    BY <1>9, MarkedSaw, Stutters DEF ResolveRegisterMark
  <2> QED
    BY <1>9, <2>3, <2>4 DEF ResolveRegisterMark, Good, SawInv, AnchorsSaw, ScansSaw,
                            ImportersSaw, VerifiersSaw
<1> QED
  BY <1>1, <1>4, <1>5, <1>6, <1>7, <1>8, <1>9 DEF ResolveStep

----------------------------------------------------------------------------
\* Importers, publishers, verifiers

LEMMA ImportGood ==
    ASSUME IInv, SawInv, UNCHANGED seen, Import
    PROVE  Good
<1>1. PICK i \in Importers :
        \/ \E p \in Points, b \in Batches, claim \in Claims : ImportRead(i, p, b, claim)
        \/ ImportWrite(i)
  BY DEF Import
<1>2. imp[i] \in ImpThread /\ imp \in [Importers -> ImpThread]
  BY DEF IInv, ImpOK
<1>3. ASSUME NEW p \in Points, NEW b \in Batches, NEW claim \in Claims, ImportRead(i, p, b, claim)
      PROVE  Good
  <2> DEFINE kept == [anchors[p] EXCEPT !.network = Network[b]]
             new == [status |-> "unverified", batch |-> b, network |-> Network[b],
                     hash |-> claim.hash, height |-> claim.height]
  <2>1. RowSaw(kept, seen)
    <3>1. kept.status = anchors[p].status /\ kept.hash = anchors[p].hash
      BY DEF IInv, AnchorsOK, AnchorRow
    <3> QED
      BY <3>1 DEF RowSaw, SawInv, AnchorsSaw
  <2>2. RowSaw(new, seen)
    BY DEF RowSaw
  <2>3. PICK row : RowSaw(row, seen) /\ SetImp(i, [pc |-> "write", pt |-> p, row |-> row])
    BY <1>3, <2>1, <2>2 DEF ImportRead
  <2>4. WriterSaw([pc |-> "write", pt |-> p, row |-> row], seen)
    BY <2>3 DEF WriterSaw
  <2>5. ImportersSaw'
    BY <1>2, <2>3, <2>4 DEF SetImp, SawInv, ImportersSaw
  <2>6. LedgerStep
    BY <1>3, Stutters DEF ImportRead
  <2> QED
    BY <1>3, <2>5, <2>6 DEF ImportRead, Good, SawInv, CommitmentsSaw, AnchorsSaw, ScansSaw,
                            ResolversSaw, VerifiersSaw
<1>4. CASE ImportWrite(i)
  <2>1. /\ imp[i].pt \in Points /\ imp[i].row \in AnchorRow /\ imp[i].row.status # "absent"
        /\ Genuine(imp[i].pt, imp[i].row, batches) /\ RowSaw(imp[i].row, seen)
    BY <1>2, <1>4 DEF ImportWrite, IInv, ImpOK, ImpKnows, ImpThread, SawInv, ImportersSaw, WriterSaw
  <2>2. AnchorsSaw' /\ LedgerStep
    BY <1>4, <2>1, RowWritten DEF ImportWrite, AddAnchor
  <2>3. WriterSaw(IdleImp, seen)
    BY DEF WriterSaw, IdleImp
  <2>4. ImportersSaw'
    BY <1>2, <1>4, <2>3 DEF ImportWrite, SetImp, SawInv, ImportersSaw
  <2> QED
    BY <1>4, <2>2, <2>4 DEF ImportWrite, Good, SawInv, CommitmentsSaw, ScansSaw,
                            ResolversSaw, VerifiersSaw
<1> QED
  BY <1>1, <1>3, <1>4

LEMMA PublishGood ==
    ASSUME IInv, SawInv, UNCHANGED seen, Publish
    PROVE  Good
<1>1. PICK u \in Publishers : (\E p \in Points : PublishSend(u, p)) \/ PublishSave(u)
  BY DEF Publish
<1>2. ASSUME NEW p \in Points, PublishSend(u, p) PROVE Good
  <2>1. LedgerStep
    BY <1>2, Stutters DEF PublishSend
  <2> QED
    BY <1>2, <2>1 DEF PublishSend, Good, SawInv, CommitmentsSaw, AnchorsSaw, ScansSaw,
                      ResolversSaw, ImportersSaw, VerifiersSaw
<1>3. CASE PublishSave(u)
  <2>1. pub[u].pt \in Points
    BY <1>3 DEF PublishSave, IInv, PubOK, PubKnows
  <2>2. PICK row : row = [status |-> "broadcast", batch |-> Manifest[pub[u].pt],
                          network |-> NodeNetwork, hash |-> None, height |-> None]
    OBVIOUS
  <2>3. /\ row \in AnchorRow /\ row.status # "absent"
        /\ Genuine(pub[u].pt, row, batches) /\ RowSaw(row, seen)
    BY <2>1, <2>2, ChainAssumption, NodeAssumption DEF AnchorRow, Status, Genuine, RowSaw
  <2>4. AnchorsSaw' /\ LedgerStep
    BY <1>3, <2>1, <2>2, <2>3, RowWritten DEF PublishSave, AddAnchor
  <2> QED
    BY <1>3, <2>4 DEF PublishSave, Good, SawInv, CommitmentsSaw, ScansSaw, ResolversSaw,
                      ImportersSaw, VerifiersSaw
<1> QED
  BY <1>1, <1>2, <1>3

LEMMA VerifyGood ==
    ASSUME IInv, SawInv, UNCHANGED seen, Verify
    PROVE  Good
<1>1. PICK v \in Verifiers :
        \/ \E p \in Points : VerifyRead(v, p)
        \/ VerifyTransaction(v) \/ VerifyContext(v) \/ VerifyWrite(v) \/ VerifyFail(v)
  BY DEF Verify
<1>2. ver[v] \in VerThread
  BY DEF IInv, VerOK
<1>3. WriterSaw(IdleVer, seen)
  BY DEF WriterSaw, IdleVer
<1>4. ASSUME NEW p \in Points, VerifyRead(v, p) PROVE Good
  <2>1. PICK row : SetVer(v, [IdleVer EXCEPT !.pc = "tx", !.pt = p, !.row = row])
    BY <1>4 DEF VerifyRead
  <2>2. WriterSaw([IdleVer EXCEPT !.pc = "tx", !.pt = p, !.row = row], seen)
    BY DEF WriterSaw, IdleVer
  <2> QED
    BY <1>4, <2>1, <2>2, VerOnly DEF VerifyRead
<1>5. CASE VerifyTransaction(v)
  <2>1. PICK b : SetVer(v, [pc |-> IF b = None THEN "write" ELSE "context", pt |-> ver[v].pt,
                    row |-> [ver[v].row EXCEPT !.status = "broadcast", !.hash = b, !.height = None],
                    mined |-> b \in BlocksOf(chain)])
    BY <1>5 DEF VerifyTransaction
  <2>2. [ver[v].row EXCEPT !.status = "broadcast", !.hash = b, !.height = None].status = "broadcast"
    BY <1>2 DEF VerThread, AnchorRow
  <2>3. PICK l : /\ l = [pc |-> IF b = None THEN "write" ELSE "context", pt |-> ver[v].pt,
                    row |-> [ver[v].row EXCEPT !.status = "broadcast", !.hash = b, !.height = None],
                    mined |-> b \in BlocksOf(chain)]
                 /\ SetVer(v, l)
    BY <2>1
  <2>4. WriterSaw(l, seen)
    <3>1. l.row.status = "broadcast"
      BY <2>2, <2>3
    <3> QED
      BY <3>1 DEF WriterSaw, RowSaw
  <2> QED
    BY <1>5, <2>3, <2>4, VerOnly DEF VerifyTransaction
<1>6. CASE VerifyContext(v)
  <2> DEFINE b == ver[v].row.hash
  <2>1. PICK st : /\ st = "confirmed" => b \in BlocksOf(chain)
                  /\ SetVer(v, [ver[v] EXCEPT !.pc = "write", !.row.height = Height[b],
                                              !.row.status = st])
    BY <1>6 DEF VerifyContext
  <2>2. PICK l : /\ l = [ver[v] EXCEPT !.pc = "write", !.row.height = Height[b],
                                       !.row.status = st]
                 /\ SetVer(v, l)
    BY <2>1
  <2>3. l.row.status = st /\ l.row.hash = b
    BY <1>2, <2>2 DEF VerThread, AnchorRow
  <2>4. WriterSaw(l, seen)
    BY <2>1, <2>3 DEF WriterSaw, RowSaw, SawInv
  <2> QED
    BY <1>6, <2>2, <2>4, VerOnly DEF VerifyContext
<1>7. CASE VerifyWrite(v)
  <2>1. /\ ver[v].pt \in Points /\ ver[v].row \in AnchorRow /\ ver[v].row.status # "absent"
        /\ Genuine(ver[v].pt, ver[v].row, batches) /\ RowSaw(ver[v].row, seen)
    BY <1>2, <1>7, ChainAssumption
       DEF VerifyWrite, IInv, VerOK, VerKnows, VerThread, SawInv, VerifiersSaw, WriterSaw
  <2>2. AnchorsSaw' /\ LedgerStep
    BY <1>7, <2>1, RowWritten DEF VerifyWrite, AddAnchor
  <2>3. VerifiersSaw'
    BY <1>3, <1>7 DEF VerifyWrite, SetVer, IInv, VerOK, SawInv, VerifiersSaw
  <2> QED
    BY <1>7, <2>2, <2>3 DEF VerifyWrite, Good, SawInv, CommitmentsSaw, ScansSaw,
                            ResolversSaw, ImportersSaw
<1>8. CASE VerifyFail(v)
  BY <1>3, <1>8, VerOnly DEF VerifyFail
<1> QED
  BY <1>1, <1>4, <1>5, <1>6, <1>7, <1>8

----------------------------------------------------------------------------
\* The environment

LEMMA EnvironmentGood ==
    ASSUME IInv, SawInv, seen' = seen \cup BlocksOf(chain'), Environment
    PROVE  Good
<1>1. ASSUME NEW c \in Branches, MoveChain(c) PROVE Good
  <2>1. SawInv'
    BY <1>1 DEF MoveChain, SawInv, CommitmentsSaw, AnchorsSaw, RowSaw, ScansSaw, ScanSaw,
                ResolversSaw, ResSaw, ImportersSaw, VerifiersSaw, WriterSaw
  <2>2. Ledger!Observe(c)
    BY <1>1 DEF MoveChain, Ledger!Observe, Ledger!BlocksOf, BlocksOf
  <2> QED
    BY <2>1, <2>2 DEF Good, LedgerStep, Ledger!LedgerNext
<1>2. ASSUME NEW b \in Batches, ImportPackage(b) PROVE Good
  <2>1. UNCHANGED seen
    BY <1>2, SeenStays DEF ImportPackage
  <2>2. LedgerStep
    BY <1>2, <2>1, Held DEF ImportPackage
  <2> QED
    BY <1>2, <2>1, <2>2 DEF ImportPackage, Good, SawInv, CommitmentsSaw, AnchorsSaw, ScansSaw,
                            ResolversSaw, ImportersSaw, VerifiersSaw
<1>3. CASE Crash
  <2>1. UNCHANGED seen
    BY <1>3, SeenStays DEF Crash
  <2>2. LedgerStep
    BY <1>3, <2>1, Stutters DEF Crash
  <2>3. ScansSaw' /\ ResolversSaw' /\ ImportersSaw' /\ VerifiersSaw'
    <3>1. /\ IdleScan.pc = "idle" /\ IdleRes.pc = "idle" /\ IdleImp.pc = "idle"
          /\ IdleVer.pc = "idle"
      BY DEF IdleScan, IdleRes, IdleImp, IdleVer
    <3> QED
      BY <1>3, <3>1 DEF Crash, ScansSaw, ScanSaw, ResolversSaw, ResSaw, ImportersSaw,
                        VerifiersSaw, WriterSaw, InOutputs
  <2> QED
    BY <1>3, <2>1, <2>2, <2>3 DEF Crash, Good, SawInv, CommitmentsSaw, AnchorsSaw
<1> QED
  BY <1>1, <1>2, <1>3 DEF Environment

----------------------------------------------------------------------------
LEMMA HistoryInitOK == HistoryInit => IInv /\ SawInv /\ Ledger!LedgerInit
<1> SUFFICES ASSUME HistoryInit PROVE IInv /\ SawInv /\ Ledger!LedgerInit
  OBVIOUS
<1>1. IInv
  BY InitOK DEF HistoryInit
<1>2. \A p \in Points : commitments[p] = NoCommitment /\ anchors[p] = NoAnchor
  BY DEF HistoryInit, Init
<1>3. NoCommitment.hash = None /\ NoAnchor.status = "absent"
  BY DEF NoCommitment, NoAnchor
<1>4. /\ IdleScan.pc = "idle" /\ IdleRes.pc = "idle" /\ IdleImp.pc = "idle"
      /\ IdleVer.pc = "idle"
  BY DEF IdleScan, IdleRes, IdleImp, IdleVer
<1>5. SawInv
  BY <1>2, <1>3, <1>4 DEF HistoryInit, Init, SawInv, CommitmentsSaw, AnchorsSaw, RowSaw,
     ScansSaw, ScanSaw, ResolversSaw, ResSaw, ImportersSaw, VerifiersSaw, WriterSaw, InOutputs
<1>6. Ledger!LedgerInit
  <2>1. \A p \in Points : Entry(anchors[p]) = [status |-> "absent", block |-> None]
    BY <1>2, <1>3 DEF Entry
  <2>2. [p \in Points |-> Entry(anchors[p])] = [p \in Points |-> [status |-> "absent", block |-> None]]
    BY <2>1
  <2> QED
    BY <2>2 DEF HistoryInit, Init, Ledger!LedgerInit, Ledger!Report, Ledger!BlocksOf, BlocksOf
<1> QED
  BY <1>1, <1>5, <1>6

LEMMA HistoryNextOK ==
    IInv /\ SawInv /\ [HistoryNext]_historyVars => IInv' /\ SawInv' /\ LedgerStep
<1> SUFFICES ASSUME IInv, SawInv, [HistoryNext]_historyVars
             PROVE  IInv' /\ SawInv' /\ LedgerStep
  OBVIOUS
<1>1. IInv'
  BY NextOK DEF HistoryNext, historyVars
<1>2. CASE HistoryNext
  <2>1. CASE Environment
    BY <1>1, <1>2, <2>1, EnvironmentGood DEF HistoryNext, Good
  <2>2. CASE Scan \/ Resolve \/ Import \/ Publish \/ Verify
    <3>1. UNCHANGED chain
      BY <2>2, ZenonT(40) DEF Scan, ScanStep, Resolve, ResolveStep, Import, Publish, Verify,
         ScanBegin, ScanStored, ScanCheck, ScanWalk, ScanCompare, ScanRewind, ScanHash,
         ScanCommit, ScanLookup, ScanRegisterRead, ScanRegisterWrite, ScanRegisterMark,
         ScanSave, ResolveBegin, ResolveMissing, ResolveImport, ResolveRegisterRead,
         ResolveRegisterWrite, ResolveRegisterMark, ImportRead, ImportWrite, PublishSend,
         PublishSave, VerifyRead, VerifyTransaction, VerifyContext, VerifyWrite, VerifyFail
    <3>2. UNCHANGED seen
      BY <1>2, <3>1, SeenStays DEF HistoryNext
    <3> QED
      BY <1>1, <2>2, <3>2, ScanGood, ResolveGood, ImportGood, PublishGood, VerifyGood DEF Good
  <2> QED
    BY <1>2, <2>1, <2>2 DEF HistoryNext, Next
<1>3. CASE UNCHANGED historyVars
  <2>1. LedgerStep
    BY <1>3, Stutters DEF historyVars, vars
  <2> QED
    BY <1>1, <1>3, <2>1 DEF historyVars, vars, SawInv, CommitmentsSaw, AnchorsSaw, ScansSaw,
       ResolversSaw, ImportersSaw, VerifiersSaw
<1> QED
  BY <1>2, <1>3

(***************************************************************************)
(* Whatever chain, threads, peers, crashes and RPC errors there are, the   *)
(* node's writes to the anchors table are those the ledger allows: a       *)
(* confirmation only of the batch and in a block that was active, no       *)
(* report ever forgotten.                                                  *)
(***************************************************************************)
THEOREM LedgerImplemented == HistorySpec => ImplementsLedger
<1>1. HistoryInit => IInv /\ SawInv /\ Ledger!LedgerInit
  BY HistoryInitOK
<1>2. IInv /\ SawInv /\ [HistoryNext]_historyVars => IInv' /\ SawInv' /\ LedgerStep
  BY HistoryNextOK
<1> QED
  BY <1>1, <1>2, PTL DEF HistorySpec, ImplementsLedger, Ledger!LedgerSpec, LedgerStep

HIDE DEF chainVars, tables, threads
=============================================================================
