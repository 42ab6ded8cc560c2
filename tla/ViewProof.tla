----------------------------- MODULE ViewProof -----------------------------
(* The properties of Discovery, which looks at a claim in one step, and of  *)
(* View, which reads it call by call while writers go on: ListedByDecision, *)
(* BurnersCannotHide, ClassificationOnlyRises and ViewRespectsKnown for     *)
(* every set of linked records, every trust store and every length of the   *)
(* window and of the cooling period.                                        *)
EXTENDS View, FiniteSetTheorems, TLAPS

\* A record that has not arrived has no anchor.
IInv ==
    /\ TypeOK
    /\ \A s \in Slots : s \notin linked => confirmed[s] = {}

LEMMA ImpactType ==
    ASSUME NEW T \in SUBSET ImpactTags
    PROVE  DeclaredPersonImpact(T) \in ImpactTags \cup {"uncertain", "missing"}
BY DEF DeclaredPersonImpact

LEMMA InitHolds ==
    ASSUME Bodies # {}
    PROVE  Init => IInv
<1> SUFFICES ASSUME Init PROVE IInv
  OBVIOUS
<1>1. impact \in ImpactTags \cup {"uncertain", "missing"}
  BY ImpactType DEF Init
<1>2. (CHOOSE b \in Bodies : TRUE) \in Bodies
  OBVIOUS
<1>3. TypeOK
  BY <1>1, <1>2, ProfileAssumption DEF Init, TypeOK
<1> QED
  BY <1>3 DEF Init, IInv, Records

LEMMA NextHolds ==
    IInv /\ [Next]_vars => IInv'
<1> SUFFICES ASSUME IInv, [Next]_vars PROVE IInv'
  OBVIOUS
<1>1. ASSUME NEW s \in Slots, NEW b \in Bodies, Receive(s, b) PROVE IInv'
  <2>1. TypeOK'
    BY <1>1 DEF IInv, TypeOK, Receive
  <2> QED
    BY <1>1, <2>1 DEF IInv, Receive
<1>2. ASSUME NEW r \in Records, NEW h \in Heights, Confirm(r, h) PROVE IInv'
  <2>1. TypeOK'
    BY <1>2 DEF IInv, TypeOK, Confirm
  <2> QED
    BY <1>2, <2>1, ProfileAssumption DEF IInv, TypeOK, Confirm, Records
<1>3. ASSUME NEW r \in Records, NEW h \in Heights, Verify(r, h) PROVE IInv'
  <2>1. TypeOK'
    BY <1>3 DEF IInv, TypeOK, Verify
  <2> QED
    BY <1>3, <2>1, ProfileAssumption DEF IInv, TypeOK, Verify, Records
<1>4. ASSUME NEW r \in Records, NEW h \in Heights, Commit(r, h) PROVE IInv'
  <2>1. tip + 1 \in Heights
    BY <1>4, ProfileAssumption DEF IInv, TypeOK, Commit, Heights
  <2>2. TypeOK'
    BY <1>4, <2>1 DEF IInv, TypeOK, Commit
  <2>3. confirmed[r] # {}
    BY <1>4 DEF IInv, TypeOK, Commit
  <2> QED
    BY <1>4, <2>2, <2>3 DEF IInv, TypeOK, Commit, Records
<1>5. ASSUME NEW r \in Records, NEW h \in Heights, Demote(r, h) PROVE IInv'
  <2>1. TypeOK'
    BY <1>5 DEF IInv, TypeOK, Demote
  <2> QED
    BY <1>5, <2>1 DEF IInv, TypeOK, Demote, Records
<1>6. CASE ScanBlock
  BY <1>6, ProfileAssumption DEF IInv, TypeOK, ScanBlock
<1>7. ASSUME NEW h \in 0..MaxHeight, Rewind(h) PROVE IInv'
  <2>1. \A r \in Records : confirmed'[r] = {x \in confirmed[r] : x <= h} \cup loose[r]
    BY <1>7 DEF Rewind
  <2>2. \A r \in Records : confirmed'[r] \subseteq confirmed[r] /\ loose[r] \subseteq confirmed'[r]
    BY <2>1 DEF IInv, TypeOK
  <2>3. confirmed' \in [Records -> SUBSET Heights]
    BY <1>7 DEF IInv, TypeOK, Rewind
  <2>4. TypeOK'
    BY <1>7, <2>2, <2>3 DEF IInv, TypeOK, Rewind
  <2> QED
    BY <1>7, <2>2, <2>4 DEF IInv, Rewind, Records
<1>8. CASE UNCHANGED vars
  BY <1>8 DEF IInv, TypeOK, vars
<1> QED
  BY <1>1, <1>2, <1>3, <1>4, <1>5, <1>6, <1>7, <1>8 DEF Next

LEMMA Invariance ==
    ASSUME Bodies # {}
    PROVE  Spec => []IInv
BY InitHolds, NextHolds, PTL DEF Spec
-----------------------------------------------------------------------------

\* What a step that loses nothing does to the tables.
LEMMA StepGrows ==
    ASSUME IInv, Next, Lossless
    PROVE  /\ impact' = impact
           /\ tip <= tip'
           /\ \A r \in Records : confirmed[r] \subseteq confirmed'[r]
           /\ linked \subseteq linked' /\ linked' \subseteq Slots
           /\ \A s \in Slots : confirmed[s] # {} => s \in linked /\ s \in linked' /\ body'[s] = body[s]
           /\ \A s \in Slots : confirmed'[s] # {} => s \in linked
                                                     /\ s \in linked' /\ body'[s] = body[s]
<1>1. CASE \E s \in Slots, b \in Bodies : Receive(s, b)
  <2>1. PICK s \in Slots, b \in Bodies : Receive(s, b)
    BY <1>1
  <2>2. /\ impact' = impact /\ confirmed' = confirmed
        /\ linked \subseteq linked' /\ linked' \subseteq Slots
        /\ \A u \in linked : body'[u] = body[u]
    BY <2>1 DEF Receive, IInv, TypeOK
  <2> QED
    BY <2>2 DEF IInv, Lossless
<1>2. CASE ~ \E s \in Slots, b \in Bodies : Receive(s, b)
  <2>1. impact' = impact /\ linked' = linked /\ body' = body
    BY <1>2 DEF Next, Confirm, Verify, Commit, Demote, ScanBlock, Rewind
  <2>2. IInv'
    BY NextHolds
  <2> QED
    BY <2>1, <2>2 DEF IInv, TypeOK, Lossless
<1> QED
  BY <1>1, <1>2

\* Anchored records of a kind stay.
LEMMA AnchoredGrow ==
    ASSUME IInv, Next, Lossless, NEW k \in Kinds
    PROVE  AnchoredOf(k) \subseteq AnchoredOf(k)'
<1> SUFFICES ASSUME NEW s \in AnchoredOf(k) PROVE s \in AnchoredOf(k)'
  OBVIOUS
<1>1. s \in Slots /\ s \in Records /\ confirmed[s] # {} /\ body[s].kind = k
  BY DEF AnchoredOf, Anchored, IInv, TypeOK, Records
<1>2. s \in linked' /\ body'[s] = body[s] /\ confirmed'[s] # {}
  BY <1>1, StepGrows
<1> QED
  BY <1>1, <1>2 DEF AnchoredOf, Anchored

\* The recognised acts decide on restrictions and decisions.
LEMMA SameActs ==
    ASSUME IInv, Next, Lossless, RecognisedActs' = RecognisedActs
    PROVE  /\ RecognisedRestrictions' = RecognisedRestrictions
           /\ Decisions("enable")' = Decisions("enable")
           /\ Decisions("restrict")' = Decisions("restrict")
<1>1. linked \subseteq Slots /\ linked' \subseteq Slots /\ Slots \subseteq Records
  BY StepGrows DEF IInv, TypeOK, Records
<1>2. \A s \in RecognisedActs : body'[s] = body[s]
  BY <1>1, StepGrows DEF RecognisedActs, Anchored
<1>3. RecognisedRestrictions = {s \in RecognisedActs : body[s].kind = "restriction_notice"}
  BY DEF RecognisedRestrictions, RecognisedActs, AnchoredOf
<1>4. RecognisedRestrictions' = {s \in RecognisedActs' : body'[s].kind = "restriction_notice"}
  BY DEF RecognisedRestrictions, RecognisedActs, AnchoredOf
<1>5. ASSUME NEW a \in Actions
      PROVE  /\ Decisions(a) = {s \in RecognisedActs : /\ body[s].kind = "view_decision"
                                                       /\ body[s].action = a}
             /\ Decisions(a)' = {s \in RecognisedActs' : /\ body'[s].kind = "view_decision"
                                                         /\ body'[s].action = a}
  BY DEF Decisions, RecognisedActs, AnchoredOf
<1>6. RecognisedRestrictions' = RecognisedRestrictions
  BY <1>2, <1>3, <1>4
<1>7. ASSUME NEW a \in Actions PROVE Decisions(a)' = Decisions(a)
  BY <1>2, <1>5, ZenonT(40)
<1>8. "enable" \in Actions /\ "restrict" \in Actions
  BY DEF Actions
<1> QED
  BY <1>6, <1>7, <1>8

\* After the first window, on a node with a scanned block, nothing that unrecognised authors publish takes a
\* listed claim out of the feed again (later_burner_notices_extend_window).
THEOREM BurnersBounded ==
    ASSUME Bodies # {}
    PROVE  Spec => BurnersCannotHide
<1>1. ASSUME IInv, [Next]_vars, Listed, tip > 0, NoticeHeights # {}, ~ WindowActive,
             Lossless, RecognisedActs' = RecognisedActs, ~ UNCHANGED vars
      PROVE  Listed'
  <2>1. Next
    BY <1>1
  <2>2. /\ impact' = impact /\ tip <= tip' /\ tip \in Int /\ tip' \in Int
        /\ \A r \in Records : confirmed[r] \subseteq confirmed'[r]
    <3>1. tip \in Int /\ tip' \in Int
      BY <1>1, NextHolds, ProfileAssumption DEF IInv, TypeOK
    <3> QED
      BY <1>1, <2>1, <3>1, StepGrows
  <2>3. \E h \in NoticeHeights : ~ (tip < h + NoticeBlocks)
    BY <1>1 DEF WindowActive
  <2>4. NoticeHeights \subseteq NoticeHeights'
    <3>1. ASSUME NEW h \in NoticeHeights PROVE h \in NoticeHeights'
      <4>1. PICK s \in Notices : h \in HeightsOf(s)
        BY DEF NoticeHeights
      <4>2. s \in Slots /\ s \in Records /\ confirmed[s] # {}
        BY <1>1, <4>1 DEF Notices, AnchoredOf, IInv, TypeOK, Records, HeightsOf
      <4>3. s \in linked' /\ body'[s] = body[s] /\ h \in confirmed'[s] /\ h \in Heights
        BY <1>1, <2>1, <4>1, <4>2, StepGrows DEF HeightsOf
      <4>4. s \in Notices'
        BY <4>1, <4>3 DEF Notices, AnchoredOf, Anchored
      <4> QED
        BY <4>3, <4>4 DEF NoticeHeights, HeightsOf
    <3> QED
      BY <3>1
  <2>5. ~ WindowActive'
    <3>1. PICK h \in NoticeHeights : ~ (tip < h + NoticeBlocks)
      BY <2>3
    <3>2. h \in Int
      BY DEF NoticeHeights, HeightsOf, Heights
    <3>3. h \in NoticeHeights' /\ ~ (tip' < h + NoticeBlocks)
      BY <2>2, <2>4, <3>1, <3>2, ProfileAssumption
    <3> QED
      BY <3>3 DEF WindowActive
  <2>6. Anchored(Claim) /\ Anchored(Claim)'
    BY <1>1, <2>2 DEF Listed, DiscoveryState, Anchored, Records
  <2>7. CoolingComplete => CoolingComplete'
    <3> SUFFICES ASSUME CoolingComplete PROVE CoolingComplete'
      OBVIOUS
    <3>1. PICK h \in HeightsOf(Claim) : CoolingBlocks = 0 \/ tip >= h + CoolingBlocks
      BY DEF CoolingComplete
    <3>2. h \in HeightsOf(Claim)' /\ h \in Int
      BY <2>2 DEF Records, HeightsOf, Heights
    <3> QED
      BY <2>2, <3>1, <3>2, ProfileAssumption DEF CoolingComplete
  <2>8. ~ Protected
    BY <1>1 DEF Listed, DiscoveryState
  <2>9. ~ Protected'
    <3>1. /\ RecognisedRestrictions' = RecognisedRestrictions
          /\ Decisions("enable")' = Decisions("enable")
          /\ Decisions("restrict")' = Decisions("restrict")
      BY <1>1, <2>1, SameActs
    <3>2. CASE ~ HasReason
      BY <2>2, <2>5, <2>6, <2>8, <3>1, <3>2 DEF Protected, HasReason
    <3>3. CASE Enabled
      BY <2>5, <2>7, <2>8, <3>1, <3>3 DEF Protected, Enabled
    <3> QED
      BY <2>8, <3>2, <3>3 DEF Protected
  <2> QED
    BY <2>6, <2>9 DEF Listed, DiscoveryState
<1>2. IInv /\ [Next]_vars =>
        [Listed /\ tip > 0 /\ NoticeHeights # {} /\ ~ WindowActive /\ Lossless
         /\ RecognisedActs' = RecognisedActs => Listed']_vars
  BY <1>1
<1> QED
  BY <1>2, Invariance, PTL DEF Spec, BurnersCannotHide
-----------------------------------------------------------------------------

\* Every table keeps its type.
THEOREM TypeCorrect ==
    ASSUME Bodies # {}
    PROVE  Spec => []TypeOK
BY Invariance, PTL DEF IInv

\* A claim whose declared impact is not none is listed only by a decision in
\* force, after the cooling period (assess_responsible_publication).
THEOREM ListingsAreDecided ==
    ASSUME Bodies # {}
    PROVE  Spec => []ListedByDecision
<1>1. IInv => ListedByDecision
  <2> SUFFICES ASSUME IInv, Listed, impact # "none"
               PROVE  ListedByDecision
    BY DEF ListedByDecision
  <2>1. Decisions("restrict") = {} /\ Enabled
    BY DEF Listed, DiscoveryState, Protected, HasReason
  <2>2. PICK d \in Decisions("enable") : TRUE
    BY <2>1 DEF Enabled
  <2>3. /\ d \in linked /\ confirmed[d] # {} /\ body[d].author \in Recognised
        /\ body[d].kind = "view_decision" /\ body[d].action = "enable"
    BY <2>2 DEF Decisions, AnchoredOf, Anchored
  <2>4. \E h \in confirmed[Claim] : CoolingBlocks = 0 \/ h + CoolingBlocks <= tip
    <3>1. PICK h \in HeightsOf(Claim) : CoolingBlocks = 0 \/ tip >= h + CoolingBlocks
      BY <2>1 DEF Enabled, CoolingComplete
    <3>2. h \in confirmed[Claim] /\ h \in Int /\ tip \in Int
      BY DEF HeightsOf, Heights, IInv, TypeOK
    <3> QED
      BY <3>1, <3>2, ProfileAssumption
  <2>5. ASSUME NEW s \in linked, confirmed[s] # {}, body[s].author \in Recognised
        PROVE  /\ body[s].kind # "restriction_notice"
               /\ ~ (body[s].kind = "view_decision" /\ body[s].action = "restrict")
    <3>1. RecognisedRestrictions = {}
      BY <2>1 DEF Enabled
    <3> QED
      BY <2>1, <2>5, <3>1 DEF RecognisedRestrictions, Decisions, AnchoredOf, Anchored
  <2> QED
    BY <2>3, <2>4, <2>5 DEF ListedByDecision
<1> QED
  BY <1>1, Invariance, PTL

LEMMA AuthorsFinite ==
    ASSUME NEW S \in SUBSET Slots, NEW f
    PROVE  IsFiniteSet({f[s].author : s \in S})
<1> DEFINE T == {f[s].author : s \in S}
           g == [s \in S |-> f[s].author]
<1>1. IsFiniteSet(S)
  BY ProfileAssumption, FS_Subset
<1>2. g \in Surjection(S, T)
  BY DEF Surjection
<1> HIDE DEF g, T
<1>3. IsFiniteSet(T)
  BY <1>1, <1>2, FS_Surjection
<1> QED
  BY <1>3 DEF T

\* Attesters are finitely many, and without a loss their number grows.
LEMMA AttestersGrow ==
    ASSUME IInv, Next, Lossless
    PROVE  /\ Cardinality(Attesters) \in Nat
           /\ Cardinality(Attesters') \in Nat
           /\ Cardinality(Attesters) <= Cardinality(Attesters')
<1>1. linked \subseteq Slots /\ linked' \subseteq Slots
  BY StepGrows DEF IInv, TypeOK
<1>2. IsFiniteSet(Attesters)
  <2>1. AnchoredOf("attestation") \in SUBSET Slots
    BY <1>1 DEF AnchoredOf
  <2>2. IsFiniteSet({body[s].author : s \in AnchoredOf("attestation")})
    BY <2>1, AuthorsFinite
  <2> QED
    BY <2>2, FS_Difference DEF Attesters
<1>3. IsFiniteSet(Attesters')
  <2>1. AnchoredOf("attestation")' \in SUBSET Slots
    BY <1>1 DEF AnchoredOf
  <2>2. IsFiniteSet({body'[s].author : s \in AnchoredOf("attestation")'})
    BY <2>1, AuthorsFinite
  <2> QED
    BY <2>2, FS_Difference DEF Attesters
<1>4. AnchoredOf("attestation") \subseteq AnchoredOf("attestation")'
  BY <1>1, AnchoredGrow DEF Kinds
<1>5. \A s \in AnchoredOf("attestation") : body'[s] = body[s]
  BY <1>1, StepGrows DEF AnchoredOf, Anchored
<1>6. Attesters \subseteq Attesters'
  BY <1>4, <1>5 DEF Attesters
<1> QED
  BY <1>2, <1>3, <1>6, FS_Subset, FS_CardinalityType

\* While no anchor is demoted the classification never falls back: no number of
\* attestations covers up a dispute or a correction (assess_record).
THEOREM ClassificationRises ==
    ASSUME Bodies # {}
    PROVE  Spec => ClassificationOnlyRises
<1>1. ASSUME IInv, [Next]_vars, Lossless, ~ UNCHANGED vars
      PROVE  Rank[Classification] <= Rank[Classification']
  <2>1. Next
    BY <1>1
  <2>2. \A k \in Kinds : AnchoredOf(k) \subseteq AnchoredOf(k)'
    BY <1>1, <2>1, AnchoredGrow
  <2>3. Anchored(Claim) => Anchored(Claim)'
    BY <1>1, <2>1, StepGrows DEF Anchored, Records
  <2>4. /\ Cardinality(Attesters) \in Nat /\ Cardinality(Attesters') \in Nat
        /\ Cardinality(Attesters) <= Cardinality(Attesters')
    BY <1>1, <2>1, AttestersGrow
  <2>5. /\ AnchoredOf("dispute") # {} => AnchoredOf("dispute")' # {}
        /\ AnchoredOf("correction") # {} => AnchoredOf("correction")' # {}
    BY <2>2 DEF Kinds
  <2> QED
    BY <2>3, <2>4, <2>5 DEF Classification, Rank
<1>2. IInv /\ [Next]_vars =>
        [Lossless => Rank[Classification] <= Rank[Classification']]_vars
  BY <1>1
<1> QED
  BY <1>2, Invariance, PTL DEF Spec, ClassificationOnlyRises

----------------------------------------------------------------------------
(***************************************************************************)
(* One call of responsible_publication_view.                               *)
(***************************************************************************)

NoticeKinds == {"person_impact_notice", "restriction_notice"}

\* The record s is a restriction by a recognised author.
Bars(s) ==
    /\ body[s].author \in Recognised
    /\ \/ body[s].kind = "restriction_notice"
       \/ body[s].kind = "view_decision" /\ body[s].action = "restrict"

ViewType ==
    view \in [pc : {"idle", "anchored", "heights", "tip", "done"},
              linked : SUBSET Slots, anchored : SUBSET Records, todo : SUBSET Records,
              heights : [Records -> SUBSET Heights], tip : 0 .. MaxHeight,
              barred : BOOLEAN, noticed : BOOLEAN, quiet : BOOLEAN, writes : Nat]

\* What was read is still there, as long as nothing is withdrawn.
StillThere ==
    /\ view.linked \subseteq linked
    /\ \A r \in view.anchored : Anchored(r)
    /\ \A r \in Records : view.heights[r] \subseteq confirmed[r]

\* What held when the call began has a record that shows it, which is found
\* anchored if anchored_record_ids has been called.
Reasons ==
    LET among == IF view.pc = "anchored" THEN view.linked
                 ELSE view.linked \cap view.anchored
    IN  /\ view.barred => \E s \in among : Anchored(s) /\ Bars(s)
        /\ view.noticed => \E s \in among : Anchored(s) /\ body[s].kind \in NoticeKinds

\* A record that was found anchored has a height once it was asked for one.
HasHeight ==
    \A r \in view.anchored \ view.todo : view.heights[r] # {}

Knows ==
    /\ StillThere /\ Reasons /\ HasHeight
    /\ view.pc = "anchored" => view.anchored = {}
    /\ view.pc \in {"tip", "done"} => view.todo = {}
    /\ view.pc = "done" => view.tip <= tip

VInv == /\ IInv /\ ViewType
        /\ view.pc = "idle" => view = NoView
        /\ view.pc # "idle" /\ view.quiet => Knows

\* The invariant holds before the first call.
LEMMA ViewInitHolds ==
    ASSUME Bodies # {}
    PROVE  ViewInit => VInv
<1> SUFFICES ASSUME ViewInit PROVE VInv
  OBVIOUS
<1>1. IInv
  BY InitHolds DEF ViewInit
<1>2. ViewType
  BY ProfileAssumption DEF ViewInit, NoView, ViewType
<1> QED
  BY <1>1, <1>2 DEF VInv, ViewInit, NoView

\* linked_records
LEMMA LinkedHolds ==
    ASSUME VInv, ViewLinked PROVE VInv'
<1>1. IInv' /\ view = NoView
  BY DEF VInv, ViewLinked, IInv, TypeOK, vars
<1>2. NoticeHeights \subseteq Heights /\ linked \subseteq Slots
  BY DEF NoticeHeights, HeightsOf, VInv, IInv, TypeOK
<1>3. ViewType'
  BY <1>2 DEF VInv, ViewType, ViewLinked
<1>4. /\ view'.pc = "anchored" /\ view'.linked = linked /\ view'.anchored = {}
      /\ view'.heights = [r \in Records |-> {}]
      /\ view'.barred = (RecognisedRestrictions \cup Decisions("restrict") # {})
      /\ view'.noticed = (NoticeHeights # {})
      /\ UNCHANGED vars
  BY <1>1 DEF ViewLinked, NoView
<1>5. StillThere'
  BY <1>4 DEF StillThere, vars
<1>6. view'.barred => \E s \in linked : Anchored(s)' /\ Bars(s)'
  BY <1>4 DEF RecognisedRestrictions, Decisions, AnchoredOf, Anchored, Bars, vars
<1>7. view'.noticed => \E s \in linked : Anchored(s)' /\ body'[s].kind \in NoticeKinds
  BY <1>4 DEF NoticeHeights, HeightsOf, Notices, AnchoredOf, Anchored, NoticeKinds, vars
<1>8. Reasons'
  BY <1>4, <1>6, <1>7 DEF Reasons
<1> QED
  BY <1>1, <1>3, <1>4, <1>5, <1>8 DEF VInv, Knows, HasHeight

\* anchored_record_ids
LEMMA AnchoredHolds ==
    ASSUME VInv, ViewAnchored PROVE VInv'
<1>1. IInv' /\ UNCHANGED vars
  BY DEF VInv, ViewAnchored, IInv, TypeOK, vars
<1>2. ViewType'
  BY DEF VInv, ViewType, ViewAnchored, Related, Records
<1>3. /\ view.pc = "anchored" /\ view'.pc = "heights" /\ view'.linked = view.linked
      /\ view'.todo = view.linked \cup {Claim}
      /\ view'.anchored = {r \in view.linked \cup {Claim} : Anchored(r)}
      /\ view'.heights = view.heights /\ view'.quiet = view.quiet
      /\ view'.barred = view.barred /\ view'.noticed = view.noticed
  BY DEF ViewAnchored, Related, VInv, ViewType
<1>4. ASSUME view.quiet PROVE Knows'
  <2>1. StillThere /\ Reasons
    BY <1>3, <1>4 DEF VInv, Knows
  <2>2. StillThere'
    BY <1>1, <1>3, <2>1 DEF StillThere, Anchored, vars
  <2>3. Reasons'
    BY <1>1, <1>3, <2>1 DEF Reasons, Anchored, Bars, vars
  <2>4. HasHeight'
    BY <1>3 DEF HasHeight
  <2> QED
    BY <1>3, <2>2, <2>3, <2>4 DEF Knows
<1> QED
  BY <1>1, <1>2, <1>3, <1>4 DEF VInv

\* confirmed_anchor_height_for_record
LEMMA HeightsHolds ==
    ASSUME VInv, NEW r \in Records, ViewHeights(r) PROVE VInv'
<1>1. IInv' /\ UNCHANGED vars
  BY DEF VInv, ViewHeights, IInv, TypeOK, vars
<1>2. HeightsOf(r) = confirmed[r] /\ confirmed[r] \subseteq Heights
  BY DEF HeightsOf, VInv, IInv, TypeOK
<1> DEFINE found == IF r \in view.anchored THEN HeightsOf(r) ELSE {}
<1>3. /\ view.pc = "heights" /\ view'.pc \in {"heights", "tip"} /\ view'.linked = view.linked
      /\ view'.todo = view.todo \ {r} /\ r \in view.todo
      /\ view'.anchored = view.anchored
      /\ view'.heights = [view.heights EXCEPT ![r] = found]
      /\ view'.quiet = view.quiet /\ view'.tip = view.tip
      /\ view'.barred = view.barred /\ view'.noticed = view.noticed
      /\ view'.pc = "tip" => view'.todo = {}
  BY DEF ViewHeights, VInv, ViewType
<1>4. found \subseteq Heights /\ found \subseteq confirmed[r] /\ (r \in view.anchored => found = confirmed[r])
  BY <1>2
<1> HIDE DEF found
<1>5. ViewType'
  <2>1. view' = [view EXCEPT !.todo = @ \ {r}, !.heights[r] = found,
                             !.pc = IF view.todo = {r} THEN "tip" ELSE "heights"]
    BY DEF ViewHeights, found
  <2> QED
    BY <1>4, <2>1 DEF VInv, ViewType
<1>6. ASSUME view.quiet PROVE Knows'
  <2>1. StillThere /\ Reasons /\ HasHeight /\ view.heights \in [Records -> SUBSET Heights]
    BY <1>3, <1>6 DEF VInv, Knows, ViewType
  <2>2. StillThere'
    BY <1>1, <1>3, <1>4, <2>1 DEF StillThere, Anchored, vars
  <2>3. Reasons'
    BY <1>1, <1>3, <2>1 DEF Reasons, Anchored, Bars, vars
  <2>4. HasHeight'
    <3>1. r \in view.anchored => found # {}
      BY <1>4, <2>1 DEF StillThere, Anchored
    <3> QED
      BY <1>3, <2>1, <3>1 DEF HasHeight, VInv, ViewType
  <2> QED
    BY <1>3, <2>2, <2>3, <2>4 DEF Knows
<1> QED
  BY <1>1, <1>3, <1>5, <1>6 DEF VInv

\* latest_scanned_block
LEMMA TipHolds ==
    ASSUME VInv, ViewTip PROVE VInv'
<1>1. IInv' /\ UNCHANGED vars
  BY DEF VInv, ViewTip, IInv, TypeOK, vars
<1>2. ViewType'
  BY DEF VInv, ViewType, ViewTip, IInv, TypeOK
<1>3. /\ view.pc = "tip" /\ view'.pc = "done" /\ view'.linked = view.linked
      /\ view'.todo = view.todo /\ view'.anchored = view.anchored
      /\ view'.heights = view.heights /\ view'.quiet = view.quiet /\ view'.tip = tip
      /\ view'.barred = view.barred /\ view'.noticed = view.noticed
  BY DEF ViewTip, VInv, ViewType
<1>4. ASSUME view.quiet PROVE Knows'
  <2>1. StillThere /\ Reasons /\ HasHeight /\ view.todo = {}
    BY <1>3, <1>4 DEF VInv, Knows
  <2>2. StillThere' /\ HasHeight'
    BY <1>1, <1>3, <2>1 DEF StillThere, HasHeight, Anchored, vars
  <2>3. Reasons'
    BY <1>1, <1>3, <2>1 DEF Reasons, Anchored, Bars, vars
  <2>4. tip \in 0 .. MaxHeight
    BY DEF VInv, IInv, TypeOK
  <2> QED
    BY <1>1, <1>3, <2>1, <2>2, <2>3, <2>4, ProfileAssumption DEF Knows, vars
<1> QED
  BY <1>1, <1>2, <1>3, <1>4 DEF VInv

\* A writer before the call
LEMMA BeforeHolds ==
    ASSUME VInv, Before PROVE VInv'
<1>1. IInv' /\ view' = view /\ view.pc = "idle"
  BY NextHolds DEF VInv, Before
<1> QED
  BY <1>1 DEF VInv, ViewType, NoView

\* Writers between two reads: as long as nothing is withdrawn rows only arrive.
LEMMA MeanwhileHolds ==
    ASSUME VInv, Meanwhile PROVE VInv'
<1>1. IInv'
  BY NextHolds DEF VInv, Meanwhile
<1>2. ViewType'
  <2> DEFINE q == view.quiet /\ Lossless
             n == view.writes + 1
  <2>1. view' = [view EXCEPT !.writes = n, !.quiet = q]
    BY Zenon DEF Meanwhile
  <2>2. q \in BOOLEAN
    OBVIOUS
  <2>3. n \in Nat
    BY DEF VInv, ViewType
  <2> HIDE DEF q, n
  <2> QED
    BY <2>1, <2>2, <2>3 DEF VInv, ViewType
<1>3. /\ view'.pc = view.pc /\ view.pc # "done" /\ view.pc # "idle" /\ view'.linked = view.linked
      /\ view'.todo = view.todo /\ view'.anchored = view.anchored
      /\ view'.heights = view.heights /\ view'.tip = view.tip
      /\ view'.barred = view.barred /\ view'.noticed = view.noticed
      /\ view'.quiet = (view.quiet /\ Lossless)
  BY DEF Meanwhile, VInv, ViewType
<1>4. ASSUME view'.quiet PROVE Knows'
  <2>1. view.quiet /\ Lossless /\ IInv /\ Next
    BY <1>3, <1>4 DEF VInv, Meanwhile
  <2>2. StillThere /\ Reasons /\ HasHeight
        /\ (view.pc = "anchored" => view.anchored = {})
        /\ (view.pc = "tip" => view.todo = {})
    BY <1>3, <2>1 DEF VInv, Knows
  <2>3. /\ \A q \in Records : confirmed[q] \subseteq confirmed'[q]
        /\ \A s \in Slots : confirmed[s] # {} => s \in linked' /\ body'[s] = body[s]
        /\ linked \subseteq linked'
    BY <2>1, StepGrows
  <2>4. view.linked \subseteq Slots /\ view.anchored \subseteq Records /\ Slots \subseteq Records
    BY DEF VInv, ViewType, Records
  <2>5. StillThere'
    BY <1>3, <2>2, <2>3, <2>4 DEF StillThere, Anchored
  <2>6. Reasons'
    <3>1. ASSUME NEW s \in view.linked, Anchored(s)
          PROVE  Anchored(s)' /\ body'[s] = body[s]
      BY <2>3, <2>4, <3>1 DEF Anchored
    <3> QED
      BY <1>3, <2>2, <3>1 DEF Reasons, Bars
  <2> QED
    BY <1>3, <2>2, <2>5, <2>6 DEF Knows, HasHeight
<1> QED
  BY <1>1, <1>2, <1>3, <1>4 DEF VInv

LEMMA ViewInvariance ==
    ASSUME Bodies # {}
    PROVE  ViewSpec => []VInv
<1>1. ViewInit => VInv
  BY ViewInitHolds
<1>2. VInv /\ [ViewNext]_viewVars => VInv'
  <2> SUFFICES ASSUME VInv, [ViewNext]_viewVars PROVE VInv'
    OBVIOUS
  <2>1. CASE ViewReturn
    <3>1. IInv' /\ ViewType' /\ view' = NoView
      BY <2>1, ProfileAssumption DEF VInv, ViewReturn, IInv, TypeOK, vars, NoView, ViewType
    <3> QED
      BY <3>1 DEF VInv, NoView
  <2>2. CASE UNCHANGED viewVars
    BY <2>2 DEF VInv, IInv, TypeOK, ViewType, Knows, StillThere, Reasons, HasHeight,
        Anchored, Bars, viewVars, vars
  <2> QED
    BY <2>1, <2>2, LinkedHolds, AnchoredHolds, HeightsHolds, TipHolds, BeforeHolds, MeanwhileHolds
       DEF ViewNext
<1> QED
  BY <1>1, <1>2, PTL DEF ViewSpec

\* Unless a scan is rewound or an anchor demoted during the call,
\* responsible_publication_view never lists a claim against what was known when
\* the call began (a notice only if it read a scanned tip), although it mixes
\* several states of the tables.
THEOREM ViewsRespectKnown ==
    ASSUME Bodies # {}
    PROVE  ViewSpec => []ViewRespectsKnown
<1>1. VInv => ViewRespectsKnown
  <2> SUFFICES ASSUME VInv, view.pc = "done", view.quiet, Shown!Listed
               PROVE  /\ ~ view.barred
                      /\ view.noticed /\ view.tip > 0 =>
                           \E s \in Slots : \E h \in confirmed[s] :
                               body[s].kind \in NoticeKinds /\ h + NoticeBlocks <= tip
                      /\ Anchored(Claim)
    BY DEF ViewRespectsKnown, ShownListed, NoticeKinds
  <2>1. /\ StillThere /\ Reasons /\ HasHeight /\ view.todo = {}
        /\ view.tip <= tip
    BY DEF VInv, Knows
  <2>2. /\ view.linked \subseteq Slots /\ Slots \subseteq Records /\ Claim \in Records
        /\ view.heights \in [Records -> SUBSET Heights]
        /\ view.tip \in Int /\ tip \in Int
    BY DEF VInv, ViewType, IInv, TypeOK, Records
  <2>3. \A r \in Records : Shown!Anchored(r) <=> r \in view.anchored
    BY DEF Shown!Anchored
  <2>4. Shown!Anchored(Claim) /\ ~ Shown!Protected
    BY DEF Shown!Listed, Shown!DiscoveryState
  <2>5. /\ Shown!Decisions("restrict") = {}
        /\ Shown!RecognisedRestrictions = {}
        /\ ~ Shown!WindowActive
    BY <2>4 DEF Shown!Protected, Shown!HasReason, Shown!Enabled
  <2>6. ~ view.barred
    <3> SUFFICES ASSUME view.barred PROVE FALSE
      OBVIOUS
    <3>1. PICK s \in view.linked \cap view.anchored : Bars(s)
      BY <2>1 DEF Reasons
    <3> QED
      BY <2>2, <2>3, <2>5, <3>1 DEF Bars, Shown!Decisions, Shown!RecognisedRestrictions,
          Shown!AnchoredOf
  <2>7. ASSUME view.noticed, view.tip > 0
        PROVE  \E s \in Slots : \E h \in confirmed[s] :
                   body[s].kind \in NoticeKinds /\ h + NoticeBlocks <= tip
    <3>1. PICK s \in view.linked \cap view.anchored : body[s].kind \in NoticeKinds
      BY <2>1, <2>7 DEF Reasons
    <3>2. \A r \in view.anchored : Shown!HeightsOf(r) = view.heights[r]
      BY <2>2 DEF Shown!HeightsOf, Heights, Shown!Heights, VInv, ViewType
    <3>3. s \in Shown!Notices
      BY <2>2, <2>3, <3>1 DEF Shown!Notices, Shown!AnchoredOf, NoticeKinds
    <3>4. Shown!HeightsOf(s) # {}
      BY <2>1, <3>1, <3>2 DEF HasHeight
    <3>5. Shown!NoticeHeights # {}
      BY <3>3, <3>4 DEF Shown!NoticeHeights
    <3>6. PICK h \in Shown!NoticeHeights : ~ (view.tip < h + NoticeBlocks)
      BY <2>5, <2>7, <3>5 DEF Shown!WindowActive
    <3>7. PICK u \in Shown!Notices : h \in Shown!HeightsOf(u)
      BY <3>6 DEF Shown!NoticeHeights
    <3>8. u \in view.linked /\ u \in view.anchored /\ body[u].kind \in NoticeKinds
      BY <2>2, <2>3, <3>7 DEF Shown!Notices, Shown!AnchoredOf, NoticeKinds
    <3>9. h \in confirmed[u] /\ h \in Int
      BY <2>1, <2>2, <3>2, <3>7, <3>8 DEF StillThere, Heights
    <3> QED
      BY <2>1, <2>2, <3>6, <3>8, <3>9, ProfileAssumption
  <2>8. Anchored(Claim)
    BY <2>1, <2>2, <2>3, <2>4 DEF StillThere
  <2> QED
    BY <2>6, <2>7, <2>8
<1> QED
  BY <1>1, ViewInvariance, PTL
=============================================================================
