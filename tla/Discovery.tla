----------------------------- MODULE Discovery -----------------------------
(* What a node shows of one claim: the responsible-publication profile      *)
(* (hap/responsible.py), the evidence classification (hap/assessment.py)    *)
(* and the reference feed (hap/service.py), over tables that change as      *)
(* records arrive in any order, anchors are confirmed, verified and         *)
(* demoted, blocks are scanned and scans are rewound.                       *)
(*                                                                          *)
(* The scanner, the resolver and anchor imports work on outputs that have a *)
(* row in the commitments table; verify_bitcoin_anchor confirms an anchor   *)
(* that may have none.  A rewind demotes the anchors whose rows it deletes, *)
(* so the table of loose anchors, those without a row, decides what stays   *)
(* confirmed.                                                               *)
(*                                                                          *)
(* A linked record is a slot that is filled with a body (kind, author and,  *)
(* for a view decision, the action tag) when it arrives.  The code takes    *)
(* the smallest confirmed height of a record and then of all notices; "the  *)
(* smallest height plus n is above the tip" is written as "every height     *)
(* plus n is".                                                              *)
EXTENDS Integers, FiniteSets

CONSTANTS
    Claim,          \* the claim that is viewed
    Author,         \* its author
    Slots,          \* records that target it
    Bodies,         \* what a linked record can be
    ImpactTags,     \* person-impact values the claim's tags may name
    Recognised,     \* the node's recognised accountable authors
    NoticeBlocks,   \* notice_protection_blocks
    CoolingBlocks,  \* cooling_blocks
    MaxHeight,      \* bound: height of the chain
    MaxAnchors      \* bound: anchors of one record

Kinds ==
    {"person_impact_notice", "restriction_notice", "view_decision", "attestation",
     "dispute", "correction", "subject_response", "public_interest_justification"}

Actions == {"enable", "restrict", "none"}

ASSUME ProfileAssumption ==
    /\ Claim \notin Slots
    /\ IsFiniteSet(Slots)
    /\ \A b \in Bodies : b.kind \in Kinds /\ b.action \in Actions
    /\ ImpactTags \subseteq {"none", "direct", "indirect-or-mosaic", "uncertain"}
    /\ NoticeBlocks \in Nat
    /\ CoolingBlocks \in Nat
    /\ MaxHeight \in Nat
    /\ MaxAnchors \in Nat

Records == Slots \cup {Claim}
Heights == 1..MaxHeight

VARIABLES
    impact,     \* declared_person_impact of the claim
    linked,     \* linked_records: the slots that hold a body
    body,       \* body[s]: the body of a linked record
    confirmed,  \* confirmed[r]: block heights of its confirmed anchors
    loose,      \* loose[r]: those of them without a commitments row
    tip         \* latest_scanned_block, 0 if there is none

vars == <<impact, linked, body, confirmed, loose, tip>>

TypeOK ==
    /\ impact \in ImpactTags \cup {"uncertain", "missing"}
    /\ linked \subseteq Slots
    /\ body \in [Slots -> Bodies]
    /\ confirmed \in [Records -> SUBSET Heights]
    /\ loose \in [Records -> SUBSET Heights]
    /\ \A r \in Records : loose[r] \subseteq confirmed[r]
    /\ tip \in 0..MaxHeight

\* Tags that contradict each other count as uncertain.
DeclaredPersonImpact(tags) ==
    IF tags = {} THEN "missing"
    ELSE IF Cardinality(tags) > 1 THEN "uncertain"
    ELSE CHOOSE t \in tags : TRUE

\* The bodies of records that have not arrived do not matter.
Init ==
    /\ impact \in {DeclaredPersonImpact(T) : T \in SUBSET ImpactTags}
    /\ linked = {}
    /\ body = [s \in Slots |-> CHOOSE b \in Bodies : TRUE]
    /\ confirmed = [r \in Records |-> {}]
    /\ loose = [r \in Records |-> {}]
    /\ tip = 0

-----------------------------------------------------------------------------
(* The tables                                                               *)

\* A linked record arrives: a submission, a package or a peer.
Receive(s, b) ==
    /\ s \in Slots \ linked
    /\ linked' = linked \cup {s}
    /\ body' = [body EXCEPT ![s] = b]
    /\ UNCHANGED <<impact, confirmed, loose, tip>>

\* register_scanned_anchor, for the scanner (in the block after the tip, whose
\* row comes last) or the resolver (at a height scanned long ago): an anchor
\* of a batch with the record is confirmed and has a commitments row.
Confirm(r, h) ==
    /\ r \in linked \cup {Claim}
    /\ h \in Heights \ confirmed[r]
    /\ h <= tip + 1
    /\ Cardinality(confirmed[r]) < MaxAnchors
    /\ confirmed' = [confirmed EXCEPT ![r] = @ \cup {h}]
    /\ UNCHANGED <<impact, linked, body, loose, tip>>

\* verify_bitcoin_anchor confirms an output that the node has not scanned, at
\* whatever height it is.
Verify(r, h) ==
    /\ r \in linked \cup {Claim}
    /\ h \in Heights \ confirmed[r]
    /\ Cardinality(confirmed[r]) < MaxAnchors
    /\ confirmed' = [confirmed EXCEPT ![r] = @ \cup {h}]
    /\ loose' = [loose EXCEPT ![r] = @ \cup {h}]
    /\ UNCHANGED <<impact, linked, body, tip>>

\* The scanner meets a loose anchor's output in the block after the tip, at
\* the verified height or, after a reorganisation, at another one.
Commit(r, g) ==
    /\ g \in loose[r]
    /\ tip < MaxHeight
    /\ confirmed' = [confirmed EXCEPT ![r] = (@ \ {g}) \cup {tip + 1}]
    /\ loose' = [loose EXCEPT ![r] = @ \ {g, tip + 1}]
    /\ UNCHANGED <<impact, linked, body, tip>>

\* An anchor stops being confirmed without a rewind: verify_bitcoin_anchor
\* finds its block off the active chain, or an import or a broadcast writes
\* over the row it read before the confirmation.
Demote(r, h) ==
    /\ h \in confirmed[r]
    /\ confirmed' = [confirmed EXCEPT ![r] = @ \ {h}]
    /\ loose' = [loose EXCEPT ![r] = @ \ {h}]
    /\ UNCHANGED <<impact, linked, body, tip>>

\* add_scanned_block
ScanBlock ==
    /\ tip < MaxHeight
    /\ tip' = tip + 1
    /\ UNCHANGED <<impact, linked, body, confirmed, loose>>

\* Slip: the common ancestor goes too.
RewindBelow(h) ==
    /\ h < tip
    /\ tip' = h - 1
    /\ confirmed' = [r \in Records |-> {x \in confirmed[r] : x < h} \cup loose[r]]
    /\ UNCHANGED <<impact, linked, body, loose>>

\* rewind_bitcoin_scan: blocks above the common ancestor go, and the anchors
\* with a commitments row there are reorganised; loose anchors stay.
Rewind(h) ==
    /\ h < tip
    /\ tip' = h
    /\ confirmed' = [r \in Records |-> {x \in confirmed[r] : x <= h} \cup loose[r]]
    /\ UNCHANGED <<impact, linked, body, loose>>

Next ==
    \/ \E s \in Slots, b \in Bodies : Receive(s, b)
    \/ \E r \in Records, h \in Heights :
          Confirm(r, h) \/ Verify(r, h) \/ Commit(r, h) \/ Demote(r, h)
    \/ ScanBlock
    \/ \E h \in 0..MaxHeight : Rewind(h)

Spec == Init /\ [][Next]_vars

-----------------------------------------------------------------------------
(* assess_record                                                            *)

\* anchored_record_ids
Anchored(r) == confirmed[r] # {}

\* anchored linked records of a kind
AnchoredOf(kind) == {s \in linked : Anchored(s) /\ body[s].kind = kind}

\* keys other than the author's that attest
Attesters == {body[s].author : s \in AnchoredOf("attestation")} \ {Author}

\* Slip: attestations are counted before disputes and corrections.
ClassificationByCount ==
    CASE ~ Anchored(Claim) -> "unpublished"
      [] Anchored(Claim) /\ Cardinality(Attesters) >= 2 -> "multi-attested"
      [] Anchored(Claim) /\ Cardinality(Attesters) = 1 -> "attested"
      [] OTHER -> IF AnchoredOf("dispute") # {} THEN "contested"
                  ELSE IF AnchoredOf("correction") # {} THEN "corrected"
                  ELSE "bitcoin-anchored-claim"

Classification ==
    IF ~ Anchored(Claim) THEN "unpublished"
    ELSE IF AnchoredOf("dispute") # {} THEN "contested"
    ELSE IF AnchoredOf("correction") # {} THEN "corrected"
    ELSE IF Cardinality(Attesters) >= 2 THEN "multi-attested"
    ELSE IF Cardinality(Attesters) = 1 THEN "attested"
    ELSE "bitcoin-anchored-claim"

-----------------------------------------------------------------------------
(* assess_responsible_publication                                           *)

Notices == AnchoredOf("person_impact_notice") \cup AnchoredOf("restriction_notice")

\* confirmed_anchor_height_for_record looks at anchors with a height only.
HeightsOf(r) == confirmed[r] \cap Heights

\* anchored_notice_heights
NoticeHeights == UNION {HeightsOf(s) : s \in Notices}

\* Slip: the last notice counts.
WindowActiveRenewed ==
    /\ tip > 0
    /\ \E h \in NoticeHeights : tip < h + NoticeBlocks

\* temporary_notice_active: the tip is below the end of the window that the
\* first anchored notice started
WindowActive ==
    /\ tip > 0
    /\ NoticeHeights # {}
    /\ \A h \in NoticeHeights : tip < h + NoticeBlocks

RecognisedRestrictions ==
    {s \in AnchoredOf("restriction_notice") : body[s].author \in Recognised}

\* eligible decisions with the action
Decisions(action) ==
    {s \in AnchoredOf("view_decision") :
        body[s].author \in Recognised /\ body[s].action = action}

\* Slip: cooling counts from the first height of anything linked.
CoolingCompleteAny ==
    /\ tip > 0
    /\ \E r \in linked \cup {Claim} : \E h \in confirmed[r] : tip >= h + CoolingBlocks

\* cooling_complete: blocks since the first anchor of the claim; the number
\* is cut at zero, so a period of zero blocks is over at once
CoolingComplete ==
    /\ tip > 0
    /\ \E h \in HeightsOf(Claim) : CoolingBlocks = 0 \/ tip >= h + CoolingBlocks

\* protected before the decisions are looked at: some reason exists
HasReason ==
    \/ ~ Anchored(Claim)
    \/ impact # "none"
    \/ WindowActive
    \/ RecognisedRestrictions # {}

Enabled ==
    /\ Decisions("enable") # {} /\ CoolingComplete
    /\ RecognisedRestrictions = {}
    /\ ~ WindowActive

Protected == Decisions("restrict") # {} \/ (HasReason /\ ~ Enabled)

DiscoveryState ==
    IF ~ Anchored(Claim) THEN "unpublished"
    ELSE IF Protected THEN "protected"
    ELSE IF impact = "none" THEN "discoverable"
    ELSE "discoverable-by-accountable-decision"

\* listed_in_reference_feed
Listed == DiscoveryState \in {"discoverable", "discoverable-by-accountable-decision"}

-----------------------------------------------------------------------------
(* Properties                                                               *)

\* An anchored notice hides the claim until the node has scanned the end of
\* the window (responsible.py, challenge window): PROTOCOL.md says that an
\* anchored notice starts one fixed challenge window.  The code has no window
\* while no block row is stored: before the first scan, and after a rewind of
\* every block that leaves loose anchors confirmed.
NoticeHides ==
    (/\ NoticeHeights # {}
     /\ \A h \in NoticeHeights : tip < h + NoticeBlocks) => ~ Listed

\* No block is taken back and no anchor stops being confirmed.
Lossless == tip <= tip' /\ \A r \in Records : confirmed[r] \subseteq confirmed'[r]

\* A claim whose declared person impact is not none (one that is declared,
\* contradictory or missing) reaches the feed only by
\* an anchored decision of a recognised author, once the claim itself has
\* been in the chain for the cooling period and while no recognised author
\* restricts it, whatever order records, anchors and rewinds came in.
ListedByDecision ==
    Listed /\ impact # "none" =>
        /\ \E s \in linked : /\ confirmed[s] # {}
                             /\ body[s].author \in Recognised
                             /\ body[s].kind = "view_decision"
                             /\ body[s].action = "enable"
        /\ \E h \in confirmed[Claim] : CoolingBlocks = 0 \/ h + CoolingBlocks <= tip
        /\ ~ \E s \in linked : /\ confirmed[s] # {}
                               /\ body[s].author \in Recognised
                               /\ \/ body[s].kind = "restriction_notice"
                                  \/ body[s].kind = "view_decision" /\ body[s].action = "restrict"

RecognisedActs == {s \in linked : Anchored(s) /\ body[s].author \in Recognised}

\* Once the first window is over on a node with a scanned block, nothing that
\* unrecognised authors publish takes a listed claim out of the feed again:
\* later notices neither renew nor extend the window
\* (later_burner_notices_extend_window is False).
BurnersCannotHide ==
    [][Listed /\ tip > 0 /\ NoticeHeights # {} /\ ~ WindowActive /\ Lossless
       /\ RecognisedActs' = RecognisedActs => Listed']_vars

Rank ==
    [c \in {"unpublished", "bitcoin-anchored-claim", "attested", "multi-attested",
            "corrected", "contested"} |->
        CASE c = "unpublished" -> 0 [] c = "bitcoin-anchored-claim" -> 1
          [] c = "attested" -> 2 [] c = "multi-attested" -> 3
          [] c = "corrected" -> 4 [] c = "contested" -> 5]

\* While no anchor is demoted a classification only rises in the order above:
\* no number of attestations covers up a dispute or a correction, in whatever
\* order they are anchored (assess_record).
ClassificationOnlyRises ==
    [][Lossless => Rank[Classification] <= Rank[Classification']]_vars
=============================================================================
