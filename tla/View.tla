-------------------------------- MODULE View --------------------------------
(* One call of responsible_publication_view.  It reads the linked records,  *)
(* the anchored identifiers, the height of each record and the scanned tip  *)
(* in separate storage calls, so records, confirmations, blocks and rewinds *)
(* fall in between and the assessment mixes several states of the tables.   *)
EXTENDS Discovery

CONSTANT MaxWrites  \* bound: writes of other threads during one call

ASSUME ViewAssumption == MaxWrites \in Nat

VARIABLE view   \* the call: where it is, what it has read, and what held when
                \* it began

viewVars == <<vars, view>>

\* Slip: heights are fetched for the claim alone.
RelatedClaimOnly(found) == {Claim}

\* related_ids
Related(found) == found \cup {Claim}

NoView ==
    [pc |-> "idle", linked |-> {}, anchored |-> {}, todo |-> {},
     heights |-> [r \in Records |-> {}], tip |-> 0,
     barred |-> FALSE, noticed |-> FALSE, quiet |-> TRUE, writes |-> 0]

ViewInit == Init /\ view = NoView

\* linked_records; with it the history of the call begins: whether a
\* recognised author bars the claim, whether a notice is anchored, and
\* that nothing has been withdrawn since.
ViewLinked ==
    /\ view.pc = "idle"
    /\ view' = [view EXCEPT !.pc = "anchored", !.linked = linked,
                  !.barred = RecognisedRestrictions \cup Decisions("restrict") # {},
                  !.noticed = NoticeHeights # {}]
    /\ UNCHANGED vars

\* anchored_record_ids; only related identifiers are ever looked up in it
ViewAnchored ==
    /\ view.pc = "anchored"
    /\ view' = [view EXCEPT !.pc = "heights", !.todo = Related(view.linked),
                  !.anchored = {r \in view.linked \cup {Claim} : Anchored(r)}]
    /\ UNCHANGED vars

\* confirmed_anchor_heights: one query for each record, the claim first.  A
\* height is used only for an identifier that was listed as anchored.
ViewHeights(r) ==
    /\ view.pc = "heights"
    /\ r \in view.todo
    /\ Claim \in view.todo => r = Claim
    /\ view' = [view EXCEPT !.todo = @ \ {r}, !.heights[r] = IF r \in view.anchored THEN HeightsOf(r) ELSE {},
                  !.pc = IF view.todo = {r} THEN "tip" ELSE "heights"]
    /\ UNCHANGED vars

\* latest_scanned_block
ViewTip ==
    /\ view.pc = "tip"
    /\ view' = [view EXCEPT !.pc = "done", !.tip = tip]
    /\ UNCHANGED vars

\* The assessment is made of what was read and returned.
ViewReturn ==
    /\ view.pc = "done"
    /\ view' = NoView
    /\ UNCHANGED vars

\* A write of another thread before the call
Before ==
    /\ view.pc = "idle"
    /\ Next
    /\ UNCHANGED view

\* A write of another thread between two reads of the call
Meanwhile ==
    /\ view.pc \notin {"idle", "done"}
    /\ view.writes < MaxWrites
    /\ Next
    /\ view' = [view EXCEPT !.writes = @ + 1, !.quiet = @ /\ Lossless]

ViewNext ==
    \/ Before \/ Meanwhile
    \/ ViewLinked \/ ViewAnchored \/ ViewTip \/ ViewReturn
    \/ \E r \in Records : ViewHeights(r)

ViewSpec == ViewInit /\ [][ViewNext]_viewVars

(* The assessment of what the call has read.  An identifier that was listed *)
(* as anchored and had lost its anchors when its height was asked for is    *)
(* one that is anchored without a height; zero stands for that.             *)
Shown == INSTANCE Discovery WITH
    linked <- view.linked,
    tip <- view.tip,
    loose <- [r \in Records |-> {}],
    confirmed <- [r \in Records |-> IF r \in view.anchored THEN view.heights[r] \cup {0} ELSE {}]

ShownListed == view.pc = "done" /\ Shown!Listed

-----------------------------------------------------------------------------
(* Properties                                                               *)

\* A mixed view may show what no single moment did, but unless a scan was
\* rewound or an anchor demoted during the call it never lists a claim against
\* what was known when the call began: a restriction by a recognised author,
\* or, if it read a scanned tip, an anchored notice whose window that tip has
\* not left; and it lists no claim that is not published by the end
\* (responsible_publication_view).
ViewRespectsKnown ==
    ShownListed /\ view.quiet =>
        /\ ~ view.barred
        /\ view.noticed /\ view.tip > 0 =>
             \E s \in Slots : \E h \in confirmed[s] :
                 /\ body[s].kind \in {"person_impact_notice", "restriction_notice"}
                 /\ h + NoticeBlocks <= tip
        /\ Anchored(Claim)
=============================================================================
