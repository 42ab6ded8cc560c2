---------------------------- MODULE AnchorLedger ----------------------------
(***************************************************************************)
(* What the anchors table of a HAP node promises its readers, whatever     *)
(* threads write it: an anchor is reported confirmed only in a block the   *)
(* node's Bitcoin Core has had on its active chain, only for the batch     *)
(* that block commits to and only while that batch is held; every other    *)
(* report claims nothing about Bitcoin and may change at any time; an      *)
(* anchor that was reported once is never forgotten.                       *)
(***************************************************************************)
EXTENDS Bitcoin

VARIABLES
    seen,    \* blocks that have been on the active chain so far
    held,    \* batches the node holds
    ledger   \* ledger[p]: what is reported of point p

ledgerVars == <<seen, held, ledger>>

Reports == {"unverified", "broadcast", "invalid", "reorganised"}

\* A report that claims nothing, and a confirmation in block b.
Report(status) == [status |-> status, block |-> None]
Confirmation(b) == [status |-> "confirmed", block |-> b]

LedgerInit ==
    /\ \E c \in Branches : seen = BlocksOf(c)
    /\ held = {}
    /\ ledger = [p \in Points |-> Report("absent")]

\* The active chain becomes c.
Observe(c) ==
    /\ seen' = seen \cup BlocksOf(c)
    /\ UNCHANGED <<held, ledger>>

Hold(b) ==
    /\ held' = held \cup {b}
    /\ UNCHANGED <<seen, ledger>>

\* The only way to a confirmation.
Confirm(p, b) ==
    /\ p \in Exact
    /\ Manifest[p] \in held
    /\ b \in seen
    /\ p \in OutputSet(b)
    /\ ledger' = [ledger EXCEPT ![p] = Confirmation(b)]
    /\ UNCHANGED <<seen, held>>

\* A claim of a peer, a broadcast, a check that found no active block.
Note(p, status) ==
    /\ ledger' = [ledger EXCEPT ![p] = Report(status)]
    /\ UNCHANGED <<seen, held>>

\* A rewind withdraws some of what was reported, in one step.
Withdraw(P) ==
    /\ \A p \in P : ledger[p].status # "absent"
    /\ ledger' = [p \in Points |-> IF p \in P THEN Report("reorganised") ELSE ledger[p]]
    /\ UNCHANGED <<seen, held>>

LedgerNext ==
    \/ \E c \in Branches : Observe(c)
    \/ \E b \in Batches : Hold(b)
    \/ \E p \in Points, b \in Blocks : Confirm(p, b)
    \/ \E p \in Points, status \in Reports : Note(p, status)
    \/ \E P \in SUBSET Points : Withdraw(P)

LedgerSpec == LedgerInit /\ [][LedgerNext]_ledgerVars
=============================================================================
