-------------------------- MODULE LedgerRefinement --------------------------
(***************************************************************************)
(* The publication core implements the ledger.  The blocks that have been  *)
(* active are history the node does not store, so they are recorded beside *)
(* the specification of the node, whose steps are not constrained by it.   *)
(***************************************************************************)
EXTENDS Publication

VARIABLE seen  \* history: blocks that have been on the active chain

HistoryInit == Init /\ seen = BlocksOf(chain)
HistoryNext == Next /\ seen' = seen \cup BlocksOf(chain')
historyVars == <<vars, seen>>
HistorySpec == HistoryInit /\ [][HistoryNext]_historyVars

\* What readers see of a row: its status, and the block when it is confirmed.
Entry(row) == [status |-> row.status,
               block |-> IF row.status = "confirmed" THEN row.hash ELSE None]

Ledger == INSTANCE AnchorLedger WITH
    held <- batches,
    ledger <- [p \in Points |-> Entry(anchors[p])]

(***************************************************************************)
(* Scans, resolutions, imports of references, publications, verifications  *)
(* and crashes, interleaved at every storage and RPC call, together do     *)
(* nothing to the anchors table that the ledger does not allow.  In        *)
(* particular no stale read lets a block that was never active, or that a  *)
(* peer only named, become a confirmation (register_scanned_anchor,        *)
(* verify_bitcoin_anchor, import_anchor_reference).                        *)
(***************************************************************************)
ImplementsLedger == Ledger!LedgerSpec
=============================================================================
