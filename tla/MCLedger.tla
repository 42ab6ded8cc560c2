------------------------------ MODULE MCLedger ------------------------------
(* The worlds of MCPublication for the node with its history of blocks.    *)
EXTENDS MCPublication, LedgerRefinement
=============================================================================
