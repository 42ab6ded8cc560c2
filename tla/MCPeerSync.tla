----------------------------- MODULE MCPeerSync -----------------------------
(* Instances of PeerSync for TLC.                                           *)
EXTENDS PeerSync

\* A record, one that validation refuses, a batch, an anchor of the batch and
\* one that contradicts the node's tables.
SyncItems == {"r", "bad", "b", "a", "odd"}

SyncKinds ==
    [i \in SyncItems |-> CASE i \in {"r", "bad"} -> "records" [] i = "b" -> "batches"
                           [] OTHER -> "anchors"]

SyncNeeds ==
    [i \in SyncItems |-> CASE i \in {"r", "bad"} -> {} [] i = "b" -> {"r"}
                           [] OTHER -> {"b"}]

\* min(page_size, 25), 1 and min(page_size, 200) in the code
SyncPages == [k \in Kinds |-> IF k = "batches" THEN 1 ELSE 2]
=============================================================================
