----------------------------- MODULE MCRecovery -----------------------------
(* An instance of Recovery for TLC: a claim, a reply to it, a batch of the  *)
(* reply, an anchor of the batch and one evidence file.                     *)
EXTENDS Recovery

AllItems == {"claim", "reply", "batch", "anchor"}

ItemKind ==
    [i \in AllItems |-> CASE i \in {"claim", "reply"} -> "records"
                          [] i = "batch" -> "batches" [] i = "anchor" -> "anchors"]

ItemNeeds ==
    [i \in AllItems |-> CASE i = "claim" -> {} [] i = "reply" -> {"claim"}
                          [] i = "batch" -> {"reply"} [] i = "anchor" -> {"batch"}]
=============================================================================
