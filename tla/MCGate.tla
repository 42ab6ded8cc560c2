------------------------------- MODULE MCGate -------------------------------
(* Requests for TLC: a host that also invents an x-forwarded-for, a holder  *)
(* of a token behind the proxy, an administrator, and some that are turned  *)
(* away.  Record "b" refers to "a".                                         *)
EXTENDS Gate, TLC

Request(kind, peer, forwarded, token, record, work) ==
    [kind |-> kind, peer |-> peer, forwarded |-> forwarded, token |-> token,
     record |-> record, work |-> work]

Symmetric == Permutations(Threads)

SomeRequests == {
    Request("submit", "h", None, None, "b", TRUE),
    Request("submit", "h", "f", "wrong", "b", FALSE),
    Request("submit", "proxy", "g", "T", "a", TRUE),
    Request("node", "h", None, "A", None, TRUE)}

TargetOf == [r \in Records |-> IF r = "b" THEN "a" ELSE None]
=============================================================================
