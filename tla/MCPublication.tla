--------------------------- MODULE MCPublication ---------------------------
(***************************************************************************)
(* Small Bitcoin worlds for TLC.  Blocks are strings: "g" is the first     *)
(* block, the letter of the others tells the branch and the digit the      *)
(* height.                                                                 *)
(***************************************************************************)
EXTENDS Publication

AllBlocks == {"g", "a1", "a2", "b1", "b2", "c2"}
HeightOf == [b \in AllBlocks |->
    IF b = "g" THEN 0 ELSE IF b \in {"a1", "b1"} THEN 1 ELSE 2]

\* Two branches that part above the first block, one above height 1.
Forks == {<<"g">>, <<"g", "a1">>, <<"g", "a1", "a2">>, <<"g", "b1">>,
          <<"g", "b1", "b2">>, <<"g", "a1", "c2">>}

\* One branch, for runs that are not about reorganisations.
OneBranch == {<<"g">>, <<"g", "a1">>, <<"g", "a1", "a2">>}

PlaceOutputs(place) == [b \in AllBlocks |-> IF b \in DOMAIN place THEN place[b] ELSE <<>>]

\* p and q are mined on both branches, at different heights and in another
\* order; q is also in the competing block c2.
ReminedOutputs ==
    PlaceOutputs([a1 |-> <<"p">>, a2 |-> <<"q">>, b2 |-> <<"q", "p">>, c2 |-> <<"q">>])

\* p in the first block above "g" of both branches.
SingleOutputs == PlaceOutputs([a1 |-> <<"p">>, b1 |-> <<"p">>])

\* p is mined on branch a only, q on branch b only.
SplitOutputs == PlaceOutputs([a1 |-> <<"p">>, b1 |-> <<"q">>])

\* x is an output with another commitment type that names the same batch.
ForeignOutputs == PlaceOutputs([a1 |-> <<"x", "p">>, b1 |-> <<"p">>])

\* p and then two outputs behind it on branch a: q, which p2 keeps out of every
\* cycle of two, or q with one output in front and y, a second output of its
\* batch; on branch b the foreign output x is in front of q.
CrowdedOutputs ==
    PlaceOutputs([a1 |-> <<"p">>, a2 |-> <<"p2", "q">>, c2 |-> <<"q", "y">>,
                  b1 |-> <<"x">>, b2 |-> <<"q">>])
CrowdedManifests == [p |-> "B", p2 |-> "B", q |-> "C", y |-> "C", x |-> "D"]
CrowdedTx == [p |-> "tp", p2 |-> "tr", q |-> "tq", y |-> "ty", x |-> "tx"]

ForkPair == {<<"g", "a1">>, <<"g", "b1">>}
\* The chain starts and ends on one of them; a move can also shorten it.
FullForks == {<<"g", "a1">>, <<"g", "a1", "a2">>, <<"g", "b1", "b2">>,
              <<"g", "a1", "c2">>}
ShortForks == ForkPair \cup {<<"g">>}

TwoManifests == [p |-> "B", q |-> "C"]
OneManifest == [p |-> "B", x |-> "B"]
TxOfPair == [p |-> "tp", q |-> "tq"]
TxOfBogus == [p |-> "tp", x |-> "tp"]

OnNode == [b \in Batches |-> "regtest"]

\* What a peer says of an anchor: a block that exists, at the wrong height.
SomeClaims == {[hash |-> "b1", height |-> 2]}
=============================================================================
