----------------------------- MODULE MCBatching -----------------------------
(* An instance of Batching for TLC: five records, the fourth of which to    *)
(* arrive is too large for a package.  Sizes are in arbitrary units.        *)
EXTENDS Batching

FiveArrivals == <<3, 1, 5, 2, 4>>
RecordSize == [r \in 1..5 |-> IF r = 2 THEN 20 ELSE IF r = 4 THEN 3 ELSE 1]

\* all five records; a list that repeats its last record; one out of order
PeerOffers == {<<1, 2, 3, 4, 5>>, <<1, 3, 5, 5>>, <<3, 1>>}
=============================================================================
