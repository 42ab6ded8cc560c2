----------------------------- MODULE MCStartup -----------------------------
(* A table with two rows at output 0, one of them still in the write-ahead  *)
(* log, and in a database of this release a third at output 1; and a row    *)
(* at output 1 that this release adds.                                      *)
EXTENDS Startup

RowAt(t, n) == [tx |-> t, vout |-> n]
ThreeOld == {RowAt("a", 0), RowAt("b", 0), RowAt("d", 1)}
LateB == {RowAt("b", 0)}
OneNew == {RowAt("c", 1)}
=============================================================================
