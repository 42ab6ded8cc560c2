------------------------------- MODULE Merkle -------------------------------
(* The Merkle tree of a batch (hap/merkle.py).                              *)
(*                                                                          *)
(* SHA-256 is symbolic and free of collisions: the digest of a record is a  *)
(* sequence of one element, the digest of two digests the pair of them.     *)
EXTENDS Integers, Sequences

Leaf(id) == <<id>>

Parent(left, right) == <<left, right>>

Leaves(ids) == [i \in 1 .. Len(ids) |-> Leaf(ids[i])]

\* A level of odd length repeats its last digest.
Padded(level) == IF Len(level) % 2 = 1 THEN Append(level, level[Len(level)]) ELSE level

Up(level) ==
    LET full == Padded(level)
    IN  [i \in 1 .. Len(full) \div 2 |-> Parent(full[2 * i - 1], full[2 * i])]

\* The level and the position in it after n turns of the loop.
Levels(ids) ==
    LET level[n \in 0 .. Len(ids)] == IF n = 0 THEN Leaves(ids) ELSE Up(level[n - 1])
    IN  level
Positions(ids, index) ==
    LET position[n \in 0 .. Len(ids)] == IF n = 0 THEN index ELSE position[n - 1] \div 2
    IN  position

\* The loop ends at the first level of one digest.
Turns(ids) ==
    LET level == Levels(ids)
    IN  CHOOSE n \in 0 .. Len(ids) :
            Len(level[n]) = 1 /\ \A m \in 0 .. n - 1 : Len(level[m]) > 1

\* The root of no records is a constant.
merkle_root(ids) == IF ids = <<>> THEN <<>> ELSE Levels(ids)[Turns(ids)][1]

\* Slip: the sibling is looked up before the level is padded.
SiblingUnpadded(level, position) ==
    LET other == IF position % 2 = 1 THEN position - 1 ELSE position + 1
        at == IF other < Len(level) THEN other ELSE position - 1
    IN  [sibling |-> level[at + 1], side |-> IF at < position THEN "left" ELSE "right"]

\* Positions count from zero.
Sibling(level, position) ==
    LET other == IF position % 2 = 1 THEN position - 1 ELSE position + 1
    IN  [sibling |-> Padded(level)[other + 1],
         side |-> IF other < position THEN "left" ELSE "right"]

merkle_proof(ids, index) ==
    LET level == Levels(ids)
        position == Positions(ids, index)
    IN  [n \in 1 .. Turns(ids) |-> Sibling(level[n - 1], position[n - 1])]

\* The digest after n steps of the path.
Climb(id, path) ==
    LET value[n \in 0 .. Len(path)] ==
            IF n = 0 THEN Leaf(id)
            ELSE IF path[n].side = "left" THEN Parent(path[n].sibling, value[n - 1])
                 ELSE Parent(value[n - 1], path[n].sibling)
    IN  value

verify_merkle_proof(id, path, root) == Climb(id, path)[Len(path)] = root
=============================================================================
