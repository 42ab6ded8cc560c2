------------------------------ MODULE Bitcoin ------------------------------
(***************************************************************************)
(* The Bitcoin chain as a HAP node sees it through the RPC of              *)
(* hap/bitcoin.py.  It is the environment of the node, so it is described  *)
(* by constants: the branches the active chain may follow, the HAP outputs *)
(* in each block, and the payload each output carries.                     *)
(*                                                                         *)
(* A point is one transaction output, the pair (txid, vout) of the code.   *)
(* The code identifies an anchor by it.  A block is its hash.  The active  *)
(* chain is a sequence of blocks; height h is its element h + 1.           *)
(***************************************************************************)
EXTENDS Integers, Sequences, FiniteSets

CONSTANTS
    Blocks,     \* block hashes
    Points,     \* transaction outputs txid:vout, real ones and made-up ones
    Batches,    \* batch identifiers: the manifest hashes payloads carry
    Branches,   \* the sequences of blocks that may be the active chain
    MaxHeight,  \* bound: no branch is higher than this
    Height,     \* Height[b]: the height in the header of block b
    Outputs,    \* Outputs[b]: the decodable HAP outputs of b, in block order
    Manifest,   \* Manifest[p]: the manifest hash in the payload of p
    Exact,      \* points whose whole payload is the payload_hex of the batch
    Tx,         \* Tx[p]: the transaction p is an output of
    None        \* no value: SQL NULL, Python None, or an RPC that raises

Heights == 0 .. MaxHeight

(***************************************************************************)
(* What is assumed of Bitcoin: a hash fixes the height of its block and    *)
(* everything below it, and a transaction is in at most one block of a     *)
(* chain.  Manifest hashes are collision free, so a payload names one      *)
(* batch.  A payload can name a known batch and still differ from its      *)
(* payload_hex (another commitment type byte): such points are not Exact.  *)
(***************************************************************************)
ASSUME ChainAssumption ==
    /\ MaxHeight \in Nat
    /\ None \notin Blocks /\ None \notin Batches /\ None \notin Points
    /\ Height \in [Blocks -> Heights]
    /\ Outputs \in [Blocks -> Seq(Points)]
    /\ Manifest \in [Points -> Batches]
    /\ Exact \subseteq Points
    /\ Branches \subseteq Seq(Blocks)
    /\ \A c \in Branches :
          /\ 1 <= Len(c)
          /\ \A i \in 1 .. Len(c) : Height[c[i]] = i - 1

\* The part of the assumption that relates two branches.
ASSUME HashAssumption ==
    /\ \A c, d \in Branches : \A i \in 1 .. Len(c) : \A j \in 1 .. Len(d) :
          c[i] = d[j] => \A k \in 1 .. i : c[k] = d[k]
    /\ \A c \in Branches : \A i, j \in 1 .. Len(c) :
          (\E m \in 1 .. Len(Outputs[c[i]]) : \E n \in 1 .. Len(Outputs[c[j]]) :
              Tx[Outputs[c[i]][m]] = Tx[Outputs[c[j]][n]]) => i = j

OutputSet(b) == {Outputs[b][i] : i \in 1 .. Len(Outputs[b])}

BlocksOf(c) == {c[i] : i \in 1 .. Len(c)}

PointsOf(c) == UNION {OutputSet(b) : b \in BlocksOf(c)}

\* rpc.block_count
BlockCount(c) == Len(c) - 1

\* rpc.block_hash: an error above the tip
BlockHash(c, h) == IF h \in 0 .. BlockCount(c) THEN c[h + 1] ELSE None

(***************************************************************************)
(* rpc.transaction(txid, known): the block hashes it may report for the    *)
(* transaction of p.  The wallet and the index answer with the block on    *)
(* the active chain, or with no block while the transaction is unmined;    *)
(* getrawtransaction with an explicit block hash also answers from a block *)
(* that is no longer active.  An RPC error is not an answer.               *)
(***************************************************************************)
Transaction(c, p, known) ==
    {b \in BlocksOf(c) : p \in OutputSet(b)}
      \cup {b \in {known} \cap Blocks : p \in OutputSet(b)}
      \cup (IF p \in PointsOf(c) THEN {} ELSE {None})
=============================================================================
