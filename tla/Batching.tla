------------------------------ MODULE Batching ------------------------------
(* Batches of records: create_batch and create_direct_batch of the          *)
(* coordinator, import_batch from peers, and the membership proofs that     *)
(* are made from them (hap/service.py, hap/batches.py, hap/packages.py).    *)
EXTENDS Merkle, FiniteSetsExt

CONSTANTS
    Arrivals,     \* record identifiers, in the order in which they are stored
    Size,         \* Size[r]: bytes of the record's canonical JSON
    Offers,       \* record_ids of the batches that peers send
    Calls,        \* POST /v1/batches requests that may run at once
    Times,        \* created_at values
    Limit,        \* max_batch_records
    MaxPackage,   \* max_package_bytes
    Envelope,     \* bytes of a package that holds no record
    PerRecord,    \* bytes each record adds besides its own
    EnvelopeGuess,  \* what create_batch reckons for the envelope
    PerRecordGuess, \* and for each record
    MaxExtras     \* bound: direct and imported batches

Records == Range(Arrivals)

ASSUME BatchingAssumption ==
    /\ Arrivals \in Seq(Nat) /\ IsInjective(Arrivals)
    /\ Size \in [Records -> Nat]
    /\ \A o \in Offers : o \in Seq(Records)
    /\ Limit \in Nat \ {0}
    /\ Envelope <= EnvelopeGuess
    /\ PerRecord <= PerRecordGuess
    /\ MaxExtras \in Nat

VARIABLES
    stored,    \* how many of Arrivals are in the records table
    batches,   \* the batches table: the committed identifiers and created_at
    chosen,    \* chosen[c]: candidates a running create_batch has read
    extras     \* direct and imported batches so far

vars == <<stored, batches, chosen, extras>>

Present == {Arrivals[i] : i \in 1..stored}
Batched == UNION {Range(b.ids) : b \in batches}

Total[S \in SUBSET Records] ==
    IF S = {} THEN 0 ELSE LET r == CHOOSE r \in S : TRUE IN Size[r] + Total[S \ {r}]
Bytes(ids) == Total[Range(ids)]

\* the canonical JSON of create_package
PackageBytes(ids) == Envelope + Bytes(ids) + Len(ids) * PerRecord

\* Slip: neither order nor repetition is looked at.
ValidIdsLoose(ids) == ids # <<>>

\* validate_batch: not empty, lexicographic order, no repetition.
ValidIds(ids) == ids # <<>> /\ \A i \in 1..(Len(ids) - 1) : ids[i] < ids[i + 1]

TypeOK ==
    /\ stored \in 0..Len(Arrivals)
    /\ batches \subseteq [ids : Seq(Present), at : Times]
    /\ \A b \in batches : ValidIds(b.ids)
    /\ chosen \in [Calls -> Seq(Present)]
    /\ extras \in 0..MaxExtras

Init ==
    /\ stored = 0
    /\ batches = {}
    /\ chosen = [c \in Calls |-> <<>>]
    /\ extras = 0

Submit ==
    /\ stored < Len(Arrivals)
    /\ stored' = stored + 1
    /\ UNCHANGED <<batches, chosen, extras>>

\* A set of numbers in ascending order: the j-th has j - 1 before it.
Sorted(S) == [j \in 1 .. Cardinality(S) |-> CHOOSE x \in S : Cardinality({y \in S : y < x}) = j - 1]

\* Slip: the oldest records, batched or not.
UnbatchedAny == SubSeq(Arrivals, 1, Min({stored, Limit}))

\* The oldest records that are in no batch.
Unbatched ==
    LET free == {i \in 1 .. stored : \A b \in batches : Arrivals[i] \notin Range(b.ids)}
    IN  [j \in 1 .. Min({Cardinality(free), Limit}) |-> Arrivals[Sorted(free)[j]]]

\* Slip: the record that does not fit is still taken.
FittingOneMore(candidates) ==
    LET Reckoned(n) == EnvelopeGuess + Bytes(SubSeq(candidates, 1, n)) + n * PerRecordGuess
    IN  Max({n \in 0..Len(candidates) : n = 0 \/ Reckoned(n - 1) <= MaxPackage})

\* How many candidates the package takes: as many as the reckoning allows,
\* then as many as the package made of them really has room for.
Fitting(candidates) ==
    LET Reckoned(n) == EnvelopeGuess + Bytes(SubSeq(candidates, 1, n)) + n * PerRecordGuess
        Real(n) == PackageBytes(SubSeq(candidates, 1, n))
        guess == Max({n \in 0..Len(candidates) : n = 0 \/ Reckoned(n) <= MaxPackage})
    IN  Max({n \in 0..guess : n = 0 \/ Real(n) <= MaxPackage})

\* storage.records(unbatched_only=True); a call that finds none raises
CreateBatchRead(c) ==
    /\ chosen[c] = <<>>
    /\ Unbatched # <<>>
    /\ chosen' = [chosen EXCEPT ![c] = Unbatched]
    /\ UNCHANGED <<stored, batches, extras>>

\* The manifest of the candidates that fit, in the order of their identifiers,
\* is stored; add_batch ignores a batch that is already there.  A call whose
\* first candidate does not fit raises.
CreateBatchWrite(c, at) ==
    /\ chosen[c] # <<>>
    /\ \E n \in 0..Len(chosen[c]) :
          /\ n = Fitting(chosen[c])
          /\ batches' = IF n = 0 THEN batches
                        ELSE batches \cup
                             {[ids |-> Sorted(Range(SubSeq(chosen[c], 1, n))), at |-> at]}
    /\ chosen' = [chosen EXCEPT ![c] = <<>>]
    /\ UNCHANGED <<stored, extras>>

\* create_direct_batch: one record, whatever its size and other batches.
CreateDirectBatch(r, at) ==
    /\ extras < MaxExtras
    /\ r \in Present
    /\ batches' = batches \cup {[ids |-> <<r>>, at |-> at]}
    /\ extras' = extras + 1
    /\ UNCHANGED <<stored, chosen>>

\* Slip: records that are missing may come later.
ImportBatchEarly(ids, at) ==
    /\ extras < MaxExtras
    /\ ValidIds(ids)
    /\ batches' = batches \cup {[ids |-> ids, at |-> at]}
    /\ extras' = extras + 1
    /\ UNCHANGED <<stored, chosen>>

\* import_batch: refused unless valid; later again if records are missing.
ImportBatch(ids, at) ==
    /\ extras < MaxExtras
    /\ ValidIds(ids)
    /\ Range(ids) \subseteq Present
    /\ batches' = batches \cup {[ids |-> ids, at |-> at]}
    /\ extras' = extras + 1
    /\ UNCHANGED <<stored, chosen>>

CreateBatch(c) ==
    \/ CreateBatchRead(c)
    \/ \E at \in Times : CreateBatchWrite(c, at)

Next ==
    \/ Submit
    \/ \E c \in Calls : CreateBatch(c)
    \/ \E r \in Records, at \in Times : CreateDirectBatch(r, at)
    \/ \E o \in Offers, at \in Times : ImportBatch(o, at)

\* The coordinator's operator goes on asking for batches.
Spec == Init /\ [][Next]_vars /\ WF_vars(\E c \in Calls : CreateBatch(c))

-----------------------------------------------------------------------------
(* Properties                                                               *)

\* For each batch and position the proof that proofs_for_record hands out
\* verifies for the record there, and for no other record of the node
\* (merkle_proof, verify_merkle_proof), at every size and padding.
ProofsVerify ==
    \A b \in batches : \A i \in 1..Len(b.ids), r \in Present :
        verify_merkle_proof(r, merkle_proof(b.ids, i - 1), merkle_root(b.ids)) <=> r = b.ids[i]

\* Two batches with the same Merkle root commit to the same records: padding
\* with the last digest lets a list and the list with its last record
\* repeated have one root, and validate_batch has to keep the second out.
RootsBind ==
    \A a, b \in batches : merkle_root(a.ids) = merkle_root(b.ids) => a.ids = b.ids

\* Only a record published on its own may give a package over the limit,
\* whatever records the coordinator found waiting (create_batch).
PackagesFit ==
    \A b \in batches : Len(b.ids) > 1 /\ b.ids \notin Offers
                       => PackageBytes(b.ids) <= MaxPackage

Oversized(r) == EnvelopeGuess + Size[r] + PerRecordGuess > MaxPackage

\* Every record is batched in the end, unless one that is too large for the
\* limit stays at the head of the queue; publishing that one directly frees
\* the queue (create_batch, create_direct_batch).
EveryRecordBatched ==
    <>[](\A r \in Present \ Batched : ~Oversized(r)) => <>[](Present \subseteq Batched)
=============================================================================
