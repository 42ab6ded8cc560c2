------------------------------ MODULE Recovery ------------------------------
(* Survival archives: the snapshot of a node's tables (export_snapshot,     *)
(* import_snapshot in hap/service.py, validate_snapshot in hap/archive.py), *)
(* the evidence files next to it (hap/evidence_store.py) and the archive    *)
(* that carries both to an empty node (hap/survival.py).                    *)
(*                                                                          *)
(* The node that exports keeps running: records, batches and anchors arrive *)
(* between the three reads of the snapshot, and evidence files arrive or    *)
(* decay between being checked and being copied.  The importing process may *)
(* stop at any step and is then started again from the beginning.           *)
EXTENDS Naturals, FiniteSets

CONSTANTS
    Items,       \* records, batches and anchors
    KindOf,      \* KindOf[i]: the table of the item
    Needs,       \* a record's target, a batch's records, an anchor's batch
    Digests,     \* evidence files
    MaxFaults    \* bound: crashes and files that decay

Kinds == {"records", "batches", "anchors"}

ASSUME RecoveryAssumption ==
    /\ IsFiniteSet(Items)
    /\ KindOf \in [Items -> Kinds]
    /\ Needs \in [Items -> SUBSET Items]
    /\ \A i \in Items : KindOf[i] = "records" => \A n \in Needs[i] : KindOf[n] = "records"
    /\ IsFiniteSet(Digests)
    /\ MaxFaults \in Nat

VARIABLES
    held,      \* tables of the exporting node
    files,     \* files[d]: its evidence file: absent, good, or other bytes
    ex,        \* the export
    archive,   \* the archive file
    theld,     \* tables of the importing node
    tfiles,    \* its evidence files
    im,        \* the import
    faults     \* faults so far

sourceVars == <<held, files>>
targetVars == <<theld, tfiles>>
vars == <<held, files, ex, archive, theld, tfiles, im, faults>>

Contents == {"absent", "good", "bad"}

\* status: what a reader finds at the path; snap and evidence: the snapshot
\* and the manifest; bytes: the members written so far
Archive ==
    [status : {"none", "partial", "complete"}, snap : SUBSET Items,
     evidence : SUBSET Digests, bytes : [Digests -> Contents]]

NoBytes == [d \in Digests |-> "absent"]
NoArchive == [status |-> "none", snap |-> {}, evidence |-> {}, bytes |-> NoBytes]

IdleExport == [pc |-> "idle", snap |-> {}, evidence |-> {}, todo |-> {}]
IdleImport == [pc |-> "idle", from |-> NoArchive, todo |-> {}, pending |-> {}]

\* The tables, the archive, both processes and the evidence files keep their
\* shape: a file is never found half written under its digest.
TypeOK ==
    /\ held \subseteq Items /\ theld \subseteq Items
    /\ files \in [Digests -> Contents] /\ tfiles \in [Digests -> Contents]
    /\ ex \in [pc : {"idle", "records", "batches", "anchors", "validate", "evidence", "write"},
               snap : SUBSET Items, evidence : SUBSET Digests, todo : SUBSET Digests]
    /\ archive \in Archive
    /\ im \in [pc : {"idle", "evidence", "validate", "records", "batches", "anchors"},
               from : Archive, todo : SUBSET Digests, pending : SUBSET Items]
    /\ faults \in 0..MaxFaults

Init ==
    /\ held = {} /\ theld = {}
    /\ files = NoBytes /\ tfiles = NoBytes
    /\ ex = IdleExport /\ im = IdleImport
    /\ archive = NoArchive
    /\ faults = 0

Of(S, k) == {i \in S : KindOf[i] = k}
Closed(S) == \A i \in S : Needs[i] \subseteq S

-----------------------------------------------------------------------------
(* The exporting node                                                       *)

\* A row arrives.  A batch needs its records and an anchor its batch; a
\* record from a peer may come before its target.
SourceAdd(i) ==
    /\ i \notin held
    /\ KindOf[i] = "records" \/ Needs[i] \subseteq held
    /\ held' = held \cup {i}
    /\ UNCHANGED <<files, ex, archive, targetVars, im, faults>>

\* Slip: the file is written under its name, without a temporary one.
AddFileInPlace(d, c) ==
    /\ files[d] = "absent"
    /\ c \in {"good", "bad"}
    /\ files' = [files EXCEPT ![d] = "torn"]
    /\ UNCHANGED <<held, ex, archive, targetVars, im, faults>>

\* add_file: an existing file is left alone.  The file that is copied may
\* have changed since it was hashed; the last check then raises, and the
\* bytes stay.
AddFile(d, c) ==
    /\ files[d] = "absent"
    /\ c \in {"good", "bad"}
    /\ files' = [files EXCEPT ![d] = c]
    /\ UNCHANGED <<held, ex, archive, targetVars, im, faults>>

\* A file decays on disk.
Decay(d) ==
    /\ faults < MaxFaults
    /\ files[d] = "good"
    /\ files' = [files EXCEPT ![d] = "bad"]
    /\ faults' = faults + 1
    /\ UNCHANGED <<held, ex, archive, targetVars, im>>

-----------------------------------------------------------------------------
(* export_snapshot and export_survival_archive                              *)

ExportBegin ==
    /\ ex.pc = "idle"
    /\ ex' = [IdleExport EXCEPT !.pc = "records"]
    /\ UNCHANGED <<sourceVars, archive, targetVars, im, faults>>

\* records, batches and anchors are read under the lock one after the other
ExportRead ==
    /\ ex.pc \in Kinds
    /\ ex' = [ex EXCEPT !.snap = @ \cup Of(held, ex.pc),
                        !.pc = CASE ex.pc = "records" -> "batches"
                                 [] ex.pc = "batches" -> "anchors"
                                 [] ex.pc = "anchors" -> "validate"]
    /\ UNCHANGED <<sourceVars, archive, targetVars, im, faults>>

\* Slip: the snapshot is written as it was read.
ExportUnvalidated ==
    /\ ex.pc = "validate"
    /\ ex' = [ex EXCEPT !.pc = "evidence",
                        !.todo = {d \in Digests : files[d] # "absent"}]
    /\ UNCHANGED <<sourceVars, archive, targetVars, im, faults>>

\* validate_snapshot raises when a target, a record of a batch or the batch
\* of an anchor is not in the snapshot.
ExportValidate ==
    /\ ex.pc = "validate"
    /\ ex' = IF Closed(ex.snap)
             THEN [ex EXCEPT !.pc = "evidence",
                             !.todo = {d \in Digests : files[d] # "absent"}]
             ELSE IdleExport
    /\ UNCHANGED <<sourceVars, archive, targetVars, im, faults>>

\* Files that verify are put into the manifest.
ExportVerify(d) ==
    /\ ex.pc = "evidence"
    /\ d \in ex.todo
    /\ ex' = [ex EXCEPT !.todo = @ \ {d},
                        !.evidence = IF files[d] = "good" THEN @ \cup {d} ELSE @]
    /\ UNCHANGED <<sourceVars, archive, targetVars, im, faults>>

\* The file at the path is truncated and written in place.
ExportOpen ==
    /\ ex.pc = "evidence"
    /\ ex.todo = {}
    /\ archive' = [status |-> "partial", snap |-> ex.snap, evidence |-> ex.evidence,
                   bytes |-> NoBytes]
    /\ ex' = [ex EXCEPT !.pc = "write", !.todo = ex.evidence]
    /\ UNCHANGED <<sourceVars, targetVars, im, faults>>

ExportCopy(d) ==
    /\ ex.pc = "write"
    /\ d \in ex.todo
    /\ archive' = [archive EXCEPT !.bytes[d] = files[d]]
    /\ ex' = [ex EXCEPT !.todo = @ \ {d}]
    /\ UNCHANGED <<sourceVars, targetVars, im, faults>>

ExportClose ==
    /\ ex.pc = "write"
    /\ ex.todo = {}
    /\ archive' = [archive EXCEPT !.status = "complete"]
    /\ ex' = IdleExport
    /\ UNCHANGED <<sourceVars, targetVars, im, faults>>

ExportCrash ==
    /\ faults < MaxFaults
    /\ ex.pc # "idle"
    /\ ex' = IdleExport
    /\ faults' = faults + 1
    /\ UNCHANGED <<sourceVars, archive, targetVars, im>>

-----------------------------------------------------------------------------
(* import_survival_archive and import_snapshot                              *)

\* The node reads its own copy of the archive, which a later export leaves
\* alone.  Its metadata is checked; a truncated file raises.
ImportBegin ==
    /\ im.pc = "idle"
    /\ archive.status = "complete"
    /\ im' = [pc |-> "evidence", from |-> archive, todo |-> archive.evidence, pending |-> {}]
    /\ UNCHANGED <<sourceVars, ex, archive, targetVars, faults>>

\* store_stream: a file that is there and verifies is kept as it is; other
\* bytes are replaced only by bytes with the right digest.
ImportEvidence(d) ==
    /\ im.pc = "evidence"
    /\ d \in im.todo
    /\ tfiles[d] = "good" \/ im.from.bytes[d] = "good"
    /\ tfiles' = [tfiles EXCEPT ![d] = "good"]
    /\ im' = [im EXCEPT !.todo = @ \ {d}]
    /\ UNCHANGED <<sourceVars, ex, archive, theld, faults>>

\* Slip: a member with other bytes is passed over.
ImportEvidencePasses(d) ==
    /\ im.pc = "evidence"
    /\ d \in im.todo
    /\ im.from.bytes[d] # "good"
    /\ im' = [im EXCEPT !.todo = @ \ {d}]
    /\ UNCHANGED <<sourceVars, ex, archive, targetVars, faults>>

\* Other bytes under the digest end the import, and so does a member whose
\* length differs from the manifest's, even when the file is already there.
ImportEvidenceFails(d) ==
    /\ im.pc = "evidence"
    /\ d \in im.todo
    /\ im.from.bytes[d] # "good"
    /\ im' = IdleImport
    /\ UNCHANGED <<sourceVars, ex, archive, targetVars, faults>>

\* Protocol state comes after the last evidence member.
ImportValidate ==
    /\ im.pc = "evidence"
    /\ im.todo = {}
    /\ im' = IF Closed(im.from.snap)
             THEN [im EXCEPT !.pc = "records", !.pending = Of(im.from.snap, "records")]
             ELSE IdleImport
    /\ UNCHANGED <<sourceVars, ex, archive, targetVars, faults>>

\* Slip: records are taken in the order of the snapshot.
ImportRecordUnordered(i) ==
    /\ im.pc = "records"
    /\ i \in im.pending
    /\ theld' = theld \cup {i}
    /\ im' = [im EXCEPT !.pending = @ \ {i}]
    /\ UNCHANGED <<sourceVars, ex, archive, tfiles, faults>>

\* A record waits while its target is neither stored nor out of the queue.
\* (Targets are hashes of older records, so they form no cycle.)
ImportRecord(i) ==
    /\ im.pc = "records"
    /\ i \in im.pending
    /\ \A n \in Needs[i] : n \in theld \/ n \notin im.pending
    /\ theld' = theld \cup {i}
    /\ im' = [im EXCEPT !.pending = @ \ {i}]
    /\ UNCHANGED <<sourceVars, ex, archive, tfiles, faults>>

\* Batches and anchors find what they need: the snapshot is closed.
ImportRest(i) ==
    /\ im.pc \in {"batches", "anchors"}
    /\ i \in im.pending
    /\ Needs[i] \subseteq theld
    /\ theld' = theld \cup {i}
    /\ im' = [im EXCEPT !.pending = @ \ {i}]
    /\ UNCHANGED <<sourceVars, ex, archive, tfiles, faults>>

\* Slip: the import ends with the batches.
ImportNextKindShort ==
    /\ im.pc \in Kinds
    /\ im.pending = {}
    /\ im' = IF im.pc = "records"
             THEN [im EXCEPT !.pc = "batches", !.pending = Of(im.from.snap, "batches")]
             ELSE IdleImport
    /\ UNCHANGED <<sourceVars, ex, archive, targetVars, faults>>

\* After the last record come the batches, then the anchors.
ImportNextKind ==
    /\ im.pc \in Kinds
    /\ im.pending = {}
    /\ im' = CASE im.pc = "records" -> [im EXCEPT !.pc = "batches",
                                            !.pending = Of(im.from.snap, "batches")]
               [] im.pc = "batches" -> [im EXCEPT !.pc = "anchors",
                                            !.pending = Of(im.from.snap, "anchors")]
               [] im.pc = "anchors" -> IdleImport
    /\ UNCHANGED <<sourceVars, ex, archive, targetVars, faults>>

ImportCrash ==
    /\ faults < MaxFaults
    /\ im.pc # "idle"
    /\ im' = IdleImport
    /\ faults' = faults + 1
    /\ UNCHANGED <<sourceVars, ex, archive, targetVars>>

ImportStep ==
    \/ \E d \in Digests : ImportEvidence(d) \/ ImportEvidenceFails(d)
    \/ ImportValidate
    \/ \E i \in Items : ImportRecord(i) \/ ImportRest(i)
    \/ ImportNextKind

ExportStep ==
    \/ ExportRead
    \/ ExportValidate
    \/ \E d \in Digests : ExportVerify(d) \/ ExportCopy(d)
    \/ ExportOpen
    \/ ExportClose

Next ==
    \/ \E i \in Items : SourceAdd(i)
    \/ \E d \in Digests : Decay(d) \/ \E c \in Contents : AddFile(d, c)
    \/ ExportBegin \/ ExportStep \/ ExportCrash
    \/ ImportBegin \/ ImportStep \/ ImportCrash

Spec == Init /\ [][Next]_vars

\* The operator repeats survival-import until it succeeds, and a running
\* import goes on.
FairSpec == Spec /\ WF_vars(ImportBegin) /\ WF_vars(ImportStep)

-----------------------------------------------------------------------------
(* Properties                                                               *)

\* A complete archive is a consistent cut, although records, batches and
\* anchors were read at three moments of a running node (export_snapshot).
ArchiveIsCut == archive.status = "complete" => Closed(archive.snap)

\* At every step of an import, and after a crash in the middle of one, the
\* node's tables are closed: no record without its target, no batch without
\* its records, no anchor without its batch (import_snapshot).
RestoredClosed == Closed(theld)

\* Protocol state is imported only while every evidence member of the archive
\* is in the store and verifies: "A failed evidence import cannot partially
\* trust the archive's claimed Bitcoin or record state" (survival.py).
EvidenceFirst ==
    [][theld' # theld => \A d \in im.from.evidence : tfiles[d] = "good"]_vars

\* An archive that stays where it is and whose members are intact is restored
\* completely, whatever crashes interrupt the import.
Recovers ==
    <>[](archive.status = "complete" /\ \A d \in archive.evidence : archive.bytes[d] = "good")
    => <>[](archive.snap \subseteq theld)
=============================================================================
