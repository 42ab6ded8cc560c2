--------------------------- MODULE RecoveryProof ---------------------------
(* Survival archives are consistent cuts and imports keep the tables closed *)
(* and the evidence before the protocol state, for every table, every set   *)
(* of evidence files and every number of crashes and decayed files.         *)
EXTENDS Recovery, TLAPS

\* A snapshot that passed its validation is closed, and so is what was
\* written of it; a writer writes the snapshot it validated.
ExportKnows ==
    /\ ex.pc \in {"evidence", "write"} => Closed(ex.snap)
    /\ ex.pc = "write" => archive.snap = ex.snap
    /\ ArchiveIsCut

\* Evidence that is out of the queue is in the store and verifies.
EvidenceKnows ==
    im.pc # "idle" => \A d \in im.from.evidence \ im.todo : tfiles[d] = "good"

\* Records that are out of the queue are stored; nothing is imported while
\* evidence is missing, and only from a closed snapshot.
ImportKnows ==
    /\ im.pc \in Kinds => im.todo = {} /\ Closed(im.from.snap)
    /\ im.pc \in Kinds => im.pending \subseteq Of(im.from.snap, im.pc)
    /\ im.pc = "records" => Of(im.from.snap, "records") \ im.pending \subseteq theld

IInv == TypeOK /\ ExportKnows /\ EvidenceKnows /\ ImportKnows /\ RestoredClosed

LEMMA ArchiveTypes ==
  /\ NoBytes \in [Digests -> Contents]
  /\ NoArchive \in Archive
  /\ \A s \in {"none", "partial", "complete"}, S \in SUBSET Items, E \in SUBSET Digests,
        b \in [Digests -> Contents] :
       [status |-> s, snap |-> S, evidence |-> E, bytes |-> b] \in Archive
BY DEF NoBytes, NoArchive, Archive, Contents

\* The invariant holds initially.
LEMMA Initially ==
  Init => IInv
<1> SUFFICES ASSUME Init PROVE IInv
  OBVIOUS
<1>1. TypeOK
  BY ArchiveTypes, RecoveryAssumption DEF Init, TypeOK, IdleExport, IdleImport
<1> QED
  BY <1>1 DEF Init, IInv, ExportKnows, EvidenceKnows, ImportKnows, RestoredClosed,
      ArchiveIsCut, NoArchive, IdleExport, IdleImport, Kinds, Closed

LEMMA SourceAddStep ==
  ASSUME IInv, NEW i \in Items, SourceAdd(i) PROVE IInv'
<1>1. TypeOK'
  BY RecoveryAssumption, ArchiveTypes DEF TypeOK, IInv, SourceAdd, sourceVars, targetVars
<1>2. ExportKnows'
  BY DEF IInv, ExportKnows, ArchiveIsCut, TypeOK, Archive, IdleExport, Kinds, SourceAdd, sourceVars, targetVars
<1>3. EvidenceKnows'
  BY DEF IInv, EvidenceKnows, TypeOK, Archive, IdleImport, SourceAdd, sourceVars, targetVars
<1>4. ImportKnows'
  BY RecoveryAssumption DEF IInv, ImportKnows, TypeOK, Archive, IdleImport, Kinds, Of, SourceAdd, sourceVars, targetVars
<1>5. RestoredClosed'
  BY RecoveryAssumption DEF IInv, RestoredClosed, ImportKnows, Closed, TypeOK, Kinds, Of, SourceAdd, sourceVars, targetVars
<1> QED
  BY <1>1, <1>2, <1>3, <1>4, <1>5 DEF IInv

LEMMA AddFileStep ==
  ASSUME IInv, NEW d \in Digests, NEW c \in Contents, AddFile(d, c) PROVE IInv'
<1>1. TypeOK'
  BY RecoveryAssumption, ArchiveTypes DEF TypeOK, Contents, IInv, AddFile, sourceVars, targetVars
<1>2. ExportKnows'
  BY DEF IInv, ExportKnows, ArchiveIsCut, TypeOK, Archive, IdleExport, Kinds, AddFile, sourceVars, targetVars
<1>3. EvidenceKnows'
  BY DEF IInv, EvidenceKnows, TypeOK, Archive, IdleImport, AddFile, sourceVars, targetVars
<1>4. ImportKnows'
  BY RecoveryAssumption DEF IInv, ImportKnows, TypeOK, Archive, IdleImport, Kinds, Of, AddFile, sourceVars, targetVars
<1>5. RestoredClosed'
  BY RecoveryAssumption DEF IInv, RestoredClosed, ImportKnows, Closed, TypeOK, Kinds, Of, AddFile, sourceVars, targetVars
<1> QED
  BY <1>1, <1>2, <1>3, <1>4, <1>5 DEF IInv

LEMMA DecayStep ==
  ASSUME IInv, NEW d \in Digests, Decay(d) PROVE IInv'
<1>1. TypeOK'
  BY RecoveryAssumption, ArchiveTypes DEF TypeOK, Contents, IInv, Decay, sourceVars, targetVars
<1>2. ExportKnows'
  BY DEF IInv, ExportKnows, ArchiveIsCut, TypeOK, Archive, IdleExport, Kinds, Decay, sourceVars, targetVars
<1>3. EvidenceKnows'
  BY DEF IInv, EvidenceKnows, TypeOK, Archive, IdleImport, Decay, sourceVars, targetVars
<1>4. ImportKnows'
  BY RecoveryAssumption DEF IInv, ImportKnows, TypeOK, Archive, IdleImport, Kinds, Of, Decay, sourceVars, targetVars
<1>5. RestoredClosed'
  BY RecoveryAssumption DEF IInv, RestoredClosed, ImportKnows, Closed, TypeOK, Kinds, Of, Decay, sourceVars, targetVars
<1> QED
  BY <1>1, <1>2, <1>3, <1>4, <1>5 DEF IInv

LEMMA ExportBeginStep ==
  ASSUME IInv, ExportBegin PROVE IInv'
<1>1. TypeOK'
  BY RecoveryAssumption, ArchiveTypes DEF TypeOK, IdleExport, IInv, ExportBegin, sourceVars, targetVars
<1>2. ExportKnows'
  BY DEF IInv, ExportKnows, ArchiveIsCut, TypeOK, Archive, IdleExport, Kinds, ExportBegin, sourceVars, targetVars
<1>3. EvidenceKnows'
  BY DEF IInv, EvidenceKnows, TypeOK, Archive, IdleImport, ExportBegin, sourceVars, targetVars
<1>4. ImportKnows'
  BY RecoveryAssumption DEF IInv, ImportKnows, TypeOK, Archive, IdleImport, Kinds, Of, ExportBegin, sourceVars, targetVars
<1>5. RestoredClosed'
  BY RecoveryAssumption DEF IInv, RestoredClosed, ImportKnows, Closed, TypeOK, Kinds, Of, ExportBegin, sourceVars, targetVars
<1> QED
  BY <1>1, <1>2, <1>3, <1>4, <1>5 DEF IInv

LEMMA ExportReadStep ==
  ASSUME IInv, ExportRead PROVE IInv'
<1>1. TypeOK'
  BY RecoveryAssumption, ArchiveTypes DEF TypeOK, Kinds, Of, IInv, ExportRead, sourceVars, targetVars
<1>2. ExportKnows'
  BY DEF IInv, ExportKnows, ArchiveIsCut, TypeOK, Archive, IdleExport, Kinds, ExportRead, sourceVars, targetVars
<1>3. EvidenceKnows'
  BY DEF IInv, EvidenceKnows, TypeOK, Archive, IdleImport, ExportRead, sourceVars, targetVars
<1>4. ImportKnows'
  BY RecoveryAssumption DEF IInv, ImportKnows, TypeOK, Archive, IdleImport, Kinds, Of, ExportRead, sourceVars, targetVars
<1>5. RestoredClosed'
  BY RecoveryAssumption DEF IInv, RestoredClosed, ImportKnows, Closed, TypeOK, Kinds, Of, ExportRead, sourceVars, targetVars
<1> QED
  BY <1>1, <1>2, <1>3, <1>4, <1>5 DEF IInv

LEMMA ExportValidateStep ==
  ASSUME IInv, ExportValidate PROVE IInv'
<1>1. TypeOK'
  BY RecoveryAssumption, ArchiveTypes DEF TypeOK, IdleExport, IInv, ExportValidate, sourceVars, targetVars
<1>2. ExportKnows'
  BY DEF IInv, ExportKnows, ArchiveIsCut, TypeOK, Archive, IdleExport, Kinds, ExportValidate, sourceVars, targetVars
<1>3. EvidenceKnows'
  BY DEF IInv, EvidenceKnows, TypeOK, Archive, IdleImport, ExportValidate, sourceVars, targetVars
<1>4. ImportKnows'
  BY RecoveryAssumption DEF IInv, ImportKnows, TypeOK, Archive, IdleImport, Kinds, Of, ExportValidate, sourceVars, targetVars
<1>5. RestoredClosed'
  BY RecoveryAssumption DEF IInv, RestoredClosed, ImportKnows, Closed, TypeOK, Kinds, Of, ExportValidate, sourceVars, targetVars
<1> QED
  BY <1>1, <1>2, <1>3, <1>4, <1>5 DEF IInv

LEMMA ExportVerifyStep ==
  ASSUME IInv, NEW d \in Digests, ExportVerify(d) PROVE IInv'
<1>1. TypeOK'
  BY RecoveryAssumption, ArchiveTypes DEF TypeOK, IInv, ExportVerify, sourceVars, targetVars
<1>2. ExportKnows'
  BY DEF IInv, ExportKnows, ArchiveIsCut, TypeOK, Archive, IdleExport, Kinds, ExportVerify, sourceVars, targetVars
<1>3. EvidenceKnows'
  BY DEF IInv, EvidenceKnows, TypeOK, Archive, IdleImport, ExportVerify, sourceVars, targetVars
<1>4. ImportKnows'
  BY RecoveryAssumption DEF IInv, ImportKnows, TypeOK, Archive, IdleImport, Kinds, Of, ExportVerify, sourceVars, targetVars
<1>5. RestoredClosed'
  BY RecoveryAssumption DEF IInv, RestoredClosed, ImportKnows, Closed, TypeOK, Kinds, Of, ExportVerify, sourceVars, targetVars
<1> QED
  BY <1>1, <1>2, <1>3, <1>4, <1>5 DEF IInv

LEMMA ExportOpenStep ==
  ASSUME IInv, ExportOpen PROVE IInv'
<1>1. TypeOK'
  BY RecoveryAssumption, ArchiveTypes DEF TypeOK, IInv, ExportOpen, sourceVars, targetVars
<1>2. ExportKnows'
  BY DEF IInv, ExportKnows, ArchiveIsCut, TypeOK, Archive, IdleExport, Kinds, ExportOpen, sourceVars, targetVars
<1>3. EvidenceKnows'
  BY DEF IInv, EvidenceKnows, TypeOK, Archive, IdleImport, ExportOpen, sourceVars, targetVars
<1>4. ImportKnows'
  BY RecoveryAssumption DEF IInv, ImportKnows, TypeOK, Archive, IdleImport, Kinds, Of, ExportOpen, sourceVars, targetVars
<1>5. RestoredClosed'
  BY RecoveryAssumption DEF IInv, RestoredClosed, ImportKnows, Closed, TypeOK, Kinds, Of, ExportOpen, sourceVars, targetVars
<1> QED
  BY <1>1, <1>2, <1>3, <1>4, <1>5 DEF IInv

LEMMA ExportCopyStep ==
  ASSUME IInv, NEW d \in Digests, ExportCopy(d) PROVE IInv'
<1>1. TypeOK'
  BY RecoveryAssumption, ArchiveTypes DEF TypeOK, Archive, IInv, ExportCopy, sourceVars, targetVars
<1>2. ExportKnows'
  BY DEF IInv, ExportKnows, ArchiveIsCut, TypeOK, Archive, IdleExport, Kinds, ExportCopy, sourceVars, targetVars
<1>3. EvidenceKnows'
  BY DEF IInv, EvidenceKnows, TypeOK, Archive, IdleImport, ExportCopy, sourceVars, targetVars
<1>4. ImportKnows'
  BY RecoveryAssumption DEF IInv, ImportKnows, TypeOK, Archive, IdleImport, Kinds, Of, ExportCopy, sourceVars, targetVars
<1>5. RestoredClosed'
  BY RecoveryAssumption DEF IInv, RestoredClosed, ImportKnows, Closed, TypeOK, Kinds, Of, ExportCopy, sourceVars, targetVars
<1> QED
  BY <1>1, <1>2, <1>3, <1>4, <1>5 DEF IInv

LEMMA ExportCloseStep ==
  ASSUME IInv, ExportClose PROVE IInv'
<1>1. TypeOK'
  BY RecoveryAssumption, ArchiveTypes DEF TypeOK, Archive, IdleExport, IInv, ExportClose, sourceVars, targetVars
<1>2. ExportKnows'
  BY DEF IInv, ExportKnows, ArchiveIsCut, TypeOK, Archive, IdleExport, Kinds, ExportClose, sourceVars, targetVars
<1>3. EvidenceKnows'
  BY DEF IInv, EvidenceKnows, TypeOK, Archive, IdleImport, ExportClose, sourceVars, targetVars
<1>4. ImportKnows'
  BY RecoveryAssumption DEF IInv, ImportKnows, TypeOK, Archive, IdleImport, Kinds, Of, ExportClose, sourceVars, targetVars
<1>5. RestoredClosed'
  BY RecoveryAssumption DEF IInv, RestoredClosed, ImportKnows, Closed, TypeOK, Kinds, Of, ExportClose, sourceVars, targetVars
<1> QED
  BY <1>1, <1>2, <1>3, <1>4, <1>5 DEF IInv

LEMMA ExportCrashStep ==
  ASSUME IInv, ExportCrash PROVE IInv'
<1>1. TypeOK'
  BY RecoveryAssumption, ArchiveTypes DEF TypeOK, IdleExport, IInv, ExportCrash, sourceVars, targetVars
<1>2. ExportKnows'
  BY DEF IInv, ExportKnows, ArchiveIsCut, TypeOK, Archive, IdleExport, Kinds, ExportCrash, sourceVars, targetVars
<1>3. EvidenceKnows'
  BY DEF IInv, EvidenceKnows, TypeOK, Archive, IdleImport, ExportCrash, sourceVars, targetVars
<1>4. ImportKnows'
  BY RecoveryAssumption DEF IInv, ImportKnows, TypeOK, Archive, IdleImport, Kinds, Of, ExportCrash, sourceVars, targetVars
<1>5. RestoredClosed'
  BY RecoveryAssumption DEF IInv, RestoredClosed, ImportKnows, Closed, TypeOK, Kinds, Of, ExportCrash, sourceVars, targetVars
<1> QED
  BY <1>1, <1>2, <1>3, <1>4, <1>5 DEF IInv

LEMMA ImportBeginStep ==
  ASSUME IInv, ImportBegin PROVE IInv'
<1>1. TypeOK'
  BY RecoveryAssumption, ArchiveTypes DEF TypeOK, Archive, IInv, ImportBegin, sourceVars, targetVars
<1>2. ExportKnows'
  BY DEF IInv, ExportKnows, ArchiveIsCut, TypeOK, Archive, IdleExport, Kinds, ImportBegin, sourceVars, targetVars
<1>3. EvidenceKnows'
  BY DEF IInv, EvidenceKnows, TypeOK, Archive, IdleImport, ImportBegin, sourceVars, targetVars
<1>4. ImportKnows'
  BY RecoveryAssumption DEF IInv, ImportKnows, TypeOK, Archive, IdleImport, Kinds, Of, ImportBegin, sourceVars, targetVars
<1>5. RestoredClosed'
  BY RecoveryAssumption DEF IInv, RestoredClosed, ImportKnows, Closed, TypeOK, Kinds, Of, ImportBegin, sourceVars, targetVars
<1> QED
  BY <1>1, <1>2, <1>3, <1>4, <1>5 DEF IInv

LEMMA ImportEvidenceStep ==
  ASSUME IInv, NEW d \in Digests, ImportEvidence(d) PROVE IInv'
<1>1. TypeOK'
  BY RecoveryAssumption, ArchiveTypes DEF TypeOK, Contents, IInv, ImportEvidence, sourceVars, targetVars
<1>2. ExportKnows'
  BY DEF IInv, ExportKnows, ArchiveIsCut, TypeOK, Archive, IdleExport, Kinds, ImportEvidence, sourceVars, targetVars
<1>3. EvidenceKnows'
  BY DEF IInv, EvidenceKnows, TypeOK, Archive, IdleImport, ImportEvidence, sourceVars, targetVars
<1>4. ImportKnows'
  BY RecoveryAssumption DEF IInv, ImportKnows, TypeOK, Archive, IdleImport, Kinds, Of, ImportEvidence, sourceVars, targetVars
<1>5. RestoredClosed'
  BY RecoveryAssumption DEF IInv, RestoredClosed, ImportKnows, Closed, TypeOK, Kinds, Of, ImportEvidence, sourceVars, targetVars
<1> QED
  BY <1>1, <1>2, <1>3, <1>4, <1>5 DEF IInv

LEMMA ImportEvidenceFailsStep ==
  ASSUME IInv, NEW d \in Digests, ImportEvidenceFails(d) PROVE IInv'
<1>1. TypeOK'
  BY RecoveryAssumption, ArchiveTypes DEF TypeOK, IdleImport, IInv, ImportEvidenceFails, sourceVars, targetVars
<1>2. ExportKnows'
  BY DEF IInv, ExportKnows, ArchiveIsCut, TypeOK, Archive, IdleExport, Kinds, ImportEvidenceFails, sourceVars, targetVars
<1>3. EvidenceKnows'
  BY DEF IInv, EvidenceKnows, TypeOK, Archive, IdleImport, ImportEvidenceFails, sourceVars, targetVars
<1>4. ImportKnows'
  BY RecoveryAssumption DEF IInv, ImportKnows, TypeOK, Archive, IdleImport, Kinds, Of, ImportEvidenceFails, sourceVars, targetVars
<1>5. RestoredClosed'
  BY RecoveryAssumption DEF IInv, RestoredClosed, ImportKnows, Closed, TypeOK, Kinds, Of, ImportEvidenceFails, sourceVars, targetVars
<1> QED
  BY <1>1, <1>2, <1>3, <1>4, <1>5 DEF IInv

LEMMA ImportValidateStep ==
  ASSUME IInv, ImportValidate PROVE IInv'
<1>1. TypeOK'
  BY RecoveryAssumption, ArchiveTypes DEF TypeOK, IdleImport, Of, Archive, IInv, ImportValidate, sourceVars, targetVars
<1>2. ExportKnows'
  BY DEF IInv, ExportKnows, ArchiveIsCut, TypeOK, Archive, IdleExport, Kinds, ImportValidate, sourceVars, targetVars
<1>3. EvidenceKnows'
  BY DEF IInv, EvidenceKnows, TypeOK, Archive, IdleImport, ImportValidate, sourceVars, targetVars
<1>4. ImportKnows'
  BY RecoveryAssumption DEF IInv, ImportKnows, TypeOK, Archive, IdleImport, Kinds, Of, ImportValidate, sourceVars, targetVars
<1>5. RestoredClosed'
  BY RecoveryAssumption DEF IInv, RestoredClosed, ImportKnows, Closed, TypeOK, Kinds, Of, ImportValidate, sourceVars, targetVars
<1> QED
  BY <1>1, <1>2, <1>3, <1>4, <1>5 DEF IInv

LEMMA ImportRecordStep ==
  ASSUME IInv, NEW i \in Items, ImportRecord(i) PROVE IInv'
<1>1. TypeOK'
  BY RecoveryAssumption, ArchiveTypes DEF TypeOK, IInv, ImportRecord, sourceVars, targetVars
<1>2. ExportKnows'
  BY DEF IInv, ExportKnows, ArchiveIsCut, TypeOK, Archive, IdleExport, Kinds, ImportRecord, sourceVars, targetVars
<1>3. EvidenceKnows'
  BY DEF IInv, EvidenceKnows, TypeOK, Archive, IdleImport, ImportRecord, sourceVars, targetVars
<1>4. ImportKnows'
  BY RecoveryAssumption DEF IInv, ImportKnows, TypeOK, Archive, IdleImport, Kinds, Of, ImportRecord, sourceVars, targetVars
<1>5. RestoredClosed'
  BY RecoveryAssumption DEF IInv, RestoredClosed, ImportKnows, Closed, TypeOK, Kinds, Of, ImportRecord, sourceVars, targetVars
<1> QED
  BY <1>1, <1>2, <1>3, <1>4, <1>5 DEF IInv

LEMMA ImportRestStep ==
  ASSUME IInv, NEW i \in Items, ImportRest(i) PROVE IInv'
<1>1. TypeOK'
  BY RecoveryAssumption, ArchiveTypes DEF TypeOK, IInv, ImportRest, sourceVars, targetVars
<1>2. ExportKnows'
  BY DEF IInv, ExportKnows, ArchiveIsCut, TypeOK, Archive, IdleExport, Kinds, ImportRest, sourceVars, targetVars
<1>3. EvidenceKnows'
  BY DEF IInv, EvidenceKnows, TypeOK, Archive, IdleImport, ImportRest, sourceVars, targetVars
<1>4. ImportKnows'
  BY RecoveryAssumption DEF IInv, ImportKnows, TypeOK, Archive, IdleImport, Kinds, Of, ImportRest, sourceVars, targetVars
<1>5. RestoredClosed'
  BY RecoveryAssumption DEF IInv, RestoredClosed, ImportKnows, Closed, TypeOK, Kinds, Of, ImportRest, sourceVars, targetVars
<1> QED
  BY <1>1, <1>2, <1>3, <1>4, <1>5 DEF IInv

LEMMA ImportNextKindStep ==
  ASSUME IInv, ImportNextKind PROVE IInv'
<1>1. TypeOK'
  BY RecoveryAssumption, ArchiveTypes, ZenonT(40) DEF TypeOK, IdleImport, Of, Archive, Kinds, IInv, ImportNextKind, sourceVars, targetVars
<1>2. ExportKnows'
  BY DEF IInv, ExportKnows, ArchiveIsCut, TypeOK, Archive, IdleExport, Kinds, ImportNextKind, sourceVars, targetVars
<1>3. EvidenceKnows'
  BY DEF IInv, EvidenceKnows, TypeOK, Archive, IdleImport, Kinds, ImportNextKind, sourceVars, targetVars
<1>4. ImportKnows'
  BY RecoveryAssumption DEF IInv, ImportKnows, TypeOK, Archive, IdleImport, Kinds, Of, ImportNextKind, sourceVars, targetVars
<1>5. RestoredClosed'
  BY RecoveryAssumption DEF IInv, RestoredClosed, ImportKnows, Closed, TypeOK, Kinds, Of, ImportNextKind, sourceVars, targetVars
<1> QED
  BY <1>1, <1>2, <1>3, <1>4, <1>5 DEF IInv

LEMMA ImportCrashStep ==
  ASSUME IInv, ImportCrash PROVE IInv'
<1>1. TypeOK'
  BY RecoveryAssumption, ArchiveTypes DEF TypeOK, IdleImport, IInv, ImportCrash, sourceVars, targetVars
<1>2. ExportKnows'
  BY DEF IInv, ExportKnows, ArchiveIsCut, TypeOK, Archive, IdleExport, Kinds, ImportCrash, sourceVars, targetVars
<1>3. EvidenceKnows'
  BY DEF IInv, EvidenceKnows, TypeOK, Archive, IdleImport, ImportCrash, sourceVars, targetVars
<1>4. ImportKnows'
  BY RecoveryAssumption DEF IInv, ImportKnows, TypeOK, Archive, IdleImport, Kinds, Of, ImportCrash, sourceVars, targetVars
<1>5. RestoredClosed'
  BY RecoveryAssumption DEF IInv, RestoredClosed, ImportKnows, Closed, TypeOK, Kinds, Of, ImportCrash, sourceVars, targetVars
<1> QED
  BY <1>1, <1>2, <1>3, <1>4, <1>5 DEF IInv

\* Every step preserves the invariant.
LEMMA Preserved ==
  IInv /\ [Next]_vars => IInv'
<1> SUFFICES ASSUME IInv, [Next]_vars PROVE IInv'
  OBVIOUS
<1>1. CASE UNCHANGED vars
  BY <1>1 DEF IInv, TypeOK, ExportKnows, ArchiveIsCut, EvidenceKnows, ImportKnows,
      RestoredClosed, Closed, Of, vars
<1>2. CASE ExportStep
  BY <1>2, ExportReadStep, ExportValidateStep, ExportVerifyStep, ExportOpenStep,
     ExportCopyStep, ExportCloseStep DEF ExportStep
<1>3. CASE ImportStep
  BY <1>3, ImportEvidenceStep, ImportEvidenceFailsStep, ImportValidateStep,
     ImportRecordStep, ImportRestStep, ImportNextKindStep DEF ImportStep
<1> QED
  BY <1>1, <1>2, <1>3, SourceAddStep, AddFileStep, DecayStep, ExportBeginStep,
     ExportCrashStep, ImportBeginStep, ImportCrashStep DEF Next

\* The inductive invariant holds in every reachable state.
LEMMA Inductive ==
  Spec => []IInv
<1>1. Init => IInv
  BY Initially
<1>2. IInv /\ [Next]_vars => IInv'
  BY Preserved
<1> QED
  BY <1>1, <1>2, PTL DEF Spec

(* The tables, the archive and the evidence files keep their shape, whatever *)
(* crashes and decays (EvidenceStore, export and import).                    *)
THEOREM RecoveryTypeCorrect ==
  Spec => []TypeOK
<1>1. IInv => TypeOK
  BY DEF IInv
<1> QED
  BY <1>1, Inductive, PTL

(* A complete archive is a consistent cut although its three tables were     *)
(* read at three moments of a running node (export_survival_archive).        *)
THEOREM ArchivesAreCuts ==
  Spec => []ArchiveIsCut
<1>1. IInv => ArchiveIsCut
  BY DEF IInv, ExportKnows
<1> QED
  BY <1>1, Inductive, PTL

(* Wherever an import stops, the importing node's tables are closed under    *)
(* their references (import_snapshot).                                       *)
THEOREM ImportsStayClosed ==
  Spec => []RestoredClosed
<1>1. IInv => RestoredClosed
  BY DEF IInv
<1> QED
  BY <1>1, Inductive, PTL

(* No row is imported before every evidence member of the archive is in the  *)
(* store and verifies (import_survival_archive).                             *)
THEOREM EvidenceComesFirst ==
  Spec => EvidenceFirst
<1>1. ASSUME IInv, Next, theld' # theld
      PROVE  \A d \in im.from.evidence : tfiles[d] = "good"
  <2>1. im.pc \in Kinds
    BY <1>1 DEF Next, ImportStep, ExportStep, SourceAdd, AddFile, Decay, ExportBegin,
        ExportRead, ExportValidate, ExportVerify, ExportOpen, ExportCopy, ExportClose,
        ExportCrash, ImportBegin, ImportEvidence, ImportEvidenceFails, ImportValidate,
        ImportRecord, ImportRest, ImportNextKind, ImportCrash, Kinds, targetVars
  <2> QED
    BY <1>1, <2>1 DEF IInv, ImportKnows, EvidenceKnows, Kinds
<1>2. IInv /\ [Next]_vars
        => [theld' # theld => \A d \in im.from.evidence : tfiles[d] = "good"]_vars
  BY <1>1
<1> QED
  BY <1>2, Inductive, PTL DEF Spec, EvidenceFirst
=============================================================================
