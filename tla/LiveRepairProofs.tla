--------------------------- MODULE LiveRepairProofs ---------------------------
(***************************************************************************)
(* What changes or reads a drawing file, proved for all bounds.            *)
(*                                                                         *)
(* LiveRepair, for every set of primitives: its type invariant, that the   *)
(* original pair is in the backup until the saved candidate is attested,   *)
(* that no document but the staged one is ever changed or saved by a       *)
(* command, and that what the call reports is true.  NativeRender, for any *)
(* instances and requests: evidence names what was published, and one      *)
(* instance publishes.  ExactBaseXref, for any components: what an         *)
(* extraction reports was read.  NativeLineEdit: the durable states are    *)
(* true, and the edit is saved once.  SourceCustody and SourceFusion, for  *)
(* any sources: what is handed on is traced to the bytes of its source.    *)
(***************************************************************************)
EXTENDS MCDrawing, TLAPS

-----------------------------------------------------------------------------
(* The strengthenings.                                                     *)

\* The backup is only built while nothing is verified, and only removed where
\* the candidate is attested.
Early == {"load", "open", "read", "backup", "copy_dxf", "copy_evidence", "verify"}

BackupInv ==
    /\ pc \in Early => original = {}
    /\ pc \in {"attest_review", "cleanup"} => attested # {}
    /\ Recoverable

\* The active document is the staged one wherever a mutating command can
\* follow: after a review that found something to repair, and after a repair.
Reviewed == {"backup", "copy_dxf", "copy_evidence", "verify", "repair", "review"}

ActiveInv ==
    /\ pc \in {"load", "open", "read"} => todo = {} /\ ~repaired
    /\ pc \in {"read", "create", "save"} => active = "staged"
    /\ pc \in Reviewed /\ (todo # {} \/ repaired) => active = "staged"

LateInv ==
    /\ late.op \in {"erase", "create", "save"} => late.doc = "staged"
    /\ late.op = "close" => pc = "done"

StagedInv ==
    switches = 0 =>
        /\ ActiveInv /\ LateInv
        /\ disk["other"] = All("orig") /\ memory["other"] = All("orig")

-----------------------------------------------------------------------------
(* Type correctness.                                                       *)

\* The actions of the specification, by what they do.
Review == LoadEvidence \/ ReviewOpens \/ ReviewCannotOpen \/ ReviewReads \/ ReviewCannotRead
Backup == HashSources \/ CopyDxf \/ CopyEvidence \/ VerifyBackup \/ BackupFails
Repair == (\E p \in Prims : Skip(p) \/ Erase(p)) \/ Create \/ RepairFails \/ EndRepair
          \/ ReviewPasses \/ ReviewFails
Persist == Save \/ SaveIsLost \/ WriteEvidence \/ Cleanup
Attest == AttestCloses \/ AttestOpens \/ AttestIdentity \/ AttestLoads \/ AttestReviews \/ AttestFails
Restore == RestoreCloses \/ RestoreDxf \/ RestoreEvidence \/ Reopen \/ Reload \/ RestoreFails
Others == UserSaves \/ ForeignWrite \/ Die \/ (\E d \in Docs : UserActivates(d))

\* Every step belongs to one of the groups.
LEMMA NextActions ==
    ASSUME Next
    PROVE  Review \/ Backup \/ Repair \/ Persist \/ Attest \/ Restore \/ LateEffect \/ Others
BY Zenon DEF Next, Review, Backup, Repair, Persist, Attest, Restore, Others

\* The parts of TypeOK that commands to AutoCAD disturb.
DocumentsTyped == open \subseteq Docs /\ active \in open \cup {"none"} /\ memory \in [Docs -> Contents]
LateTyped ==
    /\ late \in [op : {"none", "open", "erase", "create", "save", "close"},
                doc : Docs \cup {"none"}, prim : Prims \cup {"none"}]
    /\ late.op \notin {"none", "open"} => late.doc \in Docs

\* TypeOK contains its two parts.
LEMMA TypeParts == TypeOK => DocumentsTyped /\ LateTyped
BY DEF TypeOK, DocumentsTyped, LateTyped

\* A drawing with one content throughout, a pair of them and the empty pair
\* have their types.
LEMMA Literals ==
    /\ \A s \in {"orig", "new", "gone", "alien", "cut", "none"} : All(s) \in Contents /\ Same(s) \in Evidences
    /\ NoPair \in Pairs
    /\ TypeOK => Pair \in Pairs
BY DEF All, Same, Contents, Evidences, Pairs, NoPair, Pair, TypeOK, Docs

\* Documents that are opened, closed, or acted on by a command.
LEMMA DocumentTypes ==
    ASSUME TypeOK
    PROVE  /\ Opened => DocumentsTyped'
           /\ \A d \in Docs : Closed(d) => DocumentsTyped'
           /\ \A d \in Docs, p \in Prims \cup {"none"} : Erased(d, p) \/ Created(d, p) => memory' \in [Docs -> Contents]
           /\ \A d \in Docs : Saved(d) => disk' \in [Docs -> Contents]
<1>1. /\ disk \in [Docs -> Contents] /\ memory \in [Docs -> Contents]
      /\ open \subseteq Docs /\ active \in open \cup {"none"} /\ "staged" \in Docs
  BY DEF TypeOK, DocumentsTyped, LateTyped, Docs
<1>2. Opened => DocumentsTyped'
  BY <1>1 DEF Opened, DocumentsTyped
<1>3. ASSUME NEW d \in Docs, Closed(d)
      PROVE  DocumentsTyped'
  BY <1>1, <1>3 DEF Closed, DocumentsTyped
<1>4. ASSUME NEW d \in Docs, NEW p \in Prims \cup {"none"}, Erased(d, p) \/ Created(d, p)
      PROVE  memory' \in [Docs -> Contents]
  <2>1. \A s \in {"gone", "new"} : [memory[d] EXCEPT ![p] = s] \in Contents
    BY <1>1 DEF Contents
  <2>2. \A c \in Contents : [memory EXCEPT ![d] = c] \in [Docs -> Contents]
    BY <1>1
  <2>3. memory' \in {memory, [memory EXCEPT ![d] = [memory[d] EXCEPT ![p] = "gone"]],
                    [memory EXCEPT ![d] = [memory[d] EXCEPT ![p] = "new"]]}
    BY <1>4 DEF Erased, Created
  <2>. QED BY <1>1, <2>1, <2>2, <2>3
<1>5. ASSUME NEW d \in Docs, Saved(d)
      PROVE  disk' \in [Docs -> Contents]
  BY <1>1, <1>5 DEF Saved
<1>. QED BY <1>2, <1>3, <1>4, <1>5

\* A command that is lost disturbs nothing but the late commands.
LEMMA LostTypes ==
    ASSUME TypeOK, NEW op \in {"open", "erase", "create", "save", "close"}, NEW p \in Prims \cup {"none"},
           Lost(op, p)
    PROVE  /\ open' = open /\ active' = active /\ memory' = memory
           /\ LateTyped'
<1>1. late' = late \/ (late' = [op |-> op, doc |-> active, prim |-> p] /\ (op = "open" \/ active # "none"))
  BY DEF Lost
<1>2. active \in Docs \cup {"none"}
  BY DEF TypeOK, DocumentsTyped, LateTyped
<1>. QED BY <1>1, <1>2 DEF Lost, TypeOK, LateTyped

\* A close that answers, and one that is lost, keep the types.
LEMMA CloseTypes ==
    ASSUME TypeOK, Closes \/ CloseIsLost
    PROVE  /\ DocumentsTyped'
           /\ Closes => boundPath' \in BOOLEAN
           /\ CloseIsLost => LateTyped'
<1>1. CASE Closes
  <2>1. Closed("staged") /\ boundPath' = FALSE
    BY <1>1 DEF Closes
  <2>2. CASE CloseIsLost
    BY <1>1, <2>2 DEF Closes, CloseIsLost, Answers, Lost, Closed, TypeOK, autocad, Docs
  <2>. QED BY <2>1, <2>2, DocumentTypes DEF Docs
<1>2. CASE CloseIsLost
  <2>1. CASE Lost("close", "none")
    <3>1. /\ open' = open /\ active' = active /\ memory' = memory
          /\ LateTyped'
      BY <2>1, LostTypes
    <3>. QED BY <3>1 DEF TypeOK, DocumentsTyped, LateTyped, Closes
  <2>2. CASE UNCHANGED autocad
    BY <2>2 DEF autocad, TypeOK, Closes, DocumentsTyped, LateTyped
  <2>. QED BY <1>2, <2>1, <2>2 DEF CloseIsLost
<1>. QED BY <1>1, <1>2

\* The evidence is loaded and the drawing reviewed.
LEMMA TypeReview ==
    ASSUME TypeOK, Review
    PROVE  TypeOK'
<1>1. CASE LoadEvidence
  BY <1>1, SMTT(30) DEF TypeOK, DocumentsTyped, LateTyped, LoadEvidence, Goto, Return, Pcs,
     Outcomes, files, autocad, environment, Evidences
<1>2. CASE ReviewOpens
  BY <1>2, DocumentTypes, SMTT(30) DEF TypeOK, DocumentsTyped, LateTyped, ReviewOpens, Goto, Pcs,
     files, environment, Docs
<1>3. CASE ReviewCannotOpen
  <2>1. CASE Lost("open", "none") /\ UNCHANGED boundPath
    <3>1. /\ open' = open /\ active' = active /\ memory' = memory
          /\ LateTyped'
      BY <2>1, LostTypes
    <3>. QED BY <1>3, <2>1, <3>1, SMTT(30) DEF TypeOK, DocumentsTyped, LateTyped,
       ReviewCannotOpen, Goto, Pcs, files, environment
  <2>2. CASE Opened /\ boundPath' = TRUE /\ UNCHANGED late
    BY <1>3, <2>2, DocumentTypes, SMTT(30) DEF TypeOK, DocumentsTyped, LateTyped,
       ReviewCannotOpen, Goto, Pcs, files, environment
  <2>. QED BY <1>3, <2>1, <2>2 DEF ReviewCannotOpen
<1>4. CASE ReviewReads
  BY <1>4, SMTT(30) DEF TypeOK, DocumentsTyped, LateTyped, ReviewReads, Goto, Return, Pcs,
     Outcomes, files, autocad, environment, Mismatches
<1>5. CASE ReviewCannotRead
  BY <1>5, SMTT(30) DEF TypeOK, DocumentsTyped, LateTyped, ReviewCannotRead, Goto, Return, Pcs,
     Outcomes, files, autocad, environment
<1>. QED BY <1>1, <1>2, <1>3, <1>4, <1>5 DEF Review

\* The pair is hashed, copied and verified.
LEMMA TypeBackup ==
    ASSUME TypeOK, Backup
    PROVE  TypeOK'
<1>1. CASE HashSources
  BY <1>1, Literals, SMTT(30) DEF TypeOK, DocumentsTyped, LateTyped, HashSources, Goto, Pcs,
     files, autocad, environment
<1>2. CASE CopyDxf
  BY <1>2, SMTT(30) DEF TypeOK, DocumentsTyped, LateTyped, CopyDxf, Goto, Pcs, autocad, locals,
     environment, Pairs, Docs, Contents
<1>3. CASE CopyEvidence
  BY <1>3, SMTT(30) DEF TypeOK, DocumentsTyped, LateTyped, CopyEvidence, Goto, Pcs, autocad,
     locals, environment, Pairs
<1>4. CASE VerifyBackup
  BY <1>4, Literals, SMTT(30) DEF TypeOK, DocumentsTyped, LateTyped, VerifyBackup, Goto, Pcs,
     files, autocad, locals, environment, Pairs
<1>5. CASE BackupFails
  BY <1>5, Literals, SMTT(30) DEF TypeOK, DocumentsTyped, LateTyped, BackupFails, Return, Pcs,
     Outcomes, autocad, locals, environment, Pairs
<1>. QED BY <1>1, <1>2, <1>3, <1>4, <1>5 DEF Backup

\* The drawing and the evidence are saved, and the backup removed.
LEMMA TypePersist ==
    ASSUME TypeOK, Persist
    PROVE  TypeOK'
<1>1. CASE Save
  BY <1>1, DocumentTypes, SMTT(30) DEF TypeOK, DocumentsTyped, LateTyped, Save, Goto, Pcs,
     autocad, locals, environment, Answers, Docs
<1>2. CASE SaveIsLost
  <2>1. Lost("save", "none")
    BY <1>2 DEF SaveIsLost
  <2>2. /\ open' = open /\ active' = active /\ memory' = memory
        /\ LateTyped'
    BY <2>1, LostTypes
  <2>. QED BY <1>2, <2>2, SMTT(30) DEF TypeOK, DocumentsTyped, LateTyped, SaveIsLost, Return,
     Pcs, Outcomes, files, locals, environment
<1>3. CASE WriteEvidence
  BY <1>3, SMTT(30) DEF TypeOK, DocumentsTyped, LateTyped, WriteEvidence, Goto, Return, Pcs,
     Outcomes, autocad, locals, environment, Evidences, Docs
<1>4. CASE Cleanup
  BY <1>4, Literals, SMTT(30) DEF TypeOK, DocumentsTyped, LateTyped, Cleanup, Return, Pcs,
     Outcomes, autocad, locals, environment, Pairs
<1>. QED BY <1>1, <1>2, <1>3, <1>4 DEF Persist

\* The saved candidate is closed, opened and reviewed.
LEMMA TypeAttest ==
    ASSUME TypeOK, Attest
    PROVE  TypeOK'
<1>1. CASE AttestCloses
  <2>1. Closes
    BY <1>1 DEF AttestCloses
  <2>. QED BY <1>1, <2>1, CloseTypes, SMTT(30) DEF TypeOK, DocumentsTyped, LateTyped,
     AttestCloses, Goto, Pcs, files, environment
<1>2. CASE AttestOpens
  BY <1>2, DocumentTypes, SMTT(30) DEF TypeOK, DocumentsTyped, LateTyped, AttestOpens, Goto, Pcs,
     files, environment, Docs
<1>3. CASE AttestIdentity
  BY <1>3, SMTT(30) DEF TypeOK, DocumentsTyped, LateTyped, AttestIdentity, Goto, Pcs, files,
     autocad, locals, environment
<1>4. CASE AttestLoads
  BY <1>4, Literals, SMTT(30) DEF TypeOK, DocumentsTyped, LateTyped, AttestLoads, Goto, Pcs,
     files, autocad, environment
<1>5. CASE AttestReviews
  BY <1>5, SMTT(30) DEF TypeOK, DocumentsTyped, LateTyped, AttestReviews, Goto, Pcs, files,
     autocad, locals, environment
<1>6. CASE AttestFails
  <2>1. /\ DocumentsTyped'
        /\ LateTyped'
    <3>1. CASE CloseIsLost
      BY <3>1, CloseTypes
    <3>2. CASE Lost("open", "none")
      <4>1. /\ open' = open /\ active' = active /\ memory' = memory
            /\ LateTyped'
        BY <3>2, LostTypes
      <4>. QED BY <4>1 DEF TypeOK, DocumentsTyped, LateTyped
    <3>3. CASE UNCHANGED autocad
      BY <3>3 DEF TypeOK, DocumentsTyped, LateTyped, autocad
    <3>. QED BY <1>6, <3>1, <3>2, <3>3 DEF AttestFails
  <2>. QED BY <1>6, <2>1, SMTT(30) DEF TypeOK, DocumentsTyped, LateTyped, AttestFails, Return,
     Pcs, Outcomes, files, locals, environment
<1>. QED BY <1>1, <1>2, <1>3, <1>4, <1>5, <1>6 DEF Attest

\* The backup is copied back and opened.
LEMMA TypeRestore ==
    ASSUME TypeOK, Restore
    PROVE  TypeOK'
<1>1. CASE RestoreCloses
  <2>1. Closes
    BY <1>1 DEF RestoreCloses
  <2>. QED BY <1>1, <2>1, CloseTypes, SMTT(30) DEF TypeOK, DocumentsTyped, LateTyped,
     RestoreCloses, Goto, Pcs, files, environment
<1>2. CASE RestoreDxf
  BY <1>2, SMTT(30) DEF TypeOK, DocumentsTyped, LateTyped, RestoreDxf, Goto, Pcs, autocad,
     locals, environment, Docs, Pairs
<1>3. CASE RestoreEvidence
  BY <1>3, SMTT(30) DEF TypeOK, DocumentsTyped, LateTyped, RestoreEvidence, Goto, Pcs, autocad,
     locals, environment, Evidences, Pairs
<1>4. CASE Reopen
  BY <1>4, DocumentTypes, SMTT(30) DEF TypeOK, DocumentsTyped, LateTyped, Reopen, Goto, Pcs,
     files, environment, Docs
<1>5. CASE Reload
  BY <1>5, SMTT(30) DEF TypeOK, DocumentsTyped, LateTyped, Reload, Return, Pcs, Outcomes, files,
     autocad, environment, Evidences, Pairs
<1>6. CASE RestoreFails
  <2>1. /\ DocumentsTyped'
        /\ LateTyped'
    <3>1. CASE CloseIsLost
      BY <3>1, CloseTypes
    <3>2. CASE Lost("open", "none")
      <4>1. /\ open' = open /\ active' = active /\ memory' = memory
            /\ LateTyped'
        BY <3>2, LostTypes
      <4>. QED BY <4>1 DEF TypeOK, DocumentsTyped, LateTyped
    <3>3. CASE UNCHANGED autocad
      BY <3>3 DEF TypeOK, DocumentsTyped, LateTyped, autocad
    <3>. QED BY <1>6, <3>1, <3>2, <3>3 DEF RestoreFails
  <2>2. disk' \in [Docs -> Contents] /\ evidence' \in Evidences /\ backup' \in Pairs
    BY <1>6, Literals DEF TypeOK, DocumentsTyped, LateTyped, RestoreFails, files, Pairs
  <2>. QED BY <1>6, <2>1, <2>2, SMTT(30) DEF TypeOK, DocumentsTyped, LateTyped, RestoreFails,
     Return, Pcs, Outcomes, locals, environment
<1>. QED BY <1>1, <1>2, <1>3, <1>4, <1>5, <1>6 DEF Restore

\* Entities are erased and created, and reviewed again.
LEMMA TypeRepair ==
    ASSUME TypeOK, Repair
    PROVE  TypeOK'
<1>1. ASSUME NEW p \in Prims, Skip(p)
      PROVE  TypeOK'
  BY <1>1, SMTT(30) DEF TypeOK, DocumentsTyped, LateTyped, Skip, files, autocad, environment
<1>2. ASSUME NEW p \in Prims, Erase(p)
      PROVE  TypeOK'
  <2>1. Erased(active, p) /\ active \in Docs
    BY <1>2 DEF Erase, Answers, TypeOK
  <2>2. memory' \in [Docs -> Contents]
    BY <2>1, DocumentTypes
  <2>. QED BY <1>2, <2>2, SMTT(30) DEF TypeOK, DocumentsTyped, LateTyped, Erase, Goto, Pcs,
     files, environment
<1>3. CASE Create
  <2>1. Created(active, at) /\ active \in Docs /\ at \in Prims \cup {"none"}
    BY <1>3 DEF Create, Answers, TypeOK
  <2>2. memory' \in [Docs -> Contents]
    BY <2>1, DocumentTypes
  <2>3. handles' \in Contents
    BY <1>3 DEF Create, TypeOK, Contents
  <2>. QED BY <1>3, <2>2, <2>3, SMTT(30) DEF TypeOK, DocumentsTyped, LateTyped, Create, Goto,
     Pcs, files, environment
<1>4. CASE RepairFails
  <2>1. \E op \in {"erase", "create"}, p \in Prims \cup {"none"} : Lost(op, p)
    BY <1>4 DEF RepairFails, TypeOK
  <2>2. /\ open' = open /\ active' = active /\ memory' = memory
        /\ LateTyped'
    BY <2>1, LostTypes
  <2>. QED BY <1>4, <2>2, Literals, SMTT(30) DEF TypeOK, DocumentsTyped, LateTyped, RepairFails,
     Goto, Pcs, files, environment
<1>5. CASE EndRepair \/ ReviewPasses \/ ReviewFails
  BY <1>5, SMTT(30) DEF TypeOK, DocumentsTyped, LateTyped, EndRepair, ReviewPasses, ReviewFails,
     Goto, Pcs, files, autocad, locals, environment
<1>. QED BY <1>1, <1>2, <1>3, <1>4, <1>5 DEF Repair

\* A command takes effect after it was given up.
LEMMA TypeLate ==
    ASSUME TypeOK, LateEffect
    PROVE  TypeOK'
<1>1. late' \in [op : {"none", "open", "erase", "create", "save", "close"},
                doc : Docs \cup {"none"}, prim : Prims \cup {"none"}] /\ late'.op = "none"
  BY DEF LateEffect, Quiet
<1>2. late.op \notin {"none", "open"} => late.doc \in Docs
  BY DEF TypeOK, DocumentsTyped, LateTyped
<1>3. late.prim \in Prims \cup {"none"}
  BY DEF TypeOK, DocumentsTyped, LateTyped
<1>4. /\ DocumentsTyped'
      /\ disk' \in [Docs -> Contents]
  <2>1. CASE late.op = "open"
    BY <2>1, DocumentTypes DEF LateEffect, TypeOK
  <2>2. CASE late.op = "close"
    BY <1>2, <2>2, DocumentTypes DEF LateEffect, TypeOK
  <2>3. CASE late.op \in {"erase", "create"}
    BY <1>2, <1>3, <2>3, DocumentTypes DEF LateEffect, TypeOK, DocumentsTyped
  <2>4. CASE late.op = "save"
    BY <1>2, <2>4, DocumentTypes DEF LateEffect, TypeOK, DocumentsTyped
  <2>. QED BY <2>1, <2>2, <2>3, <2>4 DEF LateEffect
<1>. QED BY <1>1, <1>4, SMTT(30) DEF TypeOK, DocumentsTyped, LateTyped, LateEffect, locals,
   environment

\* The user, a foreign writer, and the end of the process.
LEMMA TypeOthers ==
    ASSUME TypeOK, Others
    PROVE  TypeOK'
<1>1. CASE UserSaves
  <2>1. Saved("staged") /\ "staged" \in Docs
    BY <1>1 DEF UserSaves, Docs
  <2>2. disk' \in [Docs -> Contents]
    BY <2>1, DocumentTypes
  <2>. QED BY <1>1, <2>2, LiveAssumption, SMTT(30) DEF TypeOK, DocumentsTyped, LateTyped,
     UserSaves, autocad, locals
<1>2. CASE ForeignWrite
  BY <1>2, Literals, LiveAssumption, SMTT(30) DEF TypeOK, DocumentsTyped, LateTyped,
     ForeignWrite, autocad, locals
<1>3. CASE Die
  BY <1>3, Literals, SMTT(30) DEF TypeOK, DocumentsTyped, LateTyped, Die, Return, Pcs, Outcomes,
     autocad, locals, environment
<1>4. CASE \E d \in Docs : UserActivates(d)
  BY <1>4, LiveAssumption, SMTT(30) DEF TypeOK, DocumentsTyped, LateTyped, UserActivates, files,
     locals
<1>. QED BY <1>1, <1>2, <1>3, <1>4 DEF Others

\* TypeOK holds at every step, for any primitives and any bounds.
THEOREM TypeCorrect == Spec => []TypeOK
<1>1. ASSUME Init
      PROVE  TypeOK
  <2>1. disk \in [Docs -> Contents] /\ memory \in [Docs -> Contents]
    BY <1>1, Literals DEF Init
  <2>2. open \subseteq Docs /\ active \in open \cup {"none"}
    BY <1>1 DEF Init
  <2>3. late \in [op : {"none", "open", "erase", "create", "save", "close"},
                 doc : Docs \cup {"none"}, prim : Prims \cup {"none"}] /\ late.op = "none"
    BY <1>1 DEF Init, Quiet
  <2>4. todo \subseteq Prims /\ bad \subseteq Prims /\ attested \subseteq Pairs /\ original \subseteq Pairs
    BY <1>1 DEF Init
  <2>5. foreign \in 0..MaxForeign /\ switches \in 0..MaxSwitches
    BY <1>1, LiveAssumption DEF Init
  <2>6. /\ evidence \in Evidences /\ backup \in Pairs /\ first \in Pairs /\ handles \in Contents
        /\ pc \in Pcs /\ outcome \in Outcomes /\ (pc = "done" <=> outcome # "running")
        /\ boundPath \in BOOLEAN /\ repaired \in BOOLEAN /\ at \in Prims \cup {"none"}
        /\ reason \in {"none", "transport", "review"}
    BY <1>1, Literals DEF Init, Pcs, Outcomes
  <2>. QED BY <2>1, <2>2, <2>3, <2>4, <2>5, <2>6 DEF TypeOK, DocumentsTyped, LateTyped
<1>2. TypeOK /\ [Next]_vars => TypeOK'
  <2>1. ASSUME TypeOK, Next
        PROVE  TypeOK'
    BY <2>1, NextActions, TypeReview, TypeBackup, TypeRepair, TypePersist, TypeAttest, TypeRestore,
       TypeLate, TypeOthers
  <2>2. ASSUME TypeOK, UNCHANGED vars
        PROVE  TypeOK'
    BY <2>2, ZenonT(30) DEF TypeOK, DocumentsTyped, LateTyped, vars, files, autocad, locals, environment
  <2>. QED BY <2>1, <2>2
<1>. QED BY <1>1, <1>2, PTL DEF Spec

-----------------------------------------------------------------------------
(* The backup.                                                             *)

\* BackupInv is inductive.
LEMMA BackupStep ==
    ASSUME BackupInv, Next
    PROVE  BackupInv'
<1>1. CASE Review
  BY <1>1, SMTT(30) DEF BackupInv, Recoverable, Early, Review, LoadEvidence, ReviewOpens,
     ReviewCannotOpen,
     ReviewReads, ReviewCannotRead, Goto, Return, files
<1>2. CASE Backup
  BY <1>2, SMTT(30) DEF BackupInv, Recoverable, Early, Backup, HashSources, CopyDxf,
     CopyEvidence, VerifyBackup,
     BackupIsVerified, BackupFails, Goto, Return, files, locals
<1>3. CASE Repair
  BY <1>3, SMTT(30) DEF BackupInv, Recoverable, Early, Repair, Skip, Erase, Create, RepairFails,
     EndRepair,
     ReviewPasses, ReviewFails, Goto, files, locals
<1>4. CASE Persist
  BY <1>4, SMTT(30) DEF BackupInv, Recoverable, Early, Persist, Save, SaveIsLost, WriteEvidence,
     Cleanup,
     Goto, Return, files, locals
<1>5. CASE Attest
  BY <1>5, SMTT(30) DEF BackupInv, Recoverable, Early, Attest, AttestCloses, AttestOpens,
     AttestIdentity,
     AttestLoads, AttestReviews, AttestFails, Goto, Return, files, locals
<1>6. CASE Restore
  BY <1>6, SMTT(30) DEF BackupInv, Recoverable, Early, Restore, RestoreCloses, RestoreDxf,
     RestoreEvidence,
     Reopen, Reload, RestoreFails, Goto, Return, files, locals
<1>7. CASE LateEffect \/ Others
  BY <1>7, SMTT(30) DEF BackupInv, Recoverable, Early, LateEffect, Others, UserSaves,
     ForeignWrite, Die,
     UserActivates, Return, files, locals
<1>. QED BY <1>1, <1>2, <1>3, <1>4, <1>5, <1>6, <1>7, NextActions

\* BackupInv holds at every step.
LEMMA BackupInvariant == Spec => []BackupInv
<1>1. Init => BackupInv
  BY DEF Init, BackupInv, Recoverable, Early
<1>2. BackupInv /\ [Next]_vars => BackupInv'
  <2>1. ASSUME BackupInv, UNCHANGED vars
        PROVE  BackupInv'
    BY <2>1 DEF BackupInv, Recoverable, Early, vars, files, locals
  <2>. QED BY <2>1, BackupStep
<1>. QED BY <1>1, <1>2, PTL DEF Spec

\* Whatever fails or dies, the backup holds the pair that was on disk when it
\* was verified, until the attestation has loaded the saved candidate.
THEOREM OriginalIsRecoverable == Spec => []Recoverable
<1>1. BackupInv => Recoverable
  BY DEF BackupInv
<1>. QED BY <1>1, BackupInvariant, PTL

-----------------------------------------------------------------------------
(* Other documents.                                                        *)

Untouched == disk["other"] = All("orig") /\ memory["other"] = All("orig")

\* What is done to the staged document is not done to another one.
LEMMA StagedOnly ==
    ASSUME TypeOK, Untouched
    PROVE  /\ Opened => memory'["other"] = All("orig") /\ active' = "staged"
           /\ \A d : Closed(d) => memory'["other"] = All("orig")
           /\ \A p : Erased("staged", p) \/ Created("staged", p) => memory'["other"] = All("orig")
           /\ Saved("staged") => disk'["other"] = All("orig")
<1>1. disk \in [Docs -> Contents] /\ memory \in [Docs -> Contents] /\ "other" \in Docs /\ "other" # "staged"
  BY DEF TypeOK, DocumentsTyped, LateTyped, Docs
<1>. QED BY <1>1 DEF Untouched, Opened, Closed, Erased, Created, Saved

\* Only staged documents get late commands typed for them, as long as the
\* command is typed where the staged document is active.
LEMMA LostInv ==
    ASSUME LateInv, NEW op, NEW p, Lost(op, p),
           op \in {"erase", "create", "save"} => active = "staged",
           op = "close" => pc' = "done",
           pc = "done" => pc' = "done"
    PROVE  LateInv'
BY DEF LateInv, Lost

\* A review opens the staged document, and only one that could read it leads
\* to a repair.
LEMMA StagedReview ==
    ASSUME TypeOK, StagedInv, Review
    PROVE  StagedInv'
<1>. SUFFICES ASSUME switches = 0, ActiveInv, LateInv, Untouched
              PROVE  ActiveInv' /\ LateInv' /\ Untouched'
  BY Zenon DEF Review, LoadEvidence, ReviewOpens, ReviewCannotOpen, ReviewReads, ReviewCannotRead,
     environment, StagedInv, Untouched
<1>1. CASE LoadEvidence \/ ReviewReads \/ ReviewCannotRead
  BY <1>1, SMTT(30) DEF ActiveInv, LateInv, Untouched, Reviewed, LoadEvidence, ReviewReads,
     ReviewCannotRead,
     Goto, Return, files, autocad
<1>2. CASE ReviewOpens
  BY <1>2, StagedOnly, SMTT(30) DEF ActiveInv, LateInv, Untouched, Reviewed, ReviewOpens, Goto,
     files
<1>3. CASE ReviewCannotOpen
  <2>1. LateInv'
    <3>1. CASE Lost("open", "none")
      BY <1>3, <3>1, LostInv DEF ReviewCannotOpen, Goto
    <3>2. CASE UNCHANGED late
      BY <1>3, <3>2 DEF ReviewCannotOpen, Goto, LateInv
    <3>. QED BY <1>3, <3>1, <3>2 DEF ReviewCannotOpen
  <2>2. Untouched'
    BY <1>3, StagedOnly DEF ReviewCannotOpen, Untouched, Lost, files
  <2>3. ActiveInv'
    BY <1>3 DEF ReviewCannotOpen, ActiveInv, Reviewed, Goto
  <2>. QED BY <2>1, <2>2, <2>3
<1>. QED BY <1>1, <1>2, <1>3 DEF Review

\* The backup only touches files of the pair.
LEMMA StagedBackup ==
    ASSUME TypeOK, StagedInv, Backup
    PROVE  StagedInv'
BY SMTT(30) DEF StagedInv, ActiveInv, LateInv, Reviewed, Backup, HashSources, CopyDxf, CopyEvidence,
   VerifyBackup, BackupFails, Goto, Return, files, autocad, locals, environment

\* Erasing and creating happen where the staged document is active.
LEMMA StagedRepair ==
    ASSUME TypeOK, StagedInv, Repair
    PROVE  StagedInv'
<1>. SUFFICES ASSUME switches = 0, ActiveInv, LateInv, Untouched
              PROVE  ActiveInv' /\ LateInv' /\ Untouched'
  BY Zenon DEF Repair, Skip, Erase, Create, RepairFails, EndRepair, ReviewPasses, ReviewFails,
     environment, StagedInv, Untouched
<1>1. ASSUME NEW p \in Prims, Skip(p)
      PROVE  ActiveInv' /\ LateInv' /\ Untouched'
  BY <1>1, SMTT(30) DEF ActiveInv, LateInv, Untouched, Reviewed, Skip, files, autocad
<1>2. ASSUME NEW p \in Prims, Erase(p)
      PROVE  ActiveInv' /\ LateInv' /\ Untouched'
  <2>1. active = "staged" /\ Erased("staged", p)
    BY <1>2 DEF Erase, ActiveInv, Reviewed
  <2>2. Untouched'
    BY <1>2, <2>1, StagedOnly DEF Erase, Untouched, files
  <2>. QED BY <1>2, <2>1, <2>2, SMTT(30) DEF ActiveInv, LateInv, Reviewed, Erase, Goto
<1>3. CASE Create
  <2>1. active = "staged" /\ Created("staged", at)
    BY <1>3 DEF Create, ActiveInv
  <2>2. Untouched'
    BY <1>3, <2>1, StagedOnly DEF Create, Untouched, files
  <2>. QED BY <1>3, <2>1, <2>2, SMTT(30) DEF ActiveInv, LateInv, Reviewed, Create, Goto
<1>4. CASE RepairFails
  <2>1. active = "staged"
    BY <1>4 DEF RepairFails, ActiveInv, Reviewed
  <2>2. LateInv'
    <3>1. PICK op \in {"erase", "create"}, p \in Prims \cup {at} : Lost(op, p)
      BY <1>4 DEF RepairFails, TypeOK
    <3>2. pc # "done"
      BY <1>4 DEF RepairFails
    <3>. QED BY <2>1, <3>1, <3>2, LostInv
  <2>3. Untouched' /\ ActiveInv'
    BY <1>4 DEF RepairFails, Lost, Goto, Untouched, ActiveInv, Reviewed, files
  <2>. QED BY <2>2, <2>3
<1>5. CASE EndRepair \/ ReviewPasses \/ ReviewFails
  BY <1>5, SMTT(30) DEF ActiveInv, LateInv, Untouched, Reviewed, EndRepair, ReviewPasses,
     ReviewFails, Goto,
     files, autocad, locals
<1>. QED BY <1>1, <1>2, <1>3, <1>4, <1>5 DEF Repair

\* The document that is saved is the active one, the staged one.
LEMMA StagedPersist ==
    ASSUME TypeOK, StagedInv, Persist
    PROVE  StagedInv'
<1>. SUFFICES ASSUME switches = 0, ActiveInv, LateInv, Untouched
              PROVE  ActiveInv' /\ LateInv' /\ Untouched'
  BY Zenon DEF Persist, Save, SaveIsLost, WriteEvidence, Cleanup, environment, StagedInv, Untouched
<1>1. CASE Save
  <2>1. Saved("staged")
    BY <1>1 DEF Save, ActiveInv
  <2>2. Untouched'
    BY <1>1, <2>1, StagedOnly DEF Save, Untouched, autocad
  <2>. QED BY <1>1, <2>2, SMTT(30) DEF ActiveInv, LateInv, Reviewed, Save, Goto, autocad
<1>2. CASE SaveIsLost
  <2>1. active = "staged" /\ Lost("save", "none") /\ pc' = "done"
    BY <1>2 DEF SaveIsLost, ActiveInv, Return
  <2>2. LateInv'
    BY <2>1, LostInv
  <2>. QED BY <1>2, <2>1, <2>2 DEF SaveIsLost, Lost, Untouched, ActiveInv, Reviewed, files
<1>3. CASE WriteEvidence \/ Cleanup
  BY <1>3, SMTT(30) DEF ActiveInv, LateInv, Untouched, Reviewed, WriteEvidence, Cleanup, Goto,
     Return, autocad
<1>. QED BY <1>1, <1>2, <1>3 DEF Persist

\* A drawing that is closed, opened or lost is the staged one or stays as it is.
LEMMA StagedDocuments ==
    ASSUME TypeOK, Untouched, LateInv, pc # "done", disk'["other"] = disk["other"],
           \/ Closes /\ UNCHANGED late
           \/ Opened /\ UNCHANGED late
           \/ (CloseIsLost \/ Lost("open", "none")) /\ pc' = "done"
           \/ UNCHANGED autocad
    PROVE  Untouched' /\ LateInv'
<1>1. CASE Closes /\ UNCHANGED late
  BY <1>1, StagedOnly DEF Closes, Untouched, LateInv
<1>2. CASE Opened /\ UNCHANGED late
  BY <1>2, StagedOnly DEF Untouched, LateInv
<1>3. CASE (CloseIsLost \/ Lost("open", "none")) /\ pc' = "done"
  <2>1. memory' = memory
    BY <1>3 DEF CloseIsLost, Lost, autocad
  <2>2. LateInv'
    <3>1. CASE Lost("open", "none")
      BY <1>3, <3>1, LostInv
    <3>2. CASE Lost("close", "none")
      BY <1>3, <3>2, LostInv
    <3>3. CASE UNCHANGED autocad
      BY <1>3, <3>3 DEF LateInv, autocad
    <3>. QED BY <1>3, <3>1, <3>2, <3>3 DEF CloseIsLost
  <2>. QED BY <2>1, <2>2 DEF Untouched
<1>4. CASE UNCHANGED autocad
  BY <1>4 DEF Untouched, LateInv, autocad
<1>. QED BY <1>1, <1>2, <1>3, <1>4

\* The attestation closes and opens the staged document.
LEMMA StagedAttest ==
    ASSUME TypeOK, StagedInv, Attest
    PROVE  StagedInv'
<1>. SUFFICES ASSUME switches = 0, ActiveInv, LateInv, Untouched
              PROVE  ActiveInv' /\ LateInv' /\ Untouched'
  BY Zenon DEF Attest, AttestCloses, AttestOpens, AttestIdentity, AttestLoads, AttestReviews,
     AttestFails,
     environment, StagedInv, Untouched
<1>1. pc # "done" /\ disk' = disk
  BY DEF Attest, AttestCloses, AttestOpens, AttestIdentity, AttestLoads, AttestReviews,
     AttestFails, files
<1>2. pc' \in {"attest_open", "attest_identity", "attest_load", "attest_review", "cleanup", "done"}
  BY DEF Attest, AttestCloses, AttestOpens, AttestIdentity, AttestLoads, AttestReviews,
     AttestFails, Goto, Return
<1>3. ActiveInv'
  BY <1>2 DEF ActiveInv, Reviewed
<1>4. \/ Closes /\ UNCHANGED late
      \/ Opened /\ UNCHANGED late
      \/ (CloseIsLost \/ Lost("open", "none")) /\ pc' = "done"
      \/ UNCHANGED autocad
  BY DEF Attest, AttestCloses, AttestOpens, AttestIdentity, AttestLoads, AttestReviews,
     AttestFails, Return
<1>. QED BY <1>1, <1>3, <1>4, StagedDocuments

\* The restoration writes the staged pair, closes and opens the staged document.
LEMMA StagedRestore ==
    ASSUME TypeOK, StagedInv, Restore
    PROVE  StagedInv'
<1>. SUFFICES ASSUME switches = 0, ActiveInv, LateInv, Untouched
              PROVE  ActiveInv' /\ LateInv' /\ Untouched'
  BY Zenon DEF Restore, RestoreCloses, RestoreDxf, RestoreEvidence, Reopen, Reload, RestoreFails,
     environment, StagedInv, Untouched
<1>1. disk'["other"] = disk["other"]
  BY DEF Restore, RestoreCloses, RestoreDxf, RestoreEvidence, Reopen, Reload, RestoreFails,
     files, TypeOK, Docs
<1>2. pc # "done" /\ pc' \in {"restore_dxf", "restore_evidence", "reopen", "reload", "done"}
  BY DEF Restore, RestoreCloses, RestoreDxf, RestoreEvidence, Reopen, Reload, RestoreFails, Goto,
     Return
<1>3. ActiveInv'
  BY <1>2 DEF ActiveInv, Reviewed
<1>4. \/ Closes /\ UNCHANGED late
      \/ Opened /\ UNCHANGED late
      \/ (CloseIsLost \/ Lost("open", "none")) /\ pc' = "done"
      \/ UNCHANGED autocad
  BY DEF Restore, RestoreCloses, RestoreDxf, RestoreEvidence, Reopen, Reload, RestoreFails,
     Return, autocad
<1>. QED BY <1>1, <1>2, <1>3, <1>4, StagedDocuments

\* A late command acts on the document it was typed for; a late open activates
\* the staged one, and a late close comes after the call.
LEMMA StagedLate ==
    ASSUME TypeOK, StagedInv, LateEffect
    PROVE  StagedInv'
<1>. SUFFICES ASSUME switches = 0, ActiveInv, LateInv, Untouched
              PROVE  ActiveInv' /\ LateInv' /\ Untouched'
  BY Zenon DEF LateEffect, environment, StagedInv, Untouched
<1>1. LateInv'
  BY DEF LateEffect, LateInv, Quiet
<1>2. ActiveInv'
  BY SMTT(30) DEF LateEffect, LateInv, ActiveInv, Reviewed, Opened, locals
<1>3. Untouched'
  BY StagedOnly, SMTT(30) DEF LateEffect, LateInv, Untouched
<1>. QED BY <1>1, <1>2, <1>3

\* Only a user who activates another document makes StagedInv void.
LEMMA StagedOthers ==
    ASSUME TypeOK, StagedInv, Others
    PROVE  StagedInv'
<1>1. CASE UserSaves
  <2>. SUFFICES ASSUME switches = 0, ActiveInv, LateInv, Untouched
                PROVE  ActiveInv' /\ LateInv' /\ Untouched'
    BY <1>1, Zenon DEF UserSaves, StagedInv, Untouched
  <2>1. Untouched'
    BY <1>1, StagedOnly DEF UserSaves, Untouched, autocad
  <2>. QED BY <1>1, <2>1 DEF UserSaves, ActiveInv, LateInv, Reviewed, autocad, locals
<1>2. CASE ForeignWrite \/ Die
  <2>1. disk'["other"] = disk["other"]
    BY <1>2 DEF ForeignWrite, Die, TypeOK, Docs
  <2>. QED BY <1>2, <2>1, SMTT(30) DEF StagedInv, ActiveInv, LateInv, Reviewed, ForeignWrite,
     Die, Return,
       autocad, locals, environment
<1>3. CASE \E d \in Docs : UserActivates(d)
  <2>1. switches' # 0
    BY <1>3, LiveAssumption DEF UserActivates, TypeOK
  <2>. QED BY <2>1 DEF StagedInv
<1>. QED BY <1>1, <1>2, <1>3 DEF Others

\* StagedInv holds at every step.
LEMMA StagedInvariant == Spec => []StagedInv
<1>1. Init => StagedInv
  BY DEF Init, StagedInv, ActiveInv, LateInv, Reviewed, Quiet, Docs
<1>2. TypeOK /\ StagedInv /\ [Next]_vars => StagedInv'
  <2>1. ASSUME TypeOK, StagedInv, Next
        PROVE  StagedInv'
    BY <2>1, NextActions, StagedReview, StagedBackup, StagedRepair, StagedPersist, StagedAttest,
       StagedRestore, StagedLate, StagedOthers
  <2>2. ASSUME StagedInv, UNCHANGED vars
        PROVE  StagedInv'
    BY <2>2, Zenon DEF StagedInv, ActiveInv, LateInv, vars, files, autocad, locals, environment
  <2>. QED BY <2>1, <2>2
<1>. QED BY <1>1, <1>2, TypeCorrect, PTL DEF Spec

\* No command changes or saves a document other than the staged one, however
\* late it comes, unless the user activates another document during the call.
THEOREM OnlyTheStagedChanges == Spec => []OthersAreUntouched
<1>1. StagedInv => OthersAreUntouched
  BY DEF StagedInv, OthersAreUntouched
<1>. QED BY <1>1, StagedInvariant, PTL

-----------------------------------------------------------------------------
(* What the call reports.                                                  *)

Staged == disk["staged"]
Drawn == memory["staged"]

\* Evidence is only bound anew by WriteEvidence: what was hashed before the
\* backup names the entities of the drawing it is bound to, and so does every
\* evidence as long as nobody else acts.
BoundInv ==
    /\ pc \in Early => evidence.handles = evidence.bound
    /\ first.evidence.handles = first.evidence.bound
    /\ foreign = 0 /\ switches = 0 =>
         /\ evidence.handles = evidence.bound /\ backup.evidence.handles = backup.evidence.bound
         /\ pc = "save" => late = Quiet /\ handles = Drawn
         /\ pc = "write_evidence" => handles = Staged

\* Where a command was answered last, nothing comes late, and the staged
\* document was closed or opened.
AnsweredInv ==
    /\ pc \in {"load", "write_evidence", "attest_close", "attest_open", "attest_identity",
               "attest_load", "attest_review", "cleanup", "restore_dxf", "restore_evidence", "reopen", "reload"} =>
         late = Quiet
    /\ pc \in {"attest_open", "restore_dxf", "restore_evidence", "reopen"} => "staged" \notin open
    /\ pc \in {"attest_identity", "reload"} => "staged" \in open
    /\ pc \in {"attest_load", "attest_review"} => open = {"staged"} /\ active = "staged"

\* Another program's entity is nowhere before that program has written.
NativeInv ==
    \A p \in Prims :
        /\ foreign = 0 => /\ Staged[p] # "alien" /\ Drawn[p] # "alien" /\ backup.dxf[p] # "alien"
                          /\ evidence.bound[p] # "alien" /\ backup.evidence.bound[p] # "alien"
        /\ pc = "load" =>
             /\ Drawn[p] = "orig"
             /\ Staged[p] = "orig" \/ (Staged[p] = "alien" /\ foreign >= 1)
             /\ evidence.handles[p] = "orig" \/ (evidence.handles[p] = "alien" /\ foreign >= 1)
             /\ Staged[p] = "alien" /\ evidence.handles[p] = "alien" => foreign >= 2

\* A handle is the builder's or the repair's, unless others wrote both files.
Candidate == {"attest_close", "attest_open", "attest_identity", "attest_load"}
Trusting == Candidate \cup {"open", "read", "backup", "copy_dxf", "copy_evidence", "verify", "repair",
                            "create", "review", "save", "write_evidence", "attest_review"}

HandleInv ==
    \A p \in Prims :
        /\ pc \in Trusting /\ foreign < 2 => handles[p] \in {"orig", "new"}
        /\ pc \in Candidate =>
             \/ evidence.handles[p] = handles[p]
             \/ /\ evidence.handles[p] = "alien" /\ evidence.bound[p] = "alien"
                /\ foreign >= 1 /\ (Staged[p] = "alien" => foreign >= 2)

\* The evidence of a candidate is the drawing's own or tells it from what is
\* open, unless others have put the bytes back that it was written for.
CandidateInv ==
    /\ \A p \in Prims :
        /\ pc \in {"attest_close", "attest_open"} =>
             \/ evidence.handles[p] = evidence.bound[p] \/ Staged[p] = evidence.bound[p]
             \/ evidence.bound[p] # "alien" \/ foreign >= 2
        /\ pc \in {"attest_identity", "attest_load"} =>
             /\ Staged[p] \in {Drawn[p], "alien"}
             /\ \/ evidence.handles[p] = evidence.bound[p] \/ Drawn[p] = evidence.bound[p]
                \/ evidence.bound[p] # "alien" \/ (foreign >= 2 /\ Staged[p] = Drawn[p]) \/ foreign >= 3
    /\ pc = "attest_review" => \A pair \in attested :
         /\ Loads(pair.evidence, pair.dxf)
         /\ \A p \in Prims :
              /\ \/ pair.dxf[p] = pair.evidence.handles[p] \/ pair.dxf[p] = Drawn[p] \/ foreign >= 3
              /\ foreign < 2 => pair.evidence.handles[p] \in {"orig", "new"}
    /\ pc = "cleanup" \/ outcome = "saved" => \E pair \in attested :
         /\ Loads(pair.evidence, pair.dxf)
         /\ foreign < 3 => pair.dxf = pair.evidence.handles
         /\ foreign < 2 => \A p \in bad : pair.dxf[p] = "new"

\* What is restored is what was hashed before the repair, or a file that was
\* written since and that its evidence does not fit.
Restoring == {"repair", "create", "review", "close", "restore_dxf", "restore_evidence", "reopen", "reload"}

RestoreInv ==
    /\ pc \in Restoring => original = {first} /\ backup = first
    /\ foreign < 2 => \A p \in Prims :
         /\ pc = "restore_evidence" =>
              Staged[p] = first.dxf[p] \/ (foreign = 1 /\ Staged[p] # first.evidence.bound[p])
         /\ pc \in {"reopen", "reload"} =>
              \/ /\ Staged[p] = first.dxf[p] /\ evidence.bound[p] = first.evidence.bound[p]
                 /\ evidence.handles[p] = first.evidence.handles[p]
              \/ foreign = 1 /\ Staged[p] # evidence.bound[p]
         /\ pc = "reload" => Drawn[p] = Staged[p] \/ (foreign = 1 /\ Staged[p] # evidence.bound[p])

\* Handles that are trusted again, and what a restoration reports.
ReturnedInv ==
    /\ outcome = "restored" =>
         /\ late = Quiet /\ "staged" \in open
         /\ foreign < 2 => original = {Pair} /\ Drawn = Staged
    /\ reason = "transport" =>
         /\ pc \in {"close", "restore_dxf", "restore_evidence", "reopen", "reload", "done"}
         /\ \/ handles = All("none")
            \/ outcome = "restored" /\ (foreign < 2 => Drawn = handles)

ReportInv == BoundInv /\ AnsweredInv /\ NativeInv /\ HandleInv /\ CandidateInv /\ RestoreInv /\ ReturnedInv

-----------------------------------------------------------------------------
\* What is used of the types.
Shapes ==
    /\ disk \in [Docs -> Contents] /\ memory \in [Docs -> Contents]
    /\ Contents = [Prims -> {"orig", "new", "gone", "alien", "cut", "none"}]
    /\ Staged \in Contents /\ Drawn \in Contents /\ handles \in Contents
    /\ evidence \in Evidences /\ evidence.bound \in Contents /\ evidence.handles \in Contents
    /\ backup \in Pairs /\ first \in Pairs /\ attested \subseteq Pairs
    /\ open \subseteq Docs /\ active \in open \cup {"none"} /\ "staged" \in Docs
    /\ foreign \in Nat /\ switches \in Nat /\ (pc = "done" <=> outcome # "running")

LEMMA TypeShapes == TypeOK => Shapes
BY LiveAssumption DEF TypeOK, Shapes, Staged, Drawn, Contents, Evidences, Docs

\* Evidence is bound by WriteEvidence, to what AutoCAD was seen to have saved.
LEMMA BoundStep ==
    ASSUME TypeOK, StagedInv, BackupInv, ReportInv, [Next]_vars
    PROVE  BoundInv'
<1> USE DEF Shapes, ReportInv, BoundInv, AnsweredInv, Staged, Drawn, Early, files, autocad, locals, environment
<1>0. Shapes
  BY TypeShapes
<1>1. CASE LoadEvidence
  BY <1>0, <1>1 DEF LoadEvidence, Loads, Goto, Return
<1>2. CASE ReviewOpens
  BY <1>0, <1>2 DEF ReviewOpens, Opened, Goto
<1>3. CASE ReviewCannotOpen
  BY <1>0, <1>3 DEF ReviewCannotOpen, Lost, Opened, Goto
<1>4. CASE ReviewReads
  BY <1>0, <1>4 DEF ReviewReads, Answers, Mismatches, Goto, Return
<1>5. CASE ReviewCannotRead
  BY <1>0, <1>5 DEF ReviewCannotRead, Goto, Return
<1>6. CASE HashSources
  BY <1>0, <1>6 DEF HashSources, Pair, Goto
<1>7. CASE CopyDxf
  BY <1>0, <1>7 DEF CopyDxf, Goto
<1>8. CASE CopyEvidence
  BY <1>0, <1>8 DEF CopyEvidence, Goto
<1>9. CASE VerifyBackup
  BY <1>0, <1>9 DEF VerifyBackup, BackupIsVerified, Pair, Goto
<1>10. CASE BackupFails
  BY <1>0, <1>10 DEF BackupFails, Return, NoPair, Same, All
<1>11. ASSUME NEW p \in Prims, Skip(p) PROVE BoundInv'
  BY <1>0, <1>11 DEF Skip
<1>12. ASSUME NEW p \in Prims, Erase(p) PROVE BoundInv'
  BY <1>0, <1>12 DEF Erase, Answers, Erased, Goto
<1>13. CASE Create
  BY <1>0, <1>13 DEF Create, Answers, Created, Goto
<1>14. CASE RepairFails
  BY <1>0, <1>14 DEF RepairFails, Lost, Goto
<1>15. CASE EndRepair
  BY <1>0, <1>15 DEF EndRepair, Goto
<1>16. CASE ReviewPasses
  <2>1. switches = 0 => active = "staged"
    BY <1>16 DEF ReviewPasses, StagedInv, ActiveInv, Reviewed
  <2>2. \A p \in Prims : handles[p] = memory[active][p]
    BY <1>16 DEF ReviewPasses, Mismatches
  <2>3. switches = 0 => handles = Drawn
    BY <1>0, <2>1, <2>2
  <2>. QED BY <1>0, <1>16, <2>3 DEF ReviewPasses, Answers, Goto
<1>17. CASE ReviewFails
  BY <1>0, <1>17 DEF ReviewFails, Goto
<1>18. CASE Save
  <2>1. switches = 0 => active = "staged"
    BY <1>18 DEF Save, StagedInv, ActiveInv
  <2>2. active \in Docs /\ disk' = [disk EXCEPT ![active] = memory[active]]
    BY <1>0, <1>18 DEF Save, Answers, Saved
  <2>3. switches = 0 => Staged' = Drawn
    BY <1>0, <2>1, <2>2
  <2>. QED BY <1>0, <1>18, <2>3 DEF Save, Goto
<1>19. CASE SaveIsLost
  BY <1>0, <1>19 DEF SaveIsLost, Lost, Return
<1>20. CASE WriteEvidence
  BY <1>0, <1>20 DEF WriteEvidence, Goto, Return
<1>21. CASE AttestCloses
  BY <1>0, <1>21 DEF AttestCloses, Closes, Answers, Closed, Goto
<1>22. CASE AttestOpens
  BY <1>0, <1>22 DEF AttestOpens, Opened, Goto
<1>23. CASE AttestIdentity
  BY <1>0, <1>23 DEF AttestIdentity, Answers, Goto
<1>24. CASE AttestLoads
  BY <1>0, <1>24 DEF AttestLoads, Loads, Pair, Goto
<1>25. CASE AttestReviews
  BY <1>0, <1>25 DEF AttestReviews, Answers, Mismatches, Goto
<1>26. CASE AttestFails
  BY <1>0, <1>26 DEF AttestFails, CloseIsLost, Lost, Return
<1>27. CASE Cleanup
  <2>1. backup'.evidence = backup.evidence \/ backup'.evidence = Same("none")
    BY <1>0, <1>27 DEF Cleanup, NoPair, Pairs
  <2>2. backup.evidence.handles = backup.evidence.bound =>
          backup'.evidence.handles = backup'.evidence.bound
    BY <2>1 DEF Same
  <2>3. pc' = "done" /\ UNCHANGED <<disk, evidence, autocad, locals, environment>>
    BY <1>27 DEF Cleanup, Return
  <2>. QED BY <1>0, <2>2, <2>3
<1>28. CASE RestoreCloses
  BY <1>0, <1>28 DEF RestoreCloses, Closes, Answers, Closed, Goto
<1>29. CASE RestoreDxf
  BY <1>0, <1>29 DEF RestoreDxf, Goto
<1>30. CASE RestoreEvidence
  BY <1>0, <1>30 DEF RestoreEvidence, Goto
<1>31. CASE Reopen
  BY <1>0, <1>31 DEF Reopen, Opened, Goto
<1>32. CASE Reload
  BY <1>0, <1>32 DEF Reload, Answers, Loads, Return
<1>33. CASE RestoreFails
  BY <1>0, <1>33 DEF RestoreFails, CloseIsLost, Lost, Return, All, Same
<1>34. CASE LateEffect
  BY <1>0, <1>34 DEF LateEffect, Opened, Closed, Erased, Created, Saved, Quiet
<1>35. CASE UserSaves
  BY <1>0, <1>35 DEF UserSaves, Saved
<1>36. CASE ForeignWrite
  BY <1>0, <1>36 DEF ForeignWrite, All, Same
<1>37. CASE Die
  BY <1>0, <1>37 DEF Die, Return, All, Same
<1>38. ASSUME NEW d \in Docs, UserActivates(d) PROVE BoundInv'
  BY <1>0, <1>38 DEF UserActivates
<1>39. CASE UNCHANGED vars
  BY <1>0, <1>39 DEF vars
<1>. QED
  BY <1>1, <1>2, <1>3, <1>4, <1>5, <1>6, <1>7, <1>8, <1>9, <1>10, <1>11, <1>12, <1>13, <1>14,
     <1>15, <1>16, <1>17, <1>18, <1>19, <1>20, <1>21, <1>22, <1>23, <1>24, <1>25, <1>26,
     <1>27, <1>28, <1>29, <1>30, <1>31, <1>32, <1>33, <1>34, <1>35, <1>36, <1>37, <1>38, <1>39
     DEF Next

\* A step that needs an answer leaves no late command behind.
LEMMA AnsweredStep ==
    ASSUME TypeOK, StagedInv, BackupInv, ReportInv, [Next]_vars
    PROVE  AnsweredInv'
<1> USE DEF Shapes, ReportInv, AnsweredInv, Early, files, autocad, locals, environment
<1>0. Shapes
  BY TypeShapes
<1>1. CASE LoadEvidence
  BY <1>0, <1>1 DEF LoadEvidence, Loads, Goto, Return
<1>2. CASE ReviewOpens
  BY <1>0, <1>2 DEF ReviewOpens, Opened, Goto
<1>3. CASE ReviewCannotOpen
  BY <1>0, <1>3 DEF ReviewCannotOpen, Lost, Opened, Goto
<1>4. CASE ReviewReads
  BY <1>0, <1>4 DEF ReviewReads, Answers, Mismatches, Goto, Return
<1>5. CASE ReviewCannotRead
  BY <1>0, <1>5 DEF ReviewCannotRead, Goto, Return
<1>6. CASE HashSources
  BY <1>0, <1>6 DEF HashSources, Pair, Goto
<1>7. CASE CopyDxf
  BY <1>0, <1>7 DEF CopyDxf, Goto
<1>8. CASE CopyEvidence
  BY <1>0, <1>8 DEF CopyEvidence, Goto
<1>9. CASE VerifyBackup
  BY <1>0, <1>9 DEF VerifyBackup, BackupIsVerified, Pair, Goto
<1>10. CASE BackupFails
  BY <1>0, <1>10 DEF BackupFails, Return, NoPair, Same, All
<1>11. ASSUME NEW p \in Prims, Skip(p) PROVE AnsweredInv'
  BY <1>0, <1>11 DEF Skip
<1>12. ASSUME NEW p \in Prims, Erase(p) PROVE AnsweredInv'
  BY <1>0, <1>12 DEF Erase, Answers, Erased, Goto
<1>13. CASE Create
  BY <1>0, <1>13 DEF Create, Answers, Created, Goto
<1>14. CASE RepairFails
  BY <1>0, <1>14 DEF RepairFails, Lost, Goto
<1>15. CASE EndRepair
  BY <1>0, <1>15 DEF EndRepair, Goto
<1>16. CASE ReviewPasses
  BY <1>0, <1>16 DEF ReviewPasses, Answers, Mismatches, Goto
<1>17. CASE ReviewFails
  BY <1>0, <1>17 DEF ReviewFails, Goto
<1>18. CASE Save
  BY <1>0, <1>18 DEF Save, Answers, Saved, Goto
<1>19. CASE SaveIsLost
  BY <1>0, <1>19 DEF SaveIsLost, Lost, Return
<1>20. CASE WriteEvidence
  BY <1>0, <1>20 DEF WriteEvidence, Goto, Return
<1>21. CASE AttestCloses
  BY <1>0, <1>21 DEF AttestCloses, Closes, Answers, Closed, Goto
<1>22. CASE AttestOpens
  BY <1>0, <1>22 DEF AttestOpens, Opened, Goto
<1>23. CASE AttestIdentity
  BY <1>0, <1>23 DEF AttestIdentity, Answers, Goto
<1>24. CASE AttestLoads
  BY <1>0, <1>24 DEF AttestLoads, Loads, Pair, Goto
<1>25. CASE AttestReviews
  BY <1>0, <1>25 DEF AttestReviews, Answers, Mismatches, Goto
<1>26. CASE AttestFails
  BY <1>0, <1>26 DEF AttestFails, CloseIsLost, Lost, Return
<1>27. CASE Cleanup
  BY <1>0, <1>27 DEF Cleanup, Return, NoPair, Same, All
<1>28. CASE RestoreCloses
  BY <1>0, <1>28 DEF RestoreCloses, Closes, Answers, Closed, Goto
<1>29. CASE RestoreDxf
  BY <1>0, <1>29 DEF RestoreDxf, Goto
<1>30. CASE RestoreEvidence
  BY <1>0, <1>30 DEF RestoreEvidence, Goto
<1>31. CASE Reopen
  BY <1>0, <1>31 DEF Reopen, Opened, Goto
<1>32. CASE Reload
  BY <1>0, <1>32 DEF Reload, Answers, Loads, Return
<1>33. CASE RestoreFails
  BY <1>0, <1>33 DEF RestoreFails, CloseIsLost, Lost, Return, All, Same
<1>34. CASE LateEffect
  BY <1>0, <1>34 DEF LateEffect, Opened, Closed, Erased, Created, Saved, Quiet
<1>35. CASE UserSaves
  BY <1>0, <1>35 DEF UserSaves, Saved
<1>36. CASE ForeignWrite
  BY <1>0, <1>36 DEF ForeignWrite, All, Same
<1>37. CASE Die
  BY <1>0, <1>37 DEF Die, Return, All, Same
<1>38. ASSUME NEW d \in Docs, UserActivates(d) PROVE AnsweredInv'
  BY <1>0, <1>38 DEF UserActivates
<1>39. CASE UNCHANGED vars
  BY <1>0, <1>39 DEF vars
<1>. QED
  BY <1>1, <1>2, <1>3, <1>4, <1>5, <1>6, <1>7, <1>8, <1>9, <1>10, <1>11, <1>12, <1>13, <1>14,
     <1>15, <1>16, <1>17, <1>18, <1>19, <1>20, <1>21, <1>22, <1>23, <1>24, <1>25, <1>26,
     <1>27, <1>28, <1>29, <1>30, <1>31, <1>32, <1>33, <1>34, <1>35, <1>36, <1>37, <1>38, <1>39
     DEF Next

\* Another program's entities come with a write of it.
LEMMA NativeStep ==
    ASSUME TypeOK, StagedInv, BackupInv, ReportInv, [Next]_vars
    PROVE  NativeInv'
<1> USE DEF Shapes, ReportInv, NativeInv, AnsweredInv, Staged, Drawn, files, autocad, locals, environment
<1>0. Shapes
  BY TypeShapes
<1>1. CASE LoadEvidence
  BY <1>0, <1>1 DEF LoadEvidence, Loads, Goto, Return
<1>2. CASE ReviewOpens
  BY <1>0, <1>2 DEF ReviewOpens, Opened, Goto
<1>3. CASE ReviewCannotOpen
  BY <1>0, <1>3 DEF ReviewCannotOpen, Lost, Opened, Goto
<1>4. CASE ReviewReads
  BY <1>0, <1>4 DEF ReviewReads, Answers, Mismatches, Goto, Return
<1>5. CASE ReviewCannotRead
  BY <1>0, <1>5 DEF ReviewCannotRead, Goto, Return
<1>6. CASE HashSources
  BY <1>0, <1>6 DEF HashSources, Pair, Goto
<1>7. CASE CopyDxf
  BY <1>0, <1>7 DEF CopyDxf, Goto
<1>8. CASE CopyEvidence
  BY <1>0, <1>8 DEF CopyEvidence, Goto
<1>9. CASE VerifyBackup
  BY <1>0, <1>9 DEF VerifyBackup, BackupIsVerified, Pair, Goto
<1>10. CASE BackupFails
  BY <1>0, <1>10 DEF BackupFails, Return, NoPair, Same, All
<1>11. ASSUME NEW p \in Prims, Skip(p) PROVE NativeInv'
  BY <1>0, <1>11 DEF Skip
<1>12. ASSUME NEW p \in Prims, Erase(p) PROVE NativeInv'
  BY <1>0, <1>12 DEF Erase, Answers, Erased, Goto
<1>13. CASE Create
  BY <1>0, <1>13 DEF Create, Answers, Created, Goto
<1>14. CASE RepairFails
  BY <1>0, <1>14 DEF RepairFails, Lost, Goto
<1>15. CASE EndRepair
  BY <1>0, <1>15 DEF EndRepair, Goto
<1>16. CASE ReviewPasses
  BY <1>0, <1>16 DEF ReviewPasses, Answers, Mismatches, Goto
<1>17. CASE ReviewFails
  BY <1>0, <1>17 DEF ReviewFails, Goto
<1>18. CASE Save
  BY <1>0, <1>18 DEF Save, Answers, Saved, Goto
<1>19. CASE SaveIsLost
  BY <1>0, <1>19 DEF SaveIsLost, Lost, Return
<1>20. CASE WriteEvidence
  BY <1>0, <1>20 DEF WriteEvidence, Goto, Return
<1>21. CASE AttestCloses
  BY <1>0, <1>21 DEF AttestCloses, Closes, Answers, Closed, Goto
<1>22. CASE AttestOpens
  BY <1>0, <1>22 DEF AttestOpens, Opened, Goto
<1>23. CASE AttestIdentity
  BY <1>0, <1>23 DEF AttestIdentity, Answers, Goto
<1>24. CASE AttestLoads
  BY <1>0, <1>24 DEF AttestLoads, Loads, Pair, Goto
<1>25. CASE AttestReviews
  BY <1>0, <1>25 DEF AttestReviews, Answers, Mismatches, Goto
<1>26. CASE AttestFails
  BY <1>0, <1>26 DEF AttestFails, CloseIsLost, Lost, Return
<1>27. CASE Cleanup
  <2>1. /\ backup'.evidence = backup.evidence \/ backup'.evidence = Same("none")
        /\ backup'.dxf = backup.dxf \/ backup'.dxf = All("none")
    BY <1>0, <1>27 DEF Cleanup, NoPair, Pairs
  <2>2. \A p \in Prims :
          /\ backup'.evidence.bound = backup.evidence.bound \/ backup'.evidence.bound[p] = "none"
          /\ backup'.dxf = backup.dxf \/ backup'.dxf[p] = "none"
    BY <2>1 DEF Same, All
  <2>3. pc' = "done" /\ UNCHANGED <<disk, evidence, autocad, locals, environment>>
    BY <1>27 DEF Cleanup, Return
  <2>. QED BY <1>0, <2>2, <2>3
<1>28. CASE RestoreCloses
  BY <1>0, <1>28 DEF RestoreCloses, Closes, Answers, Closed, Goto
<1>29. CASE RestoreDxf
  BY <1>0, <1>29 DEF RestoreDxf, Goto
<1>30. CASE RestoreEvidence
  BY <1>0, <1>30 DEF RestoreEvidence, Goto
<1>31. CASE Reopen
  BY <1>0, <1>31 DEF Reopen, Opened, Goto
<1>32. CASE Reload
  BY <1>0, <1>32 DEF Reload, Answers, Loads, Return
<1>33. CASE RestoreFails
  BY <1>0, <1>33 DEF RestoreFails, CloseIsLost, Lost, Return, All, Same
<1>34. CASE LateEffect
  <2>1. pc # "load" /\ pc' = pc /\ UNCHANGED <<evidence, backup, locals, environment>>
    BY <1>34 DEF LateEffect
  <2>2. /\ Staged' \in {Staged, Drawn}
        /\ \A p \in Prims : Drawn'[p] \in {Drawn[p], Staged[p], "gone", "new"}
    <3>0. late.op \notin {"none", "open"} => late.doc \in Docs
      BY DEF TypeOK
    <3>1. CASE late.op = "open" /\ Opened /\ UNCHANGED disk
      BY <1>0, <3>1 DEF Opened
    <3>2. CASE late.op = "close" /\ Closed(late.doc) /\ UNCHANGED disk
      BY <1>0, <3>2 DEF Closed
    <3>3. CASE late.op = "erase" /\ Erased(late.doc, late.prim) /\ UNCHANGED <<open, active, disk>>
      BY <1>0, <3>0, <3>3 DEF Erased
    <3>4. CASE late.op = "create" /\ Created(late.doc, late.prim) /\ UNCHANGED <<open, active, disk>>
      BY <1>0, <3>0, <3>4 DEF Created
    <3>5. CASE late.op = "save" /\ Saved(late.doc) /\ UNCHANGED <<open, active, memory>>
      BY <1>0, <3>0, <3>5 DEF Saved
    <3>. QED BY <1>34, <3>1, <3>2, <3>3, <3>4, <3>5 DEF LateEffect
  <2>. HIDE DEF Staged, Drawn
  <2>. QED BY <1>0, <2>1, <2>2
<1>35. CASE UserSaves
  BY <1>0, <1>35 DEF UserSaves, Saved
<1>36. CASE ForeignWrite
  BY <1>0, <1>36 DEF ForeignWrite, All, Same
<1>37. CASE Die
  BY <1>0, <1>37 DEF Die, Return, All, Same
<1>38. ASSUME NEW d \in Docs, UserActivates(d) PROVE NativeInv'
  BY <1>0, <1>38 DEF UserActivates
<1>39. CASE UNCHANGED vars
  BY <1>0, <1>39 DEF vars
<1>. QED
  BY <1>1, <1>2, <1>3, <1>4, <1>5, <1>6, <1>7, <1>8, <1>9, <1>10, <1>11, <1>12, <1>13, <1>14,
     <1>15, <1>16, <1>17, <1>18, <1>19, <1>20, <1>21, <1>22, <1>23, <1>24, <1>25, <1>26,
     <1>27, <1>28, <1>29, <1>30, <1>31, <1>32, <1>33, <1>34, <1>35, <1>36, <1>37, <1>38, <1>39
     DEF Next

\* Handles are taken from evidence that fits, and given by a creation.
LEMMA HandleStep ==
    ASSUME TypeOK, StagedInv, BackupInv, ReportInv, [Next]_vars
    PROVE  HandleInv'
<1> USE DEF Shapes, ReportInv, HandleInv, BoundInv, Early, NativeInv, AnsweredInv, Staged, Drawn, Candidate, Trusting, files, autocad, locals, environment
<1>0. Shapes
  BY TypeShapes
<1>1. CASE LoadEvidence
  BY <1>0, <1>1 DEF LoadEvidence, Loads, Goto, Return
<1>2. CASE ReviewOpens
  BY <1>0, <1>2 DEF ReviewOpens, Opened, Goto
<1>3. CASE ReviewCannotOpen
  BY <1>0, <1>3 DEF ReviewCannotOpen, Lost, Opened, Goto
<1>4. CASE ReviewReads
  BY <1>0, <1>4 DEF ReviewReads, Answers, Mismatches, Goto, Return
<1>5. CASE ReviewCannotRead
  BY <1>0, <1>5 DEF ReviewCannotRead, Goto, Return
<1>6. CASE HashSources
  BY <1>0, <1>6 DEF HashSources, Pair, Goto
<1>7. CASE CopyDxf
  BY <1>0, <1>7 DEF CopyDxf, Goto
<1>8. CASE CopyEvidence
  BY <1>0, <1>8 DEF CopyEvidence, Goto
<1>9. CASE VerifyBackup
  BY <1>0, <1>9 DEF VerifyBackup, BackupIsVerified, Pair, Goto
<1>10. CASE BackupFails
  BY <1>0, <1>10 DEF BackupFails, Return, NoPair, Same, All
<1>11. ASSUME NEW p \in Prims, Skip(p) PROVE HandleInv'
  BY <1>0, <1>11 DEF Skip
<1>12. ASSUME NEW p \in Prims, Erase(p) PROVE HandleInv'
  BY <1>0, <1>12 DEF Erase, Answers, Erased, Goto
<1>13. CASE Create
  BY <1>0, <1>13 DEF Create, Answers, Created, Goto
<1>14. CASE RepairFails
  BY <1>0, <1>14 DEF RepairFails, Lost, Goto
<1>15. CASE EndRepair
  BY <1>0, <1>15 DEF EndRepair, Goto
<1>16. CASE ReviewPasses
  BY <1>0, <1>16 DEF ReviewPasses, Answers, Mismatches, Goto
<1>17. CASE ReviewFails
  BY <1>0, <1>17 DEF ReviewFails, Goto
<1>18. CASE Save
  BY <1>0, <1>18 DEF Save, Answers, Saved, Goto
<1>19. CASE SaveIsLost
  BY <1>0, <1>19 DEF SaveIsLost, Lost, Return
<1>20. CASE WriteEvidence
  BY <1>0, <1>20 DEF WriteEvidence, Goto, Return
<1>21. CASE AttestCloses
  BY <1>0, <1>21 DEF AttestCloses, Closes, Answers, Closed, Goto
<1>22. CASE AttestOpens
  BY <1>0, <1>22 DEF AttestOpens, Opened, Goto
<1>23. CASE AttestIdentity
  BY <1>0, <1>23 DEF AttestIdentity, Answers, Goto
<1>24. CASE AttestLoads
  BY <1>0, <1>24 DEF AttestLoads, Loads, Pair, Goto
<1>25. CASE AttestReviews
  BY <1>0, <1>25 DEF AttestReviews, Answers, Mismatches, Goto
<1>26. CASE AttestFails
  BY <1>0, <1>26 DEF AttestFails, CloseIsLost, Lost, Return
<1>27. CASE Cleanup
  BY <1>0, <1>27 DEF Cleanup, Return, NoPair, Same, All
<1>28. CASE RestoreCloses
  BY <1>0, <1>28 DEF RestoreCloses, Closes, Answers, Closed, Goto
<1>29. CASE RestoreDxf
  BY <1>0, <1>29 DEF RestoreDxf, Goto
<1>30. CASE RestoreEvidence
  BY <1>0, <1>30 DEF RestoreEvidence, Goto
<1>31. CASE Reopen
  BY <1>0, <1>31 DEF Reopen, Opened, Goto
<1>32. CASE Reload
  BY <1>0, <1>32 DEF Reload, Answers, Loads, Return
<1>33. CASE RestoreFails
  BY <1>0, <1>33 DEF RestoreFails, CloseIsLost, Lost, Return, All, Same
<1>34. CASE LateEffect
  BY <1>0, <1>34 DEF LateEffect, Opened, Closed, Erased, Created, Saved, Quiet
<1>35. CASE UserSaves
  BY <1>0, <1>35 DEF UserSaves, Saved
<1>36. CASE ForeignWrite
  BY <1>0, <1>36 DEF ForeignWrite, All, Same
<1>37. CASE Die
  BY <1>0, <1>37 DEF Die, Return, All, Same
<1>38. ASSUME NEW d \in Docs, UserActivates(d) PROVE HandleInv'
  BY <1>0, <1>38 DEF UserActivates
<1>39. CASE UNCHANGED vars
  BY <1>0, <1>39 DEF vars
<1>. QED
  BY <1>1, <1>2, <1>3, <1>4, <1>5, <1>6, <1>7, <1>8, <1>9, <1>10, <1>11, <1>12, <1>13, <1>14,
     <1>15, <1>16, <1>17, <1>18, <1>19, <1>20, <1>21, <1>22, <1>23, <1>24, <1>25, <1>26,
     <1>27, <1>28, <1>29, <1>30, <1>31, <1>32, <1>33, <1>34, <1>35, <1>36, <1>37, <1>38, <1>39
     DEF Next

\* The evidence of a candidate is compared with what AutoCAD opened.
LEMMA CandidateStep ==
    ASSUME TypeOK, StagedInv, BackupInv, ReportInv, [Next]_vars
    PROVE  CandidateInv'
<1> USE DEF Shapes, ReportInv, CandidateInv, HandleInv, NativeInv, AnsweredInv, Staged, Drawn, Candidate, Trusting, files, autocad, locals, environment
<1>0. Shapes
  BY TypeShapes
<1>1. CASE LoadEvidence
  BY <1>0, <1>1 DEF LoadEvidence, Loads, Goto, Return
<1>2. CASE ReviewOpens
  BY <1>0, <1>2 DEF ReviewOpens, Opened, Goto
<1>3. CASE ReviewCannotOpen
  BY <1>0, <1>3 DEF ReviewCannotOpen, Lost, Opened, Goto
<1>4. CASE ReviewReads
  BY <1>0, <1>4 DEF ReviewReads, Answers, Mismatches, Goto, Return
<1>5. CASE ReviewCannotRead
  BY <1>0, <1>5 DEF ReviewCannotRead, Goto, Return
<1>6. CASE HashSources
  BY <1>0, <1>6 DEF HashSources, Pair, Goto
<1>7. CASE CopyDxf
  BY <1>0, <1>7 DEF CopyDxf, Goto
<1>8. CASE CopyEvidence
  BY <1>0, <1>8 DEF CopyEvidence, Goto
<1>9. CASE VerifyBackup
  BY <1>0, <1>9 DEF VerifyBackup, BackupIsVerified, Pair, Goto
<1>10. CASE BackupFails
  BY <1>0, <1>10 DEF BackupFails, Return, NoPair, Same, All
<1>11. ASSUME NEW p \in Prims, Skip(p) PROVE CandidateInv'
  BY <1>0, <1>11 DEF Skip
<1>12. ASSUME NEW p \in Prims, Erase(p) PROVE CandidateInv'
  BY <1>0, <1>12 DEF Erase, Answers, Erased, Goto
<1>13. CASE Create
  BY <1>0, <1>13 DEF Create, Answers, Created, Goto
<1>14. CASE RepairFails
  BY <1>0, <1>14 DEF RepairFails, Lost, Goto
<1>15. CASE EndRepair
  BY <1>0, <1>15 DEF EndRepair, Goto
<1>16. CASE ReviewPasses
  BY <1>0, <1>16 DEF ReviewPasses, Answers, Mismatches, Goto
<1>17. CASE ReviewFails
  BY <1>0, <1>17 DEF ReviewFails, Goto
<1>18. CASE Save
  BY <1>0, <1>18 DEF Save, Answers, Saved, Goto
<1>19. CASE SaveIsLost
  BY <1>0, <1>19 DEF SaveIsLost, Lost, Return
<1>20. CASE WriteEvidence
  BY <1>0, <1>20 DEF WriteEvidence, Goto, Return
<1>21. CASE AttestCloses
  BY <1>0, <1>21 DEF AttestCloses, Closes, Answers, Closed, Goto
<1>22. CASE AttestOpens
  BY <1>0, <1>22 DEF AttestOpens, Opened, Goto
<1>23. CASE AttestIdentity
  BY <1>0, <1>23 DEF AttestIdentity, Answers, Goto
<1>24. CASE AttestLoads
  BY <1>0, <1>24 DEF AttestLoads, Loads, Pair, Goto
<1>25. CASE AttestReviews
  <2>1. PICK pair \in attested : Mismatches(pair.evidence.handles) = {}
    BY <1>25 DEF AttestReviews
  <2>2. pc = "attest_review" /\ active = "staged" /\ attested' = attested /\ UNCHANGED environment
    BY <1>25 DEF AttestReviews
  <2>3. \A p \in Prims : /\ pair.evidence.handles[p] = Drawn[p]
                         /\ p \in bad => pair.evidence.handles[p] # "orig"
    BY <2>1, <2>2 DEF Mismatches
  <2>4. pair.dxf \in Contents /\ pair.evidence.handles \in Contents
    BY <1>0 DEF Pairs, Evidences
  <2>5. /\ Loads(pair.evidence, pair.dxf)
        /\ \A p \in Prims :
              /\ pair.dxf[p] = pair.evidence.handles[p] \/ pair.dxf[p] = Drawn[p] \/ foreign >= 3
              /\ foreign < 2 => pair.evidence.handles[p] \in {"orig", "new"}
    BY <2>2 DEF ReportInv
  <2>6. foreign < 3 => pair.dxf = pair.evidence.handles
    <3>1. foreign < 3 => \A p \in Prims : pair.dxf[p] = pair.evidence.handles[p]
      BY <1>0, <2>3, <2>5
    <3>. QED BY <1>0, <2>4, <3>1
  <2>7. foreign < 2 => \A p \in bad : pair.dxf[p] = "new"
    <3>1. bad \subseteq Prims
      BY DEF TypeOK
    <3>. QED BY <1>0, <2>3, <2>5, <2>6, <3>1
  <2>8. pc' = "cleanup" /\ outcome' # "saved"
    BY <1>0, <1>25 DEF AttestReviews, Goto
  <2>. QED BY <2>2, <2>5, <2>6, <2>7, <2>8
<1>26. CASE AttestFails
  BY <1>0, <1>26 DEF AttestFails, CloseIsLost, Lost, Return
<1>27. CASE Cleanup
  BY <1>0, <1>27 DEF Cleanup, Return, NoPair, Same, All
<1>28. CASE RestoreCloses
  BY <1>0, <1>28 DEF RestoreCloses, Closes, Answers, Closed, Goto
<1>29. CASE RestoreDxf
  BY <1>0, <1>29 DEF RestoreDxf, Goto
<1>30. CASE RestoreEvidence
  BY <1>0, <1>30 DEF RestoreEvidence, Goto
<1>31. CASE Reopen
  BY <1>0, <1>31 DEF Reopen, Opened, Goto
<1>32. CASE Reload
  BY <1>0, <1>32 DEF Reload, Answers, Loads, Return
<1>33. CASE RestoreFails
  BY <1>0, <1>33 DEF RestoreFails, CloseIsLost, Lost, Return, All, Same
<1>34. CASE LateEffect
  BY <1>0, <1>34 DEF LateEffect, Opened, Closed, Erased, Created, Saved, Quiet
<1>35. CASE UserSaves
  BY <1>0, <1>35 DEF UserSaves, Saved
<1>36. CASE ForeignWrite
  <2>1. foreign' = foreign + 1 /\ pc # "done" /\ UNCHANGED <<pc, outcome, memory, attested, bad>>
    BY <1>36 DEF ForeignWrite
  <2>2. \A p \in Prims :
          \/ Staged'[p] = "alien" /\ UNCHANGED evidence
          \/ /\ Staged' = Staged /\ evidence'.handles = evidence'.bound
    BY <1>0, <1>36 DEF ForeignWrite, All, Same
  <2>3. Drawn' = Drawn
    BY <2>1
  <2>. HIDE DEF Staged, Drawn
  <2>4. CandidateInv!1'
    BY <1>0, <2>1, <2>2, <2>3
  <2>5. CandidateInv!2'
    BY <1>0, <2>1, <2>3
  <2>6. CandidateInv!3'
    BY <1>0, <2>1
  <2>. QED BY <2>4, <2>5, <2>6
<1>37. CASE Die
  BY <1>0, <1>37 DEF Die, Return, All, Same
<1>38. ASSUME NEW d \in Docs, UserActivates(d) PROVE CandidateInv'
  BY <1>0, <1>38 DEF UserActivates
<1>39. CASE UNCHANGED vars
  BY <1>0, <1>39 DEF vars
<1>. QED
  BY <1>1, <1>2, <1>3, <1>4, <1>5, <1>6, <1>7, <1>8, <1>9, <1>10, <1>11, <1>12, <1>13, <1>14,
     <1>15, <1>16, <1>17, <1>18, <1>19, <1>20, <1>21, <1>22, <1>23, <1>24, <1>25, <1>26,
     <1>27, <1>28, <1>29, <1>30, <1>31, <1>32, <1>33, <1>34, <1>35, <1>36, <1>37, <1>38, <1>39
     DEF Next

\* The backup is put back, and what meets it meanwhile does not fit.
LEMMA RestoreStep ==
    ASSUME TypeOK, StagedInv, BackupInv, ReportInv, [Next]_vars
    PROVE  RestoreInv'
<1> USE DEF Shapes, ReportInv, RestoreInv, BackupInv, NativeInv, AnsweredInv, BoundInv, Staged, Drawn, Restoring, files, autocad, locals, environment
<1>0. Shapes
  BY TypeShapes
<1>1. CASE LoadEvidence
  BY <1>0, <1>1 DEF LoadEvidence, Loads, Goto, Return
<1>2. CASE ReviewOpens
  BY <1>0, <1>2 DEF ReviewOpens, Opened, Goto
<1>3. CASE ReviewCannotOpen
  BY <1>0, <1>3 DEF ReviewCannotOpen, Lost, Opened, Goto
<1>4. CASE ReviewReads
  BY <1>0, <1>4 DEF ReviewReads, Answers, Mismatches, Goto, Return
<1>5. CASE ReviewCannotRead
  BY <1>0, <1>5 DEF ReviewCannotRead, Goto, Return
<1>6. CASE HashSources
  BY <1>0, <1>6 DEF HashSources, Pair, Goto
<1>7. CASE CopyDxf
  BY <1>0, <1>7 DEF CopyDxf, Goto
<1>8. CASE CopyEvidence
  BY <1>0, <1>8 DEF CopyEvidence, Goto
<1>9. CASE VerifyBackup
  BY <1>0, <1>9 DEF VerifyBackup, BackupIsVerified, Pair, Goto
<1>10. CASE BackupFails
  BY <1>0, <1>10 DEF BackupFails, Return, NoPair, Same, All
<1>11. ASSUME NEW p \in Prims, Skip(p) PROVE RestoreInv'
  BY <1>0, <1>11 DEF Skip
<1>12. ASSUME NEW p \in Prims, Erase(p) PROVE RestoreInv'
  BY <1>0, <1>12 DEF Erase, Answers, Erased, Goto
<1>13. CASE Create
  BY <1>0, <1>13 DEF Create, Answers, Created, Goto
<1>14. CASE RepairFails
  BY <1>0, <1>14 DEF RepairFails, Lost, Goto
<1>15. CASE EndRepair
  BY <1>0, <1>15 DEF EndRepair, Goto
<1>16. CASE ReviewPasses
  BY <1>0, <1>16 DEF ReviewPasses, Answers, Mismatches, Goto
<1>17. CASE ReviewFails
  BY <1>0, <1>17 DEF ReviewFails, Goto
<1>18. CASE Save
  BY <1>0, <1>18 DEF Save, Answers, Saved, Goto
<1>19. CASE SaveIsLost
  BY <1>0, <1>19 DEF SaveIsLost, Lost, Return
<1>20. CASE WriteEvidence
  BY <1>0, <1>20 DEF WriteEvidence, Goto, Return
<1>21. CASE AttestCloses
  BY <1>0, <1>21 DEF AttestCloses, Closes, Answers, Closed, Goto
<1>22. CASE AttestOpens
  BY <1>0, <1>22 DEF AttestOpens, Opened, Goto
<1>23. CASE AttestIdentity
  BY <1>0, <1>23 DEF AttestIdentity, Answers, Goto
<1>24. CASE AttestLoads
  BY <1>0, <1>24 DEF AttestLoads, Loads, Pair, Goto
<1>25. CASE AttestReviews
  BY <1>0, <1>25 DEF AttestReviews, Answers, Mismatches, Goto
<1>26. CASE AttestFails
  BY <1>0, <1>26 DEF AttestFails, CloseIsLost, Lost, Return
<1>27. CASE Cleanup
  BY <1>0, <1>27 DEF Cleanup, Return, NoPair, Same, All
<1>28. CASE RestoreCloses
  BY <1>0, <1>28 DEF RestoreCloses, Closes, Answers, Closed, Goto
<1>29. CASE RestoreDxf
  BY <1>0, <1>29 DEF RestoreDxf, Goto
<1>30. CASE RestoreEvidence
  BY <1>0, <1>30 DEF RestoreEvidence, Goto
<1>31. CASE Reopen
  BY <1>0, <1>31 DEF Reopen, Opened, Goto
<1>32. CASE Reload
  BY <1>0, <1>32 DEF Reload, Answers, Loads, Return
<1>33. CASE RestoreFails
  BY <1>0, <1>33 DEF RestoreFails, CloseIsLost, Lost, Return, All, Same
<1>34. CASE LateEffect
  BY <1>0, <1>34 DEF LateEffect, Opened, Closed, Erased, Created, Saved, Quiet
<1>35. CASE UserSaves
  BY <1>0, <1>35 DEF UserSaves, Saved
<1>36. CASE ForeignWrite
  BY <1>0, <1>36 DEF ForeignWrite, All, Same
<1>37. CASE Die
  BY <1>0, <1>37 DEF Die, Return, All, Same
<1>38. ASSUME NEW d \in Docs, UserActivates(d) PROVE RestoreInv'
  BY <1>0, <1>38 DEF UserActivates
<1>39. CASE UNCHANGED vars
  BY <1>0, <1>39 DEF vars
<1>. QED
  BY <1>1, <1>2, <1>3, <1>4, <1>5, <1>6, <1>7, <1>8, <1>9, <1>10, <1>11, <1>12, <1>13, <1>14,
     <1>15, <1>16, <1>17, <1>18, <1>19, <1>20, <1>21, <1>22, <1>23, <1>24, <1>25, <1>26,
     <1>27, <1>28, <1>29, <1>30, <1>31, <1>32, <1>33, <1>34, <1>35, <1>36, <1>37, <1>38, <1>39
     DEF Next

\* A restoration is reported where the pair was seen to fit.
LEMMA ReturnedStep ==
    ASSUME TypeOK, StagedInv, BackupInv, ReportInv, [Next]_vars
    PROVE  ReturnedInv'
<1> USE DEF Shapes, ReportInv, ReturnedInv, RestoreInv, AnsweredInv, BoundInv, Staged, Drawn, Restoring, files, autocad, locals, environment
<1>0. Shapes
  BY TypeShapes
<1>1. CASE LoadEvidence
  BY <1>0, <1>1 DEF LoadEvidence, Loads, Goto, Return
<1>2. CASE ReviewOpens
  BY <1>0, <1>2 DEF ReviewOpens, Opened, Goto
<1>3. CASE ReviewCannotOpen
  BY <1>0, <1>3 DEF ReviewCannotOpen, Lost, Opened, Goto
<1>4. CASE ReviewReads
  BY <1>0, <1>4 DEF ReviewReads, Answers, Mismatches, Goto, Return
<1>5. CASE ReviewCannotRead
  BY <1>0, <1>5 DEF ReviewCannotRead, Goto, Return
<1>6. CASE HashSources
  BY <1>0, <1>6 DEF HashSources, Pair, Goto
<1>7. CASE CopyDxf
  BY <1>0, <1>7 DEF CopyDxf, Goto
<1>8. CASE CopyEvidence
  BY <1>0, <1>8 DEF CopyEvidence, Goto
<1>9. CASE VerifyBackup
  BY <1>0, <1>9 DEF VerifyBackup, BackupIsVerified, Pair, Goto
<1>10. CASE BackupFails
  BY <1>0, <1>10 DEF BackupFails, Return, NoPair, Same, All
<1>11. ASSUME NEW p \in Prims, Skip(p) PROVE ReturnedInv'
  BY <1>0, <1>11 DEF Skip
<1>12. ASSUME NEW p \in Prims, Erase(p) PROVE ReturnedInv'
  BY <1>0, <1>12 DEF Erase, Answers, Erased, Goto
<1>13. CASE Create
  BY <1>0, <1>13 DEF Create, Answers, Created, Goto
<1>14. CASE RepairFails
  BY <1>0, <1>14 DEF RepairFails, Lost, Goto
<1>15. CASE EndRepair
  BY <1>0, <1>15 DEF EndRepair, Goto
<1>16. CASE ReviewPasses
  BY <1>0, <1>16 DEF ReviewPasses, Answers, Mismatches, Goto
<1>17. CASE ReviewFails
  BY <1>0, <1>17 DEF ReviewFails, Goto
<1>18. CASE Save
  BY <1>0, <1>18 DEF Save, Answers, Saved, Goto
<1>19. CASE SaveIsLost
  BY <1>0, <1>19 DEF SaveIsLost, Lost, Return
<1>20. CASE WriteEvidence
  BY <1>0, <1>20 DEF WriteEvidence, Goto, Return
<1>21. CASE AttestCloses
  BY <1>0, <1>21 DEF AttestCloses, Closes, Answers, Closed, Goto
<1>22. CASE AttestOpens
  BY <1>0, <1>22 DEF AttestOpens, Opened, Goto
<1>23. CASE AttestIdentity
  BY <1>0, <1>23 DEF AttestIdentity, Answers, Goto
<1>24. CASE AttestLoads
  BY <1>0, <1>24 DEF AttestLoads, Loads, Pair, Goto
<1>25. CASE AttestReviews
  BY <1>0, <1>25 DEF AttestReviews, Answers, Mismatches, Goto
<1>26. CASE AttestFails
  BY <1>0, <1>26 DEF AttestFails, CloseIsLost, Lost, Return
<1>27. CASE Cleanup
  BY <1>0, <1>27 DEF Cleanup, Return, NoPair, Same, All
<1>28. CASE RestoreCloses
  BY <1>0, <1>28 DEF RestoreCloses, Closes, Answers, Closed, Goto
<1>29. CASE RestoreDxf
  BY <1>0, <1>29 DEF RestoreDxf, Goto
<1>30. CASE RestoreEvidence
  BY <1>0, <1>30 DEF RestoreEvidence, Goto
<1>31. CASE Reopen
  BY <1>0, <1>31 DEF Reopen, Opened, Goto
<1>32. CASE Reload
  <2>1. /\ pc = "reload" /\ late = Quiet /\ "staged" \in open /\ evidence.bound = Staged
        /\ pc' = "done" /\ outcome' = "restored"
        /\ handles' = IF reason = "transport" THEN first.evidence.handles ELSE handles
        /\ UNCHANGED <<files, autocad, reason, first, original, foreign>>
    BY <1>32 DEF Reload, Answers, Loads, Return
  <2>2. /\ original = {first} /\ backup = first /\ first.evidence.handles = first.evidence.bound
        /\ foreign < 2 => \A p \in Prims :
              /\ Staged[p] = first.dxf[p] /\ evidence.bound[p] = first.evidence.bound[p]
              /\ evidence.handles[p] = first.evidence.handles[p] /\ Drawn[p] = Staged[p]
    BY <2>1
  <2>3. /\ first.dxf \in Contents /\ first.evidence.bound \in Contents
        /\ first.evidence.handles \in Contents /\ first.evidence \in Evidences
    BY <1>0 DEF Pairs, Evidences
  <2>4. foreign < 2 => /\ Staged = first.dxf /\ evidence.bound = first.evidence.bound
                       /\ evidence.handles = first.evidence.handles /\ Drawn = Staged
    BY <1>0, <2>2, <2>3
  <2>5. foreign < 2 => evidence = first.evidence
    BY <1>0, <2>3, <2>4 DEF Evidences
  <2>6. foreign < 2 => Pair = first
    BY <1>0, <2>4, <2>5 DEF Pair, Pairs
  <2>7. foreign < 2 => Drawn = first.evidence.handles
    BY <2>1, <2>2, <2>4
  <2>8. Pair' = Pair
    BY <2>1 DEF Pair
  <2>. QED BY <1>0, <2>1, <2>2, <2>4, <2>6, <2>7, <2>8
<1>33. CASE RestoreFails
  BY <1>0, <1>33 DEF RestoreFails, CloseIsLost, Lost, Return, All, Same
<1>34. CASE LateEffect
  BY <1>0, <1>34 DEF LateEffect, Opened, Closed, Erased, Created, Saved, Quiet
<1>35. CASE UserSaves
  BY <1>0, <1>35 DEF UserSaves, Saved
<1>36. CASE ForeignWrite
  BY <1>0, <1>36 DEF ForeignWrite, All, Same
<1>37. CASE Die
  BY <1>0, <1>37 DEF Die, Return, All, Same
<1>38. ASSUME NEW d \in Docs, UserActivates(d) PROVE ReturnedInv'
  BY <1>0, <1>38 DEF UserActivates
<1>39. CASE UNCHANGED vars
  BY <1>0, <1>39 DEF vars, Pair
<1>. QED
  BY <1>1, <1>2, <1>3, <1>4, <1>5, <1>6, <1>7, <1>8, <1>9, <1>10, <1>11, <1>12, <1>13, <1>14,
     <1>15, <1>16, <1>17, <1>18, <1>19, <1>20, <1>21, <1>22, <1>23, <1>24, <1>25, <1>26,
     <1>27, <1>28, <1>29, <1>30, <1>31, <1>32, <1>33, <1>34, <1>35, <1>36, <1>37, <1>38, <1>39
     DEF Next

\* What repair_live reports is true of the drawing when it returns, whatever
\* was lost or late, failed or was activated on the way, and however the calls
\* met what others wrote: a saved candidate was attested, a restored pair is
\* the verified one, evidence that loads names its drawing's entities, and
\* handles are trusted only where they were proven.
THEOREM ReportsTellTheTruth == Spec => []ReportsAreTrue
<1>1. Init => ReportInv
  <2>. SUFFICES ASSUME Init PROVE ReportInv
    OBVIOUS
  <2>1. /\ Staged = All("orig") /\ Drawn = All("orig")
        /\ evidence = Same("orig") /\ first = NoPair /\ backup = NoPair
        /\ pc = "load" /\ outcome = "running" /\ late = Quiet /\ reason = "none"
    BY DEF Init, Staged, Drawn, Docs
  <2>2. BoundInv
    BY <2>1 DEF BoundInv, Same, NoPair
  <2>3. AnsweredInv /\ ReturnedInv /\ CandidateInv /\ RestoreInv
    BY <2>1 DEF AnsweredInv, ReturnedInv, CandidateInv, RestoreInv, Restoring
  <2>4. NativeInv /\ HandleInv
    BY <2>1 DEF NativeInv, HandleInv, All, Same, NoPair, Candidate, Trusting
  <2>. QED BY <2>2, <2>3, <2>4 DEF ReportInv
<1>2. TypeOK /\ StagedInv /\ BackupInv /\ ReportInv /\ [Next]_vars => ReportInv'
  BY BoundStep, AnsweredStep, NativeStep, HandleStep, CandidateStep, RestoreStep, ReturnedStep
  DEF ReportInv
<1>3. TypeOK /\ ReportInv => ReportsAreTrue
  <2>. SUFFICES ASSUME TypeOK, ReportInv PROVE ReportsAreTrue
    OBVIOUS
  <2>0. Shapes
    BY TypeShapes
  <2>1. SavedIsTrue
    BY DEF ReportInv, CandidateInv, SavedIsTrue
  <2>2. RestoredIsTrue
    BY DEF ReportInv, ReturnedInv, RestoredIsTrue, Staged, Drawn
  <2>3. EvidenceIsTrue
    BY DEF ReportInv, BoundInv, EvidenceIsTrue, Loads
  <2>4. HandlesAreProven
    BY DEF ReportInv, ReturnedInv, HandlesAreProven, Drawn
  <2>. QED BY <2>1, <2>2, <2>3, <2>4 DEF ReportsAreTrue, ReportIsTrue
<1>4. Spec => []StagedInv /\ []BackupInv
  BY PTL, StagedInvariant, BackupInvariant
<1>. QED BY <1>1, <1>2, <1>3, <1>4, TypeCorrect, PTL DEF Spec

(***************************************************************************)
(* The native render of a layout (NativeRender), for any instances,        *)
(* requests and events.                                                    *)
(***************************************************************************)
Published == {"attach", "dispose published", "succeeded"}
Steps == {"idle", "look", "claim", "reserved", "plot", "restore", "restore failed", "verify",
          "validate", "move", "dispose", "failed", "attach", "dispose published", "succeeded"}

Artifacts == {{}} \cup {{b} : b \in Render!Bytes}
Results == {"none", "success", "failure"}
Attachments == {"none", "receipt", "receipt of box", "observation", "observation of box"}

RenderTyped ==
    /\ rFile \in Render!Versions /\ rMemory \in [Instances -> Render!Versions]
    /\ dbmod \in [Instances -> {0, 1}] /\ rEvents \in Render!Versions
    /\ background \in [Instances -> {"user", "off"}] /\ saved \in [Instances -> {"user", "off"}]
    /\ request \in [Instances -> Requests] /\ rPc \in [Instances -> Steps]
    /\ restored \in [Instances -> BOOLEAN] /\ attached \in [Instances -> Attachments]
    /\ claims \subseteq directories /\ directories \subseteq Requests
    /\ final \in [Requests -> Artifacts] /\ temporary \in [Instances -> Artifacts]
    /\ read \in [Instances -> Artifacts] /\ sha \in [Requests -> Artifacts]
    /\ raster \in [Requests -> Artifacts] /\ answer \in [Requests -> Results]
    /\ attachment \in [Requests -> Attachments] /\ moves \in [Requests -> Nat]
    /\ asked \in [Requests -> SUBSET Render!Versions] /\ modified \in [Instances -> {0, 1}]
    /\ spoiled \subseteq Requests /\ lookedAt \in [Instances -> SUBSET Requests]

\* The claim is its owner's until it lets go of the directory, and a directory
\* that was spoiled is there for whoever looks for it.
ClaimInv ==
    /\ \A i \in Instances : Render!Owns(i) => request[i] \in claims
    /\ \A i, j \in Instances :
         Render!Owns(i) /\ Render!Owns(j) /\ request[i] = request[j] => i = j
    /\ spoiled \subseteq directories
    /\ \A i \in Instances :
         Render!Owns(i) \/ rPc[i] = "claim" => request[i] \notin lookedAt[i]

\* An artifact stays where it was moved to.
MoveInv == \A r \in Requests : moves[r] = 0 \/ (moves[r] = 1 /\ final[r] # {})

\* What an instance read is what it published ...
PublishedInv ==
    \A i \in Instances : LET r == request[i] IN
        /\ rPc[i] = "move" =>
             /\ read[i] # {} /\ (r \notin touched => temporary[i] = read[i])
        /\ rPc[i] \in Published => final[r] # {} /\ (r \notin touched => final[r] = read[i])

\* ... and what a success names.
SuccessInv ==
    \A r \in Requests :
        /\ answer[r] = "none" => raster[r] = {}
        /\ answer[r] # "success" => raster[r] = {}
        /\ answer[r] = "success" =>
             /\ final[r] # {} /\ (r \notin touched => final[r] = sha[r])
             /\ raster[r] \subseteq sha[r] /\ Render!Accepted(r)

\* The variable, unless it was not put back.
SessionInv ==
    \A i \in Instances : i \notin restless =>
        /\ rPc[i] \in {"plot", "restore", "restore failed"} => saved[i] = "user"
        /\ rPc[i] \notin {"plot", "restore", "restore failed"} => background[i] = "user"

RenderBounds == MaxEvents \in Nat /\ Requests # {}

RenderInv == RenderTyped /\ ClaimInv /\ MoveInv /\ PublishedInv /\ SuccessInv /\ SessionInv

-----------------------------------------------------------------------------
\* What may lie at a path.
LEMMA ArtifactFacts ==
    /\ {} \in Artifacts /\ {Render!Torn} \in Artifacts
    /\ \A v \in Render!Versions : {v} \in Artifacts
  BY DEF Artifacts, Render!Bytes

\* An event is counted up to the bound.
LEMMA EventFacts ==
    ASSUME RenderBounds, RenderInv, Render!Happens
    PROVE  rEvents' \in Render!Versions
  BY DEF RenderBounds, RenderInv, RenderTyped, Render!Happens, Render!Versions

\* Every step keeps the types.
LEMMA RenderTypedStep == RenderBounds /\ RenderInv /\ [Render!Next]_(Render!vars) => RenderTyped'
  <1> SUFFICES ASSUME RenderBounds, RenderInv, [Render!Next]_(Render!vars)
               PROVE  RenderTyped'
    OBVIOUS
  <1> USE DEF RenderInv, RenderTyped, Steps
  <1>1. ASSUME NEW r \in Requests, Render!Send(r) PROVE RenderTyped'
    BY <1>1 DEF Render!Send, Render!session, Render!artifacts, Render!capture, Render!client,
       Render!histories
  <1>2. ASSUME NEW r \in Requests, Render!Derive(r) PROVE RenderTyped'
    BY <1>2 DEF Render!Derive, Render!session, Render!artifacts, Render!capture,
       Render!client, Render!histories
  <1>3. ASSUME NEW r \in Requests, Render!ForeignArtifact(r) PROVE RenderTyped'
    BY ArtifactFacts, EventFacts, <1>3 DEF Render!ForeignArtifact, Render!session,
       Render!artifacts, Render!capture, Render!client, Render!histories
  <1>4. ASSUME NEW i \in Instances, Render!Look(i) PROVE RenderTyped'
    BY <1>4 DEF Render!Look, Render!At, Render!Goto, Render!session, Render!artifacts,
       Render!capture, Render!client, Render!histories
  <1>5. ASSUME NEW i \in Instances, Render!Claim(i) PROVE RenderTyped'
    BY <1>5, ZenonT(30) DEF Render!Claim, Render!At, Render!Goto, Render!session, Render!artifacts,
       Render!capture, Render!client, Render!histories
  <1>6. ASSUME NEW i \in Instances, Render!Foreground(i) PROVE RenderTyped'
    BY <1>6 DEF Render!Foreground, Render!At, Render!Goto, Render!session, Render!artifacts,
       Render!capture, Render!client, Render!histories
  <1>7. ASSUME NEW i \in Instances, Render!Plot(i) PROVE RenderTyped'
    <2>1. PICK works \in BOOLEAN, out \in {{rMemory[i]}, {Render!Torn}, {}} :
            /\ temporary' = [temporary EXCEPT ![i] = out]
            /\ Render!Goto(i, IF works THEN "restore" ELSE "restore failed")
      BY <1>7 DEF Render!Plot
    <2>2. out \in Artifacts
      <3>1. {rMemory[i]} \in Artifacts
        BY ArtifactFacts
      <3> QED
        BY <3>1, ArtifactFacts
    <2>3. rPc' \in [Instances -> Steps]
      BY <2>1 DEF Render!Goto
    <2>4. dbmod' \in [Instances -> {0, 1}]
      BY <1>7 DEF Render!Plot
    <2> QED
      BY <1>7, <2>1, <2>2, <2>3, <2>4
         DEF Render!Plot, Render!artifacts, Render!client, Render!histories
  <1>8. ASSUME NEW i \in Instances, Render!Restore(i) PROVE RenderTyped'
    <2>1. PICK works \in BOOLEAN :
            /\ background' = IF works THEN [background EXCEPT ![i] = saved[i]] ELSE background
            /\ restored' = [restored EXCEPT ![i] = works]
      BY <1>8 DEF Render!Restore
    <2>2. background' \in [Instances -> {"user", "off"}] /\ restored' \in [Instances -> BOOLEAN]
      BY <2>1
    <2>3. \E label \in {"dispose", "verify"} : rPc' = [rPc EXCEPT ![i] = label]
      BY <1>8 DEF Render!Restore, Render!Goto
    <2>4. rPc' \in [Instances -> Steps]
      BY <2>3
    <2> QED
      BY <1>8, <2>2, <2>4 DEF Render!Restore, Render!artifacts, Render!client
  <1>9. ASSUME NEW i \in Instances, Render!Verify(i) PROVE RenderTyped'
    BY <1>9 DEF Render!Verify, Render!At, Render!Goto, Render!session, Render!artifacts,
       Render!capture, Render!client, Render!histories
  <1>10. ASSUME NEW i \in Instances, Render!Validate(i) PROVE RenderTyped'
    <2>1. \E label \in {"dispose", "move"} : rPc' = [rPc EXCEPT ![i] = label]
      BY <1>10 DEF Render!Validate, Render!Goto
    <2>2. rPc' \in [Instances -> Steps]
      BY <2>1
    <2>3. read' = read \/ read' = [read EXCEPT ![i] = temporary[i]]
      BY <1>10 DEF Render!Validate
    <2>4. read' \in [Instances -> Artifacts]
      BY <2>3, ZenonT(30)
    <2> QED
      BY <1>10, <2>2, <2>4
         DEF Render!Validate, Render!session, Render!artifacts, Render!client, Render!histories
  <1>11. ASSUME NEW i \in Instances, Render!Move(i) PROVE RenderTyped'
    <2>1. \E label \in {"dispose", "attach"} : rPc' = [rPc EXCEPT ![i] = label]
      BY <1>11 DEF Render!Move, Render!Goto
    <2>2. rPc' \in [Instances -> Steps]
      BY <2>1
    <2>3. \/ UNCHANGED <<final, temporary, moves>>
          \/ /\ final' = [final EXCEPT ![request[i]] = temporary[i]]
             /\ temporary' = [temporary EXCEPT ![i] = {}]
             /\ moves' = [moves EXCEPT ![request[i]] = @ + 1]
      BY <1>11 DEF Render!Move
    <2>4. /\ final' \in [Requests -> Artifacts] /\ temporary' \in [Instances -> Artifacts]
          /\ moves' \in [Requests -> Nat]
      <3>1. temporary[i] \in Artifacts /\ {} \in Artifacts /\ request[i] \in Requests
        BY ArtifactFacts
      <3>2. moves[request[i]] \in Nat
        BY <3>1
      <3> HIDE DEF RenderInv, RenderTyped, Steps
      <3>3. moves[request[i]] + 1 \in Nat
        BY <3>2
      <3>4. /\ final \in [Requests -> Artifacts] /\ temporary \in [Instances -> Artifacts]
            /\ moves \in [Requests -> Nat]
        BY DEF RenderInv, RenderTyped
      <3> QED
        BY <2>3, <3>1, <3>3, <3>4
    <2> QED
      BY <1>11, <2>2, <2>4 DEF Render!Move, Render!session, Render!client
  <1>12. ASSUME NEW i \in Instances, Render!Attach(i) PROVE RenderTyped'
    BY <1>12 DEF Render!Attach, Attachments, Render!CameraReceipt, Render!CameraObservation,
       Render!At, Render!Goto, Render!session, Render!artifacts, Render!capture,
       Render!client, Render!histories
  <1>13. ASSUME NEW i \in Instances, Render!Dispose(i) PROVE RenderTyped'
    BY ArtifactFacts, <1>13 DEF Render!Dispose, Render!At, Render!Goto, Render!session,
       Render!artifacts, Render!capture, Render!client, Render!histories
  <1>14. ASSUME NEW i \in Instances, Render!Answer(i) PROVE RenderTyped'
    <2>1. rPc' \in [Instances -> Steps]
      BY <1>14 DEF Render!Answer, Render!Goto
    <2>2. \/ UNCHANGED <<answer, sha, attachment>>
          \/ \E a \in Results, s \in Artifacts, m \in Attachments :
               /\ answer' = [answer EXCEPT ![request[i]] = a]
               /\ sha' = [sha EXCEPT ![request[i]] = s]
               /\ attachment' = [attachment EXCEPT ![request[i]] = m]
      <3>1. {"success", "failure"} \subseteq Results /\ "none" \in Attachments
        BY DEF Results, Attachments
      <3>2. read[i] \in Artifacts /\ attached[i] \in Attachments /\ {} \in Artifacts
        BY ArtifactFacts
      <3>3. CASE Render!At(i, "succeeded") /\ attached[i] = Render!ExpectedAttachment(request[i])
        BY <1>14, <3>1, <3>2, <3>3 DEF Render!Answer
      <3>4. CASE ~(Render!At(i, "succeeded") /\ attached[i] = Render!ExpectedAttachment(request[i]))
        BY <1>14, <3>1, <3>2, <3>4 DEF Render!Answer
      <3> QED
        BY <3>3, <3>4
    <2>3. /\ answer' \in [Requests -> Results] /\ sha' \in [Requests -> Artifacts]
          /\ attachment' \in [Requests -> Attachments]
      <3>1. CASE UNCHANGED <<answer, sha, attachment>>
        BY <3>1
      <3>2. ASSUME NEW a \in Results, NEW s \in Artifacts, NEW m \in Attachments,
                   answer' = [answer EXCEPT ![request[i]] = a],
                   sha' = [sha EXCEPT ![request[i]] = s],
                   attachment' = [attachment EXCEPT ![request[i]] = m]
            PROVE  /\ answer' \in [Requests -> Results] /\ sha' \in [Requests -> Artifacts]
                   /\ attachment' \in [Requests -> Attachments]
        BY <3>2
      <3> QED
        BY <2>2, <3>1, <3>2
    <2> QED
      BY <1>14, <2>1, <2>3
         DEF Render!Answer, Render!session, Render!artifacts, Render!capture, Render!histories
  <1>15. ASSUME NEW i \in Instances, Render!Edit(i) PROVE RenderTyped'
    BY EventFacts, <1>15 DEF Render!Edit, Render!At, Render!Goto, Render!session,
       Render!artifacts, Render!capture, Render!client, Render!histories
  <1>16. ASSUME NEW i \in Instances, Render!Save(i) PROVE RenderTyped'
    BY EventFacts, <1>16 DEF Render!Save, Render!At, Render!Goto, Render!session,
       Render!artifacts, Render!capture, Render!client, Render!histories
  <1>17. ASSUME NEW i \in Instances, Render!ForeignTemporary(i) PROVE RenderTyped'
    BY ArtifactFacts, EventFacts, <1>17 DEF Render!ForeignTemporary, Render!session,
       Render!artifacts, Render!capture, Render!client, Render!histories
  <1>18. ASSUME NEW i \in Instances, Render!Crash(i) PROVE RenderTyped'
    BY ArtifactFacts, EventFacts, <1>18 DEF Render!Crash, Render!At, Render!Goto,
       Render!session, Render!artifacts, Render!capture, Render!client, Render!histories
  <1>19. ASSUME NEW i \in Instances, NEW r \in Requests, Render!Begin(i, r) PROVE RenderTyped'
    BY ArtifactFacts, <1>19 DEF Render!Begin, Attachments, Render!At, Render!Goto,
       Render!session, Render!artifacts, Render!capture, Render!client, Render!histories
  <1>20. CASE Render!ForeignSave
    BY EventFacts, <1>20 DEF Render!ForeignSave, Render!session, Render!artifacts,
       Render!capture, Render!client, Render!histories
  <1>21. CASE UNCHANGED Render!vars
    BY <1>21 DEF Render!vars, Render!session, Render!artifacts, Render!capture, Render!client,
       Render!histories
  <1> QED
    BY <1>1, <1>2, <1>3, <1>4, <1>5, <1>6, <1>7, <1>8, <1>9, <1>10, <1>11, <1>12, <1>13,
       <1>14, <1>15, <1>16, <1>17, <1>18, <1>19, <1>20, <1>21 DEF Render!Next,
       Render!InstanceStep

\* ... the claims,
LEMMA ClaimStep == RenderBounds /\ RenderInv /\ [Render!Next]_(Render!vars) => ClaimInv'
  <1> SUFFICES ASSUME RenderBounds, RenderInv, [Render!Next]_(Render!vars)
               PROVE  ClaimInv'
    OBVIOUS
  <1> USE DEF RenderInv, RenderTyped, ClaimInv, Render!Owns
  <1>1. ASSUME NEW r \in Requests, Render!Send(r) PROVE ClaimInv'
    BY <1>1 DEF Render!Send, Render!session, Render!artifacts, Render!capture, Render!client,
       Render!histories
  <1>2. ASSUME NEW r \in Requests, Render!Derive(r) PROVE ClaimInv'
    BY <1>2 DEF Render!Derive, Render!session, Render!artifacts, Render!capture,
       Render!client, Render!histories
  <1>3. ASSUME NEW r \in Requests, Render!ForeignArtifact(r) PROVE ClaimInv'
    BY <1>3 DEF Render!ForeignArtifact, Render!session, Render!artifacts, Render!capture,
       Render!client, Render!histories
  <1>4. ASSUME NEW i \in Instances, Render!Look(i) PROVE ClaimInv'
    BY <1>4 DEF Render!Look, Render!At, Render!Goto, Render!session, Render!artifacts,
       Render!capture, Render!client, Render!histories
  <1>5. ASSUME NEW i \in Instances, Render!Claim(i) PROVE ClaimInv'
    <2>1. /\ rPc[i] = "claim" /\ UNCHANGED <<request, spoiled, lookedAt>>
          /\ directories \subseteq directories'
          /\ \/ rPc' = [rPc EXCEPT ![i] = "failed"] /\ claims' = claims
             \/ /\ rPc' = [rPc EXCEPT ![i] = "reserved"] /\ claims' = claims \cup {request[i]}
                /\ request[i] \notin claims
      BY <1>5 DEF Render!Claim, Render!At, Render!Goto, Render!capture, Render!histories
    <2>2. CASE rPc' = [rPc EXCEPT ![i] = "failed"] /\ claims' = claims
      BY <2>1, <2>2
    <2>3. CASE /\ rPc' = [rPc EXCEPT ![i] = "reserved"] /\ claims' = claims \cup {request[i]}
               /\ request[i] \notin claims
      BY <2>1, <2>3
    <2> QED
      BY <2>1, <2>2, <2>3
  <1>6. ASSUME NEW i \in Instances, Render!Foreground(i) PROVE ClaimInv'
    BY <1>6 DEF Render!Foreground, Render!At, Render!Goto, Render!session, Render!artifacts,
       Render!capture, Render!client, Render!histories
  <1>7. ASSUME NEW i \in Instances, Render!Plot(i) PROVE ClaimInv'
    BY <1>7, ZenonT(30) DEF Render!Plot, Render!At, Render!Goto, Render!session, Render!artifacts,
       Render!capture, Render!client, Render!histories
  <1>8. ASSUME NEW i \in Instances, Render!Restore(i) PROVE ClaimInv'
    BY <1>8 DEF Render!Restore, Render!At, Render!Goto, Render!session, Render!artifacts,
       Render!capture, Render!client, Render!histories
  <1>9. ASSUME NEW i \in Instances, Render!Verify(i) PROVE ClaimInv'
    BY <1>9 DEF Render!Verify, Render!At, Render!Goto, Render!session, Render!artifacts,
       Render!capture, Render!client, Render!histories
  <1>10. ASSUME NEW i \in Instances, Render!Validate(i) PROVE ClaimInv'
    BY <1>10, ZenonT(30) DEF Render!Validate, Render!At, Render!Goto, Render!session, Render!artifacts,
       Render!capture, Render!client, Render!histories
  <1>11. ASSUME NEW i \in Instances, Render!Move(i) PROVE ClaimInv'
    BY <1>11 DEF Render!Move, Render!At, Render!Goto, Render!session, Render!artifacts,
       Render!capture, Render!client, Render!histories
  <1>12. ASSUME NEW i \in Instances, Render!Attach(i) PROVE ClaimInv'
    BY <1>12 DEF Render!Attach, Render!At, Render!Goto, Render!session, Render!artifacts,
       Render!capture, Render!client, Render!histories
  <1>13. ASSUME NEW i \in Instances, Render!Dispose(i) PROVE ClaimInv'
    <2>1. /\ rPc[i] \in {"dispose", "dispose published"}
          /\ UNCHANGED <<request, lookedAt, directories>>
          /\ \E label \in {"failed", "succeeded"} : rPc' = [rPc EXCEPT ![i] = label]
          /\ claims \ {request[i]} \subseteq claims'
          /\ spoiled' \subseteq spoiled \cup {request[i]}
      BY <1>13 DEF Render!Dispose, Render!At, Render!Goto
    <2>2. Render!Owns(i) /\ request[i] \in directories
      BY <2>1
    <2>3. \A j \in Instances : Render!Owns(j)' => Render!Owns(j) /\ j # i
      BY <2>1
    <2>4. \A j \in Instances : rPc'[j] = "claim" => rPc[j] = "claim"
      BY <2>1
    <2> QED
      BY <2>1, <2>2, <2>3, <2>4
  <1>14. ASSUME NEW i \in Instances, Render!Answer(i) PROVE ClaimInv'
    BY <1>14 DEF Render!Answer, Render!At, Render!Goto, Render!session, Render!artifacts,
       Render!capture, Render!client, Render!histories
  <1>15. ASSUME NEW i \in Instances, Render!Edit(i) PROVE ClaimInv'
    BY <1>15 DEF Render!Edit, Render!At, Render!Goto, Render!session, Render!artifacts,
       Render!capture, Render!client, Render!histories
  <1>16. ASSUME NEW i \in Instances, Render!Save(i) PROVE ClaimInv'
    BY <1>16 DEF Render!Save, Render!At, Render!Goto, Render!session, Render!artifacts,
       Render!capture, Render!client, Render!histories
  <1>17. ASSUME NEW i \in Instances, Render!ForeignTemporary(i) PROVE ClaimInv'
    BY <1>17 DEF Render!ForeignTemporary, Render!session, Render!artifacts, Render!capture,
       Render!client, Render!histories
  <1>18. ASSUME NEW i \in Instances, Render!Crash(i) PROVE ClaimInv'
    BY <1>18 DEF Render!Crash, Render!At, Render!Goto, Render!session, Render!artifacts,
       Render!capture, Render!client, Render!histories
  <1>19. ASSUME NEW i \in Instances, NEW r \in Requests, Render!Begin(i, r) PROVE ClaimInv'
    BY <1>19 DEF Render!Begin, Render!At, Render!Goto, Render!session, Render!artifacts,
       Render!capture, Render!client, Render!histories
  <1>20. CASE Render!ForeignSave
    BY <1>20 DEF Render!ForeignSave, Render!session, Render!artifacts, Render!capture,
       Render!client, Render!histories
  <1>21. CASE UNCHANGED Render!vars
    BY <1>21 DEF Render!vars, Render!session, Render!artifacts, Render!capture, Render!client,
       Render!histories
  <1> QED
    BY <1>1, <1>2, <1>3, <1>4, <1>5, <1>6, <1>7, <1>8, <1>9, <1>10, <1>11, <1>12, <1>13,
       <1>14, <1>15, <1>16, <1>17, <1>18, <1>19, <1>20, <1>21 DEF Render!Next,
       Render!InstanceStep

\* ... the one artifact of a request,
LEMMA MoveStep == RenderBounds /\ RenderInv /\ [Render!Next]_(Render!vars) => MoveInv'
  <1> SUFFICES ASSUME RenderBounds, RenderInv, [Render!Next]_(Render!vars)
               PROVE  MoveInv'
    OBVIOUS
  <1> USE DEF RenderInv, RenderTyped, MoveInv
  <1>1. ASSUME NEW r \in Requests, Render!Send(r) PROVE MoveInv'
    BY <1>1 DEF Render!Send, Render!session, Render!artifacts, Render!capture, Render!client,
       Render!histories
  <1>2. ASSUME NEW r \in Requests, Render!Derive(r) PROVE MoveInv'
    BY <1>2 DEF Render!Derive, Render!session, Render!artifacts, Render!capture,
       Render!client, Render!histories
  <1>3. ASSUME NEW r \in Requests, Render!ForeignArtifact(r) PROVE MoveInv'
    BY <1>3 DEF Render!ForeignArtifact, Render!session, Render!artifacts, Render!capture,
       Render!client, Render!histories
  <1>4. ASSUME NEW i \in Instances, Render!Look(i) PROVE MoveInv'
    BY <1>4 DEF Render!Look, Render!At, Render!Goto, Render!session, Render!artifacts,
       Render!capture, Render!client, Render!histories
  <1>5. ASSUME NEW i \in Instances, Render!Claim(i) PROVE MoveInv'
    BY <1>5 DEF Render!Claim, Render!At, Render!Goto, Render!session, Render!artifacts,
       Render!capture, Render!client, Render!histories
  <1>6. ASSUME NEW i \in Instances, Render!Foreground(i) PROVE MoveInv'
    BY <1>6 DEF Render!Foreground, Render!At, Render!Goto, Render!session, Render!artifacts,
       Render!capture, Render!client, Render!histories
  <1>7. ASSUME NEW i \in Instances, Render!Plot(i) PROVE MoveInv'
    BY <1>7 DEF Render!Plot, Render!At, Render!Goto, Render!session, Render!artifacts,
       Render!capture, Render!client, Render!histories
  <1>8. ASSUME NEW i \in Instances, Render!Restore(i) PROVE MoveInv'
    BY <1>8 DEF Render!Restore, Render!At, Render!Goto, Render!session, Render!artifacts,
       Render!capture, Render!client, Render!histories
  <1>9. ASSUME NEW i \in Instances, Render!Verify(i) PROVE MoveInv'
    BY <1>9 DEF Render!Verify, Render!At, Render!Goto, Render!session, Render!artifacts,
       Render!capture, Render!client, Render!histories
  <1>10. ASSUME NEW i \in Instances, Render!Validate(i) PROVE MoveInv'
    BY <1>10 DEF Render!Validate, Render!At, Render!Goto, Render!session, Render!artifacts,
       Render!capture, Render!client, Render!histories
  <1>11. ASSUME NEW i \in Instances, Render!Move(i) PROVE MoveInv'
    BY <1>11, SMTT(30) DEF Render!Move, Render!At, Render!Goto, Render!session, Render!artifacts,
       Render!capture, Render!client, Render!histories
  <1>12. ASSUME NEW i \in Instances, Render!Attach(i) PROVE MoveInv'
    BY <1>12 DEF Render!Attach, Render!At, Render!Goto, Render!session, Render!artifacts,
       Render!capture, Render!client, Render!histories
  <1>13. ASSUME NEW i \in Instances, Render!Dispose(i) PROVE MoveInv'
    BY <1>13 DEF Render!Dispose, Render!At, Render!Goto, Render!session, Render!artifacts,
       Render!capture, Render!client, Render!histories
  <1>14. ASSUME NEW i \in Instances, Render!Answer(i) PROVE MoveInv'
    BY <1>14 DEF Render!Answer, Render!At, Render!Goto, Render!session, Render!artifacts,
       Render!capture, Render!client, Render!histories
  <1>15. ASSUME NEW i \in Instances, Render!Edit(i) PROVE MoveInv'
    BY <1>15 DEF Render!Edit, Render!At, Render!Goto, Render!session, Render!artifacts,
       Render!capture, Render!client, Render!histories
  <1>16. ASSUME NEW i \in Instances, Render!Save(i) PROVE MoveInv'
    BY <1>16 DEF Render!Save, Render!At, Render!Goto, Render!session, Render!artifacts,
       Render!capture, Render!client, Render!histories
  <1>17. ASSUME NEW i \in Instances, Render!ForeignTemporary(i) PROVE MoveInv'
    BY <1>17 DEF Render!ForeignTemporary, Render!session, Render!artifacts, Render!capture,
       Render!client, Render!histories
  <1>18. ASSUME NEW i \in Instances, Render!Crash(i) PROVE MoveInv'
    BY <1>18 DEF Render!Crash, Render!At, Render!Goto, Render!session, Render!artifacts,
       Render!capture, Render!client, Render!histories
  <1>19. ASSUME NEW i \in Instances, NEW r \in Requests, Render!Begin(i, r) PROVE MoveInv'
    BY <1>19 DEF Render!Begin, Render!At, Render!Goto, Render!session, Render!artifacts,
       Render!capture, Render!client, Render!histories
  <1>20. CASE Render!ForeignSave
    BY <1>20 DEF Render!ForeignSave, Render!session, Render!artifacts, Render!capture,
       Render!client, Render!histories
  <1>21. CASE UNCHANGED Render!vars
    BY <1>21 DEF Render!vars, Render!session, Render!artifacts, Render!capture, Render!client,
       Render!histories
  <1> QED
    BY <1>1, <1>2, <1>3, <1>4, <1>5, <1>6, <1>7, <1>8, <1>9, <1>10, <1>11, <1>12, <1>13,
       <1>14, <1>15, <1>16, <1>17, <1>18, <1>19, <1>20, <1>21 DEF Render!Next,
       Render!InstanceStep

\* ... what the instances read,
LEMMA PublishedStep == RenderBounds /\ RenderInv /\ [Render!Next]_(Render!vars) => PublishedInv'
  <1> SUFFICES ASSUME RenderBounds, RenderInv, [Render!Next]_(Render!vars)
               PROVE  PublishedInv'
    OBVIOUS
  <1> USE DEF RenderInv, RenderTyped, PublishedInv, Published
  <1>1. ASSUME NEW r \in Requests, Render!Send(r) PROVE PublishedInv'
    BY <1>1 DEF Render!Send, Render!session, Render!artifacts, Render!capture, Render!client,
       Render!histories
  <1>2. ASSUME NEW r \in Requests, Render!Derive(r) PROVE PublishedInv'
    BY <1>2 DEF Render!Derive, Render!session, Render!artifacts, Render!capture,
       Render!client, Render!histories
  <1>3. ASSUME NEW r \in Requests, Render!ForeignArtifact(r) PROVE PublishedInv'
    BY <1>3 DEF Render!ForeignArtifact, Render!session, Render!artifacts, Render!capture,
       Render!client, Render!histories
  <1>4. ASSUME NEW i \in Instances, Render!Look(i) PROVE PublishedInv'
    BY <1>4 DEF Render!Look, Render!At, Render!Goto, Render!session, Render!artifacts,
       Render!capture, Render!client, Render!histories
  <1>5. ASSUME NEW i \in Instances, Render!Claim(i) PROVE PublishedInv'
    <2>1. /\ \E label \in {"failed", "reserved"} : rPc' = [rPc EXCEPT ![i] = label]
          /\ UNCHANGED <<request, read, temporary, touched, final>>
      BY <1>5 DEF Render!Claim, Render!Goto, Render!capture, Render!histories
    <2> QED
      BY <2>1
  <1>6. ASSUME NEW i \in Instances, Render!Foreground(i) PROVE PublishedInv'
    BY <1>6 DEF Render!Foreground, Render!At, Render!Goto, Render!session, Render!artifacts,
       Render!capture, Render!client, Render!histories
  <1>7. ASSUME NEW i \in Instances, Render!Plot(i) PROVE PublishedInv'
    <2>1. /\ \E label \in {"restore", "restore failed"} : rPc' = [rPc EXCEPT ![i] = label]
          /\ \E out : temporary' = [temporary EXCEPT ![i] = out]
          /\ UNCHANGED <<request, read, touched, final>>
      BY <1>7 DEF Render!Plot, Render!Goto, Render!artifacts, Render!histories
    <2> QED
      BY <2>1, ZenonT(30)
  <1>8. ASSUME NEW i \in Instances, Render!Restore(i) PROVE PublishedInv'
    <2>1. /\ \E label \in {"dispose", "verify"} : rPc' = [rPc EXCEPT ![i] = label]
          /\ UNCHANGED <<request, read, temporary, touched, final>>
      BY <1>8 DEF Render!Restore, Render!Goto, Render!artifacts
    <2> QED
      BY <2>1
  <1>9. ASSUME NEW i \in Instances, Render!Verify(i) PROVE PublishedInv'
    BY <1>9 DEF Render!Verify, Render!At, Render!Goto, Render!session, Render!artifacts,
       Render!capture, Render!client, Render!histories
  <1>10. ASSUME NEW i \in Instances, Render!Validate(i) PROVE PublishedInv'
    <2>1. /\ UNCHANGED <<request, temporary, touched, final>>
          /\ \/ rPc' = [rPc EXCEPT ![i] = "dispose"] /\ read' = read
             \/ /\ rPc' = [rPc EXCEPT ![i] = "move"] /\ temporary[i] # {}
                /\ read' = [read EXCEPT ![i] = temporary[i]]
      BY <1>10 DEF Render!Validate, Render!Goto, Render!artifacts, Render!histories
    <2>2. rPc[i] = "validate"
      BY <1>10 DEF Render!Validate, Render!At
    <2>3. CASE rPc' = [rPc EXCEPT ![i] = "dispose"] /\ read' = read
      BY <2>1, <2>3
    <2>4. CASE /\ rPc' = [rPc EXCEPT ![i] = "move"] /\ temporary[i] # {}
               /\ read' = [read EXCEPT ![i] = temporary[i]]
      <3>1. rPc'[i] = "move" /\ read'[i] = temporary[i]
        BY <2>4
      <3>2. \A j \in Instances \ {i} : rPc'[j] = rPc[j] /\ read'[j] = read[j]
        BY <2>4
      <3> QED
        BY <2>1, <2>4, <3>1, <3>2
    <2> QED
      BY <2>1, <2>3, <2>4
  <1>11. ASSUME NEW i \in Instances, Render!Move(i) PROVE PublishedInv'
    <2> DEFINE r == request[i]
    <2>1. rPc[i] = "move" /\ UNCHANGED <<request, read, touched>>
      BY <1>11 DEF Render!Move, Render!At
    <2>2. CASE /\ rPc' = [rPc EXCEPT ![i] = "dispose"]
               /\ UNCHANGED <<final, temporary>>
      BY <2>1, <2>2
    <2>3. CASE /\ temporary[i] # {} /\ final[r] = {}
               /\ final' = [final EXCEPT ![r] = temporary[i]]
               /\ temporary' = [temporary EXCEPT ![i] = {}]
               /\ \E label \in {"dispose", "attach"} : rPc' = [rPc EXCEPT ![i] = label]
      <3>1. ASSUME NEW j \in Instances, j # i, rPc'[j] = "move"
            PROVE  read[j] # {} /\ (request[j] \notin touched => temporary'[j] = read[j])
        BY <2>1, <2>3, <3>1
      <3>2. ASSUME NEW j \in Instances, j # i, rPc'[j] \in Published
            PROVE  /\ final'[request[j]] # {}
                   /\ request[j] \notin touched => final'[request[j]] = read[j]
        <4>1. rPc[j] \in Published /\ final[request[j]] # {}
          BY <2>3, <3>2
        <4>2. final'[request[j]] = final[request[j]]
          BY <2>3, <4>1
        <4> QED
          BY <4>1, <4>2
      <3>3. /\ rPc'[i] \in {"dispose", "attach"} /\ final'[r] # {}
            /\ r \notin touched => final'[r] = read[i]
        BY <2>1, <2>3
      <3> QED
        BY <2>1, <3>1, <3>2, <3>3
    <2>4. \/ /\ rPc' = [rPc EXCEPT ![i] = "dispose"]
             /\ UNCHANGED <<final, temporary>>
          \/ /\ temporary[i] # {} /\ final[r] = {}
             /\ final' = [final EXCEPT ![r] = temporary[i]]
             /\ temporary' = [temporary EXCEPT ![i] = {}]
             /\ \E label \in {"dispose", "attach"} : rPc' = [rPc EXCEPT ![i] = label]
      BY <1>11 DEF Render!Move, Render!Goto
    <2> QED
      BY <2>2, <2>3, <2>4
  <1>12. ASSUME NEW i \in Instances, Render!Attach(i) PROVE PublishedInv'
    BY <1>12 DEF Render!Attach, Render!At, Render!Goto, Render!session, Render!artifacts,
       Render!capture, Render!client, Render!histories
  <1>13. ASSUME NEW i \in Instances, Render!Dispose(i) PROVE PublishedInv'
    BY <1>13 DEF Render!Dispose, Render!At, Render!Goto, Render!session, Render!artifacts,
       Render!capture, Render!client, Render!histories
  <1>14. ASSUME NEW i \in Instances, Render!Answer(i) PROVE PublishedInv'
    BY <1>14 DEF Render!Answer, Render!At, Render!Goto, Render!session, Render!artifacts,
       Render!capture, Render!client, Render!histories
  <1>15. ASSUME NEW i \in Instances, Render!Edit(i) PROVE PublishedInv'
    BY <1>15 DEF Render!Edit, Render!At, Render!Goto, Render!session, Render!artifacts,
       Render!capture, Render!client, Render!histories
  <1>16. ASSUME NEW i \in Instances, Render!Save(i) PROVE PublishedInv'
    BY <1>16 DEF Render!Save, Render!At, Render!Goto, Render!session, Render!artifacts,
       Render!capture, Render!client, Render!histories
  <1>17. ASSUME NEW i \in Instances, Render!ForeignTemporary(i) PROVE PublishedInv'
    BY <1>17 DEF Render!ForeignTemporary, Render!session, Render!artifacts, Render!capture,
       Render!client, Render!histories
  <1>18. ASSUME NEW i \in Instances, Render!Crash(i) PROVE PublishedInv'
    BY <1>18 DEF Render!Crash, Render!At, Render!Goto, Render!session, Render!artifacts,
       Render!capture, Render!client, Render!histories
  <1>19. ASSUME NEW i \in Instances, NEW r \in Requests, Render!Begin(i, r) PROVE PublishedInv'
    BY <1>19 DEF Render!Begin, Render!At, Render!Goto, Render!session, Render!artifacts,
       Render!capture, Render!client, Render!histories
  <1>20. CASE Render!ForeignSave
    BY <1>20 DEF Render!ForeignSave, Render!session, Render!artifacts, Render!capture,
       Render!client, Render!histories
  <1>21. CASE UNCHANGED Render!vars
    BY <1>21 DEF Render!vars, Render!session, Render!artifacts, Render!capture, Render!client,
       Render!histories
  <1> QED
    BY <1>1, <1>2, <1>3, <1>4, <1>5, <1>6, <1>7, <1>8, <1>9, <1>10, <1>11, <1>12, <1>13,
       <1>14, <1>15, <1>16, <1>17, <1>18, <1>19, <1>20, <1>21 DEF Render!Next,
       Render!InstanceStep

\* ... what was answered,
LEMMA SuccessStep == RenderBounds /\ RenderInv /\ [Render!Next]_(Render!vars) => SuccessInv'
  <1> SUFFICES ASSUME RenderBounds, RenderInv, [Render!Next]_(Render!vars)
               PROVE  SuccessInv'
    OBVIOUS
  <1> USE DEF RenderInv, RenderTyped, SuccessInv, Render!Accepted, Render!ExpectedAttachment
  <1>1. ASSUME NEW r \in Requests, Render!Send(r) PROVE SuccessInv'
    BY <1>1 DEF Render!Send, Render!session, Render!artifacts, Render!capture, Render!client,
       Render!histories
  <1>2. ASSUME NEW r \in Requests, Render!Derive(r) PROVE SuccessInv'
    BY <1>2 DEF Render!Derive, Render!session, Render!artifacts, Render!capture,
       Render!client, Render!histories
  <1>3. ASSUME NEW r \in Requests, Render!ForeignArtifact(r) PROVE SuccessInv'
    BY <1>3 DEF Render!ForeignArtifact, Render!session, Render!artifacts, Render!capture,
       Render!client, Render!histories
  <1>4. ASSUME NEW i \in Instances, Render!Look(i) PROVE SuccessInv'
    BY <1>4 DEF Render!Look, Render!At, Render!Goto, Render!session, Render!artifacts,
       Render!capture, Render!client, Render!histories
  <1>5. ASSUME NEW i \in Instances, Render!Claim(i) PROVE SuccessInv'
    BY <1>5 DEF Render!Claim, Render!At, Render!Goto, Render!session, Render!artifacts,
       Render!capture, Render!client, Render!histories
  <1>6. ASSUME NEW i \in Instances, Render!Foreground(i) PROVE SuccessInv'
    BY <1>6 DEF Render!Foreground, Render!At, Render!Goto, Render!session, Render!artifacts,
       Render!capture, Render!client, Render!histories
  <1>7. ASSUME NEW i \in Instances, Render!Plot(i) PROVE SuccessInv'
    BY <1>7 DEF Render!Plot, Render!At, Render!Goto, Render!session, Render!artifacts,
       Render!capture, Render!client, Render!histories
  <1>8. ASSUME NEW i \in Instances, Render!Restore(i) PROVE SuccessInv'
    BY <1>8 DEF Render!Restore, Render!At, Render!Goto, Render!session, Render!artifacts,
       Render!capture, Render!client, Render!histories
  <1>9. ASSUME NEW i \in Instances, Render!Verify(i) PROVE SuccessInv'
    BY <1>9 DEF Render!Verify, Render!At, Render!Goto, Render!session, Render!artifacts,
       Render!capture, Render!client, Render!histories
  <1>10. ASSUME NEW i \in Instances, Render!Validate(i) PROVE SuccessInv'
    BY <1>10 DEF Render!Validate, Render!At, Render!Goto, Render!session, Render!artifacts,
       Render!capture, Render!client, Render!histories
  <1>11. ASSUME NEW i \in Instances, Render!Move(i) PROVE SuccessInv'
    <2>1. UNCHANGED <<answer, sha, attachment, raster, rKind, camera, touched>>
      BY <1>11 DEF Render!Move, Render!client
    <2>2. \A r \in Requests : final[r] # {} => final'[r] = final[r]
      BY <1>11, ZenonT(30) DEF Render!Move
    <2> QED
      BY <2>1, <2>2
  <1>12. ASSUME NEW i \in Instances, Render!Attach(i) PROVE SuccessInv'
    BY <1>12 DEF Render!Attach, Render!At, Render!Goto, Render!session, Render!artifacts,
       Render!capture, Render!client, Render!histories
  <1>13. ASSUME NEW i \in Instances, Render!Dispose(i) PROVE SuccessInv'
    BY <1>13 DEF Render!Dispose, Render!At, Render!Goto, Render!session, Render!artifacts,
       Render!capture, Render!client, Render!histories
  <1>14. ASSUME NEW i \in Instances, Render!Answer(i) PROVE SuccessInv'
    <2> DEFINE r == request[i]
    <2>1. UNCHANGED <<final, touched, raster, rKind, camera>>
      BY <1>14 DEF Render!Answer, Render!artifacts, Render!histories
    <2>a. \A s \in Requests :
            Render!ExpectedAttachment(s)' = Render!ExpectedAttachment(s)
      BY <2>1
    <2> HIDE DEF Render!ExpectedAttachment
    <2>2. CASE UNCHANGED <<answer, sha, attachment>>
      BY <2>1, <2>a, <2>2
    <2>3. CASE /\ answer[r] = "none"
               /\ answer' = [answer EXCEPT ![r] = "failure"]
               /\ \A s \in Requests \ {r} : sha'[s] = sha[s] /\ attachment'[s] = attachment[s]
      <3>1. /\ answer'[r] = "failure"
            /\ \A s \in Requests \ {r} : answer'[s] = answer[s]
        BY <2>3
      <3> QED
        BY <2>1, <2>a, <2>3, <3>1
    <2>4. CASE /\ answer[r] = "none" /\ rPc[i] = "succeeded"
               /\ attached[i] = Render!ExpectedAttachment(r)
               /\ answer' = [answer EXCEPT ![r] = "success"]
               /\ sha' = [sha EXCEPT ![r] = read[i]]
               /\ attachment' = [attachment EXCEPT ![r] = attached[i]]
      <3>1. final[r] # {} /\ (r \notin touched => final[r] = read[i])
        BY <2>4 DEF PublishedInv, Published
      <3>2. /\ answer'[r] = "success" /\ sha'[r] = read[i] /\ attachment'[r] = attached[i]
            /\ raster'[r] = {}
        BY <2>1, <2>4
      <3>3. \A s \in Requests \ {r} :
              answer'[s] = answer[s] /\ sha'[s] = sha[s] /\ attachment'[s] = attachment[s]
        BY <2>4
      <3> QED
        BY <2>1, <2>a, <2>4, <3>1, <3>2, <3>3
    <2>5. \/ UNCHANGED <<answer, sha, attachment>>
          \/ /\ answer[r] = "none"
             /\ answer' = [answer EXCEPT ![r] = "failure"]
             /\ \A s \in Requests \ {r} : sha'[s] = sha[s] /\ attachment'[s] = attachment[s]
          \/ /\ answer[r] = "none" /\ rPc[i] = "succeeded"
             /\ attached[i] = Render!ExpectedAttachment(r)
             /\ answer' = [answer EXCEPT ![r] = "success"]
             /\ sha' = [sha EXCEPT ![r] = read[i]]
             /\ attachment' = [attachment EXCEPT ![r] = attached[i]]
      <3> HIDE DEF SuccessInv, Render!Accepted
      <3>1. CASE Render!At(i, "succeeded") /\ attached[i] = Render!ExpectedAttachment(r)
        BY <1>14, <3>1 DEF Render!Answer, Render!At
      <3>2. CASE ~(Render!At(i, "succeeded") /\ attached[i] = Render!ExpectedAttachment(r))
        BY <1>14, <3>2 DEF Render!Answer
      <3> QED
        BY <3>1, <3>2
    <2> QED
      BY <2>2, <2>3, <2>4, <2>5
  <1>15. ASSUME NEW i \in Instances, Render!Edit(i) PROVE SuccessInv'
    BY <1>15 DEF Render!Edit, Render!At, Render!Goto, Render!session, Render!artifacts,
       Render!capture, Render!client, Render!histories
  <1>16. ASSUME NEW i \in Instances, Render!Save(i) PROVE SuccessInv'
    BY <1>16 DEF Render!Save, Render!At, Render!Goto, Render!session, Render!artifacts,
       Render!capture, Render!client, Render!histories
  <1>17. ASSUME NEW i \in Instances, Render!ForeignTemporary(i) PROVE SuccessInv'
    BY <1>17 DEF Render!ForeignTemporary, Render!session, Render!artifacts, Render!capture,
       Render!client, Render!histories
  <1>18. ASSUME NEW i \in Instances, Render!Crash(i) PROVE SuccessInv'
    BY <1>18 DEF Render!Crash, Render!At, Render!Goto, Render!session, Render!artifacts,
       Render!capture, Render!client, Render!histories
  <1>19. ASSUME NEW i \in Instances, NEW r \in Requests, Render!Begin(i, r) PROVE SuccessInv'
    BY <1>19 DEF Render!Begin, Render!At, Render!Goto, Render!session, Render!artifacts,
       Render!capture, Render!client, Render!histories
  <1>20. CASE Render!ForeignSave
    BY <1>20 DEF Render!ForeignSave, Render!session, Render!artifacts, Render!capture,
       Render!client, Render!histories
  <1>21. CASE UNCHANGED Render!vars
    BY <1>21 DEF Render!vars, Render!session, Render!artifacts, Render!capture, Render!client,
       Render!histories
  <1> QED
    BY <1>1, <1>2, <1>3, <1>4, <1>5, <1>6, <1>7, <1>8, <1>9, <1>10, <1>11, <1>12, <1>13,
       <1>14, <1>15, <1>16, <1>17, <1>18, <1>19, <1>20, <1>21 DEF Render!Next,
       Render!InstanceStep

\* ... and the session variable.
LEMMA SessionStep == RenderBounds /\ RenderInv /\ [Render!Next]_(Render!vars) => SessionInv'
  <1> SUFFICES ASSUME RenderBounds, RenderInv, [Render!Next]_(Render!vars)
               PROVE  SessionInv'
    OBVIOUS
  <1> USE DEF RenderInv, RenderTyped, SessionInv
  <1>1. ASSUME NEW r \in Requests, Render!Send(r) PROVE SessionInv'
    BY <1>1 DEF Render!Send, Render!session, Render!artifacts, Render!capture, Render!client,
       Render!histories
  <1>2. ASSUME NEW r \in Requests, Render!Derive(r) PROVE SessionInv'
    BY <1>2 DEF Render!Derive, Render!session, Render!artifacts, Render!capture,
       Render!client, Render!histories
  <1>3. ASSUME NEW r \in Requests, Render!ForeignArtifact(r) PROVE SessionInv'
    BY <1>3 DEF Render!ForeignArtifact, Render!session, Render!artifacts, Render!capture,
       Render!client, Render!histories
  <1>4. ASSUME NEW i \in Instances, Render!Look(i) PROVE SessionInv'
    BY <1>4 DEF Render!Look, Render!At, Render!Goto, Render!session, Render!artifacts,
       Render!capture, Render!client, Render!histories
  <1>5. ASSUME NEW i \in Instances, Render!Claim(i) PROVE SessionInv'
    BY <1>5, ZenonT(40) DEF Render!Claim, Render!At, Render!Goto, Render!session, Render!artifacts,
       Render!capture, Render!client, Render!histories
  <1>6. ASSUME NEW i \in Instances, Render!Foreground(i) PROVE SessionInv'
    BY <1>6 DEF Render!Foreground, Render!At, Render!Goto, Render!session, Render!artifacts,
       Render!capture, Render!client, Render!histories
  <1>7. ASSUME NEW i \in Instances, Render!Plot(i) PROVE SessionInv'
    BY <1>7 DEF Render!Plot, Render!At, Render!Goto, Render!session, Render!artifacts,
       Render!capture, Render!client, Render!histories
  <1>8. ASSUME NEW i \in Instances, Render!Restore(i) PROVE SessionInv'
    <2>1. PICK works \in BOOLEAN :
            /\ background' = IF works THEN [background EXCEPT ![i] = saved[i]] ELSE background
            /\ restless' = IF works THEN restless ELSE restless \cup {i}
      BY <1>8 DEF Render!Restore
    <2>2. /\ rPc[i] \in {"restore", "restore failed"} /\ saved' = saved
          /\ \E label \in {"dispose", "verify"} : rPc' = [rPc EXCEPT ![i] = label]
      BY <1>8 DEF Render!Restore, Render!At, Render!Goto
    <2>3. CASE works
      BY <2>1, <2>2, <2>3
    <2>4. CASE ~works
      BY <2>1, <2>2, <2>4
    <2> QED
      BY <2>3, <2>4
  <1>9. ASSUME NEW i \in Instances, Render!Verify(i) PROVE SessionInv'
    BY <1>9 DEF Render!Verify, Render!At, Render!Goto, Render!session, Render!artifacts,
       Render!capture, Render!client, Render!histories
  <1>10. ASSUME NEW i \in Instances, Render!Validate(i) PROVE SessionInv'
    <2>1. /\ rPc[i] = "validate"
          /\ \E label \in {"dispose", "move"} : rPc' = [rPc EXCEPT ![i] = label]
      BY <1>10 DEF Render!Validate, Render!At, Render!Goto
    <2>2. /\ background' = background /\ saved' = saved /\ restless' = restless
      BY <1>10 DEF Render!Validate, Render!session, Render!histories
    <2> QED
      BY <2>1, <2>2
  <1>11. ASSUME NEW i \in Instances, Render!Move(i) PROVE SessionInv'
    BY <1>11, ZenonT(30) DEF Render!Move, Render!At, Render!Goto, Render!session, Render!artifacts,
       Render!capture, Render!client, Render!histories
  <1>12. ASSUME NEW i \in Instances, Render!Attach(i) PROVE SessionInv'
    BY <1>12 DEF Render!Attach, Render!At, Render!Goto, Render!session, Render!artifacts,
       Render!capture, Render!client, Render!histories
  <1>13. ASSUME NEW i \in Instances, Render!Dispose(i) PROVE SessionInv'
    BY <1>13 DEF Render!Dispose, Render!At, Render!Goto, Render!session, Render!artifacts,
       Render!capture, Render!client, Render!histories
  <1>14. ASSUME NEW i \in Instances, Render!Answer(i) PROVE SessionInv'
    BY <1>14 DEF Render!Answer, Render!At, Render!Goto, Render!session, Render!artifacts,
       Render!capture, Render!client, Render!histories
  <1>15. ASSUME NEW i \in Instances, Render!Edit(i) PROVE SessionInv'
    BY <1>15 DEF Render!Edit, Render!At, Render!Goto, Render!session, Render!artifacts,
       Render!capture, Render!client, Render!histories
  <1>16. ASSUME NEW i \in Instances, Render!Save(i) PROVE SessionInv'
    BY <1>16 DEF Render!Save, Render!At, Render!Goto, Render!session, Render!artifacts,
       Render!capture, Render!client, Render!histories
  <1>17. ASSUME NEW i \in Instances, Render!ForeignTemporary(i) PROVE SessionInv'
    BY <1>17 DEF Render!ForeignTemporary, Render!session, Render!artifacts, Render!capture,
       Render!client, Render!histories
  <1>18. ASSUME NEW i \in Instances, Render!Crash(i) PROVE SessionInv'
    BY <1>18 DEF Render!Crash, Render!At, Render!Goto, Render!session, Render!artifacts,
       Render!capture, Render!client, Render!histories
  <1>19. ASSUME NEW i \in Instances, NEW r \in Requests, Render!Begin(i, r) PROVE SessionInv'
    BY <1>19 DEF Render!Begin, Render!At, Render!Goto, Render!session, Render!artifacts,
       Render!capture, Render!client, Render!histories
  <1>20. CASE Render!ForeignSave
    BY <1>20 DEF Render!ForeignSave, Render!session, Render!artifacts, Render!capture,
       Render!client, Render!histories
  <1>21. CASE UNCHANGED Render!vars
    BY <1>21 DEF Render!vars, Render!session, Render!artifacts, Render!capture, Render!client,
       Render!histories
  <1> QED
    BY <1>1, <1>2, <1>3, <1>4, <1>5, <1>6, <1>7, <1>8, <1>9, <1>10, <1>11, <1>12, <1>13,
       <1>14, <1>15, <1>16, <1>17, <1>18, <1>19, <1>20, <1>21 DEF Render!Next,
       Render!InstanceStep

\* Together they are inductive.
LEMMA RenderInvariant ==
    ASSUME RenderBounds
    PROVE  Render!Spec => []RenderInv
  <1>1. Render!Init => RenderInv
    <2> SUFFICES ASSUME Render!Init
                 PROVE  RenderInv
      OBVIOUS
    <2>1. /\ rFile = 0 /\ rMemory = [i \in Instances |-> 0] /\ dbmod = [i \in Instances |-> 0]
          /\ background = [i \in Instances |-> "user"] /\ directories = {} /\ claims = {}
          /\ final = [r \in Requests |-> {}] /\ rPc = [i \in Instances |-> "idle"]
          /\ request = [i \in Instances |-> Render!NoRequest]
          /\ modified = [i \in Instances |-> 0] /\ saved = [i \in Instances |-> "user"]
          /\ temporary = [i \in Instances |-> {}] /\ restored = [i \in Instances |-> FALSE]
          /\ read = [i \in Instances |-> {}] /\ attached = [i \in Instances |-> "none"]
          /\ asked = [r \in Requests |-> {}] /\ answer = [r \in Requests |-> "none"]
          /\ sha = [r \in Requests |-> {}] /\ attachment = [r \in Requests |-> "none"]
          /\ raster = [r \in Requests |-> {}] /\ rEvents = 0
          /\ moves = [r \in Requests |-> 0] /\ spoiled = {}
          /\ lookedAt = [i \in Instances |-> {}] /\ restless = {}
      BY DEF Render!Init
    <2>2. 0 \in Render!Versions /\ Render!NoRequest \in Requests
      BY DEF RenderBounds, Render!Versions, Render!NoRequest
    <2>3. RenderTyped
      BY <2>1, <2>2, ArtifactFacts DEF RenderTyped, Steps, Results, Attachments
    <2>4. ClaimInv /\ SessionInv
      BY <2>1 DEF ClaimInv, SessionInv, Render!Owns
    <2>5. MoveInv /\ PublishedInv /\ SuccessInv
      BY <2>1 DEF MoveInv, PublishedInv, SuccessInv, Published
    <2> QED
      BY <2>3, <2>4, <2>5 DEF RenderInv
  <1>2. RenderBounds /\ RenderInv /\ [Render!Next]_(Render!vars) => RenderInv'
    BY RenderTypedStep, ClaimStep, MoveStep, PublishedStep, SuccessStep, SessionStep DEF RenderInv
  <1> QED
    BY <1>1, <1>2, PTL DEF Render!Spec

\* A success names the bytes at the published path, a raster was made of them,
\* one instance at a time owns the directory of a request and one artifact is
\* published in it, and a session at rest has its variable back
\* (AutoCadNativeRenderReader, NativeRenderArtifactBoundary).
THEOREM RendersAreTrue ==
    ASSUME RenderBounds
    PROVE  Render!Spec => []Render!OutputsAreTrue
  <1>1. RenderInv => Render!TypeOK
    <2> SUFFICES ASSUME RenderInv, NEW r \in Requests
                 PROVE  final[r] \subseteq Render!Bytes /\ \A x, y \in final[r] : x = y
      BY DEF RenderInv, RenderTyped, Render!TypeOK
    <2>1. final[r] \in Artifacts
      BY DEF RenderInv, RenderTyped
    <2> QED
      BY <2>1 DEF Artifacts
  <1>2. RenderInv => Render!EvidenceIsOfTheArtifact
    BY DEF RenderInv, SuccessInv, Render!EvidenceIsOfTheArtifact
  <1>3. RenderInv => Render!OneOwner
    BY DEF RenderInv, RenderTyped, ClaimInv, MoveInv, Render!OneOwner
  <1>4. RenderInv => Render!SessionIsRestored
    BY DEF RenderInv, SessionInv, Render!SessionIsRestored
  <1> QED
    BY <1>1, <1>2, <1>3, <1>4, RenderInvariant, PTL DEF Render!OutputsAreTrue

(***************************************************************************)
(* The exact-base Xref (ExactBaseXref), for any components, calls and      *)
(* events, whether or not the parameters name the request.                 *)
(***************************************************************************)
XrefBounds == MaxEvents \in Nat /\ MaxCalls \in Nat

XrefTyped ==
    /\ source \in Xref!Versions /\ drawing \in [Xref!Documents -> Xref!Versions]
    /\ loaded \in [Xref!Documents -> Xref!Versions]
    /\ xMemory \in [Xref!Documents -> Xref!Versions] /\ xDbmod \in [Xref!Documents -> {0, 1}]
    /\ xEvents \in Xref!Versions /\ calls \in 0 .. MaxCalls
    /\ targetHash \in Xref!Versions
    /\ output \subseteq 0 .. calls /\ Xref!AtMostOne(output)
    /\ inspection \subseteq Xref!Inspection /\ Xref!AtMostOne(inspection)
    /\ plan \subseteq Xref!Plan /\ Xref!AtMostOne(plan)

\* The steps of an extraction before the candidate is saved, and after it.
Preparing == {"absent", "hash", "capture", "judge", "plan", "clone", "save"}
Written == {"identify", "measure", "compare", "clean", "delete"}
Judged == {"plan", "clone", "save", "succeeded"} \cup Written

\* The call in progress, and the last one.
CallInv ==
    /\ direct \in BOOLEAN /\ (plan # {} \/ task = "extract" => ~direct)
    /\ task = "extract" => \E p : wanted = {p}
    /\ xPc \in {"idle", "succeeded", "failed"} \cup Preparing \cup Written
    /\ xPc # "idle" => task \in {"inspect", "extract"} /\ xOutcome = "none"
    /\ xPc \in {"absent", "plan", "clone", "save"} \cup Written => task = "extract"
    /\ xOutcome = "success" => task \in {"inspect", "extract"}

\* What was read of which hashes.
ReadInv ==
    /\ xPc \in {"absent", "hash", "capture"} => xRead = {}
    /\ ~unsaved => \A r \in xRead :
         r.content = targetHash /\ r.xref = IF direct THEN targetHash ELSE sourceHash
    /\ xPc \in Judged \/ xOutcome = "success" =>
         /\ sourceHash = 0 /\ (task = "inspect" => targetHash = 0)
         /\ task = "extract" => \A p \in wanted : targetHash = p.target
    /\ xPc = "succeeded" /\ task = "extract" =>
         \A i \in inspected : i.source = 0 /\ i.target = inputBefore

\* The candidate file.
OutputInv ==
    LET written == "write" \in excuse
        mine == output = {calls} \/ written
    IN  /\ xPc \in Preparing => calls \notin output
        /\ xPc \in Written => mine
        /\ xPc \in {"measure", "compare", "clean", "delete"} => identity = {calls} \/ written
        /\ xPc = "succeeded" /\ task = "extract" => mine
        /\ xPc = "failed" /\ task = "extract" => calls \notin output \/ "fault" \in excuse \/ written
        /\ task = "extract" /\ xOutcome = "success" => mine
        /\ task = "extract" /\ xOutcome = "failure" =>
             \/ calls \notin output \/ "fault" \in excuse \/ written
             \/ inputBefore # targetHash
        /\ calls # 0 \/ xPc = "idle"

\* What was seen of others' files.
SeenInv ==
    /\ foreignLost = FALSE
    /\ xPc = "save" => xSeen = {}
    /\ xPc = "delete" => xSeen = identity

\* As long as nothing happens.
QuietInv ==
    xEvents = 0 =>
        /\ source = 0 /\ \A d \in Xref!Documents :
             drawing[d] = 0 /\ loaded[d] = 0 /\ xMemory[d] = 0 /\ xDbmod[d] = 0
        /\ (NamesRequest /\ task = "extract" /\ excuse = {}) =>
             /\ \A p \in wanted : p.target = 0 /\ p.parts = Components
             /\ xPc \in Preparing => output = {}
             /\ xPc \notin {"failed", "clean", "delete"} /\ xOutcome # "failure"
             /\ xPc # "absent" => sourceBefore = 0 /\ inputBefore = 0
             /\ xPc \notin {"absent", "hash"} => sourceHash = 0 /\ targetHash = 0 /\ xModified = 0
             /\ xPc = "judge" => fits
             /\ xPc \in Written => output = {calls}
             /\ xPc = "succeeded" => \A i \in inspected : i.source = 0 /\ i.target = 0

XrefInv == XrefTyped /\ CallInv /\ ReadInv /\ OutputInv /\ SeenInv /\ QuietInv

-----------------------------------------------------------------------------
\* Every step keeps the types.
LEMMA XrefTypedStep == XrefBounds /\ XrefInv /\ [Xref!Next]_(Xref!vars) => XrefTyped'
  <1> SUFFICES ASSUME XrefBounds, XrefInv, [Xref!Next]_(Xref!vars)
               PROVE  XrefTyped'
    OBVIOUS
  <1> USE DEF XrefInv, XrefTyped, XrefBounds, Xref!Versions, Xref!Documents, Xref!AtMostOne
  <1>1. CASE Xref!Expect
    <2>1. PICK v \in {0, drawing["input"]} : inspection' = {[live |-> FALSE, target |-> v]}
      BY <1>1 DEF Xref!Expect
    <2>2. [live |-> FALSE, target |-> v] \in Xref!Inspection
      BY DEF Xref!Inspection
    <2>3. UNCHANGED <<source, drawing, output, loaded, xMemory, xDbmod, plan, calls, targetHash,
                      xEvents>>
      BY <1>1 DEF Xref!Expect, Xref!files, Xref!documents, Xref!call, Xref!hashes
    <2> QED
      BY <2>1, <2>2, <2>3
  <1>2. CASE Xref!BuildPlan
    <2>1. PICK i \in inspection, parts \in SUBSET Components, views \in BOOLEAN :
            plan' = {[parts |-> parts, target |-> i.target, views |-> views]}
      BY <1>2 DEF Xref!BuildPlan
    <2>2. i.target \in Xref!Versions
      BY DEF Xref!Inspection
    <2>3. [parts |-> parts, target |-> i.target, views |-> views] \in Xref!Plan
      BY <2>2 DEF Xref!Plan
    <2>4. UNCHANGED <<source, drawing, output, loaded, xMemory, xDbmod, inspection, calls,
                      targetHash, xEvents>>
      BY <1>2 DEF Xref!BuildPlan, Xref!files, Xref!documents, Xref!call, Xref!hashes
    <2> QED
      BY <2>1, <2>3, <2>4
  <1>3. CASE Xref!Inspect
    BY <1>3 DEF Xref!Inspect, Xref!Begin, Xref!Goto, Xref!files, Xref!documents, Xref!client,
       Xref!hashes, Xref!call, Xref!history
  <1>4. CASE Xref!Extract
    BY <1>4 DEF Xref!Extract, Xref!Begin, Xref!Goto, Xref!Absent, Xref!files, Xref!documents,
       Xref!client, Xref!hashes, Xref!call, Xref!history
  <1>5. CASE Xref!Prepare
    BY <1>5 DEF Xref!Prepare, Xref!Goto, Xref!Fail, Xref!Absent, Xref!SourceFile, Xref!files,
       Xref!documents, Xref!client, Xref!hashes, Xref!call, Xref!history
  <1>6. CASE Xref!Hash
    BY <1>6 DEF Xref!Hash, Xref!Goto, Xref!SourceFile, Xref!Document, Xref!files,
       Xref!documents, Xref!client, Xref!hashes, Xref!call, Xref!history
  <1>7. CASE Xref!Capture
    <2>1. /\ UNCHANGED <<source, drawing, output, loaded, xMemory, xDbmod, inspection, plan, calls,
                         targetHash>>
          /\ xEvents' = xEvents \/ (xEvents < MaxEvents /\ xEvents' = xEvents + 1)
      BY <1>7 DEF Xref!Capture, Xref!Works, Xref!Fails, Xref!files, Xref!documents, Xref!client
    <2> QED
      BY <2>1
  <1>8. CASE Xref!Judge
    BY <1>8 DEF Xref!Judge, Xref!Goto, Xref!Fail, Xref!Eligible, Xref!SourceFile,
       Xref!Document, Xref!files, Xref!documents, Xref!client, Xref!hashes, Xref!call,
       Xref!history
  <1>9. CASE Xref!CheckPlan
    BY <1>9 DEF Xref!CheckPlan, Xref!Goto, Xref!Fail, Xref!files, Xref!documents, Xref!client,
       Xref!hashes, Xref!call, Xref!history
  <1>10. CASE Xref!Clone
    BY <1>10 DEF Xref!Clone, Xref!Goto, Xref!Fail, Xref!Fails, Xref!Works, Xref!Absent,
       Xref!files, Xref!documents, Xref!client, Xref!hashes, Xref!call, Xref!history
  <1>11. CASE Xref!Save
    <2>1. /\ UNCHANGED <<source, drawing, loaded, xMemory, xDbmod, inspection, plan, calls,
                         targetHash>>
          /\ xEvents' = xEvents \/ (xEvents < MaxEvents /\ xEvents' = xEvents + 1)
          /\ output' = {calls} \/ output' = output
      BY <1>11 DEF Xref!Save, Xref!Works, Xref!Fails, Xref!documents, Xref!client, Xref!call,
         Xref!hashes
    <2>2. calls \in 0 .. calls /\ output \subseteq 0 .. calls
      OBVIOUS
    <2>3. output' \subseteq 0 .. calls' /\ \A x, y \in output' : x = y
      BY <2>1, <2>2
    <2>4. xEvents' \in 0 .. MaxEvents
      BY <2>1
    <2> QED
      BY <2>1, <2>3, <2>4
  <1>12. CASE Xref!Identify
    BY <1>12 DEF Xref!Identify, Xref!Goto, Xref!Fail, Xref!Fails, Xref!Works, Xref!Absent,
       Xref!files, Xref!documents, Xref!client, Xref!hashes, Xref!call, Xref!history
  <1>13. CASE Xref!Measure
    BY <1>13 DEF Xref!Measure, Xref!Goto, Xref!Fails, Xref!Works, Xref!Absent, Xref!files,
       Xref!documents, Xref!client, Xref!hashes, Xref!call, Xref!history
  <1>14. CASE Xref!Compare
    BY <1>14 DEF Xref!Compare, Xref!Goto, Xref!Fails, Xref!Works, Xref!Absent,
       Xref!SourceFile, Xref!files, Xref!documents, Xref!client, Xref!hashes, Xref!call,
       Xref!history
  <1>15. CASE Xref!Clean
    BY <1>15 DEF Xref!Clean, Xref!Goto, Xref!Fail, Xref!Absent, Xref!files, Xref!documents,
       Xref!client, Xref!hashes, Xref!call, Xref!history
  <1>16. CASE Xref!Delete
    <2>1. /\ UNCHANGED <<source, drawing, loaded, xMemory, xDbmod, inspection, plan, calls,
                         targetHash>>
          /\ xEvents' = xEvents \/ (xEvents < MaxEvents /\ xEvents' = xEvents + 1)
          /\ output' = {} \/ output' = output
      BY <1>16 DEF Xref!Delete, Xref!Works, Xref!Fails, Xref!documents, Xref!client, Xref!call,
         Xref!hashes
    <2>2. calls \in 0 .. calls /\ output \subseteq 0 .. calls
      OBVIOUS
    <2>3. output' \subseteq 0 .. calls' /\ \A x, y \in output' : x = y
      BY <2>1, <2>2
    <2>4. xEvents' \in 0 .. MaxEvents
      BY <2>1
    <2> QED
      BY <2>1, <2>3, <2>4
  <1>17. CASE Xref!Answer
    <2>1. [live |-> TRUE, target |-> targetHash] \in Xref!Inspection
      BY DEF Xref!Inspection
    <2>2. /\ UNCHANGED <<source, drawing, output, loaded, xMemory, xDbmod, plan, calls, targetHash,
                         xEvents>>
          /\ inspection' = inspection \/ inspection' = {[live |-> TRUE, target |-> targetHash]}
      BY <1>17 DEF Xref!Answer, Xref!files, Xref!documents, Xref!call, Xref!hashes
    <2> QED
      BY <2>1, <2>2
  <1>18. CASE Xref!WriteSource
    BY <1>18 DEF Xref!WriteSource, Xref!Happens, Xref!files, Xref!documents, Xref!client,
       Xref!hashes, Xref!call, Xref!history
  <1>19. CASE Xref!WriteOutput
    BY <1>19 DEF Xref!WriteOutput, Xref!Happens, Xref!Foreign, Xref!files, Xref!documents,
       Xref!client, Xref!hashes, Xref!call, Xref!history
  <1>20. ASSUME NEW d \in Xref!Documents, Xref!WriteDrawing(d) PROVE XrefTyped'
    BY <1>20 DEF Xref!WriteDrawing, Xref!Happens, Xref!files, Xref!documents, Xref!client,
       Xref!hashes, Xref!call, Xref!history
  <1>21. ASSUME NEW d \in Xref!Documents, Xref!Edit(d) PROVE XrefTyped'
    BY <1>21 DEF Xref!Edit, Xref!Happens, Xref!files, Xref!documents, Xref!client,
       Xref!hashes, Xref!call, Xref!history
  <1>22. ASSUME NEW d \in Xref!Documents, Xref!SaveDocument(d) PROVE XrefTyped'
    BY <1>22 DEF Xref!SaveDocument, Xref!Happens, Xref!files, Xref!documents, Xref!client,
       Xref!hashes, Xref!call, Xref!history
  <1>23. ASSUME NEW d \in Xref!Documents, Xref!Reload(d) PROVE XrefTyped'
    BY <1>23 DEF Xref!Reload, Xref!Happens, Xref!files, Xref!documents, Xref!client,
       Xref!hashes, Xref!call, Xref!history
  <1>24. CASE UNCHANGED Xref!vars
    BY <1>24 DEF Xref!vars, Xref!files, Xref!documents, Xref!client, Xref!hashes, Xref!call,
       Xref!history
  <1> QED
    BY <1>1, <1>2, <1>3, <1>4, <1>5, <1>6, <1>7, <1>8, <1>9, <1>10, <1>11, <1>12, <1>13,
       <1>14, <1>15, <1>16, <1>17, <1>18, <1>19, <1>20, <1>21, <1>22, <1>23, <1>24 DEF
       Xref!Next, Xref!Plugin

\* ... the request and the plan of the call,
LEMMA CallStep == XrefBounds /\ XrefInv /\ [Xref!Next]_(Xref!vars) => CallInv'
  <1> SUFFICES ASSUME XrefBounds, XrefInv, [Xref!Next]_(Xref!vars)
               PROVE  CallInv'
    OBVIOUS
  <1> USE DEF XrefInv, CallInv, Preparing, Written
  <1>1. CASE Xref!Expect
    BY <1>1 DEF Xref!Expect, Xref!files, Xref!documents, Xref!client, Xref!hashes, Xref!call,
       Xref!history
  <1>2. CASE Xref!BuildPlan
    BY <1>2 DEF Xref!BuildPlan, Xref!files, Xref!documents, Xref!client, Xref!hashes,
       Xref!call, Xref!history
  <1>3. CASE Xref!Inspect
    BY <1>3 DEF Xref!Inspect, Xref!Begin, Xref!Goto, Xref!files, Xref!documents, Xref!client,
       Xref!hashes, Xref!call, Xref!history
  <1>4. CASE Xref!Extract
    BY <1>4 DEF Xref!Extract, Xref!Begin, Xref!Goto, Xref!Absent, Xref!files, Xref!documents,
       Xref!client, Xref!hashes, Xref!call, Xref!history
  <1>5. CASE Xref!Prepare
    BY <1>5 DEF Xref!Prepare, Xref!Goto, Xref!Fail, Xref!Absent, Xref!SourceFile, Xref!files,
       Xref!documents, Xref!client, Xref!hashes, Xref!call, Xref!history
  <1>6. CASE Xref!Hash
    BY <1>6 DEF Xref!Hash, Xref!Goto, Xref!SourceFile, Xref!Document, Xref!files,
       Xref!documents, Xref!client, Xref!hashes, Xref!call, Xref!history
  <1>7. CASE Xref!Capture
    BY <1>7 DEF Xref!Capture, Xref!Goto, Xref!Fail, Xref!Fails, Xref!Works, Xref!Document,
       Xref!files, Xref!documents, Xref!client, Xref!hashes, Xref!call, Xref!history
  <1>8. CASE Xref!Judge
    BY <1>8 DEF Xref!Judge, Xref!Goto, Xref!Fail, Xref!Eligible, Xref!SourceFile,
       Xref!Document, Xref!files, Xref!documents, Xref!client, Xref!hashes, Xref!call,
       Xref!history
  <1>9. CASE Xref!CheckPlan
    BY <1>9 DEF Xref!CheckPlan, Xref!Goto, Xref!Fail, Xref!files, Xref!documents, Xref!client,
       Xref!hashes, Xref!call, Xref!history
  <1>10. CASE Xref!Clone
    BY <1>10 DEF Xref!Clone, Xref!Goto, Xref!Fail, Xref!Fails, Xref!Works, Xref!Absent,
       Xref!files, Xref!documents, Xref!client, Xref!hashes, Xref!call, Xref!history
  <1>11. CASE Xref!Save
    BY <1>11 DEF Xref!Save, Xref!Goto, Xref!Fail, Xref!Fails, Xref!Works, Xref!Foreign,
       Xref!files, Xref!documents, Xref!client, Xref!hashes, Xref!call, Xref!history
  <1>12. CASE Xref!Identify
    BY <1>12 DEF Xref!Identify, Xref!Goto, Xref!Fail, Xref!Fails, Xref!Works, Xref!Absent,
       Xref!files, Xref!documents, Xref!client, Xref!hashes, Xref!call, Xref!history
  <1>13. CASE Xref!Measure
    BY <1>13 DEF Xref!Measure, Xref!Goto, Xref!Fails, Xref!Works, Xref!Absent, Xref!files,
       Xref!documents, Xref!client, Xref!hashes, Xref!call, Xref!history
  <1>14. CASE Xref!Compare
    BY <1>14 DEF Xref!Compare, Xref!Goto, Xref!Fails, Xref!Works, Xref!Absent,
       Xref!SourceFile, Xref!files, Xref!documents, Xref!client, Xref!hashes, Xref!call,
       Xref!history
  <1>15. CASE Xref!Clean
    BY <1>15 DEF Xref!Clean, Xref!Goto, Xref!Fail, Xref!Absent, Xref!files, Xref!documents,
       Xref!client, Xref!hashes, Xref!call, Xref!history
  <1>16. CASE Xref!Delete
    BY <1>16 DEF Xref!Delete, Xref!Goto, Xref!Fail, Xref!Fails, Xref!Works, Xref!Foreign,
       Xref!files, Xref!documents, Xref!client, Xref!hashes, Xref!call, Xref!history
  <1>17. CASE Xref!Answer
    BY <1>17 DEF Xref!Answer, Xref!Goto, Xref!files, Xref!documents, Xref!client, Xref!hashes,
       Xref!call, Xref!history
  <1>18. CASE Xref!WriteSource
    BY <1>18 DEF Xref!WriteSource, Xref!Happens, Xref!files, Xref!documents, Xref!client,
       Xref!hashes, Xref!call, Xref!history
  <1>19. CASE Xref!WriteOutput
    BY <1>19 DEF Xref!WriteOutput, Xref!Happens, Xref!Foreign, Xref!files, Xref!documents,
       Xref!client, Xref!hashes, Xref!call, Xref!history
  <1>20. ASSUME NEW d \in Xref!Documents, Xref!WriteDrawing(d) PROVE CallInv'
    BY <1>20 DEF Xref!WriteDrawing, Xref!Happens, Xref!files, Xref!documents, Xref!client,
       Xref!hashes, Xref!call, Xref!history
  <1>21. ASSUME NEW d \in Xref!Documents, Xref!Edit(d) PROVE CallInv'
    BY <1>21 DEF Xref!Edit, Xref!Happens, Xref!files, Xref!documents, Xref!client,
       Xref!hashes, Xref!call, Xref!history
  <1>22. ASSUME NEW d \in Xref!Documents, Xref!SaveDocument(d) PROVE CallInv'
    BY <1>22 DEF Xref!SaveDocument, Xref!Happens, Xref!files, Xref!documents, Xref!client,
       Xref!hashes, Xref!call, Xref!history
  <1>23. ASSUME NEW d \in Xref!Documents, Xref!Reload(d) PROVE CallInv'
    BY <1>23 DEF Xref!Reload, Xref!Happens, Xref!files, Xref!documents, Xref!client,
       Xref!hashes, Xref!call, Xref!history
  <1>24. CASE UNCHANGED Xref!vars
    BY <1>24 DEF Xref!vars, Xref!files, Xref!documents, Xref!client, Xref!hashes, Xref!call,
       Xref!history
  <1> QED
    BY <1>1, <1>2, <1>3, <1>4, <1>5, <1>6, <1>7, <1>8, <1>9, <1>10, <1>11, <1>12, <1>13,
       <1>14, <1>15, <1>16, <1>17, <1>18, <1>19, <1>20, <1>21, <1>22, <1>23, <1>24 DEF
       Xref!Next, Xref!Plugin

\* ... what was read of which hashes,
LEMMA ReadStep == XrefBounds /\ XrefInv /\ [Xref!Next]_(Xref!vars) => ReadInv'
  <1> SUFFICES ASSUME XrefBounds, XrefInv, [Xref!Next]_(Xref!vars)
               PROVE  ReadInv'
    OBVIOUS
  <1> USE DEF XrefInv, CallInv, ReadInv, Preparing, Written, Judged
  <1>1. CASE Xref!Expect
    BY <1>1 DEF Xref!Expect, Xref!files, Xref!documents, Xref!client, Xref!hashes, Xref!call,
       Xref!history
  <1>2. CASE Xref!BuildPlan
    BY <1>2 DEF Xref!BuildPlan, Xref!files, Xref!documents, Xref!client, Xref!hashes,
       Xref!call, Xref!history
  <1>3. CASE Xref!Inspect
    BY <1>3 DEF Xref!Inspect, Xref!Begin, Xref!Goto, Xref!files, Xref!documents, Xref!client,
       Xref!hashes, Xref!call, Xref!history
  <1>4. CASE Xref!Extract
    BY <1>4 DEF Xref!Extract, Xref!Begin, Xref!Goto, Xref!Absent, Xref!files, Xref!documents,
       Xref!client, Xref!hashes, Xref!call, Xref!history
  <1>5. CASE Xref!Prepare
    BY <1>5 DEF Xref!Prepare, Xref!Goto, Xref!Fail, Xref!Absent, Xref!SourceFile, Xref!files,
       Xref!documents, Xref!client, Xref!hashes, Xref!call, Xref!history
  <1>6. CASE Xref!Hash
    BY <1>6 DEF Xref!Hash, Xref!Goto, Xref!SourceFile, Xref!Document, Xref!files,
       Xref!documents, Xref!client, Xref!hashes, Xref!call, Xref!history
  <1>7. CASE Xref!Capture
    <2> DEFINE of == [content |-> xMemory[Xref!Document],
                      xref |-> IF direct THEN xMemory[Xref!Document] ELSE loaded[Xref!Document]]
    <2>0. /\ UNCHANGED <<direct, task, wanted, sourceHash, targetHash, inputBefore, inspected, xOutcome>>
          /\ xPc = "capture" /\ xPc' \in {"judge", "failed"} /\ xOutcome = "none"
      BY <1>7 DEF Xref!Capture, Xref!Goto, Xref!Fail
    <2>1. CASE /\ xRead' = {of}
               /\ unsaved' = \/ xDbmod[Xref!Document] = 1
                             \/ xMemory[Xref!Document] # targetHash
                             \/ ~direct /\ loaded[Xref!Document] # sourceHash
      <3>1. of.content = xMemory[Xref!Document]
            /\ of.xref = IF direct THEN xMemory[Xref!Document] ELSE loaded[Xref!Document]
        OBVIOUS
      <3>2. \A r \in xRead' : r = of
        BY <2>1
      <3> HIDE DEF of
      <3>3. ~unsaved' => \A r \in xRead' :
              r.content = targetHash /\ r.xref = IF direct THEN targetHash ELSE sourceHash
        BY <2>1, <3>1, <3>2
      <3> QED
        BY <2>0, <3>3
    <2>2. CASE UNCHANGED <<xRead, unsaved>>
      BY <2>0, <2>2
    <2> QED
      BY <1>7, <2>1, <2>2 DEF Xref!Capture
  <1>8. CASE Xref!Judge
    BY <1>8 DEF Xref!Judge, Xref!Goto, Xref!Fail, Xref!Eligible, Xref!SourceFile,
       Xref!Document, Xref!files, Xref!documents, Xref!client, Xref!hashes, Xref!call,
       Xref!history
  <1>9. CASE Xref!CheckPlan
    BY <1>9 DEF Xref!CheckPlan, Xref!Goto, Xref!Fail, Xref!files, Xref!documents, Xref!client,
       Xref!hashes, Xref!call, Xref!history
  <1>10. CASE Xref!Clone
    BY <1>10 DEF Xref!Clone, Xref!Goto, Xref!Fail, Xref!Fails, Xref!Works, Xref!Absent,
       Xref!files, Xref!documents, Xref!client, Xref!hashes, Xref!call, Xref!history
  <1>11. CASE Xref!Save
    BY <1>11 DEF Xref!Save, Xref!Goto, Xref!Fail, Xref!Fails, Xref!Works, Xref!Foreign,
       Xref!files, Xref!documents, Xref!client, Xref!hashes, Xref!call, Xref!history
  <1>12. CASE Xref!Identify
    BY <1>12 DEF Xref!Identify, Xref!Goto, Xref!Fail, Xref!Fails, Xref!Works, Xref!Absent,
       Xref!files, Xref!documents, Xref!client, Xref!hashes, Xref!call, Xref!history
  <1>13. CASE Xref!Measure
    BY <1>13 DEF Xref!Measure, Xref!Goto, Xref!Fails, Xref!Works, Xref!Absent, Xref!files,
       Xref!documents, Xref!client, Xref!hashes, Xref!call, Xref!history
  <1>14. CASE Xref!Compare
    BY <1>14 DEF Xref!Compare, Xref!Goto, Xref!Fails, Xref!Works, Xref!Absent,
       Xref!SourceFile, Xref!files, Xref!documents, Xref!client, Xref!hashes, Xref!call,
       Xref!history
  <1>15. CASE Xref!Clean
    BY <1>15 DEF Xref!Clean, Xref!Goto, Xref!Fail, Xref!Absent, Xref!files, Xref!documents,
       Xref!client, Xref!hashes, Xref!call, Xref!history
  <1>16. CASE Xref!Delete
    BY <1>16 DEF Xref!Delete, Xref!Goto, Xref!Fail, Xref!Fails, Xref!Works, Xref!Foreign,
       Xref!files, Xref!documents, Xref!client, Xref!hashes, Xref!call, Xref!history
  <1>17. CASE Xref!Answer
    BY <1>17 DEF Xref!Answer, Xref!Goto, Xref!files, Xref!documents, Xref!client, Xref!hashes,
       Xref!call, Xref!history
  <1>18. CASE Xref!WriteSource
    BY <1>18 DEF Xref!WriteSource, Xref!Happens, Xref!files, Xref!documents, Xref!client,
       Xref!hashes, Xref!call, Xref!history
  <1>19. CASE Xref!WriteOutput
    BY <1>19 DEF Xref!WriteOutput, Xref!Happens, Xref!Foreign, Xref!files, Xref!documents,
       Xref!client, Xref!hashes, Xref!call, Xref!history
  <1>20. ASSUME NEW d \in Xref!Documents, Xref!WriteDrawing(d) PROVE ReadInv'
    BY <1>20 DEF Xref!WriteDrawing, Xref!Happens, Xref!files, Xref!documents, Xref!client,
       Xref!hashes, Xref!call, Xref!history
  <1>21. ASSUME NEW d \in Xref!Documents, Xref!Edit(d) PROVE ReadInv'
    BY <1>21 DEF Xref!Edit, Xref!Happens, Xref!files, Xref!documents, Xref!client,
       Xref!hashes, Xref!call, Xref!history
  <1>22. ASSUME NEW d \in Xref!Documents, Xref!SaveDocument(d) PROVE ReadInv'
    BY <1>22 DEF Xref!SaveDocument, Xref!Happens, Xref!files, Xref!documents, Xref!client,
       Xref!hashes, Xref!call, Xref!history
  <1>23. ASSUME NEW d \in Xref!Documents, Xref!Reload(d) PROVE ReadInv'
    BY <1>23 DEF Xref!Reload, Xref!Happens, Xref!files, Xref!documents, Xref!client,
       Xref!hashes, Xref!call, Xref!history
  <1>24. CASE UNCHANGED Xref!vars
    BY <1>24 DEF Xref!vars, Xref!files, Xref!documents, Xref!client, Xref!hashes, Xref!call,
       Xref!history
  <1> QED
    BY <1>1, <1>2, <1>3, <1>4, <1>5, <1>6, <1>7, <1>8, <1>9, <1>10, <1>11, <1>12, <1>13,
       <1>14, <1>15, <1>16, <1>17, <1>18, <1>19, <1>20, <1>21, <1>22, <1>23, <1>24 DEF
       Xref!Next, Xref!Plugin

\* ... whose the candidate is,
LEMMA OutputStep == XrefBounds /\ XrefInv /\ [Xref!Next]_(Xref!vars) => OutputInv'
  <1> SUFFICES ASSUME XrefBounds, XrefInv, [Xref!Next]_(Xref!vars)
               PROVE  OutputInv'
    OBVIOUS
  <1> USE DEF XrefInv, XrefTyped, CallInv, ReadInv, OutputInv, Preparing, Written, Judged
  <1>1. CASE Xref!Expect
    BY <1>1 DEF Xref!Expect, Xref!files, Xref!documents, Xref!client, Xref!hashes, Xref!call,
       Xref!history
  <1>2. CASE Xref!BuildPlan
    BY <1>2 DEF Xref!BuildPlan, Xref!files, Xref!documents, Xref!client, Xref!hashes,
       Xref!call, Xref!history
  <1>3. CASE Xref!Inspect
    BY <1>3 DEF Xref!Inspect, Xref!Begin, Xref!Goto, Xref!files, Xref!documents, Xref!client,
       Xref!hashes, Xref!call, Xref!history
  <1>4. CASE Xref!Extract
    BY <1>4 DEF Xref!Extract, Xref!Begin, Xref!Goto, Xref!Absent, Xref!files, Xref!documents,
       Xref!client, Xref!hashes, Xref!call, Xref!history
  <1>5. CASE Xref!Prepare
    BY <1>5 DEF Xref!Prepare, Xref!Goto, Xref!Fail, Xref!Absent, Xref!SourceFile, Xref!files,
       Xref!documents, Xref!client, Xref!hashes, Xref!call, Xref!history
  <1>6. CASE Xref!Hash
    BY <1>6 DEF Xref!Hash, Xref!Goto, Xref!SourceFile, Xref!Document, Xref!files,
       Xref!documents, Xref!client, Xref!hashes, Xref!call, Xref!history
  <1>7. CASE Xref!Capture
    BY <1>7 DEF Xref!Capture, Xref!Goto, Xref!Fail, Xref!Fails, Xref!Works, Xref!Document,
       Xref!files, Xref!documents, Xref!client, Xref!hashes, Xref!call, Xref!history
  <1>8. CASE Xref!Judge
    BY <1>8 DEF Xref!Judge, Xref!Goto, Xref!Fail, Xref!Eligible, Xref!SourceFile,
       Xref!Document, Xref!files, Xref!documents, Xref!client, Xref!hashes, Xref!call,
       Xref!history
  <1>9. CASE Xref!CheckPlan
    BY <1>9 DEF Xref!CheckPlan, Xref!Goto, Xref!Fail, Xref!files, Xref!documents, Xref!client,
       Xref!hashes, Xref!call, Xref!history
  <1>10. CASE Xref!Clone
    BY <1>10 DEF Xref!Clone, Xref!Goto, Xref!Fail, Xref!Fails, Xref!Works, Xref!Absent,
       Xref!files, Xref!documents, Xref!client, Xref!hashes, Xref!call, Xref!history
  <1>11. CASE Xref!Save
    BY <1>11 DEF Xref!Save, Xref!Goto, Xref!Fail, Xref!Fails, Xref!Works, Xref!Foreign,
       Xref!files, Xref!documents, Xref!client, Xref!hashes, Xref!call, Xref!history
  <1>12. CASE Xref!Identify
    BY <1>12 DEF Xref!Identify, Xref!Goto, Xref!Fail, Xref!Fails, Xref!Works, Xref!Absent,
       Xref!files, Xref!documents, Xref!client, Xref!hashes, Xref!call, Xref!history
  <1>13. CASE Xref!Measure
    BY <1>13 DEF Xref!Measure, Xref!Goto, Xref!Fails, Xref!Works, Xref!Absent, Xref!files,
       Xref!documents, Xref!client, Xref!hashes, Xref!call, Xref!history
  <1>14. CASE Xref!Compare
    BY <1>14 DEF Xref!Compare, Xref!Goto, Xref!Fails, Xref!Works, Xref!Absent,
       Xref!SourceFile, Xref!files, Xref!documents, Xref!client, Xref!hashes, Xref!call,
       Xref!history
  <1>15. CASE Xref!Clean
    BY <1>15 DEF Xref!Clean, Xref!Goto, Xref!Fail, Xref!Absent, Xref!files, Xref!documents,
       Xref!client, Xref!hashes, Xref!call, Xref!history
  <1>16. CASE Xref!Delete
    BY <1>16 DEF Xref!Delete, Xref!Goto, Xref!Fail, Xref!Fails, Xref!Works, Xref!Foreign,
       Xref!files, Xref!documents, Xref!client, Xref!hashes, Xref!call, Xref!history
  <1>17. CASE Xref!Answer
    BY <1>17, SMTT(30) DEF Xref!Answer, Xref!Goto, Xref!files, Xref!documents, Xref!client, Xref!hashes,
       Xref!call, Xref!history
  <1>18. CASE Xref!WriteSource
    BY <1>18 DEF Xref!WriteSource, Xref!Happens, Xref!files, Xref!documents, Xref!client,
       Xref!hashes, Xref!call, Xref!history
  <1>19. CASE Xref!WriteOutput
    BY <1>19 DEF Xref!WriteOutput, Xref!Happens, Xref!Foreign, Xref!files, Xref!documents,
       Xref!client, Xref!hashes, Xref!call, Xref!history
  <1>20. ASSUME NEW d \in Xref!Documents, Xref!WriteDrawing(d) PROVE OutputInv'
    BY <1>20 DEF Xref!WriteDrawing, Xref!Happens, Xref!files, Xref!documents, Xref!client,
       Xref!hashes, Xref!call, Xref!history
  <1>21. ASSUME NEW d \in Xref!Documents, Xref!Edit(d) PROVE OutputInv'
    BY <1>21 DEF Xref!Edit, Xref!Happens, Xref!files, Xref!documents, Xref!client,
       Xref!hashes, Xref!call, Xref!history
  <1>22. ASSUME NEW d \in Xref!Documents, Xref!SaveDocument(d) PROVE OutputInv'
    BY <1>22 DEF Xref!SaveDocument, Xref!Happens, Xref!files, Xref!documents, Xref!client,
       Xref!hashes, Xref!call, Xref!history
  <1>23. ASSUME NEW d \in Xref!Documents, Xref!Reload(d) PROVE OutputInv'
    BY <1>23 DEF Xref!Reload, Xref!Happens, Xref!files, Xref!documents, Xref!client,
       Xref!hashes, Xref!call, Xref!history
  <1>24. CASE UNCHANGED Xref!vars
    BY <1>24 DEF Xref!vars, Xref!files, Xref!documents, Xref!client, Xref!hashes, Xref!call,
       Xref!history
  <1> QED
    BY <1>1, <1>2, <1>3, <1>4, <1>5, <1>6, <1>7, <1>8, <1>9, <1>10, <1>11, <1>12, <1>13,
       <1>14, <1>15, <1>16, <1>17, <1>18, <1>19, <1>20, <1>21, <1>22, <1>23, <1>24 DEF
       Xref!Next, Xref!Plugin

\* ... what was seen when it is replaced or deleted,
LEMMA SeenStep == XrefBounds /\ XrefInv /\ [Xref!Next]_(Xref!vars) => SeenInv'
  <1> SUFFICES ASSUME XrefBounds, XrefInv, [Xref!Next]_(Xref!vars)
               PROVE  SeenInv'
    OBVIOUS
  <1> USE DEF XrefInv, SeenInv
  <1>1. CASE Xref!Expect
    BY <1>1 DEF Xref!Expect, Xref!files, Xref!documents, Xref!client, Xref!hashes, Xref!call,
       Xref!history
  <1>2. CASE Xref!BuildPlan
    BY <1>2 DEF Xref!BuildPlan, Xref!files, Xref!documents, Xref!client, Xref!hashes,
       Xref!call, Xref!history
  <1>3. CASE Xref!Inspect
    BY <1>3 DEF Xref!Inspect, Xref!Begin, Xref!Goto, Xref!files, Xref!documents, Xref!client,
       Xref!hashes, Xref!call, Xref!history
  <1>4. CASE Xref!Extract
    BY <1>4 DEF Xref!Extract, Xref!Begin, Xref!Goto, Xref!Absent, Xref!files, Xref!documents,
       Xref!client, Xref!hashes, Xref!call, Xref!history
  <1>5. CASE Xref!Prepare
    BY <1>5 DEF Xref!Prepare, Xref!Goto, Xref!Fail, Xref!Absent, Xref!SourceFile, Xref!files,
       Xref!documents, Xref!client, Xref!hashes, Xref!call, Xref!history
  <1>6. CASE Xref!Hash
    BY <1>6 DEF Xref!Hash, Xref!Goto, Xref!SourceFile, Xref!Document, Xref!files,
       Xref!documents, Xref!client, Xref!hashes, Xref!call, Xref!history
  <1>7. CASE Xref!Capture
    BY <1>7 DEF Xref!Capture, Xref!Goto, Xref!Fail, Xref!Fails, Xref!Works, Xref!Document,
       Xref!files, Xref!documents, Xref!client, Xref!hashes, Xref!call, Xref!history
  <1>8. CASE Xref!Judge
    BY <1>8 DEF Xref!Judge, Xref!Goto, Xref!Fail, Xref!Eligible, Xref!SourceFile,
       Xref!Document, Xref!files, Xref!documents, Xref!client, Xref!hashes, Xref!call,
       Xref!history
  <1>9. CASE Xref!CheckPlan
    BY <1>9 DEF Xref!CheckPlan, Xref!Goto, Xref!Fail, Xref!files, Xref!documents, Xref!client,
       Xref!hashes, Xref!call, Xref!history
  <1>10. CASE Xref!Clone
    BY <1>10 DEF Xref!Clone, Xref!Goto, Xref!Fail, Xref!Fails, Xref!Works, Xref!Absent,
       Xref!files, Xref!documents, Xref!client, Xref!hashes, Xref!call, Xref!history
  <1>11. CASE Xref!Save
    BY <1>11 DEF Xref!Save, Xref!Goto, Xref!Fail, Xref!Fails, Xref!Works, Xref!Foreign,
       Xref!files, Xref!documents, Xref!client, Xref!hashes, Xref!call, Xref!history
  <1>12. CASE Xref!Identify
    BY <1>12 DEF Xref!Identify, Xref!Goto, Xref!Fail, Xref!Fails, Xref!Works, Xref!Absent,
       Xref!files, Xref!documents, Xref!client, Xref!hashes, Xref!call, Xref!history
  <1>13. CASE Xref!Measure
    BY <1>13 DEF Xref!Measure, Xref!Goto, Xref!Fails, Xref!Works, Xref!Absent, Xref!files,
       Xref!documents, Xref!client, Xref!hashes, Xref!call, Xref!history
  <1>14. CASE Xref!Compare
    BY <1>14 DEF Xref!Compare, Xref!Goto, Xref!Fails, Xref!Works, Xref!Absent,
       Xref!SourceFile, Xref!files, Xref!documents, Xref!client, Xref!hashes, Xref!call,
       Xref!history
  <1>15. CASE Xref!Clean
    BY <1>15 DEF Xref!Clean, Xref!Goto, Xref!Fail, Xref!Absent, Xref!files, Xref!documents,
       Xref!client, Xref!hashes, Xref!call, Xref!history
  <1>16. CASE Xref!Delete
    BY <1>16 DEF Xref!Delete, Xref!Goto, Xref!Fail, Xref!Fails, Xref!Works, Xref!Foreign,
       Xref!files, Xref!documents, Xref!client, Xref!hashes, Xref!call, Xref!history
  <1>17. CASE Xref!Answer
    BY <1>17 DEF Xref!Answer, Xref!Goto, Xref!files, Xref!documents, Xref!client, Xref!hashes,
       Xref!call, Xref!history
  <1>18. CASE Xref!WriteSource
    BY <1>18 DEF Xref!WriteSource, Xref!Happens, Xref!files, Xref!documents, Xref!client,
       Xref!hashes, Xref!call, Xref!history
  <1>19. CASE Xref!WriteOutput
    BY <1>19 DEF Xref!WriteOutput, Xref!Happens, Xref!Foreign, Xref!files, Xref!documents,
       Xref!client, Xref!hashes, Xref!call, Xref!history
  <1>20. ASSUME NEW d \in Xref!Documents, Xref!WriteDrawing(d) PROVE SeenInv'
    BY <1>20 DEF Xref!WriteDrawing, Xref!Happens, Xref!files, Xref!documents, Xref!client,
       Xref!hashes, Xref!call, Xref!history
  <1>21. ASSUME NEW d \in Xref!Documents, Xref!Edit(d) PROVE SeenInv'
    BY <1>21 DEF Xref!Edit, Xref!Happens, Xref!files, Xref!documents, Xref!client,
       Xref!hashes, Xref!call, Xref!history
  <1>22. ASSUME NEW d \in Xref!Documents, Xref!SaveDocument(d) PROVE SeenInv'
    BY <1>22 DEF Xref!SaveDocument, Xref!Happens, Xref!files, Xref!documents, Xref!client,
       Xref!hashes, Xref!call, Xref!history
  <1>23. ASSUME NEW d \in Xref!Documents, Xref!Reload(d) PROVE SeenInv'
    BY <1>23 DEF Xref!Reload, Xref!Happens, Xref!files, Xref!documents, Xref!client,
       Xref!hashes, Xref!call, Xref!history
  <1>24. CASE UNCHANGED Xref!vars
    BY <1>24 DEF Xref!vars, Xref!files, Xref!documents, Xref!client, Xref!hashes, Xref!call,
       Xref!history
  <1> QED
    BY <1>1, <1>2, <1>3, <1>4, <1>5, <1>6, <1>7, <1>8, <1>9, <1>10, <1>11, <1>12, <1>13,
       <1>14, <1>15, <1>16, <1>17, <1>18, <1>19, <1>20, <1>21, <1>22, <1>23, <1>24 DEF
       Xref!Next, Xref!Plugin

\* ... and what is so as long as nothing happens.
LEMMA QuietStep == XrefBounds /\ XrefInv /\ [Xref!Next]_(Xref!vars) => QuietInv'
  <1> SUFFICES ASSUME XrefBounds, XrefInv, [Xref!Next]_(Xref!vars)
               PROVE  QuietInv'
    OBVIOUS
  <1> USE DEF XrefInv, XrefTyped, CallInv, QuietInv, Preparing, Written, Judged,
     Xref!Documents, Xref!Versions, XrefBounds
  <1>1. CASE Xref!Expect
    BY <1>1 DEF Xref!Expect, Xref!files, Xref!documents, Xref!client, Xref!hashes, Xref!call,
       Xref!history
  <1>2. CASE Xref!BuildPlan
    BY <1>2 DEF Xref!BuildPlan, Xref!files, Xref!documents, Xref!client, Xref!hashes,
       Xref!call, Xref!history
  <1>3. CASE Xref!Inspect
    BY <1>3 DEF Xref!Inspect, Xref!Begin, Xref!Goto, Xref!files, Xref!documents, Xref!client,
       Xref!hashes, Xref!call, Xref!history
  <1>4. CASE Xref!Extract
    BY <1>4 DEF Xref!Extract, Xref!Begin, Xref!Goto, Xref!Absent, Xref!files, Xref!documents,
       Xref!client, Xref!hashes, Xref!call, Xref!history
  <1>5. CASE Xref!Prepare
    BY <1>5 DEF Xref!Prepare, Xref!Goto, Xref!Fail, Xref!Absent, Xref!SourceFile, Xref!files,
       Xref!documents, Xref!client, Xref!hashes, Xref!call, Xref!history
  <1>6. CASE Xref!Hash
    BY <1>6 DEF Xref!Hash, Xref!Goto, Xref!SourceFile, Xref!Document, Xref!files,
       Xref!documents, Xref!client, Xref!hashes, Xref!call, Xref!history
  <1>7. CASE Xref!Capture
    <2> DEFINE d == Xref!Document
    <2>1. /\ UNCHANGED <<source, drawing, loaded, xMemory, xDbmod, task, wanted, sourceBefore,
                         inputBefore, sourceHash, targetHash, xModified, inspected, xOutcome,
                         output, calls>>
          /\ xPc = "capture" /\ direct \in BOOLEAN
      BY <1>7 DEF Xref!Capture, Xref!files, Xref!documents
    <2>2. CASE /\ UNCHANGED <<xEvents, excuse>> /\ xPc' = "judge"
               /\ \/ fits' = TRUE
                  \/ xMemory[d] # 0 \/ (~direct /\ loaded[d] # 0)
      <3>1. xEvents = 0 => xMemory[d] = 0 /\ loaded[d] = 0
        BY DEF Xref!Document
      <3> QED
        BY <2>1, <2>2, <3>1
    <2>3. CASE xEvents' = xEvents + 1
      BY <2>3
    <2>4. \/ xEvents' = xEvents + 1
          \/ /\ UNCHANGED <<xEvents, excuse>> /\ xPc' = "judge"
             /\ \/ fits' = TRUE
                \/ xMemory[d] # 0 \/ (~direct /\ loaded[d] # 0)
      <3> HIDE DEF QuietInv, XrefTyped, CallInv
      <3>1. CASE Xref!Fails
        BY <3>1 DEF Xref!Fails
      <3>2. CASE /\ Xref!Works /\ Xref!Goto("judge")
                 /\ fits' \in (IF /\ xMemory[d] = 0
                                 /\ (IF direct THEN xMemory[d] ELSE loaded[d]) = 0
                              THEN {TRUE} ELSE BOOLEAN)
        BY <3>2 DEF Xref!Works, Xref!Goto
      <3> QED
        BY <1>7, <3>1, <3>2 DEF Xref!Capture
    <2> QED
      BY <2>2, <2>3, <2>4
  <1>8. CASE Xref!Judge
    BY <1>8 DEF Xref!Judge, Xref!Goto, Xref!Fail, Xref!Eligible, Xref!SourceFile,
       Xref!Document, Xref!files, Xref!documents, Xref!client, Xref!hashes, Xref!call,
       Xref!history
  <1>9. CASE Xref!CheckPlan
    BY <1>9 DEF Xref!CheckPlan, Xref!Goto, Xref!Fail, Xref!files, Xref!documents, Xref!client,
       Xref!hashes, Xref!call, Xref!history
  <1>10. CASE Xref!Clone
    BY <1>10 DEF Xref!Clone, Xref!Goto, Xref!Fail, Xref!Fails, Xref!Works, Xref!Absent,
       Xref!files, Xref!documents, Xref!client, Xref!hashes, Xref!call, Xref!history
  <1>11. CASE Xref!Save
    BY <1>11 DEF Xref!Save, Xref!Goto, Xref!Fail, Xref!Fails, Xref!Works, Xref!Foreign,
       Xref!files, Xref!documents, Xref!client, Xref!hashes, Xref!call, Xref!history
  <1>12. CASE Xref!Identify
    BY <1>12 DEF Xref!Identify, Xref!Goto, Xref!Fail, Xref!Fails, Xref!Works, Xref!Absent,
       Xref!files, Xref!documents, Xref!client, Xref!hashes, Xref!call, Xref!history
  <1>13. CASE Xref!Measure
    BY <1>13 DEF Xref!Measure, Xref!Goto, Xref!Fails, Xref!Works, Xref!Absent, Xref!files,
       Xref!documents, Xref!client, Xref!hashes, Xref!call, Xref!history
  <1>14. CASE Xref!Compare
    BY <1>14 DEF Xref!Compare, Xref!Goto, Xref!Fails, Xref!Works, Xref!Absent,
       Xref!SourceFile, Xref!files, Xref!documents, Xref!client, Xref!hashes, Xref!call,
       Xref!history
  <1>15. CASE Xref!Clean
    BY <1>15 DEF Xref!Clean, Xref!Goto, Xref!Fail, Xref!Absent, Xref!files, Xref!documents,
       Xref!client, Xref!hashes, Xref!call, Xref!history
  <1>16. CASE Xref!Delete
    BY <1>16 DEF Xref!Delete, Xref!Goto, Xref!Fail, Xref!Fails, Xref!Works, Xref!Foreign,
       Xref!files, Xref!documents, Xref!client, Xref!hashes, Xref!call, Xref!history
  <1>17. CASE Xref!Answer
    BY <1>17 DEF Xref!Answer, Xref!Goto, Xref!files, Xref!documents, Xref!client, Xref!hashes,
       Xref!call, Xref!history
  <1>18. CASE Xref!WriteSource
    BY <1>18 DEF Xref!WriteSource, Xref!Happens, Xref!files, Xref!documents, Xref!client,
       Xref!hashes, Xref!call, Xref!history
  <1>19. CASE Xref!WriteOutput
    BY <1>19 DEF Xref!WriteOutput, Xref!Happens, Xref!Foreign, Xref!files, Xref!documents,
       Xref!client, Xref!hashes, Xref!call, Xref!history
  <1>20. ASSUME NEW d \in Xref!Documents, Xref!WriteDrawing(d) PROVE QuietInv'
    BY <1>20 DEF Xref!WriteDrawing, Xref!Happens, Xref!files, Xref!documents, Xref!client,
       Xref!hashes, Xref!call, Xref!history
  <1>21. ASSUME NEW d \in Xref!Documents, Xref!Edit(d) PROVE QuietInv'
    BY <1>21 DEF Xref!Edit, Xref!Happens, Xref!files, Xref!documents, Xref!client,
       Xref!hashes, Xref!call, Xref!history
  <1>22. ASSUME NEW d \in Xref!Documents, Xref!SaveDocument(d) PROVE QuietInv'
    BY <1>22 DEF Xref!SaveDocument, Xref!Happens, Xref!files, Xref!documents, Xref!client,
       Xref!hashes, Xref!call, Xref!history
  <1>23. ASSUME NEW d \in Xref!Documents, Xref!Reload(d) PROVE QuietInv'
    BY <1>23 DEF Xref!Reload, Xref!Happens, Xref!files, Xref!documents, Xref!client,
       Xref!hashes, Xref!call, Xref!history
  <1>24. CASE UNCHANGED Xref!vars
    BY <1>24 DEF Xref!vars, Xref!files, Xref!documents, Xref!client, Xref!hashes, Xref!call,
       Xref!history
  <1> QED
    BY <1>1, <1>2, <1>3, <1>4, <1>5, <1>6, <1>7, <1>8, <1>9, <1>10, <1>11, <1>12, <1>13,
       <1>14, <1>15, <1>16, <1>17, <1>18, <1>19, <1>20, <1>21, <1>22, <1>23, <1>24 DEF
       Xref!Next, Xref!Plugin

\* Together they are inductive.
LEMMA XrefInvariant ==
    ASSUME XrefBounds
    PROVE  Xref!Spec => []XrefInv
  <1>1. Xref!Init => XrefInv
    <2> SUFFICES ASSUME Xref!Init
                 PROVE  XrefInv
      OBVIOUS
    <2> USE DEF Xref!Init
    <2>1. XrefTyped
      BY DEF XrefBounds, XrefTyped, Xref!Versions, Xref!AtMostOne
    <2>2. CallInv /\ ReadInv
      BY DEF CallInv, ReadInv, Preparing, Written, Judged
    <2>3. OutputInv /\ SeenInv /\ QuietInv
      BY DEF OutputInv, SeenInv, QuietInv, Preparing, Written
    <2> QED
      BY <2>1, <2>2, <2>3 DEF XrefInv
  <1>2. XrefBounds /\ XrefInv /\ [Xref!Next]_(Xref!vars) => XrefInv'
    BY XrefTypedStep, CallStep, ReadStep, OutputStep, SeenStep, QuietStep DEF XrefInv
  <1> QED
    BY <1>1, <1>2, PTL DEF Xref!Spec

\* An inspection or extraction that is accepted read the files it names,
\* unless the documents in AutoCAD were not what those hold; its candidate is
\* accounted for, no other program's file is lost that was seen, and when the
\* parameters name the request an undisturbed extraction succeeds
\* (ExactBaseXrefPolicy, AutoCadExactBaseXrefReader, exact_base_xref.py).
THEOREM ExtractionsAreTrue ==
    ASSUME XrefBounds
    PROVE  Xref!Spec => []Xref!OutputsAreTrue
  <1>1. XrefInv => Xref!OutputsAreTrue
    <2> SUFFICES ASSUME XrefInv
                 PROVE  Xref!OutputsAreTrue
      OBVIOUS
    <2> USE DEF XrefInv
    <2>1. Xref!TypeOK
      BY DEF XrefTyped, Xref!TypeOK, XrefBounds
    <2>2. Xref!EvidenceIsOfTheFiles
      BY DEF CallInv, ReadInv, Xref!EvidenceIsOfTheFiles
    <2>3. Xref!OutputIsAccountedFor
      BY DEF OutputInv, Xref!OutputIsAccountedFor, Xref!Done
    <2>4. Xref!OthersSurvive
      BY DEF SeenInv, Xref!OthersSurvive
    <2>5. NamesRequest => Xref!UndisturbedSucceeds
      <3> SUFFICES ASSUME NamesRequest, Xref!Done("extract", "failure"), excuse = {}, ~(xEvents > 0)
                   PROVE  FALSE
        BY DEF Xref!UndisturbedSucceeds
      <3>1. xEvents = 0
        BY DEF XrefTyped, Xref!Versions, XrefBounds
      <3> QED
        BY <3>1 DEF QuietInv, Xref!Done
    <2> QED
      BY <2>1, <2>2, <2>3, <2>4, <2>5 DEF Xref!OutputsAreTrue
  <1> QED
    BY <1>1, XrefInvariant, PTL

(***************************************************************************)
(* The bounded line edit in AutoCAD (NativeLineEdit), for any number of    *)
(* executions and of writes by another program.                            *)
(***************************************************************************)
EditBounds == MaxAttempts \in Nat \ {0}

EditTyped ==
    /\ eDisk \in [geo : Edit!Geometries, sha : Nat, file : Nat]
    /\ eMemory \in Edit!Memories
    /\ edit \in [pc : Edit!Pcs, custody : Nat, sha : Nat, expected : Nat, after : Nat,
                 report : Edit!Reports]
    /\ (edit.pc = "done" <=> edit.report # "none")
    /\ attempts \in 1..MaxAttempts
    /\ origin \in [memory : Edit!Memories, saves : SUBSET Nat]
    /\ saves \subseteq Nat /\ eForeign \subseteq Edit!ForeignWrites /\ eLost \subseteq eForeign

\* Revisions and files only grow, and no write repeats a revision.
GrowInv ==
    /\ edit.sha <= eDisk.sha /\ edit.expected <= eDisk.sha /\ edit.custody <= eDisk.file
    /\ \A s \in saves : s > 0 /\ s <= eDisk.sha
    /\ \A w \in eForeign : w.sha > 0 /\ w.sha <= eDisk.sha

\* An execution that gets as far as moving lines found the bytes of the
\* request, which nobody has saved over, and the drawing as it was.
Checked == {"recheck", "edit", "moved", "aborted", "committed", "save"}

FoundInv ==
    /\ edit.pc \in Checked => edit.sha = 0
    /\ edit.pc \in Checked \cup {"check"} /\ edit.sha = 0 => saves = {}
    /\ edit.pc \in {"adopt", "sign", "reopen"} => \E s \in saves : saves = {s}
    /\ edit.pc \in {"start", "hash", "check", "recheck", "edit", "moved", "aborted"} =>
         saves = origin.saves
    /\ edit.pc \in {"start", "hash", "check", "recheck", "edit"} => eMemory = origin.memory
    /\ edit.pc \in {"edit", "moved", "aborted"} => origin.memory = [geo |-> "before", dirty |-> FALSE]

\* The last look at the file was at what the edit is about to overwrite, or
\* the file has been written since.
Unseen(w, step) == w.at = step /\ (w.replaced => edit.custody < eDisk.file)

LookInv ==
    /\ \A w \in eForeign :
         /\ edit.pc = "save" /\ w.sha = eDisk.sha => Unseen(w, "save")
         /\ edit.pc = "adopt" /\ w.sha = eDisk.sha => w.at = "adopt"
         /\ edit.pc = "sign" /\ w.sha = eDisk.sha =>
              w.at = "adopt" \/ Unseen(w, "sign")
         /\ edit.pc = "rollback_save" /\ w.sha = eDisk.sha =>
              eDisk.sha = edit.expected \/ Unseen(w, "rollback_save")
         /\ edit.pc \in {"reopen", "restore", "persist", "rollback_save"} /\ w.sha = edit.expected =>
              w.at \in {"adopt", "sign"} /\ (w.replaced => w.at = "adopt")
    /\ edit.pc \in Checked \cup {"check"} => edit.expected = edit.sha
    /\ edit.pc \in {"adopt", "sign"} => edit.expected = 0

\* What was read back, unless it was written meanwhile.
ReadBackInv ==
    /\ edit.pc = "reopen" => eDisk.sha = edit.after \/ ~Edit!Quiet({"reopen"})
    /\ edit.pc \in {"persist", "rollback_save", "rollback_adopt", "rollback_reopen"} =>
         eMemory.geo = "before"
    /\ edit.pc \in {"rollback_adopt", "rollback_reopen"} =>
         eDisk.sha \in saves \/ ~Edit!Quiet({"rollback_adopt", "rollback_reopen"})

EditInv ==
    /\ EditTyped /\ GrowInv /\ FoundInv /\ LookInv /\ ReadBackInv
    /\ Edit!ReportIsTrue /\ Edit!OverwritesOnlyInWindows

-----------------------------------------------------------------------------
\* Every step of the edit keeps the types.
LEMMA EditTypedStep ==
    ASSUME EditBounds, EditInv, [Edit!Next]_(Edit!vars)
    PROVE  EditTyped'
<1> USE DEF EditInv, EditTyped, Edit!Geometries, Edit!Memories, Edit!Pcs, Edit!Reports,
   Edit!ForeignWrites, EditBounds, Edit!At, Edit!histories
<1>1. CASE Edit!AcquireCustody
  BY <1>1 DEF Edit!AcquireCustody
<1>2. CASE Edit!Hash
  BY <1>2 DEF Edit!Hash, Edit!InCustody
<1>3. CASE Edit!Check
  BY <1>3 DEF Edit!Check, Edit!ValidateBeforeWrite, Edit!RequestSha
<1>4. CASE Edit!Recheck
  BY <1>4 DEF Edit!Recheck, Edit!InCustody, Edit!ValidateBeforeWrite, Edit!RequestSha
<1>5. CASE Edit!MoveLines
  BY <1>5 DEF Edit!MoveLines
<1>6. CASE Edit!Commit
  BY <1>6 DEF Edit!Commit
<1>7. CASE Edit!AllowSave
  BY <1>7 DEF Edit!AllowSave, Edit!InCustody
<1>8. CASE Edit!Save
  <2>1. /\ edit.pc = "save" /\ UNCHANGED <<attempts, origin, eForeign>>
        /\ eDisk' = [geo |-> eMemory.geo, sha |-> eDisk.sha + 1, file |-> eDisk.file + 1]
        /\ eMemory' = [eMemory EXCEPT !.dirty = FALSE]
        /\ edit' = [edit EXCEPT !.pc = "adopt"]
        /\ saves' = saves \cup {eDisk.sha + 1}
        /\ eLost' = eLost \cup {w \in eForeign : w.sha = eDisk.sha}
    BY <1>8 DEF Edit!Save, Edit!SaveOwnedCandidate
  <2>2. eDisk' \in [geo : Edit!Geometries, sha : Nat, file : Nat] /\ eMemory' \in Edit!Memories
    <3>1. eDisk' \in [geo : Edit!Geometries, sha : Nat, file : Nat]
      BY <2>1
    <3>2. eMemory' = [geo |-> eMemory.geo, dirty |-> FALSE]
      BY <2>1
    <3>3. eMemory' \in Edit!Memories
      BY <3>2
    <3>. QED BY <3>1, <3>3
  <2>3. edit' \in [pc : Edit!Pcs, custody : Nat, sha : Nat, expected : Nat, after : Nat,
                  report : Edit!Reports]
    BY <2>1
  <2>4. edit'.pc # "done" /\ edit'.report = edit.report /\ edit.report = "none"
    BY <2>1
  <2>5. saves' \subseteq Nat /\ eLost' \subseteq eForeign'
    BY <2>1
  <2>. QED BY <2>1, <2>2, <2>3, <2>4, <2>5
<1>9. CASE Edit!Adopt
  BY <1>9 DEF Edit!Adopt
<1>10. CASE Edit!Sign
  BY <1>10 DEF Edit!Sign, Edit!InCustody
<1>11. CASE Edit!Reopen
  BY <1>11 DEF Edit!Reopen, Edit!InCustody, Edit!Report
<1>12. CASE Edit!RestoreInMemoryOnly
  <2>1. /\ edit' = [edit EXCEPT !.pc = "done", !.report = "UNCERTAIN"]
        /\ UNCHANGED <<eDisk, attempts, origin, saves, eForeign, eLost>>
    BY <1>12 DEF Edit!RestoreInMemoryOnly, Edit!Report
  <2>2. eMemory' \in Edit!Memories
    <3>1. PICK geo \in {"before", eMemory.geo} : eMemory' = [geo |-> geo, dirty |-> TRUE]
      BY <1>12 DEF Edit!RestoreInMemoryOnly
    <3>. QED BY <3>1
  <2>. QED BY <2>1, <2>2
<1>13. CASE Edit!FailBeforeEdit
  BY <1>13 DEF Edit!FailBeforeEdit, Edit!Report
<1>14. CASE Edit!Abort
  BY <1>14 DEF Edit!Abort
<1>15. CASE Edit!VerifyUnchanged
  BY <1>15 DEF Edit!VerifyUnchanged, Edit!Report
<1>16. CASE Edit!FailAfterCommit
  BY <1>16 DEF Edit!FailAfterCommit
<1>17. CASE Edit!Restore
  BY <1>17 DEF Edit!Restore, Edit!InCustody
<1>18. CASE Edit!AllowRollback
  BY <1>18 DEF Edit!AllowRollback
<1>19. CASE Edit!RollbackSave
  <2>1. /\ edit.pc = "rollback_save" /\ UNCHANGED <<attempts, origin, eForeign>>
        /\ eDisk' = [geo |-> eMemory.geo, sha |-> eDisk.sha + 1, file |-> eDisk.file + 1]
        /\ eMemory' = [eMemory EXCEPT !.dirty = FALSE]
        /\ edit' = [edit EXCEPT !.pc = "rollback_adopt"]
        /\ saves' = saves \cup {eDisk.sha + 1}
        /\ eLost' = eLost \cup {w \in eForeign : w.sha = eDisk.sha}
    BY <1>19 DEF Edit!RollbackSave, Edit!SaveOwnedCandidate
  <2>2. eDisk' \in [geo : Edit!Geometries, sha : Nat, file : Nat] /\ eMemory' \in Edit!Memories
    <3>1. eDisk' \in [geo : Edit!Geometries, sha : Nat, file : Nat]
      BY <2>1
    <3>2. eMemory' = [geo |-> eMemory.geo, dirty |-> FALSE]
      BY <2>1
    <3>3. eMemory' \in Edit!Memories
      BY <3>2
    <3>. QED BY <3>1, <3>3
  <2>3. edit' \in [pc : Edit!Pcs, custody : Nat, sha : Nat, expected : Nat, after : Nat,
                  report : Edit!Reports]
    BY <2>1
  <2>4. edit'.pc # "done" /\ edit'.report = edit.report /\ edit.report = "none"
    BY <2>1
  <2>5. saves' \subseteq Nat /\ eLost' \subseteq eForeign'
    BY <2>1
  <2>. QED BY <2>1, <2>2, <2>3, <2>4, <2>5
<1>20. CASE Edit!RollbackReopen
  BY <1>20 DEF Edit!RollbackReopen, Edit!InCustody, Edit!Report
<1>21. CASE Edit!RollbackFails
  BY <1>21 DEF Edit!RollbackFails, Edit!Report
<1>22. CASE Edit!ForeignWrite
  BY <1>22 DEF Edit!ForeignWrite
<1>23. CASE Edit!Again
  BY <1>23 DEF Edit!Again, Edit!Start
<1>24. CASE UNCHANGED Edit!vars
  BY <1>24 DEF Edit!vars
<1>. QED
  BY <1>1, <1>2, <1>3, <1>4, <1>5, <1>6, <1>7, <1>8, <1>9, <1>10, <1>11, <1>12, <1>13, <1>14,
     <1>15, <1>16, <1>17, <1>18, <1>19, <1>20, <1>21, <1>22, <1>23, <1>24 DEF Edit!Next,
     Edit!Apply, Edit!Catch

\* A write makes the next revision, and a replacement the next file.
LEMMA GrowStep ==
    ASSUME EditBounds, EditInv, [Edit!Next]_(Edit!vars)
    PROVE  GrowInv'
<1> USE DEF EditInv, EditTyped, Edit!Geometries, Edit!Memories, Edit!Pcs, Edit!Reports,
   Edit!ForeignWrites, GrowInv, Edit!At, Edit!histories
<1>1. CASE Edit!AcquireCustody
  BY <1>1 DEF Edit!AcquireCustody
<1>2. CASE Edit!Hash
  BY <1>2 DEF Edit!Hash, Edit!InCustody
<1>3. CASE Edit!Check
  BY <1>3 DEF Edit!Check, Edit!ValidateBeforeWrite, Edit!RequestSha
<1>4. CASE Edit!Recheck
  BY <1>4 DEF Edit!Recheck, Edit!InCustody, Edit!ValidateBeforeWrite, Edit!RequestSha
<1>5. CASE Edit!MoveLines
  BY <1>5 DEF Edit!MoveLines
<1>6. CASE Edit!Commit
  BY <1>6 DEF Edit!Commit
<1>7. CASE Edit!AllowSave
  BY <1>7 DEF Edit!AllowSave, Edit!InCustody
<1>8. CASE Edit!Save
  BY <1>8 DEF Edit!Save, Edit!SaveOwnedCandidate, Edit!InCustody
<1>9. CASE Edit!Adopt
  BY <1>9 DEF Edit!Adopt
<1>10. CASE Edit!Sign
  BY <1>10 DEF Edit!Sign, Edit!InCustody
<1>11. CASE Edit!Reopen
  BY <1>11 DEF Edit!Reopen, Edit!InCustody, Edit!Report
<1>12. CASE Edit!RestoreInMemoryOnly
  BY <1>12 DEF Edit!RestoreInMemoryOnly, Edit!InCustody, Edit!Report
<1>13. CASE Edit!FailBeforeEdit
  BY <1>13 DEF Edit!FailBeforeEdit, Edit!Report
<1>14. CASE Edit!Abort
  BY <1>14 DEF Edit!Abort
<1>15. CASE Edit!VerifyUnchanged
  BY <1>15 DEF Edit!VerifyUnchanged, Edit!Report
<1>16. CASE Edit!FailAfterCommit
  BY <1>16 DEF Edit!FailAfterCommit
<1>17. CASE Edit!Restore
  BY <1>17 DEF Edit!Restore, Edit!InCustody
<1>18. CASE Edit!AllowRollback
  BY <1>18 DEF Edit!AllowRollback
<1>19. CASE Edit!RollbackSave
  BY <1>19 DEF Edit!RollbackSave, Edit!SaveOwnedCandidate, Edit!InCustody
<1>20. CASE Edit!RollbackReopen
  BY <1>20 DEF Edit!RollbackReopen, Edit!InCustody, Edit!Report
<1>21. CASE Edit!RollbackFails
  BY <1>21 DEF Edit!RollbackFails, Edit!Report
<1>22. CASE Edit!ForeignWrite
  BY <1>22 DEF Edit!ForeignWrite
<1>23. CASE Edit!Again
  BY <1>23 DEF Edit!Again, Edit!Start
<1>24. CASE UNCHANGED Edit!vars
  BY <1>24 DEF Edit!vars
<1>. QED
  BY <1>1, <1>2, <1>3, <1>4, <1>5, <1>6, <1>7, <1>8, <1>9, <1>10, <1>11, <1>12, <1>13, <1>14,
     <1>15, <1>16, <1>17, <1>18, <1>19, <1>20, <1>21, <1>22, <1>23, <1>24 DEF Edit!Next,
     Edit!Apply, Edit!Catch

\* What the checks find is found before anything is saved.
LEMMA FoundStep ==
    ASSUME EditBounds, EditInv, [Edit!Next]_(Edit!vars)
    PROVE  FoundInv'
<1> USE DEF EditInv, EditTyped, Edit!Geometries, Edit!Memories, Edit!Pcs, Edit!Reports,
   Edit!ForeignWrites, GrowInv, FoundInv, Checked, Edit!At, Edit!histories
<1>1. CASE Edit!AcquireCustody
  BY <1>1 DEF Edit!AcquireCustody
<1>2. CASE Edit!Hash
  BY <1>2 DEF Edit!Hash, Edit!InCustody
<1>3. CASE Edit!Check
  BY <1>3 DEF Edit!Check, Edit!ValidateBeforeWrite, Edit!RequestSha
<1>4. CASE Edit!Recheck
  BY <1>4 DEF Edit!Recheck, Edit!InCustody, Edit!ValidateBeforeWrite, Edit!RequestSha
<1>5. CASE Edit!MoveLines
  BY <1>5 DEF Edit!MoveLines
<1>6. CASE Edit!Commit
  BY <1>6 DEF Edit!Commit
<1>7. CASE Edit!AllowSave
  BY <1>7 DEF Edit!AllowSave, Edit!InCustody
<1>8. CASE Edit!Save
  BY <1>8 DEF Edit!Save, Edit!SaveOwnedCandidate, Edit!InCustody
<1>9. CASE Edit!Adopt
  BY <1>9 DEF Edit!Adopt
<1>10. CASE Edit!Sign
  BY <1>10 DEF Edit!Sign, Edit!InCustody
<1>11. CASE Edit!Reopen
  BY <1>11 DEF Edit!Reopen, Edit!InCustody, Edit!Report
<1>12. CASE Edit!RestoreInMemoryOnly
  BY <1>12 DEF Edit!RestoreInMemoryOnly, Edit!InCustody, Edit!Report
<1>13. CASE Edit!FailBeforeEdit
  BY <1>13 DEF Edit!FailBeforeEdit, Edit!Report
<1>14. CASE Edit!Abort
  BY <1>14 DEF Edit!Abort
<1>15. CASE Edit!VerifyUnchanged
  BY <1>15 DEF Edit!VerifyUnchanged, Edit!Report
<1>16. CASE Edit!FailAfterCommit
  BY <1>16 DEF Edit!FailAfterCommit
<1>17. CASE Edit!Restore
  BY <1>17 DEF Edit!Restore, Edit!InCustody
<1>18. CASE Edit!AllowRollback
  BY <1>18 DEF Edit!AllowRollback
<1>19. CASE Edit!RollbackSave
  BY <1>19 DEF Edit!RollbackSave, Edit!SaveOwnedCandidate, Edit!InCustody
<1>20. CASE Edit!RollbackReopen
  BY <1>20 DEF Edit!RollbackReopen, Edit!InCustody, Edit!Report
<1>21. CASE Edit!RollbackFails
  BY <1>21 DEF Edit!RollbackFails, Edit!Report
<1>22. CASE Edit!ForeignWrite
  BY <1>22 DEF Edit!ForeignWrite
<1>23. CASE Edit!Again
  BY <1>23 DEF Edit!Again, Edit!Start
<1>24. CASE UNCHANGED Edit!vars
  BY <1>24 DEF Edit!vars
<1>. QED
  BY <1>1, <1>2, <1>3, <1>4, <1>5, <1>6, <1>7, <1>8, <1>9, <1>10, <1>11, <1>12, <1>13, <1>14,
     <1>15, <1>16, <1>17, <1>18, <1>19, <1>20, <1>21, <1>22, <1>23, <1>24 DEF Edit!Next,
     Edit!Apply, Edit!Catch

\* A write after the last look is one of its window.
LEMMA LookStep ==
    ASSUME EditBounds, EditInv, [Edit!Next]_(Edit!vars)
    PROVE  LookInv'
<1> USE DEF EditInv, EditTyped, Edit!Geometries, Edit!Memories, Edit!Pcs, Edit!Reports,
   Edit!ForeignWrites, GrowInv, FoundInv, LookInv, Unseen, Checked, Edit!At, Edit!histories
<1>1. CASE Edit!AcquireCustody
  BY <1>1 DEF Edit!AcquireCustody
<1>2. CASE Edit!Hash
  BY <1>2 DEF Edit!Hash, Edit!InCustody
<1>3. CASE Edit!Check
  BY <1>3 DEF Edit!Check, Edit!ValidateBeforeWrite, Edit!RequestSha
<1>4. CASE Edit!Recheck
  BY <1>4 DEF Edit!Recheck, Edit!InCustody, Edit!ValidateBeforeWrite, Edit!RequestSha
<1>5. CASE Edit!MoveLines
  BY <1>5 DEF Edit!MoveLines
<1>6. CASE Edit!Commit
  BY <1>6 DEF Edit!Commit
<1>7. CASE Edit!AllowSave
  BY <1>7 DEF Edit!AllowSave, Edit!InCustody
<1>8. CASE Edit!Save
  BY <1>8 DEF Edit!Save, Edit!SaveOwnedCandidate, Edit!InCustody
<1>9. CASE Edit!Adopt
  BY <1>9 DEF Edit!Adopt
<1>10. CASE Edit!Sign
  BY <1>10 DEF Edit!Sign, Edit!InCustody
<1>11. CASE Edit!Reopen
  BY <1>11 DEF Edit!Reopen, Edit!InCustody, Edit!Report
<1>12. CASE Edit!RestoreInMemoryOnly
  BY <1>12 DEF Edit!RestoreInMemoryOnly, Edit!InCustody, Edit!Report
<1>13. CASE Edit!FailBeforeEdit
  BY <1>13 DEF Edit!FailBeforeEdit, Edit!Report
<1>14. CASE Edit!Abort
  BY <1>14 DEF Edit!Abort
<1>15. CASE Edit!VerifyUnchanged
  BY <1>15 DEF Edit!VerifyUnchanged, Edit!Report
<1>16. CASE Edit!FailAfterCommit
  BY <1>16 DEF Edit!FailAfterCommit
<1>17. CASE Edit!Restore
  BY <1>17 DEF Edit!Restore, Edit!InCustody
<1>18. CASE Edit!AllowRollback
  BY <1>18 DEF Edit!AllowRollback
<1>19. CASE Edit!RollbackSave
  BY <1>19 DEF Edit!RollbackSave, Edit!SaveOwnedCandidate, Edit!InCustody
<1>20. CASE Edit!RollbackReopen
  BY <1>20 DEF Edit!RollbackReopen, Edit!InCustody, Edit!Report
<1>21. CASE Edit!RollbackFails
  BY <1>21 DEF Edit!RollbackFails, Edit!Report
<1>22. CASE Edit!ForeignWrite
  BY <1>22 DEF Edit!ForeignWrite
<1>23. CASE Edit!Again
  BY <1>23 DEF Edit!Again, Edit!Start
<1>24. CASE UNCHANGED Edit!vars
  BY <1>24 DEF Edit!vars
<1>. QED
  BY <1>1, <1>2, <1>3, <1>4, <1>5, <1>6, <1>7, <1>8, <1>9, <1>10, <1>11, <1>12, <1>13, <1>14,
     <1>15, <1>16, <1>17, <1>18, <1>19, <1>20, <1>21, <1>22, <1>23, <1>24 DEF Edit!Next,
     Edit!Apply, Edit!Catch

\* What is read back stays, or a write tells.
LEMMA ReadBackStep ==
    ASSUME EditBounds, EditInv, [Edit!Next]_(Edit!vars)
    PROVE  ReadBackInv'
<1> USE DEF EditInv, EditTyped, Edit!Geometries, Edit!Memories, Edit!Pcs, Edit!Reports,
   Edit!ForeignWrites, GrowInv, FoundInv, ReadBackInv, Edit!Quiet, Edit!At, Edit!histories
<1>1. CASE Edit!AcquireCustody
  BY <1>1 DEF Edit!AcquireCustody
<1>2. CASE Edit!Hash
  BY <1>2 DEF Edit!Hash, Edit!InCustody
<1>3. CASE Edit!Check
  BY <1>3 DEF Edit!Check, Edit!ValidateBeforeWrite, Edit!RequestSha
<1>4. CASE Edit!Recheck
  BY <1>4 DEF Edit!Recheck, Edit!InCustody, Edit!ValidateBeforeWrite, Edit!RequestSha
<1>5. CASE Edit!MoveLines
  BY <1>5 DEF Edit!MoveLines
<1>6. CASE Edit!Commit
  BY <1>6 DEF Edit!Commit
<1>7. CASE Edit!AllowSave
  BY <1>7 DEF Edit!AllowSave, Edit!InCustody
<1>8. CASE Edit!Save
  BY <1>8 DEF Edit!Save, Edit!SaveOwnedCandidate, Edit!InCustody
<1>9. CASE Edit!Adopt
  BY <1>9 DEF Edit!Adopt
<1>10. CASE Edit!Sign
  BY <1>10 DEF Edit!Sign, Edit!InCustody
<1>11. CASE Edit!Reopen
  BY <1>11 DEF Edit!Reopen, Edit!InCustody, Edit!Report
<1>12. CASE Edit!RestoreInMemoryOnly
  BY <1>12 DEF Edit!RestoreInMemoryOnly, Edit!InCustody, Edit!Report
<1>13. CASE Edit!FailBeforeEdit
  BY <1>13 DEF Edit!FailBeforeEdit, Edit!Report
<1>14. CASE Edit!Abort
  BY <1>14 DEF Edit!Abort
<1>15. CASE Edit!VerifyUnchanged
  BY <1>15 DEF Edit!VerifyUnchanged, Edit!Report
<1>16. CASE Edit!FailAfterCommit
  BY <1>16 DEF Edit!FailAfterCommit
<1>17. CASE Edit!Restore
  BY <1>17 DEF Edit!Restore, Edit!InCustody
<1>18. CASE Edit!AllowRollback
  BY <1>18 DEF Edit!AllowRollback
<1>19. CASE Edit!RollbackSave
  BY <1>19 DEF Edit!RollbackSave, Edit!SaveOwnedCandidate, Edit!InCustody
<1>20. CASE Edit!RollbackReopen
  BY <1>20 DEF Edit!RollbackReopen, Edit!InCustody, Edit!Report
<1>21. CASE Edit!RollbackFails
  BY <1>21 DEF Edit!RollbackFails, Edit!Report
<1>22. CASE Edit!ForeignWrite
  <2>1. PICK geo \in Edit!Geometries, replaced \in BOOLEAN :
          eForeign' = eForeign \cup {[sha |-> eDisk.sha + 1, at |-> edit.pc, replaced |-> replaced]}
    BY <1>22 DEF Edit!ForeignWrite
  <2>2. \E w \in eForeign' : w.at = edit.pc
    <3>. DEFINE w == [sha |-> eDisk.sha + 1, at |-> edit.pc, replaced |-> replaced]
    <3>1. w \in eForeign' /\ w.at = edit.pc
      BY <2>1
    <3>. QED BY <3>1
  <2>3. edit' = edit /\ eMemory' = eMemory
    BY <1>22 DEF Edit!ForeignWrite
  <2>. QED BY <2>2, <2>3
<1>23. CASE Edit!Again
  BY <1>23 DEF Edit!Again, Edit!Start
<1>24. CASE UNCHANGED Edit!vars
  BY <1>24 DEF Edit!vars
<1>. QED
  BY <1>1, <1>2, <1>3, <1>4, <1>5, <1>6, <1>7, <1>8, <1>9, <1>10, <1>11, <1>12, <1>13, <1>14,
     <1>15, <1>16, <1>17, <1>18, <1>19, <1>20, <1>21, <1>22, <1>23, <1>24 DEF Edit!Next,
     Edit!Apply, Edit!Catch

\* A report is true where it is made, and nothing follows it.
LEMMA EditReportStep ==
    ASSUME EditBounds, EditInv, [Edit!Next]_(Edit!vars)
    PROVE  Edit!ReportIsTrue'
<1> USE DEF EditInv, EditTyped, Edit!Geometries, Edit!Memories, Edit!Pcs, Edit!Reports,
   Edit!ForeignWrites, FoundInv, ReadBackInv, Edit!ReportIsTrue, Edit!SavedIsTrue,
   Edit!RolledBackIsTrue, Edit!UnchangedIsTrue, Edit!Quiet, Edit!At, Edit!histories
<1>1. CASE Edit!AcquireCustody
  BY <1>1 DEF Edit!AcquireCustody
<1>2. CASE Edit!Hash
  BY <1>2 DEF Edit!Hash, Edit!InCustody
<1>3. CASE Edit!Check
  BY <1>3 DEF Edit!Check, Edit!ValidateBeforeWrite, Edit!RequestSha
<1>4. CASE Edit!Recheck
  BY <1>4 DEF Edit!Recheck, Edit!InCustody, Edit!ValidateBeforeWrite, Edit!RequestSha
<1>5. CASE Edit!MoveLines
  BY <1>5 DEF Edit!MoveLines
<1>6. CASE Edit!Commit
  BY <1>6 DEF Edit!Commit
<1>7. CASE Edit!AllowSave
  BY <1>7 DEF Edit!AllowSave, Edit!InCustody
<1>8. CASE Edit!Save
  BY <1>8 DEF Edit!Save, Edit!SaveOwnedCandidate, Edit!InCustody
<1>9. CASE Edit!Adopt
  BY <1>9 DEF Edit!Adopt
<1>10. CASE Edit!Sign
  BY <1>10 DEF Edit!Sign, Edit!InCustody
<1>11. CASE Edit!Reopen
  BY <1>11 DEF Edit!Reopen, Edit!InCustody, Edit!Report
<1>12. CASE Edit!RestoreInMemoryOnly
  BY <1>12 DEF Edit!RestoreInMemoryOnly, Edit!InCustody, Edit!Report
<1>13. CASE Edit!FailBeforeEdit
  BY <1>13 DEF Edit!FailBeforeEdit, Edit!Report
<1>14. CASE Edit!Abort
  BY <1>14 DEF Edit!Abort
<1>15. CASE Edit!VerifyUnchanged
  BY <1>15 DEF Edit!VerifyUnchanged, Edit!Report
<1>16. CASE Edit!FailAfterCommit
  BY <1>16 DEF Edit!FailAfterCommit
<1>17. CASE Edit!Restore
  BY <1>17 DEF Edit!Restore, Edit!InCustody
<1>18. CASE Edit!AllowRollback
  BY <1>18 DEF Edit!AllowRollback
<1>19. CASE Edit!RollbackSave
  BY <1>19 DEF Edit!RollbackSave, Edit!SaveOwnedCandidate, Edit!InCustody
<1>20. CASE Edit!RollbackReopen
  BY <1>20 DEF Edit!RollbackReopen, Edit!InCustody, Edit!Report
<1>21. CASE Edit!RollbackFails
  BY <1>21 DEF Edit!RollbackFails, Edit!Report
<1>22. CASE Edit!ForeignWrite
  BY <1>22 DEF Edit!ForeignWrite
<1>23. CASE Edit!Again
  BY <1>23 DEF Edit!Again, Edit!Start
<1>24. CASE UNCHANGED Edit!vars
  BY <1>24 DEF Edit!vars
<1>. QED
  BY <1>1, <1>2, <1>3, <1>4, <1>5, <1>6, <1>7, <1>8, <1>9, <1>10, <1>11, <1>12, <1>13, <1>14,
     <1>15, <1>16, <1>17, <1>18, <1>19, <1>20, <1>21, <1>22, <1>23, <1>24 DEF Edit!Next,
     Edit!Apply, Edit!Catch

\* A save destroys only what its window let in.
LEMMA OverwriteStep ==
    ASSUME EditBounds, EditInv, [Edit!Next]_(Edit!vars)
    PROVE  Edit!OverwritesOnlyInWindows'
<1> USE DEF EditInv, EditTyped, Edit!Geometries, Edit!Memories, Edit!Pcs, Edit!Reports,
   Edit!ForeignWrites, GrowInv, FoundInv, LookInv, Unseen, Checked,
   Edit!OverwritesOnlyInWindows, Edit!At, Edit!histories
<1>1. CASE Edit!AcquireCustody
  BY <1>1 DEF Edit!AcquireCustody
<1>2. CASE Edit!Hash
  BY <1>2 DEF Edit!Hash, Edit!InCustody
<1>3. CASE Edit!Check
  BY <1>3 DEF Edit!Check, Edit!ValidateBeforeWrite, Edit!RequestSha
<1>4. CASE Edit!Recheck
  BY <1>4 DEF Edit!Recheck, Edit!InCustody, Edit!ValidateBeforeWrite, Edit!RequestSha
<1>5. CASE Edit!MoveLines
  BY <1>5 DEF Edit!MoveLines
<1>6. CASE Edit!Commit
  BY <1>6 DEF Edit!Commit
<1>7. CASE Edit!AllowSave
  BY <1>7 DEF Edit!AllowSave, Edit!InCustody
<1>8. CASE Edit!Save
  BY <1>8 DEF Edit!Save, Edit!SaveOwnedCandidate, Edit!InCustody
<1>9. CASE Edit!Adopt
  BY <1>9 DEF Edit!Adopt
<1>10. CASE Edit!Sign
  BY <1>10 DEF Edit!Sign, Edit!InCustody
<1>11. CASE Edit!Reopen
  BY <1>11 DEF Edit!Reopen, Edit!InCustody, Edit!Report
<1>12. CASE Edit!RestoreInMemoryOnly
  BY <1>12 DEF Edit!RestoreInMemoryOnly, Edit!InCustody, Edit!Report
<1>13. CASE Edit!FailBeforeEdit
  BY <1>13 DEF Edit!FailBeforeEdit, Edit!Report
<1>14. CASE Edit!Abort
  BY <1>14 DEF Edit!Abort
<1>15. CASE Edit!VerifyUnchanged
  BY <1>15 DEF Edit!VerifyUnchanged, Edit!Report
<1>16. CASE Edit!FailAfterCommit
  BY <1>16 DEF Edit!FailAfterCommit
<1>17. CASE Edit!Restore
  BY <1>17 DEF Edit!Restore, Edit!InCustody
<1>18. CASE Edit!AllowRollback
  BY <1>18 DEF Edit!AllowRollback
<1>19. CASE Edit!RollbackSave
  BY <1>19 DEF Edit!RollbackSave, Edit!SaveOwnedCandidate, Edit!InCustody
<1>20. CASE Edit!RollbackReopen
  BY <1>20 DEF Edit!RollbackReopen, Edit!InCustody, Edit!Report
<1>21. CASE Edit!RollbackFails
  BY <1>21 DEF Edit!RollbackFails, Edit!Report
<1>22. CASE Edit!ForeignWrite
  BY <1>22 DEF Edit!ForeignWrite
<1>23. CASE Edit!Again
  BY <1>23 DEF Edit!Again, Edit!Start
<1>24. CASE UNCHANGED Edit!vars
  BY <1>24 DEF Edit!vars
<1>. QED
  BY <1>1, <1>2, <1>3, <1>4, <1>5, <1>6, <1>7, <1>8, <1>9, <1>10, <1>11, <1>12, <1>13, <1>14,
     <1>15, <1>16, <1>17, <1>18, <1>19, <1>20, <1>21, <1>22, <1>23, <1>24 DEF Edit!Next,
     Edit!Apply, Edit!Catch

\* EditInv is inductive.
LEMMA EditInvariant ==
    ASSUME EditBounds
    PROVE  Edit!Spec => []EditInv
<1>1. Edit!Init => EditInv
  <2>. SUFFICES ASSUME Edit!Init PROVE EditInv
    OBVIOUS
  <2>. USE DEF Edit!Init, Edit!Start, Edit!RequestSha, EditBounds
  <2>1. EditTyped
    BY DEF EditTyped, Edit!Geometries, Edit!Memories, Edit!Pcs, Edit!Reports
  <2>2. GrowInv /\ FoundInv /\ LookInv /\ ReadBackInv
    BY DEF GrowInv, FoundInv, LookInv, ReadBackInv, Checked
  <2>3. Edit!ReportIsTrue /\ Edit!OverwritesOnlyInWindows
    BY DEF Edit!ReportIsTrue, Edit!SavedIsTrue, Edit!RolledBackIsTrue, Edit!UnchangedIsTrue,
       Edit!OverwritesOnlyInWindows
  <2>. QED BY <2>1, <2>2, <2>3 DEF EditInv
<1>2. EditInv /\ [Edit!Next]_(Edit!vars) => EditInv'
  BY EditTypedStep, GrowStep, FoundStep, LookStep, ReadBackStep, EditReportStep, OverwriteStep
  DEF EditInv
<1>. QED BY <1>1, <1>2, PTL DEF Edit!Spec

\* Whatever another program writes between any two accesses to the file and
\* whichever step fails, the durable state an edit reports is true of the file
\* and of the open drawing, and it destroys only bytes that were written where
\* no hash could tell.
THEOREM EditsAreTrue ==
    ASSUME EditBounds
    PROVE  Edit!Spec => []Edit!OutputsAreTrue
<1>1. EditInv => Edit!OutputsAreTrue
  BY DEF EditInv, EditTyped, Edit!OutputsAreTrue, Edit!TypeOK, Edit!At
<1>. QED BY <1>1, EditInvariant, PTL

\* However often its request is executed, the edit is saved only over bytes
\* that no execution has written: a second execution finds another hash.
THEOREM EditsAreSavedOnce ==
    ASSUME EditBounds
    PROVE  Edit!Spec => EditSavedOnce
<1>1. EditInv => [Edit!At("save") /\ saves' # saves => saves = {}]_(Edit!vars)
  BY DEF EditInv, FoundInv, Checked, Edit!At
<1>. QED BY <1>1, EditInvariant, PTL DEF EditSavedOnce, Edit!EditSavedOnce

\* What a line edit, a native render and an extraction report is true, as the
\* three theorems before say of each of them.
THEOREM AllOutputsAreTrue ==
    ASSUME EditBounds, RenderBounds, XrefBounds
    PROVE  Edit!Spec /\ Render!Spec /\ Xref!Spec => []OutputsAreTrue
  <1> QED
    BY EditsAreTrue, RendersAreTrue, ExtractionsAreTrue, PTL DEF OutputsAreTrue

-----------------------------------------------------------------------------
(***************************************************************************)
(* The custody of the sources (SourceCustody), for any sources, files and  *)
(* number of events.                                                       *)
(***************************************************************************)
CustodyBounds == MaxEvents \in Nat

\* One of a set, or none.
Single(S) == {{}} \cup {{x} : x \in S}

CustodyTyped ==
    /\ cAt \in [Sources -> Single(Objects)] /\ cBytes \in [Objects -> Custody!Contents]
    /\ mapped \subseteq Objects
    /\ declared \in [Sources -> Custody!Contents] /\ readable \subseteq Custody!Contents
    /\ cCall \in Custody!Calls /\ current \in Single(Sources)
    /\ cPc \in {"idle", "next", "hash", "parser", "observe", "hash again", "reopen"}
    /\ cObject \in [Sources -> Single(Objects)]
    /\ seen \in [Sources -> Single(Custody!Contents)]
    /\ facts \in [Sources -> Single(Custody!Contents)]
    /\ cEvents \in 0..MaxEvents /\ wavered \in [Sources -> Nat]

\* An item is inspected through a handle, one at a time, and nothing is handed
\* on before all are recorded.
StepInv ==
    /\ cPc # "idle" => cCustody = {} /\ accepted = {}
    /\ cPc \in {"idle", "next"} <=> current = {}
    /\ \A s \in current : cObject[s] # {}
    /\ \A s \in Sources : cObject[s] = {} => seen[s] = {}
    /\ cPc \in {"parser", "observe", "hash again"} => cCall = "media"

\* Media facts differ from the declared bytes only where these were written
\* and written back.
FactsFit(s) == facts[s] = {declared[s]} \/ wavered[s] >= 2

SeenFits(s) ==
    /\ s \notin current /\ seen[s] # {} => seen[s] = {declared[s]} /\ (cCall = "media" => FactsFit(s))
    /\ s \in current /\ cCall = "media" =>
         /\ cPc \in {"parser", "observe", "hash again", "reopen"} => seen[s] = {declared[s]}
         /\ cPc \in {"parser", "observe"} => Custody!Read(s) = declared[s] \/ wavered[s] >= 1
         /\ cPc = "hash again" =>
              \/ facts[s] = {declared[s]}
              \/ wavered[s] >= 1 /\ (Custody!Read(s) = declared[s] => wavered[s] >= 2)
         /\ cPc = "reopen" => FactsFit(s)

SourceSeenInv == \A s \in Sources : SeenFits(s)

\* What was handed on is of the sources as they were read.
RecordInv ==
    /\ \A c \in cCustody \cup accepted :
         /\ c.state \in [Sources -> Custody!States] /\ c.status \in {"READY", "BLOCKED"}
         /\ c.status = "READY" => \A s, t \in Sources : s # t => cObject[s] # cObject[t]
    /\ \A c \in cCustody : \A s \in Sources :
         c.observed[s] = {declared[s]} /\ (cCall = "media" => FactsFit(s))

CustodyInv == CustodyTyped /\ StepInv /\ SourceSeenInv /\ RecordInv

-----------------------------------------------------------------------------
\* One of a set is a member of it.
LEMMA OneOf ==
    ASSUME NEW S, NEW X \in Single(S), X # {}
    PROVE  \E x \in S : X = {x}
BY DEF Single

\* What the bytes of a source are read through is its handle.
LEMMA HandleFacts ==
    ASSUME NEW s \in Sources, NEW o \in Objects, cObject[s] = {o}
    PROVE  Custody!HandleOf(s) = o /\ Custody!Read(s) = cBytes[o]
BY DEF Custody!HandleOf, Custody!Read

\* The bytes read through a handle are bytes.
LEMMA ReadIsBytes ==
    ASSUME CustodyTyped, NEW s \in Sources, cObject[s] # {}
    PROVE  Custody!Read(s) \in Custody!Contents
<1>1. cObject[s] \in Single(Objects)
  BY DEF CustodyTyped
<1>2. PICK o \in Objects : cObject[s] = {o}
  BY <1>1, OneOf
<1>3. Custody!Read(s) = cBytes[o]
  BY <1>2, HandleFacts
<1>. QED BY <1>3 DEF CustodyTyped

\* A write is counted for the sources whose handle is open on the object, and
\* no count is taken back.
LEMMA WriteWavers ==
    ASSUME CustodyTyped, NEW o \in Objects, Custody!Write(o)
    PROVE  /\ wavered' \in [Sources -> Nat]
           /\ \A t \in Sources :
                /\ wavered[t] \in Nat /\ wavered'[t] \in Nat /\ wavered'[t] >= wavered[t]
                /\ t \in Custody!Open_(o) => wavered'[t] = wavered[t] + 1
                /\ FactsFit(t) => FactsFit(t)'
<1>1. wavered' = [t \in Sources |-> wavered[t] + (IF t \in Custody!Open_(o) THEN 1 ELSE 0)]
  BY DEF Custody!Write
<1>2. facts' = facts /\ declared' = declared
  BY DEF Custody!Write, Custody!found, Custody!bundle
<1>3. ASSUME NEW t \in Sources
      PROVE  /\ wavered[t] \in Nat /\ wavered'[t] \in Nat /\ wavered'[t] >= wavered[t]
             /\ t \in Custody!Open_(o) => wavered'[t] = wavered[t] + 1
  <2>1. wavered[t] \in Nat
    BY DEF CustodyTyped
  <2>2. wavered'[t] = wavered[t] + (IF t \in Custody!Open_(o) THEN 1 ELSE 0)
    BY <1>1
  <2>. QED BY <2>1, <2>2
<1>4. wavered' \in [Sources -> Nat]
  BY <1>1, <1>3
<1>5. ASSUME NEW t \in Sources, FactsFit(t) PROVE FactsFit(t)'
  <2>1. facts'[t] = facts[t] /\ declared'[t] = declared[t]
    BY <1>2
  <2>2. CASE facts[t] = {declared[t]}
    BY <2>1, <2>2 DEF FactsFit
  <2>3. CASE wavered[t] >= 2
    <3>1. wavered'[t] >= 2
      BY <1>3, <2>3
    <3>. QED BY <3>1 DEF FactsFit
  <2>. QED BY <1>5, <2>2, <2>3 DEF FactsFit
<1>. QED BY <1>3, <1>4, <1>5

\* An event is one of at most so many.
LEMMA EventsBounded ==
    ASSUME CustodyBounds, CustodyTyped, Custody!Event
    PROVE  cEvents' \in 0..MaxEvents
<1>1. cEvents < MaxEvents /\ cEvents' = cEvents + 1
  BY DEF Custody!Event
<1>2. cEvents \in 0..MaxEvents
  BY DEF CustodyTyped
<1>3. MaxEvents \in Nat
  BY DEF CustodyBounds
<1>. QED BY <1>1, <1>2, <1>3

\* The groups of a custody whose reads agree are found valid: an object has one
\* group, and so have bytes that several objects share.
LEMMA GroupsHold ==
    ASSUME CustodyTyped, Custody!IdentityIsStable, NEW context,
           \A s \in Sources : cObject[s] # {} /\ seen[s] = {declared[s]}
    PROVE  Custody!CustodyHolds(Custody!Complete(context))
<1> DEFINE groups == Custody!AliasGroups
           c == Custody!Complete(context)
           Shared(s) == \E t \in Sources : t # s /\ cObject[t] = cObject[s]
<1>1. \A s \in Sources : s \in Custody!Aliased <=> Shared(s)
  BY DEF Custody!Aliased, Custody!AliasGroup, Custody!Many
<1>2. \A s, t \in Sources : cObject[s] = cObject[t] => declared[s] = declared[t]
  BY DEF Custody!IdentityIsStable
<1>3. \A s \in Sources : \E o : cObject[s] = {o}
  <2>. SUFFICES ASSUME NEW s \in Sources PROVE \E o : cObject[s] = {o}
    OBVIOUS
  <2>1. cObject[s] \in Single(Objects) /\ cObject[s] # {}
    BY DEF CustodyTyped
  <2>. QED BY <2>1 DEF Single
<1>4. ASSUME NEW s \in Custody!Aliased, NEW g, g = Custody!GroupOf("SAME_FILE_ALIAS", Custody!AliasGroup(s))
      PROVE  /\ g.type = "SAME_FILE_ALIAS" /\ g.members = {t \in Sources : cObject[t] = cObject[s]}
             /\ g.tokens = cObject[s] /\ g.sha = declared[s] /\ s \in g.members
  <2>1. s \in Sources
    BY DEF Custody!Aliased
  <2>2. g.type = "SAME_FILE_ALIAS" /\ g.members = {t \in Sources : cObject[t] = cObject[s]}
    BY <1>4 DEF Custody!GroupOf, Custody!AliasGroup
  <2>3. g.tokens = UNION {cObject[t] : t \in g.members}
    BY <1>4 DEF Custody!GroupOf
  <2>4. g.tokens = cObject[s]
    BY <2>1, <2>2, <2>3
  <2>5. g.sha = CHOOSE x \in Custody!Contents : \A t \in g.members : seen[t] = {x}
    BY <1>4 DEF Custody!GroupOf
  <2>6. \A t \in g.members : seen[t] = {declared[s]}
    BY <1>2, <2>1, <2>2
  <2>7. declared[s] \in Custody!Contents
    BY <2>1 DEF CustodyTyped
  <2>8. \A x \in Custody!Contents : (\A t \in g.members : seen[t] = {x}) => x = declared[s]
    BY <2>1, <2>2
  <2>9. g.sha = declared[s]
    BY <2>5, <2>6, <2>7, <2>8
  <2>. QED BY <2>1, <2>2, <2>4, <2>9
<1>5. ASSUME NEW s \in Sources \ Custody!Aliased, NEW g,
             g = Custody!GroupOf("DUPLICATE_BYTES", Custody!Duplicates(s))
      PROVE  /\ g.type = "DUPLICATE_BYTES"
             /\ g.members = {t \in Sources \ Custody!Aliased : declared[t] = declared[s]}
             /\ g.tokens = UNION {cObject[t] : t \in g.members} /\ g.sha = declared[s] /\ s \in g.members
  <2>2. g.type = "DUPLICATE_BYTES" /\ g.members = {t \in Sources \ Custody!Aliased : declared[t] = declared[s]}
    BY <1>5 DEF Custody!GroupOf, Custody!Duplicates
  <2>3. g.tokens = UNION {cObject[t] : t \in g.members}
    BY <1>5 DEF Custody!GroupOf
  <2>5. g.sha = CHOOSE x \in Custody!Contents : \A t \in g.members : seen[t] = {x}
    BY <1>5 DEF Custody!GroupOf
  <2>6. \A t \in g.members : seen[t] = {declared[s]}
    BY <2>2
  <2>7. declared[s] \in Custody!Contents
    BY DEF CustodyTyped
  <2>8. \A x \in Custody!Contents : (\A t \in g.members : seen[t] = {x}) => x = declared[s]
    BY <2>2
  <2>9. g.sha = declared[s]
    BY <2>5, <2>6, <2>7, <2>8
  <2>. QED BY <2>2, <2>3, <2>9
<1>6. \A g \in groups :
        \/ \E s \in Custody!Aliased : g = Custody!GroupOf("SAME_FILE_ALIAS", Custody!AliasGroup(s))
        \/ \E s \in Sources \ Custody!Aliased :
             /\ g = Custody!GroupOf("DUPLICATE_BYTES", Custody!Duplicates(s))
             /\ Custody!Many(Custody!Duplicates(s))
  BY DEF Custody!AliasGroups
<1>7. \A g \in groups : \A t \in g.members :
        \/ g.type = "SAME_FILE_ALIAS" /\ t \in Custody!Aliased
        \/ g.type = "DUPLICATE_BYTES" /\ t \in Sources \ Custody!Aliased
  <2>. SUFFICES ASSUME NEW g \in groups, NEW t \in g.members
                PROVE  \/ g.type = "SAME_FILE_ALIAS" /\ t \in Custody!Aliased
                       \/ g.type = "DUPLICATE_BYTES" /\ t \in Sources \ Custody!Aliased
    OBVIOUS
  <2>1. CASE \E s \in Custody!Aliased : g = Custody!GroupOf("SAME_FILE_ALIAS", Custody!AliasGroup(s))
    <3>1. PICK s \in Custody!Aliased : g = Custody!GroupOf("SAME_FILE_ALIAS", Custody!AliasGroup(s))
      BY <2>1
    <3>2. t \in Sources /\ cObject[t] = cObject[s] /\ g.type = "SAME_FILE_ALIAS"
      BY <1>4, <3>1
    <3>3. s \in Sources /\ Shared(s)
      BY <1>1 DEF Custody!Aliased
    <3>4. Shared(t)
      BY <3>2, <3>3
    <3>. QED BY <1>1, <3>2, <3>4
  <2>2. CASE \E s \in Sources \ Custody!Aliased : g = Custody!GroupOf("DUPLICATE_BYTES", Custody!Duplicates(s))
    BY <1>5, <2>2
  <2>. QED BY <1>6, <2>1, <2>2
<1>8. \A g \in groups : \A t \in g.members : Custody!StateOf(t, groups) = g.type
  <2>. SUFFICES ASSUME NEW g \in groups, NEW t \in g.members
                PROVE  Custody!StateOf(t, groups) = g.type
    OBVIOUS
  <2>1. (CHOOSE h \in groups : t \in h.members) \in groups /\ t \in (CHOOSE h \in groups : t \in h.members).members
    OBVIOUS
  <2>. HIDE DEF groups
  <2>. QED BY <1>7, <2>1 DEF Custody!StateOf
<1>9. \A s \in Sources : Custody!StateOf(s, groups) # "VERIFIED" => \E g \in groups : s \in g.members
  BY DEF Custody!StateOf
<1>10. /\ c.declared = declared /\ c.object = cObject /\ c.observed = seen /\ c.groups = groups
       /\ \A s \in Sources : c.state[s] = Custody!StateOf(s, groups)
       /\ c.status = IF \A s \in Sources : c.state[s] \in Custody!Eligible THEN "READY" ELSE "BLOCKED"
  BY DEF Custody!Complete
<1>11. ASSUME NEW g \in groups
       PROVE  Custody!GroupHolds(g) /\ Custody!GroupFits(c, g)
  <2>0. \A t \in g.members : c.state[t] = g.type /\ t \in Sources
    <3>1. \A t \in g.members : t \in Sources
      BY <1>7 DEF Custody!Aliased
    <3>. HIDE DEF groups, c
    <3>. QED BY <1>8, <1>10, <3>1
  <2>1. CASE \E s \in Custody!Aliased : g = Custody!GroupOf("SAME_FILE_ALIAS", Custody!AliasGroup(s))
    <3>1. PICK s \in Custody!Aliased : g = Custody!GroupOf("SAME_FILE_ALIAS", Custody!AliasGroup(s))
      BY <2>1
    <3>2. /\ g.type = "SAME_FILE_ALIAS" /\ g.members = {t \in Sources : cObject[t] = cObject[s]}
          /\ g.tokens = cObject[s] /\ g.sha = declared[s] /\ s \in g.members
      BY <1>4, <3>1
    <3>3. s \in Sources /\ Shared(s) /\ \E o : cObject[s] = {o}
      BY <1>1, <1>3 DEF Custody!Aliased
    <3>4. Custody!GroupHolds(g)
      BY <3>2, <3>3 DEF Custody!GroupHolds, Custody!Many
    <3>5. \A t \in g.members : seen[t] = {g.sha}
      BY <1>2, <3>2, <3>3
    <3>6. g.tokens = UNION {cObject[t] : t \in g.members}
      BY <3>2, <3>3
    <3>. HIDE DEF c, groups
    <3>. QED BY <1>10, <2>0, <3>2, <3>4, <3>5, <3>6 DEF Custody!GroupFits
  <2>2. CASE \E s \in Sources \ Custody!Aliased :
               /\ g = Custody!GroupOf("DUPLICATE_BYTES", Custody!Duplicates(s))
               /\ Custody!Many(Custody!Duplicates(s))
    <3>1. PICK s \in Sources \ Custody!Aliased :
               /\ g = Custody!GroupOf("DUPLICATE_BYTES", Custody!Duplicates(s))
               /\ Custody!Many(Custody!Duplicates(s))
      BY <2>2
    <3>2. /\ g.type = "DUPLICATE_BYTES"
          /\ g.members = {t \in Sources \ Custody!Aliased : declared[t] = declared[s]}
          /\ g.tokens = UNION {cObject[t] : t \in g.members} /\ g.sha = declared[s]
      BY <1>5, <3>1
    <3>3. g.members = Custody!Duplicates(s)
      BY <3>1 DEF Custody!GroupOf
    <3>4. \A t, u \in g.members : t # u => cObject[t] # cObject[u]
      BY <1>1, <3>2
    <3>5. Custody!Many(g.tokens)
      <4>1. PICK t \in g.members, u \in g.members : t # u
        BY <3>1, <3>3 DEF Custody!Many
      <4>2. PICK o : cObject[t] = {o}
        BY <1>3, <3>2
      <4>3. PICK p : cObject[u] = {p}
        BY <1>3, <3>2
      <4>4. o # p /\ o \in g.tokens /\ p \in g.tokens
        <5>1. o # p
          BY <3>4, <4>1, <4>2, <4>3
        <5>2. cObject[t] \subseteq g.tokens /\ cObject[u] \subseteq g.tokens
          BY <3>2, <4>1
        <5>. QED BY <4>2, <4>3, <5>1, <5>2
      <4>. QED BY <4>4 DEF Custody!Many
    <3>6. Custody!GroupHolds(g)
      BY <3>1, <3>2, <3>3, <3>5 DEF Custody!GroupHolds
    <3>7. \A t \in g.members : seen[t] = {g.sha}
      BY <3>2
    <3>. HIDE DEF c, groups
    <3>. QED BY <1>10, <2>0, <3>2, <3>4, <3>6, <3>7 DEF Custody!GroupFits
  <2>. QED BY <1>6, <2>1, <2>2
<1>12. ASSUME NEW g \in groups, NEW h \in groups, NEW t \in g.members, t \in h.members
       PROVE  g = h
  <2>1. CASE t \in Custody!Aliased
    <3>1. PICK s \in Custody!Aliased : g = Custody!GroupOf("SAME_FILE_ALIAS", Custody!AliasGroup(s))
      BY <1>6, <1>5, <2>1
    <3>2. PICK u \in Custody!Aliased : h = Custody!GroupOf("SAME_FILE_ALIAS", Custody!AliasGroup(u))
      BY <1>6, <1>5, <1>12, <2>1
    <3>3. cObject[t] = cObject[s] /\ cObject[t] = cObject[u]
      BY <1>4, <1>12, <3>1, <3>2
    <3>4. Custody!AliasGroup(s) = Custody!AliasGroup(u)
      BY <3>3 DEF Custody!AliasGroup
    <3>. QED BY <3>1, <3>2, <3>4
  <2>2. CASE t \notin Custody!Aliased
    <3>0. \A s \in Custody!Aliased : ~(t \in Custody!GroupOf("SAME_FILE_ALIAS", Custody!AliasGroup(s)).members)
      <4>. SUFFICES ASSUME NEW s \in Custody!Aliased,
                           t \in Custody!GroupOf("SAME_FILE_ALIAS", Custody!AliasGroup(s)).members
                    PROVE  FALSE
        OBVIOUS
      <4>1. t \in Sources /\ cObject[t] = cObject[s]
        BY <1>4
      <4>2. s \in Sources /\ Shared(s)
        BY <1>1 DEF Custody!Aliased
      <4>. QED BY <1>1, <2>2, <4>1, <4>2
    <3>1. PICK s \in Sources \ Custody!Aliased : g = Custody!GroupOf("DUPLICATE_BYTES", Custody!Duplicates(s))
      BY <1>6, <3>0
    <3>2. PICK u \in Sources \ Custody!Aliased : h = Custody!GroupOf("DUPLICATE_BYTES", Custody!Duplicates(u))
      BY <1>6, <1>12, <3>0
    <3>3. declared[t] = declared[s] /\ declared[t] = declared[u]
      BY <1>5, <1>12, <3>1, <3>2
    <3>4. Custody!Duplicates(s) = Custody!Duplicates(u)
      BY <3>3 DEF Custody!Duplicates
    <3>. QED BY <3>1, <3>2, <3>4
  <2>. QED BY <2>1, <2>2
<1>13. \A s \in Sources : Custody!ItemHolds(c, s)
  BY <1>10 DEF Custody!ItemHolds
<1>14. Custody!StatusFits(c)
  <2>. HIDE DEF c, groups
  <2>. QED BY <1>10 DEF Custody!StatusFits
<1>15. \A g, h \in groups : g # h => g.members \cap h.members = {}
  BY <1>12
<1>. HIDE DEF c, groups
<1>. QED BY <1>9, <1>10, <1>11, <1>13, <1>14, <1>15 DEF Custody!CustodyHolds, c

\* A record that is valid and READY, with the groups of the sources, is of
\* distinct objects: the members of an alias group would not be eligible.
LEMMA ReadyIsOfDistinct ==
    ASSUME NEW c, Custody!CustodyHolds(c), c.groups = Custody!AliasGroups, c.status = "READY"
    PROVE  \A s, t \in Sources : s # t => cObject[s] # cObject[t]
<1> SUFFICES ASSUME NEW s \in Sources, NEW t \in Sources, s # t, cObject[s] = cObject[t]
             PROVE  FALSE
  OBVIOUS
<1> DEFINE g == Custody!GroupOf("SAME_FILE_ALIAS", Custody!AliasGroup(s))
<1>1. s \in Custody!Aliased
  BY DEF Custody!Aliased, Custody!AliasGroup, Custody!Many
<1>2. g \in Custody!AliasGroups
  BY <1>1 DEF Custody!AliasGroups
<1>3. g.type = "SAME_FILE_ALIAS" /\ s \in g.members
  BY DEF Custody!GroupOf, Custody!AliasGroup
<1>4. c.state[s] = "SAME_FILE_ALIAS"
  <2>. HIDE DEF g
  <2>. QED BY <1>2, <1>3 DEF Custody!CustodyHolds, Custody!GroupFits
<1>5. c.state[s] \in Custody!Eligible
  BY DEF Custody!CustodyHolds, Custody!StatusFits
<1>. QED BY <1>4, <1>5 DEF Custody!Eligible

\* Every step of a custody keeps the types.
LEMMA CustodyTypedStep ==
    ASSUME CustodyBounds, CustodyInv, [Custody!Next]_(Custody!vars)
    PROVE  CustodyTyped'
<1> USE DEF CustodyInv, CustodyTyped, Single, Custody!Contents, Custody!Calls, CustodyBounds,
   StepInv, Custody!files, Custody!bundle, Custody!found, Custody!returned, Custody!histories
<1>1. ASSUME NEW c \in Custody!Calls, Custody!Begin(c) PROVE CustodyTyped'
  BY <1>1 DEF Custody!Begin, Custody!Nothing
<1>2. ASSUME NEW s \in Sources, Custody!Open(s) PROVE CustodyTyped'
  BY <1>2 DEF Custody!Open
<1>3. ASSUME NEW s \in Sources, Custody!HashOnce(s) PROVE CustodyTyped'
  <2>1. current = {s} /\ cPc = "hash" /\ seen' = [seen EXCEPT ![s] = {Custody!Read(s)}] /\ cPc' = "reopen"
        /\ UNCHANGED <<cAt, cBytes, mapped, declared, readable, cCall, current, cObject, facts, cCustody,
                       accepted, cEvents, wavered>>
    BY <1>3 DEF Custody!HashOnce, Custody!Inspects
  <2>2. Custody!Read(s) \in Custody!Contents
    <3>1. cObject[s] # {}
      BY <2>1 DEF StepInv
    <3>. QED BY <3>1, ReadIsBytes
  <2>3. seen' \in [Sources -> Single(Custody!Contents)]
    <3>1. {Custody!Read(s)} \in Single(Custody!Contents)
      BY <2>2
    <3>2. seen \in [Sources -> Single(Custody!Contents)]
      OBVIOUS
    <3>. HIDE DEF Single, CustodyTyped
    <3>. QED BY <2>1, <3>1, <3>2
  <2>. QED BY <2>1, <2>3
<1>4. ASSUME NEW s \in Sources, Custody!Hash(s) PROVE CustodyTyped'
  BY <1>4 DEF Custody!Hash, Custody!Inspects
<1>5. ASSUME NEW s \in Sources, Custody!ParserHash(s) PROVE CustodyTyped'
  BY <1>5 DEF Custody!ParserHash, Custody!Inspects
<1>6. ASSUME NEW s \in Sources, Custody!Observe(s) PROVE CustodyTyped'
  BY <1>6 DEF Custody!Observe, Custody!Inspects
<1>7. ASSUME NEW s \in Sources, Custody!HashAgain(s) PROVE CustodyTyped'
  BY <1>7 DEF Custody!HashAgain, Custody!Inspects
<1>8. ASSUME NEW s \in Sources, Custody!RecordBytes(s) PROVE CustodyTyped'
  BY <1>8 DEF Custody!RecordBytes, Custody!Inspects, Custody!StillThere
<1>9. ASSUME NEW s \in Sources, Custody!RecordMedia(s) PROVE CustodyTyped'
  BY <1>9 DEF Custody!RecordMedia, Custody!Inspects, Custody!StillThere
<1>10. CASE Custody!Refuse
  BY <1>10 DEF Custody!Refuse, Custody!Nothing
<1>11. CASE Custody!Finish
  BY <1>11 DEF Custody!Finish, Custody!AllRecorded
<1>12. CASE Custody!FinishMatch
  BY <1>12 DEF Custody!FinishMatch, Custody!AllRecorded
<1>13. ASSUME NEW s \in Sources, Custody!Rename(s) PROVE CustodyTyped'
  <2>1. PICK os \in {{}} \cup {{o} : o \in Objects} : cAt' = [cAt EXCEPT ![s] = os]
    BY <1>13 DEF Custody!Rename
  <2>2. cAt' \in [Sources -> Single(Objects)]
    <3>. HIDE DEF Single
    <3>1. os \in Single(Objects)
      BY DEF Single
    <3>. QED BY <2>1, <3>1
  <2>3. cEvents' \in 0..MaxEvents
    BY <1>13, EventsBounded DEF Custody!Rename
  <2>4. UNCHANGED <<cBytes, mapped, declared, readable, cCall, cPc, current, cObject, seen, facts, wavered>>
    BY <1>13 DEF Custody!Rename
  <2>. QED BY <2>2, <2>3, <2>4
<1>14. ASSUME NEW o \in Objects, Custody!Map(o) PROVE CustodyTyped'
  <2>1. cEvents' \in 0..MaxEvents /\ mapped' \subseteq Objects
    BY <1>14, EventsBounded DEF Custody!Map
  <2>2. UNCHANGED <<cAt, cBytes, declared, readable, cCall, cPc, current, cObject, seen, facts, wavered>>
    BY <1>14 DEF Custody!Map
  <2>. QED BY <2>1, <2>2
<1>15. ASSUME NEW o \in Objects, Custody!Write(o) PROVE CustodyTyped'
  <2>1. cEvents' \in 0..MaxEvents /\ cBytes' \in [Objects -> Custody!Contents]
    BY <1>15, EventsBounded, ZenonT(30) DEF Custody!Write
  <2>2. wavered' \in [Sources -> Nat]
    BY <1>15, WriteWavers
  <2>3. UNCHANGED <<cAt, mapped, declared, readable, cCall, cPc, current, cObject, seen, facts>>
    BY <1>15 DEF Custody!Write
  <2>. QED BY <2>1, <2>2, <2>3
<1>16. CASE UNCHANGED Custody!vars
  BY <1>16 DEF Custody!vars
<1>. QED
  BY <1>1, <1>2, <1>3, <1>4, <1>5, <1>6, <1>7, <1>8, <1>9, <1>10, <1>11, <1>12, <1>13, <1>14,
     <1>15, <1>16 DEF Custody!Next

\* One item is inspected at a time.
LEMMA StepStep ==
    ASSUME CustodyBounds, CustodyInv, [Custody!Next]_(Custody!vars)
    PROVE  StepInv'
<1> USE DEF CustodyInv, CustodyTyped, Single, Custody!Contents, Custody!Calls, StepInv,
   Custody!files, Custody!bundle, Custody!found, Custody!returned, Custody!histories
<1>1. ASSUME NEW c \in Custody!Calls, Custody!Begin(c) PROVE StepInv'
  BY <1>1 DEF Custody!Begin, Custody!Nothing
<1>2. ASSUME NEW s \in Sources, Custody!Open(s) PROVE StepInv'
  BY <1>2 DEF Custody!Open
<1>3. ASSUME NEW s \in Sources, Custody!HashOnce(s) PROVE StepInv'
  BY <1>3 DEF Custody!HashOnce, Custody!Inspects
<1>4. ASSUME NEW s \in Sources, Custody!Hash(s) PROVE StepInv'
  BY <1>4 DEF Custody!Hash, Custody!Inspects
<1>5. ASSUME NEW s \in Sources, Custody!ParserHash(s) PROVE StepInv'
  BY <1>5 DEF Custody!ParserHash, Custody!Inspects
<1>6. ASSUME NEW s \in Sources, Custody!Observe(s) PROVE StepInv'
  BY <1>6 DEF Custody!Observe, Custody!Inspects
<1>7. ASSUME NEW s \in Sources, Custody!HashAgain(s) PROVE StepInv'
  BY <1>7 DEF Custody!HashAgain, Custody!Inspects
<1>8. ASSUME NEW s \in Sources, Custody!RecordBytes(s) PROVE StepInv'
  BY <1>8 DEF Custody!RecordBytes, Custody!Inspects, Custody!StillThere
<1>9. ASSUME NEW s \in Sources, Custody!RecordMedia(s) PROVE StepInv'
  BY <1>9 DEF Custody!RecordMedia, Custody!Inspects, Custody!StillThere
<1>10. CASE Custody!Refuse
  BY <1>10 DEF Custody!Refuse, Custody!Nothing
<1>11. CASE Custody!Finish
  BY <1>11 DEF Custody!Finish, Custody!AllRecorded
<1>12. CASE Custody!FinishMatch
  BY <1>12 DEF Custody!FinishMatch, Custody!AllRecorded
<1>13. ASSUME NEW s \in Sources, Custody!Rename(s) PROVE StepInv'
  BY <1>13 DEF Custody!Rename, Custody!Event
<1>14. ASSUME NEW o \in Objects, Custody!Map(o) PROVE StepInv'
  BY <1>14 DEF Custody!Map, Custody!Event
<1>15. ASSUME NEW o \in Objects, Custody!Write(o) PROVE StepInv'
  BY <1>15 DEF Custody!Write, Custody!Event, Custody!Open_
<1>16. CASE UNCHANGED Custody!vars
  BY <1>16 DEF Custody!vars
<1>. QED
  BY <1>1, <1>2, <1>3, <1>4, <1>5, <1>6, <1>7, <1>8, <1>9, <1>10, <1>11, <1>12, <1>13, <1>14,
     <1>15, <1>16 DEF Custody!Next

\* What is recorded was compared with what is declared.
LEMMA SourceSeenStep ==
    ASSUME CustodyBounds, CustodyInv, [Custody!Next]_(Custody!vars)
    PROVE  SourceSeenInv'
<1> USE DEF CustodyInv, CustodyTyped, Single, Custody!Contents, Custody!Calls, StepInv,
   SourceSeenInv, SeenFits, FactsFit, Custody!files, Custody!bundle, Custody!found,
   Custody!returned, Custody!histories
<1>1. ASSUME NEW c \in Custody!Calls, Custody!Begin(c) PROVE SourceSeenInv'
  BY <1>1 DEF Custody!Begin, Custody!Nothing
<1>2. ASSUME NEW s \in Sources, Custody!Open(s) PROVE SourceSeenInv'
  BY <1>2 DEF Custody!Open
<1>3. ASSUME NEW s \in Sources, Custody!HashOnce(s) PROVE SourceSeenInv'
  BY <1>3 DEF Custody!HashOnce, Custody!Inspects
<1>4. ASSUME NEW s \in Sources, Custody!Hash(s) PROVE SourceSeenInv'
  <2>1. current = {s} /\ cPc = "hash" /\ UNCHANGED <<cBytes, declared, cCall, current, cObject, wavered>>
    BY <1>4 DEF Custody!Hash, Custody!Inspects
  <2>2. \A t \in Sources : Custody!Read(t)' = Custody!Read(t)
    BY <2>1 DEF Custody!Read, Custody!HandleOf
  <2>3. Custody!Read(s) = declared[s] /\ seen' = [seen EXCEPT ![s] = {Custody!Read(s)}]
        /\ cPc' = "parser" /\ facts' = facts
    BY <1>4 DEF Custody!Hash
  <2>. QED BY <2>1, <2>2, <2>3
<1>5. ASSUME NEW s \in Sources, Custody!ParserHash(s) PROVE SourceSeenInv'
  <2>1. current = {s} /\ cPc = "parser" /\ UNCHANGED <<cBytes, declared, cCall, current, cObject, wavered>>
    BY <1>5 DEF Custody!ParserHash, Custody!Inspects
  <2>2. \A t \in Sources : Custody!Read(t)' = Custody!Read(t)
    BY <2>1 DEF Custody!Read, Custody!HandleOf
  <2>3. {Custody!Read(s)} = seen[s] /\ cPc' = "observe" /\ facts' = facts /\ seen' = seen
    BY <1>5 DEF Custody!ParserHash
  <2>. QED BY <2>1, <2>2, <2>3
<1>6. ASSUME NEW s \in Sources, Custody!Observe(s) PROVE SourceSeenInv'
  <2>1. current = {s} /\ cPc = "observe" /\ UNCHANGED <<cBytes, declared, cCall, current, cObject, wavered>>
    BY <1>6 DEF Custody!Observe, Custody!Inspects
  <2>2. \A t \in Sources : Custody!Read(t)' = Custody!Read(t)
    BY <2>1 DEF Custody!Read, Custody!HandleOf
  <2>3. facts' = [facts EXCEPT ![s] = {Custody!Read(s)}] /\ cPc' = "hash again" /\ seen' = seen
    BY <1>6 DEF Custody!Observe
  <2>. QED BY <2>1, <2>2, <2>3
<1>7. ASSUME NEW s \in Sources, Custody!HashAgain(s) PROVE SourceSeenInv'
  BY <1>7 DEF Custody!HashAgain, Custody!Inspects
<1>8. ASSUME NEW s \in Sources, Custody!RecordBytes(s) PROVE SourceSeenInv'
  BY <1>8 DEF Custody!RecordBytes, Custody!Inspects, Custody!StillThere
<1>9. ASSUME NEW s \in Sources, Custody!RecordMedia(s) PROVE SourceSeenInv'
  BY <1>9 DEF Custody!RecordMedia, Custody!Inspects, Custody!StillThere
<1>10. CASE Custody!Refuse
  BY <1>10 DEF Custody!Refuse, Custody!Nothing
<1>11. CASE Custody!Finish
  BY <1>11 DEF Custody!Finish, Custody!AllRecorded
<1>12. CASE Custody!FinishMatch
  BY <1>12 DEF Custody!FinishMatch, Custody!AllRecorded
<1>13. ASSUME NEW s \in Sources, Custody!Rename(s) PROVE SourceSeenInv'
  <2>1. UNCHANGED <<cBytes, declared, cCall, cPc, current, cObject, seen, facts, wavered>>
    BY <1>13 DEF Custody!Rename
  <2>2. \A t \in Sources : Custody!Read(t)' = Custody!Read(t)
    BY <2>1 DEF Custody!Read, Custody!HandleOf
  <2>. QED BY <2>1, <2>2
<1>14. ASSUME NEW o \in Objects, Custody!Map(o) PROVE SourceSeenInv'
  <2>1. UNCHANGED <<cBytes, declared, cCall, cPc, current, cObject, seen, facts, wavered>>
    BY <1>14 DEF Custody!Map
  <2>2. \A t \in Sources : Custody!Read(t)' = Custody!Read(t)
    BY <2>1 DEF Custody!Read, Custody!HandleOf
  <2>. QED BY <2>1, <2>2
<1>15. ASSUME NEW o \in Objects, Custody!Write(o) PROVE SourceSeenInv'
  <2>1. UNCHANGED <<declared, cCall, cPc, current, cObject, seen, facts>>
    BY <1>15 DEF Custody!Write
  <2>2. PICK x \in Custody!Contents \ {cBytes[o]} : cBytes' = [cBytes EXCEPT ![o] = x]
    BY <1>15 DEF Custody!Write
  <2>4. \A t \in Sources : wavered'[t] >= wavered[t] /\ wavered[t] \in Nat /\ wavered'[t] \in Nat
                            /\ (FactsFit(t) => FactsFit(t)')
    BY <1>15, WriteWavers
  <2>5. ASSUME NEW t \in Sources, t \in current
        PROVE  \/ Custody!Read(t)' = Custody!Read(t)
               \/ wavered'[t] = wavered[t] + 1
    <3>1. cObject[t] \in Single(Objects) /\ cObject[t] # {}
      BY <2>5
    <3>2. PICK p \in Objects : cObject[t] = {p}
      <4>. HIDE DEF Single, CustodyTyped, StepInv, SourceSeenInv, CustodyInv
      <4>. QED BY <3>1, OneOf
    <3>3. Custody!HandleOf(t) = p /\ Custody!HandleOf(t)' = p
      BY <2>1, <3>2 DEF Custody!HandleOf
    <3>4. CASE p = o
      <4>1. t \in Custody!Open_(o)
        BY <2>5, <3>2, <3>4 DEF Custody!Open_
      <4>. QED BY <1>15, <4>1, WriteWavers
    <3>5. CASE p # o
      <4>1. cBytes'[p] = cBytes[p]
        BY <2>2, <3>5
      <4>. QED BY <4>1, <3>3 DEF Custody!Read
    <3>. QED BY <3>4, <3>5
  <2>. SUFFICES ASSUME NEW t \in Sources PROVE SeenFits(t)'
    BY DEF SourceSeenInv
  <2>6. SeenFits(t)
    BY DEF SourceSeenInv
  <2>7. wavered'[t] >= wavered[t] /\ wavered[t] \in Nat /\ wavered'[t] \in Nat
        /\ (FactsFit(t) => FactsFit(t)')
    BY <2>4
  <2>8. t \in current => Custody!Read(t)' = Custody!Read(t) \/ wavered'[t] = wavered[t] + 1
    BY <2>5
  <2>9. seen'[t] = seen[t] /\ declared'[t] = declared[t] /\ facts'[t] = facts[t]
        /\ cCall' = cCall /\ cPc' = cPc /\ current' = current
    BY <2>1
  <2>. HIDE DEF SourceSeenInv, SeenFits, FactsFit, CustodyInv, CustodyTyped, StepInv, Single
  <2>10. t \notin current' /\ seen'[t] # {} =>
             seen'[t] = {declared'[t]} /\ (cCall' = "media" => FactsFit(t)')
    BY <2>6, <2>7, <2>9 DEF SeenFits
  <2>11. ASSUME t \in current, cCall = "media"
         PROVE  /\ cPc \in {"parser", "observe", "hash again", "reopen"} => seen'[t] = {declared'[t]}
                /\ cPc = "reopen" => FactsFit(t)'
    BY <2>6, <2>7, <2>9, <2>11 DEF SeenFits
  <2>12. ASSUME t \in current, cCall = "media", cPc \in {"parser", "observe"}
         PROVE  Custody!Read(t)' = declared'[t] \/ wavered'[t] >= 1
    <3>1. Custody!Read(t) = declared[t] \/ wavered[t] >= 1
      BY <2>6, <2>12 DEF SeenFits
    <3>. QED BY <2>7, <2>8, <2>9, <2>12, <3>1
  <2>13. ASSUME t \in current, cCall = "media", cPc = "hash again"
         PROVE  \/ facts'[t] = {declared'[t]}
                \/ wavered'[t] >= 1 /\ (Custody!Read(t)' = declared'[t] => wavered'[t] >= 2)
    <3>1. \/ facts[t] = {declared[t]}
          \/ wavered[t] >= 1 /\ (Custody!Read(t) = declared[t] => wavered[t] >= 2)
      BY <2>6, <2>13 DEF SeenFits
    <3>2. CASE facts[t] = {declared[t]}
      BY <2>9, <3>2
    <3>3. CASE wavered[t] >= 1 /\ (Custody!Read(t) = declared[t] => wavered[t] >= 2)
      <4>1. wavered'[t] >= 1
        BY <2>7, <3>3
      <4>2. ASSUME Custody!Read(t)' = declared'[t] PROVE wavered'[t] >= 2
        <5>1. CASE Custody!Read(t)' = Custody!Read(t)
          <6>1. wavered[t] >= 2
            BY <2>9, <3>3, <4>2, <5>1
          <6>. QED BY <2>7, <6>1
        <5>2. CASE wavered'[t] = wavered[t] + 1
          BY <2>7, <3>3, <5>2
        <5>. QED BY <2>8, <2>13, <5>1, <5>2
      <4>. QED BY <4>1, <4>2
    <3>. QED BY <3>1, <3>2, <3>3
  <2>. QED BY <2>9, <2>10, <2>11, <2>12, <2>13 DEF SeenFits
<1>16. CASE UNCHANGED Custody!vars
  <2>1. UNCHANGED <<cBytes, declared, cCall, cPc, current, cObject, seen, facts, wavered>>
    BY <1>16 DEF Custody!vars
  <2>2. \A t \in Sources : Custody!Read(t)' = Custody!Read(t)
    BY <2>1 DEF Custody!Read, Custody!HandleOf
  <2>. QED BY <2>1, <2>2
<1>. QED
  BY <1>1, <1>2, <1>3, <1>4, <1>5, <1>6, <1>7, <1>8, <1>9, <1>10, <1>11, <1>12, <1>13, <1>14,
     <1>15, <1>16 DEF Custody!Next

\* What is handed on is what is recorded.
LEMMA RecordStep ==
    ASSUME CustodyBounds, CustodyInv, [Custody!Next]_(Custody!vars)
    PROVE  RecordInv'
<1> USE DEF CustodyInv, CustodyTyped, Single, Custody!Contents, Custody!Calls, StepInv,
   SourceSeenInv, SeenFits, RecordInv, FactsFit, Custody!files, Custody!bundle, Custody!found,
   Custody!returned, Custody!histories
<1>1. ASSUME NEW c \in Custody!Calls, Custody!Begin(c) PROVE RecordInv'
  BY <1>1 DEF Custody!Begin, Custody!Nothing
<1>2. ASSUME NEW s \in Sources, Custody!Open(s) PROVE RecordInv'
  BY <1>2 DEF Custody!Open
<1>3. ASSUME NEW s \in Sources, Custody!HashOnce(s) PROVE RecordInv'
  BY <1>3 DEF Custody!HashOnce, Custody!Inspects
<1>4. ASSUME NEW s \in Sources, Custody!Hash(s) PROVE RecordInv'
  BY <1>4 DEF Custody!Hash, Custody!Inspects
<1>5. ASSUME NEW s \in Sources, Custody!ParserHash(s) PROVE RecordInv'
  BY <1>5 DEF Custody!ParserHash, Custody!Inspects
<1>6. ASSUME NEW s \in Sources, Custody!Observe(s) PROVE RecordInv'
  BY <1>6 DEF Custody!Observe, Custody!Inspects
<1>7. ASSUME NEW s \in Sources, Custody!HashAgain(s) PROVE RecordInv'
  BY <1>7 DEF Custody!HashAgain, Custody!Inspects
<1>8. ASSUME NEW s \in Sources, Custody!RecordBytes(s) PROVE RecordInv'
  BY <1>8 DEF Custody!RecordBytes, Custody!Inspects, Custody!StillThere
<1>9. ASSUME NEW s \in Sources, Custody!RecordMedia(s) PROVE RecordInv'
  BY <1>9 DEF Custody!RecordMedia, Custody!Inspects, Custody!StillThere
<1>10. CASE Custody!Refuse
  BY <1>10 DEF Custody!Refuse, Custody!Nothing
<1>11. CASE Custody!Finish
  <2>1. /\ \A s \in Sources : seen[s] # {} 
        /\ current = {} /\ cPc = "next" /\ cCustody' = {Custody!Complete(cCall)}
        /\ Custody!CustodyHolds(Custody!Complete(cCall))
        /\ UNCHANGED <<declared, cCall, cObject, seen, facts, accepted, wavered>>
    BY <1>11 DEF Custody!Finish, Custody!AllRecorded
  <2>2. \A s \in Sources : seen[s] = {declared[s]} /\ (cCall = "media" => FactsFit(s))
    BY <2>1
  <2>. DEFINE c == Custody!Complete(cCall)
  <2>3. c.observed = seen /\ c.groups = Custody!AliasGroups
        /\ c.state = [s \in Sources |-> Custody!StateOf(s, Custody!AliasGroups)]
        /\ c.status \in {"READY", "BLOCKED"}
    BY DEF Custody!Complete
  <2>4. \A s \in Sources : Custody!StateOf(s, Custody!AliasGroups) \in Custody!States
    <3>1. \A g \in Custody!AliasGroups : g.type \in Custody!States
      <4>1. \A type \in Custody!States : \A S : Custody!GroupOf(type, S).type \in Custody!States
        BY DEF Custody!GroupOf
      <4>2. "SAME_FILE_ALIAS" \in Custody!States /\ "DUPLICATE_BYTES" \in Custody!States
        BY DEF Custody!States
      <4>. SUFFICES ASSUME NEW g \in Custody!AliasGroups PROVE g.type \in Custody!States
        OBVIOUS
      <4>3. CASE \E S : g = Custody!GroupOf("SAME_FILE_ALIAS", S)
        BY <4>1, <4>2, <4>3
      <4>4. CASE \E S : g = Custody!GroupOf("DUPLICATE_BYTES", S)
        BY <4>1, <4>2, <4>4
      <4>5. \/ g \in {Custody!GroupOf("SAME_FILE_ALIAS", Custody!AliasGroup(s)) : s \in Custody!Aliased}
            \/ g \in {Custody!GroupOf("DUPLICATE_BYTES", Custody!Duplicates(s)) :
                        s \in {t \in Sources \ Custody!Aliased : Custody!Many(Custody!Duplicates(t))}}
        BY DEF Custody!AliasGroups
      <4>. HIDE DEF CustodyInv, CustodyTyped, StepInv, SourceSeenInv, RecordInv
      <4>. QED BY <4>3, <4>4, <4>5
    <3>2. "VERIFIED" \in Custody!States
      BY DEF Custody!States
    <3>. SUFFICES ASSUME NEW s \in Sources
                  PROVE  Custody!StateOf(s, Custody!AliasGroups) \in Custody!States
      OBVIOUS
    <3>3. CASE \E g \in Custody!AliasGroups : s \in g.members
      <4>. DEFINE h == CHOOSE g \in Custody!AliasGroups : s \in g.members
      <4>1. h \in Custody!AliasGroups
        BY <3>3
      <4>2. Custody!StateOf(s, Custody!AliasGroups) = h.type
        BY <3>3 DEF Custody!StateOf
      <4>. HIDE DEF h
      <4>. QED BY <3>1, <4>1, <4>2, ZenonT(30)
    <3>4. CASE ~(\E g \in Custody!AliasGroups : s \in g.members)
      BY <3>2, <3>4 DEF Custody!StateOf
    <3>. QED BY <3>3, <3>4
  <2>5. c.state \in [Sources -> Custody!States]
    <3>. HIDE DEF c, CustodyInv, CustodyTyped, StepInv, SourceSeenInv, RecordInv
    <3>. QED BY <2>3, <2>4
  <2>6. c.status = "READY" => \A s, t \in Sources : s # t => cObject[s] # cObject[t]
    <3>. HIDE DEF c
    <3>. QED BY <2>1, <2>3, ReadyIsOfDistinct DEF c
  <2>7. accepted = {} /\ cCustody' = {c}
    BY <2>1
  <2>. HIDE DEF c
  <2>. QED BY <2>1, <2>2, <2>3, <2>5, <2>6, <2>7
<1>12. CASE Custody!FinishMatch
  <2>1. PICK context \in {"bytes", "media"}, state \in [Sources -> Custody!States],
             status \in {"READY", "BLOCKED"}, groups \in {{}, Custody!AliasGroups} :
          LET c == [Custody!Complete(context) EXCEPT !.state = state, !.status = status,
                                                     !.groups = groups]
          IN  Custody!CustodyHolds(c) /\ Custody!Matches(c) /\ accepted' = {c}
    BY <1>12 DEF Custody!FinishMatch
  <2>. DEFINE c == [Custody!Complete(context) EXCEPT !.state = state, !.status = status,
                                                     !.groups = groups]
  <2>2. c.state = state /\ c.status = status
    BY DEF Custody!Complete
  <2>3. Custody!CustodyHolds(c) /\ Custody!Matches(c) /\ accepted' = {c}
    BY <2>1
  <2>4. cCustody = {} /\ cCustody' = {} /\ UNCHANGED <<cObject, declared, cCall, facts, wavered>>
    BY <1>12 DEF Custody!FinishMatch, Custody!AllRecorded
  <2>. HIDE DEF c
  <2>5. c.groups = Custody!AliasGroups
    BY <2>3 DEF Custody!Matches
  <2>6. c.status = "READY" => \A s, t \in Sources : s # t => cObject[s] # cObject[t]
    BY <2>3, <2>5, ReadyIsOfDistinct
  <2>. QED BY <2>1, <2>2, <2>3, <2>4, <2>6
<1>13. ASSUME NEW s \in Sources, Custody!Rename(s) PROVE RecordInv'
  BY <1>13 DEF Custody!Rename, Custody!Event
<1>14. ASSUME NEW o \in Objects, Custody!Map(o) PROVE RecordInv'
  BY <1>14 DEF Custody!Map, Custody!Event
<1>15. ASSUME NEW o \in Objects, Custody!Write(o) PROVE RecordInv'
  <2>1. UNCHANGED <<declared, cCall, cObject, facts, cCustody, accepted>>
    BY <1>15 DEF Custody!Write
  <2>3. \A t \in Sources : FactsFit(t) => FactsFit(t)'
    BY <1>15, WriteWavers
  <2>. HIDE DEF FactsFit
  <2>. QED BY <2>1, <2>3
<1>16. CASE UNCHANGED Custody!vars
  BY <1>16 DEF Custody!vars
<1>. QED
  BY <1>1, <1>2, <1>3, <1>4, <1>5, <1>6, <1>7, <1>8, <1>9, <1>10, <1>11, <1>12, <1>13, <1>14,
     <1>15, <1>16 DEF Custody!Next

\* CustodyInv is inductive.
LEMMA CustodyInvariant ==
    ASSUME CustodyBounds
    PROVE  Custody!Spec => []CustodyInv
<1>1. Custody!Init => CustodyInv
  <2>. SUFFICES ASSUME Custody!Init PROVE CustodyInv
    OBVIOUS
  <2>. USE DEF Custody!Init, Custody!Nothing
  <2>1. CustodyTyped
    <3>1. cAt \in [Sources -> Single(Objects)]
      BY DEF Single
    <3>2. readable \subseteq Custody!Contents /\ cCall \in Custody!Calls
      BY DEF Custody!Contents, Custody!Calls
    <3>. QED BY <3>1, <3>2 DEF CustodyTyped, Single, CustodyBounds
  <2>2. StepInv /\ SourceSeenInv /\ RecordInv
    BY DEF StepInv, SourceSeenInv, SeenFits, RecordInv
  <2>. QED BY <2>1, <2>2 DEF CustodyInv
<1>2. CustodyInv /\ [Custody!Next]_(Custody!vars) => CustodyInv'
  BY CustodyTypedStep, StepStep, SourceSeenStep, RecordStep DEF CustodyInv
<1>. QED BY <1>1, <1>2, PTL DEF Custody!Spec

\* A custody hands on the declared bytes, and media facts that were read from
\* them unless they were written and written back under the open handle; its
\* own validator refuses none whose reads agree; and READY means distinct
\* files, in a custody that is returned and in an altered one that is matched.
THEOREM CustodiesAreTrue ==
    ASSUME CustodyBounds
    PROVE  Custody!Spec => []Custody!SourcesAreTraced
<1>1. CustodyInv => Custody!SourcesAreTraced
  <2>. SUFFICES ASSUME CustodyInv PROVE Custody!SourcesAreTraced
    OBVIOUS
  <2>1. Custody!TypeOK
    <3>1. \A X : Single(X) \subseteq SUBSET X
      BY DEF Single
    <3>2. /\ cAt \in [Sources -> SUBSET Objects] /\ cObject \in [Sources -> SUBSET Objects]
          /\ seen \in [Sources -> SUBSET Custody!Contents]
          /\ facts \in [Sources -> SUBSET Custody!Contents] /\ current \subseteq Sources
      <4>1. /\ cAt \in [Sources -> Single(Objects)] /\ cObject \in [Sources -> Single(Objects)]
            /\ seen \in [Sources -> Single(Custody!Contents)]
            /\ facts \in [Sources -> Single(Custody!Contents)] /\ current \in Single(Sources)
        BY DEF CustodyInv, CustodyTyped
      <4>2. current \subseteq Sources
        BY <3>1, <4>1
      <4>. QED BY <3>1, <4>1, <4>2
    <3>. QED BY <3>2 DEF CustodyInv, CustodyTyped, RecordInv, Custody!TypeOK
  <2>2. Custody!AllRecorded /\ Custody!IdentityIsStable =>
          Custody!CustodyHolds(Custody!Complete(cCall))
    <3>. SUFFICES ASSUME Custody!AllRecorded, Custody!IdentityIsStable
                  PROVE  Custody!CustodyHolds(Custody!Complete(cCall))
      OBVIOUS
    <3>1. \A s \in Sources : cObject[s] # {} /\ seen[s] = {declared[s]}
      BY DEF Custody!AllRecorded, CustodyInv, StepInv, SourceSeenInv, SeenFits
    <3>. QED BY <3>1, GroupsHold DEF CustodyInv
  <2>3. Custody!CustodyBytesAreTrue
    BY DEF CustodyInv, RecordInv, FactsFit, Custody!CustodyBytesAreTrue
  <2>4. Custody!ReadyIsDistinct
    BY DEF CustodyInv, RecordInv, Custody!ReadyIsDistinct
  <2>. QED BY <2>1, <2>2, <2>3, <2>4 DEF Custody!SourcesAreTraced, Custody!CustodyIsTrue
<1>. QED BY <1>1, CustodyInvariant, PTL

-----------------------------------------------------------------------------
(***************************************************************************)
(* The fusion of the sources (SourceFusion), for any sources, primitives   *)
(* and number of events.                                                   *)
(***************************************************************************)
FusionBounds == MaxEvents \in Nat

FusionTyped ==
    /\ fBytes \in [Sources -> Fusion!Bytes] /\ fCustody \in [Sources -> Fusion!Bytes]
    /\ artifact \in [raster : Fusion!Bytes, shape : [Ids -> Fusion!Shapes]]
    /\ fEvents \in 0..MaxEvents

\* An observation is of a render of its artifact's raster, and stands for all
\* primitives of the artifact that look the same.
Observed(o) ==
    /\ o.binding \in renders
    /\ o.artifact.raster = o.binding.raster
    /\ o.ids = {i \in Ids : o.artifact.shape[i] = o.shape}

\* What a packet says of a primitive it says of all of its observation.
Named(p) == \A m \in p.semantics : \A n \in m.named : n.ids = n.key.ids

IsPacket(p) ==
    p = [custody |-> p.custody, pages |-> p.pages, regions |-> p.regions, renders |-> p.renders,
         primitives |-> p.primitives, semantics |-> p.semantics, conflicts |-> p.conflicts,
         status |-> p.status]

PacketFits(p) ==
    /\ IsPacket(p) /\ p.primitives \subseteq observations /\ Named(p)
    /\ p.status \in {"READY", "BLOCKED_UNRESOLVED"}

\* What is used was found closed, or found to match, just before.
UsedFits(p) ==
    /\ used # "not" => Fusion!PacketIsClosed(p)
    /\ used = "reused" => evaluation = {p}
    /\ used = "matched" => Fusion!PacketHolds(p, fCustody)

FusionInv ==
    /\ FusionTyped
    /\ \A o \in observations : Observed(o)
    /\ (\A p, q \in packet : p = q) /\ used \in {"not", "matched", "reused"}
    /\ \A p \in packet : PacketFits(p) /\ UsedFits(p)

-----------------------------------------------------------------------------
\* Without conflicts two observations of one subject are one.
LEMMA NoConflict ==
    ASSUME NEW obs, Fusion!Conflicts(obs) = {}, NEW o \in obs, NEW q \in obs, o.ids = q.ids
    PROVE  o = q
<1> DEFINE G == {p \in obs : p.ids = o.ids}
<1>1. G \in {{p \in obs : p.ids = x.ids} : x \in obs}
  OBVIOUS
<1>2. G \in {{x} : x \in obs}
  BY <1>1 DEF Fusion!Conflicts
<1>. QED BY <1>2

\* A closed READY packet is one reading of one artifact: of that artifact two
\* observations have the same primitives or none in common.
LEMMA ClosedIsOneReading ==
    ASSUME FusionInv, NEW p \in packet, Fusion!PacketIsClosed(p)
    PROVE  Fusion!IsOneReading(p)
<1> SUFFICES ASSUME p.status = "READY" PROVE Fusion!IsOneReading(p)
  BY DEF Fusion!IsOneReading
<1>1. Fusion!Conflicts(p.primitives) = {}
  <2>1. p.conflicts = Fusion!Conflicts(p.primitives) /\ p.status = Fusion!StatusOf(p.conflicts)
    BY DEF Fusion!PacketIsClosed, Fusion!ConflictsHold
  <2>. QED BY <2>1 DEF Fusion!StatusOf
<1>2. ASSUME NEW o \in p.primitives PROVE Observed(o) /\ {o.artifact} = Fusion!Checkpoints(p.renders)
  <2>1. Fusion!PrimitiveHolds(o, p.renders)
    BY DEF Fusion!PacketIsClosed
  <2>2. o \in observations
    BY DEF FusionInv, PacketFits
  <2>. QED BY <2>1, <2>2 DEF FusionInv, Fusion!PrimitiveHolds
<1>3. \A o, q \in p.primitives : o.artifact = q.artifact
  BY <1>2
<1>4. ASSUME NEW o \in p.primitives, NEW q \in p.primitives, o # q PROVE o.ids \cap q.ids = {}
  <2>1. o.ids # q.ids
    BY <1>1, <1>4, NoConflict
  <2>2. /\ o.ids = {i \in Ids : o.artifact.shape[i] = o.shape}
        /\ q.ids = {i \in Ids : q.artifact.shape[i] = q.shape}
    BY <1>2 DEF Observed
  <2>3. o.artifact = q.artifact
    BY <1>3
  <2>4. o.shape # q.shape
    BY <2>1, <2>2, <2>3
  <2>. QED BY <2>2, <2>3, <2>4
<1>5. Fusion!Disjoint(p.primitives)
  BY <1>4 DEF Fusion!Disjoint
<1>6. Named(p)
  BY DEF FusionInv, PacketFits
<1>. QED BY <1>3, <1>5, <1>6 DEF Fusion!IsOneReading, Named

\* A packet that holds rests on the bytes of the custody.
LEMMA HoldsIsTraced ==
    ASSUME FusionInv, NEW p \in packet, Fusion!PacketHolds(p, fCustody), NEW o \in p.primitives
    PROVE  /\ o.binding.observed = fCustody[o.binding.source]
           /\ o.binding.source \in Pdfs =>
                  \E g \in o.binding.page : g.pdf = fCustody[g.source]
           /\ o.binding.source \notin Pdfs => o.artifact.raster = fCustody[o.binding.source]
<1> DEFINE r == o.binding
<1>1. r \in p.renders
  BY DEF Fusion!PacketHolds, Fusion!PacketIsClosed, Fusion!PrimitiveHolds
<1>2. r.artifact \in Fusion!Checkpoints(p.renders)
  BY <1>1 DEF Fusion!Checkpoints
<1>3. Fusion!RenderHolds(r, p.pages, fCustody, r.artifact)
  BY <1>1, <1>2 DEF Fusion!PacketHolds, Fusion!RendersHold
<1>4. o.artifact.raster = r.raster
  <2>1. o \in observations
    BY DEF FusionInv, PacketFits
  <2>. QED BY <2>1 DEF FusionInv, Observed
<1>5. r.observed = fCustody[r.source]
  BY <1>3 DEF Fusion!RenderHolds
<1>6. ASSUME r.source \in Pdfs PROVE \E g \in r.page : g.pdf = fCustody[g.source]
  <2>1. PICK g \in p.pages : r.page = {g} /\ g.source = r.source
    BY <1>3, <1>6 DEF Fusion!RenderHolds
  <2>2. g.pdf = fCustody[g.source]
    BY DEF Fusion!PacketHolds, Fusion!PagesHold, Fusion!PageHolds
  <2>. QED BY <2>1, <2>2
<1>7. ASSUME r.source \notin Pdfs PROVE r.raster = r.observed
  BY <1>3, <1>7 DEF Fusion!RenderHolds
<1>. QED BY <1>4, <1>5, <1>6, <1>7

\* What is said of some of the primitives is said of all that look the same.
LEMMA WholeIsNamed ==
    ASSUME NEW ids, NEW obs, NEW m \in Fusion!Semantics(ids, obs), NEW n \in m.named
    PROVE  n.ids = n.key.ids
<1>1. Fusion!Whole(ids, obs) /\ m = Fusion!Semantic(ids, obs)
  BY DEF Fusion!Semantics
<1>2. m.named = {[key |-> o, ids |-> o.ids \cap ids] : o \in {p \in obs : p.ids \cap ids # {}}}
  BY <1>1 DEF Fusion!Semantic
<1>3. PICK o \in {p \in obs : p.ids \cap ids # {}} : n = [key |-> o, ids |-> o.ids \cap ids]
  BY <1>2
<1>4. o.ids \subseteq ids
  BY <1>1, <1>3 DEF Fusion!Whole
<1>5. n.key = o /\ n.ids = o.ids \cap ids
  BY <1>3
<1>. QED BY <1>4, <1>5

\* The packet that is kept, altered or not, is a packet of records that are
\* held, and says what it said.
LEMMA KeptFits ==
    ASSUME FusionInv, NEW p \in Fusion!Kept
    PROVE  PacketFits(p)
<1>1. PICK q \in packet :
         p \in {q} \cup {[q EXCEPT !.conflicts = {}, !.status = "READY"]}
                   \cup {[q EXCEPT !.custody = fCustody]}
                   \cup {[q EXCEPT !.primitives = @ \ {o}] : o \in q.primitives}
                   \cup {[q EXCEPT !.renders = renders, !.primitives = observations]}
  BY DEF Fusion!Kept
<1>2. PacketFits(q)
  BY DEF FusionInv
<1> DEFINE a == q.custody  b == q.pages  c == q.regions  d == q.renders  e == q.primitives
           f == q.semantics  g == q.conflicts  h == q.status
           Record(a0, d0, e0, g0, h0) ==
              [custody |-> a0, pages |-> b, regions |-> c, renders |-> d0, primitives |-> e0,
               semantics |-> f, conflicts |-> g0, status |-> h0]
<1>3. q = Record(a, d, e, g, h)
  BY <1>2 DEF PacketFits, IsPacket
<1>4. \A a0, d0, e0, g0, h0 : e0 \subseteq observations /\ h0 \in {"READY", "BLOCKED_UNRESOLVED"} =>
         PacketFits(Record(a0, d0, e0, g0, h0))
  <2>1. \A n \in f : \A k \in n.named : k.ids = k.key.ids
    BY <1>2 DEF PacketFits, Named
  <2>. HIDE DEF a, b, c, d, e, f, g, h
  <2>. QED BY <2>1 DEF PacketFits, IsPacket, Named
<1>5. e \subseteq observations /\ h \in {"READY", "BLOCKED_UNRESOLVED"}
  BY <1>2 DEF PacketFits
<1>6. CASE p = q
  BY <1>2, <1>6
<1>7. CASE p = [q EXCEPT !.conflicts = {}, !.status = "READY"]
  <2>1. p = Record(a, d, e, {}, "READY")
    <3>. HIDE DEF a, b, c, d, e, f, g, h
    <3>. QED BY <1>3, <1>7
  <2>. HIDE DEF Record
  <2>. QED BY <1>4, <1>5, <2>1
<1>8. CASE p = [q EXCEPT !.custody = fCustody]
  <2>1. p = Record(fCustody, d, e, g, h)
    <3>. HIDE DEF a, b, c, d, e, f, g, h
    <3>. QED BY <1>3, <1>8
  <2>. HIDE DEF Record
  <2>. QED BY <1>4, <1>5, <2>1
<1>9. ASSUME NEW o \in q.primitives, p = [q EXCEPT !.primitives = @ \ {o}] PROVE PacketFits(p)
  <2>1. p = Record(a, d, e \ {o}, g, h)
    <3>. HIDE DEF a, b, c, d, e, f, g, h
    <3>. QED BY <1>3, <1>9
  <2>2. e \ {o} \subseteq observations
    BY <1>5
  <2>. HIDE DEF Record, e, h
  <2>. QED BY <1>4, <1>5, <2>1, <2>2
<1>10. CASE p = [q EXCEPT !.renders = renders, !.primitives = observations]
  <2>1. p = Record(a, renders, observations, g, h)
    <3>. HIDE DEF a, b, c, d, e, f, g, h
    <3>. QED BY <1>3, <1>10
  <2>. HIDE DEF Record, h
  <2>. QED BY <1>4, <1>5, <2>1
<1>. HIDE DEF a, b, c, d, e, f, g, h, Record
<1>. QED BY <1>1, <1>6, <1>7, <1>8, <1>9, <1>10

\* A step that leaves the packet alone and uses none keeps what is held.
LEMMA UnusedKeeps ==
    ASSUME FusionInv, FusionTyped', packet' = packet, used' = "not",
           \A o \in observations' : Observed(o)', observations \subseteq observations'
    PROVE  FusionInv'
<1>1. ASSUME NEW p \in packet' PROVE PacketFits(p)' /\ UsedFits(p)'
  <2>1. PacketFits(p)
    BY DEF FusionInv
  <2>2. PacketFits(p)'
    BY <2>1 DEF PacketFits, Named, IsPacket
  <2>3. UsedFits(p)'
    BY DEF UsedFits
  <2>. QED BY <2>2, <2>3
<1>2. \A p, q \in packet' : p = q
  BY DEF FusionInv
<1>. QED BY <1>1, <1>2 DEF FusionInv

\* The records that are held stay those of their renders.
LEMMA ObservedStay ==
    ASSUME FusionInv, renders \subseteq renders', NEW o \in observations
    PROVE  Observed(o)'
<1>1. Observed(o)
  BY DEF FusionInv
<1>. QED BY <1>1 DEF Observed

\* A packet that is built, or kept, fits.
LEMMA PacketSteps ==
    ASSUME FusionInv, NEW p, PacketFits(p), packet' = {p}, UsedFits(p)',
           used' \in {"not", "matched", "reused"},
           UNCHANGED <<fBytes, fCustody, artifact, renders, observations, fEvents>>
    PROVE  FusionInv'
<1>1. FusionTyped'
  BY DEF FusionInv, FusionTyped
<1>2. \A o \in observations' : Observed(o)'
  BY ObservedStay
<1>3. PacketFits(p)'
  BY DEF PacketFits, Named, IsPacket
<1>4. \A q, r \in packet' : q = r
  OBVIOUS
<1>. QED BY <1>1, <1>2, <1>3, <1>4 DEF FusionInv

\* FusionInv is inductive.
LEMMA FusionStep ==
    ASSUME FusionBounds, FusionInv, [Fusion!Next]_(Fusion!vars)
    PROVE  FusionInv'
<1> USE DEF Fusion!Unused, Fusion!held
<1>1. CASE Fusion!Inspect
  <2>1. /\ fCustody' = fBytes /\ used' = "not"
        /\ UNCHANGED <<fBytes, artifact, renders, observations, packet, fEvents>>
    BY <1>1 DEF Fusion!Inspect
  <2>2. FusionTyped'
    BY <2>1 DEF FusionInv, FusionTyped
  <2>. QED BY <2>1, <2>2, ObservedStay, UnusedKeeps
<1>2. CASE Fusion!Match
  <2>1. PICK p \in Fusion!Kept : Fusion!PacketHolds(p, fCustody) /\ packet' = {p} /\ used' = "matched"
          /\ UNCHANGED <<fBytes, fCustody, artifact, renders, observations, evaluation, fEvents>>
    BY <1>2 DEF Fusion!Match
  <2>2. UsedFits(p)'
    <3>1. Fusion!PacketIsClosed(p)
      BY <2>1 DEF Fusion!PacketHolds
    <3>2. Fusion!PacketHolds(p, fCustody')
      BY <2>1
    <3>. QED BY <2>1, <3>1, <3>2 DEF UsedFits
  <2>. QED BY <2>1, <2>2, KeptFits, PacketSteps
<1>3. CASE Fusion!Evaluate
  <2>1. PICK p \in Fusion!Kept : packet' = {p} /\ used' = "not"
          /\ UNCHANGED <<fBytes, fCustody, artifact, renders, observations, fEvents>>
    BY <1>3 DEF Fusion!Evaluate
  <2>2. UsedFits(p)'
    BY <2>1 DEF UsedFits
  <2>. QED BY <2>1, <2>2, KeptFits, PacketSteps
<1>4. CASE Fusion!Reuse
  <2>1. PICK p \in Fusion!Kept : /\ evaluation = {p} /\ Fusion!PacketIsClosed(p)
                                 /\ packet' = {p} /\ used' = "reused"
          /\ UNCHANGED <<fBytes, fCustody, artifact, renders, observations, evaluation, fEvents>>
    BY <1>4 DEF Fusion!Reuse
  <2>2. UsedFits(p)'
    BY <2>1 DEF UsedFits
  <2>. QED BY <2>1, <2>2, KeptFits, PacketSteps
<1>5. ASSUME NEW s \in Sources, Fusion!Render(s) PROVE FusionInv'
  <2>1. /\ renders \subseteq renders' /\ used' = "not"
        /\ UNCHANGED <<fBytes, fCustody, artifact, observations, packet, fEvents>>
    BY <1>5 DEF Fusion!Render
  <2>2. FusionTyped'
    BY <2>1 DEF FusionInv, FusionTyped
  <2>. QED BY <2>1, <2>2, ObservedStay, UnusedKeeps
<1>6. ASSUME NEW s \in Sources, Fusion!EditSource(s) PROVE FusionInv'
  <2>1. /\ Fusion!Event
        /\ fBytes' = [fBytes EXCEPT ![s] = CHOOSE b \in Fusion!Bytes : b # fBytes[s]]
        /\ UNCHANGED <<fCustody, artifact, renders, observations, packet>>
    BY <1>6 DEF Fusion!EditSource
  <2>2. (CHOOSE b \in Fusion!Bytes : b # fBytes[s]) \in Fusion!Bytes
    <3>1. \E b \in Fusion!Bytes : b # fBytes[s]
      BY DEF Fusion!Bytes
    <3>. QED BY <3>1
  <2>3. fBytes' \in [Sources -> Fusion!Bytes]
    BY <2>1, <2>2 DEF FusionInv, FusionTyped
  <2>4. fEvents' \in 0..MaxEvents /\ used' = "not"
    BY <2>1 DEF Fusion!Event, FusionInv, FusionTyped, FusionBounds
  <2>5. FusionTyped'
    BY <2>1, <2>3, <2>4 DEF FusionInv, FusionTyped
  <2>. QED BY <2>1, <2>4, <2>5, ObservedStay, UnusedKeeps
<1>7. ASSUME NEW r \in renders, Fusion!Project(r) PROVE FusionInv'
  <2>1. /\ Fusion!Binds(r) /\ observations' = observations \cup Fusion!Projected(r) /\ used' = "not"
        /\ UNCHANGED <<fBytes, fCustody, artifact, renders, packet, fEvents>>
    BY <1>7 DEF Fusion!Project
  <2>2. FusionTyped'
    BY <2>1 DEF FusionInv, FusionTyped
  <2>3. ASSUME NEW o \in Fusion!Projected(r) PROVE Observed(o)'
    <3>1. PICK shape \in {artifact.shape[i] : i \in Ids} :
             o = [ids |-> {i \in Ids : artifact.shape[i] = shape}, shape |-> shape,
                  binding |-> r, artifact |-> artifact]
      BY DEF Fusion!Projected, Fusion!ContentOf
    <3>2. /\ o.ids = {i \in Ids : artifact.shape[i] = shape} /\ o.shape = shape
          /\ o.binding = r /\ o.artifact = artifact
      BY <3>1
    <3>3. o.binding \in renders' /\ o.artifact.raster = o.binding.raster
      BY <2>1, <3>2 DEF Fusion!Binds
    <3>. QED BY <3>2, <3>3 DEF Observed
  <2>. QED BY <2>1, <2>2, <2>3, ObservedStay, UnusedKeeps
<1>8. ASSUME NEW i \in Ids, Fusion!Extract(i) PROVE FusionInv'
  <2>1. /\ Fusion!Event
        /\ artifact' = [artifact EXCEPT !.shape[i] = CHOOSE x \in Fusion!Shapes : x # artifact.shape[i]]
        /\ UNCHANGED <<fBytes, fCustody, renders, observations, packet>>
    BY <1>8 DEF Fusion!Extract
  <2>2. (CHOOSE x \in Fusion!Shapes : x # artifact.shape[i]) \in Fusion!Shapes
    <3>1. \E x \in Fusion!Shapes : x # artifact.shape[i]
      BY DEF Fusion!Shapes
    <3>. QED BY <3>1
  <2>3. artifact' \in [raster : Fusion!Bytes, shape : [Ids -> Fusion!Shapes]]
    BY <2>1, <2>2 DEF FusionInv, FusionTyped
  <2>4. fEvents' \in 0..MaxEvents /\ used' = "not"
    BY <2>1 DEF Fusion!Event, FusionInv, FusionTyped, FusionBounds
  <2>5. FusionTyped'
    BY <2>1, <2>3, <2>4 DEF FusionInv, FusionTyped
  <2>. QED BY <2>1, <2>4, <2>5, ObservedStay, UnusedKeeps
<1>9. ASSUME NEW rs, NEW bound, NEW ids, NEW r,
             Fusion!Build(rs, Fusion!ObservationsOf(bound),
                          Fusion!Semantics(ids, Fusion!ObservationsOf({r})))
      PROVE  FusionInv'
  <2>. DEFINE obs == Fusion!ObservationsOf(bound)
              ms == Fusion!Semantics(ids, Fusion!ObservationsOf({r}))
              p == [custody |-> fCustody, pages |-> Fusion!PagesOf(fCustody),
                    regions |-> {Fusion!Region(fCustody, s) : s \in Sources},
                    renders |-> rs, primitives |-> obs, semantics |-> ms,
                    conflicts |-> Fusion!Conflicts(obs),
                    status |-> Fusion!StatusOf(Fusion!Conflicts(obs))]
  <2>1. /\ packet' = {p} /\ used' = "not"
        /\ UNCHANGED <<fBytes, fCustody, artifact, renders, observations, fEvents>>
    BY <1>9 DEF Fusion!Build
  <2>2. obs \subseteq observations
    BY DEF Fusion!ObservationsOf
  <2>3. \A m \in ms : \A n \in m.named : n.ids = n.key.ids
    BY WholeIsNamed
  <2>4. p.status \in {"READY", "BLOCKED_UNRESOLVED"}
    BY DEF Fusion!StatusOf
  <2>5. p.primitives = obs /\ p.semantics = ms /\ IsPacket(p)
    <3>. HIDE DEF obs, ms
    <3>. QED BY DEF IsPacket
  <2>6. PICK q : q = p
    OBVIOUS
  <2>. HIDE DEF p, obs, ms
  <2>7. PacketFits(q)
    BY <2>2, <2>3, <2>4, <2>5, <2>6 DEF PacketFits, Named
  <2>8. UsedFits(q)' /\ packet' = {q}
    BY <2>1, <2>6 DEF UsedFits
  <2>. QED BY <2>1, <2>7, <2>8, PacketSteps
<1>10. CASE UNCHANGED Fusion!vars
  <2>1. UNCHANGED <<fBytes, fCustody, artifact, renders, observations, packet, evaluation, used, fEvents>>
    BY <1>10 DEF Fusion!vars
  <2>. QED BY <2>1 DEF FusionInv, FusionTyped, Observed, PacketFits, UsedFits, Named
<1>. QED BY <1>1, <1>2, <1>3, <1>4, <1>5, <1>6, <1>7, <1>8, <1>9, <1>10 DEF Fusion!Next

LEMMA FusionInvariant ==
    ASSUME FusionBounds
    PROVE  Fusion!Spec => []FusionInv
<1>1. Fusion!Init => FusionInv
  <2>. SUFFICES ASSUME Fusion!Init PROVE FusionInv
    OBVIOUS
  <2>1. artifact \in [raster : Fusion!Bytes, shape : [Ids -> Fusion!Shapes]]
    BY DEF Fusion!Init, Fusion!Bytes
  <2>2. fBytes \in [Sources -> Fusion!Bytes] /\ fCustody \in [Sources -> Fusion!Bytes]
    BY DEF Fusion!Init
  <2>3. fEvents = 0 /\ observations = {} /\ packet = {} /\ used = "not"
    BY DEF Fusion!Init
  <2>4. FusionTyped
    BY <2>1, <2>2, <2>3 DEF FusionTyped, FusionBounds
  <2>. QED BY <2>3, <2>4 DEF FusionInv
<1>2. FusionInv /\ [Fusion!Next]_(Fusion!vars) => FusionInv'
  BY FusionStep
<1>. QED BY <1>1, <1>2, PTL DEF Fusion!Spec

\* A packet that is used is traced: one that matches rests, through renders and
\* pages, on the bytes the custody of the moment verified; one that is reused
\* is what was evaluated; and a READY one is one reading of one artifact, with
\* no primitive twice and none apart from those that look the same.
THEOREM FusionsAreTraced ==
    ASSUME FusionBounds
    PROVE  Fusion!Spec => []Fusion!SourcesAreTraced
<1>1. FusionInv => Fusion!SourcesAreTraced
  <2>. SUFFICES ASSUME FusionInv PROVE Fusion!SourcesAreTraced
    OBVIOUS
  <2>1. Fusion!TypeOK
    <3>1. \A o \in observations : o.ids \subseteq Ids /\ o.binding \in renders
      BY DEF FusionInv, Observed
    <3>2. \A p \in packet : p.status \in {"READY", "BLOCKED_UNRESOLVED"}
      BY DEF FusionInv, PacketFits
    <3>. QED BY <3>1, <3>2 DEF FusionInv, FusionTyped, Fusion!TypeOK
  <2>2. ASSUME NEW p \in packet
        PROVE  /\ used # "not" => Fusion!IsOneReading(p)
               /\ used = "reused" => evaluation = {p}
               /\ used = "matched" => Fusion!PacketHolds(p, fCustody)
    <3>1. UsedFits(p)
      BY DEF FusionInv
    <3>. QED BY <3>1, ClosedIsOneReading DEF UsedFits
  <2>3. Fusion!FusionIsTraced
    BY <2>2, HoldsIsTraced DEF Fusion!FusionIsTraced
  <2>. QED BY <2>1, <2>3 DEF Fusion!SourcesAreTraced
<1>. QED BY <1>1, FusionInvariant, PTL

\* What is custody of a source or fused from it is traced to its bytes, as the
\* two theorems before say of each.
THEOREM AllSourcesAreTraced ==
    ASSUME CustodyBounds, FusionBounds
    PROVE  Custody!Spec /\ Fusion!Spec => []SourcesAreTraced
  <1> QED
    BY CustodiesAreTrue, FusionsAreTraced, PTL DEF SourcesAreTraced
=============================================================================
