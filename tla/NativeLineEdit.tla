---------------------------- MODULE NativeLineEdit ----------------------------
(***************************************************************************)
(* One bounded_native_line_edit, ApplyBoundedNativeLineEdit of             *)
(* Commands/CommandContext.cs with its custody, read-back and rollback     *)
(* policy (Drawing/BoundedNativeLineEditPolicy.cs): the target lines are   *)
(* moved in the open drawing, read back, committed, saved over the         *)
(* candidate file, read back again from a second open, and rolled back in  *)
(* memory and on disk when a check fails after the commit.  The request    *)
(* may be executed again, a kept pair being served twice.                  *)
(*                                                                         *)
(* Kept: every access to the candidate file as a step of its own, an       *)
(* exception between any two steps, and another program that rewrites or   *)
(* replaces the file between them.                                         *)
(* Abstracted: the requested lines are all at their before-geometry, all   *)
(* at their after-geometry, or neither ("foreign"); a SHA-256 is the       *)
(* revision of the bytes, which no write repeats; DBMOD is one flag.       *)
(***************************************************************************)
EXTENDS Naturals, FiniteSets

CONSTANTS
    MaxForeign,     \* bound: writes by another program
    MaxAttempts     \* bound: executions of the request

VARIABLES
    disk,       \* the candidate file: geometry, SHA-256, file identity
    memory,     \* the open drawing: geometry, DBMOD # 0
    edit,       \* locals of ApplyBoundedNativeLineEdit
    attempts,
    origin,     \* history: the open drawing and the saves when this execution began
    saves,      \* history: revisions written by SaveAs
    foreign,    \* history: writes of another program
    lost        \* history: those of them that a SaveAs overwrote

vars == <<disk, memory, edit, attempts, origin, saves, foreign, lost>>
histories == <<origin, saves, foreign, lost>>

Geometries == {"before", "after", "foreign"}
Pcs == {"start", "hash", "check", "recheck", "edit", "moved", "aborted", "committed",
        "save", "adopt", "sign", "reopen", "restore", "persist", "rollback_save",
        "rollback_adopt", "rollback_reopen", "done"}
ForeignWrites == [sha : Nat, at : Pcs, replaced : BOOLEAN]
Memories == [geo : Geometries, dirty : BOOLEAN]
Reports == {"none", "SAVED", "UNCHANGED", "ROLLED_BACK", "UNCERTAIN"}

\* drawing_sha256 of the request: the bytes on disk when it was issued.
RequestSha == 0

Start == [pc |-> "start", custody |-> 0, sha |-> 0, expected |-> 0, after |-> 0,
          report |-> "none"]

\* The drawing may have been edited by the user since it was opened.
Init ==
    /\ \E geo \in Geometries : disk = [geo |-> geo, sha |-> RequestSha, file |-> 0]
    /\ memory \in Memories
    /\ ~memory.dirty => memory.geo = disk.geo
    /\ edit = Start
    /\ attempts = 1
    /\ origin = [memory |-> memory, saves |-> {}]
    /\ saves = {}
    /\ foreign = {}
    /\ lost = {}

-----------------------------------------------------------------------------
(* Steps of an execution *)

At(pc) == edit.pc = pc

Report(r) == edit' = [edit EXCEPT !.pc = "done", !.report = r]

\* EnsureCandidatePathMatches: the file at the path is the one in custody.
InCustody == edit.custody = disk.file

\* EnsureActiveDocument, ValidateNativeEditCandidate, AcquireCandidateCustody.
AcquireCustody ==
    /\ At("start")
    /\ edit' = [edit EXCEPT !.pc = "hash", !.custody = disk.file]
    /\ UNCHANGED <<disk, memory, attempts, histories>>

Hash ==
    /\ At("hash")
    /\ InCustody
    /\ edit' = [edit EXCEPT !.pc = "check", !.sha = disk.sha, !.expected = disk.sha]
    /\ UNCHANGED <<disk, memory, attempts, histories>>

\* Mutant: the hash in the request is not compared with the file.
ValidateBeforeWriteAnySha(sha) == ~memory.dirty /\ memory.geo = "before"

ValidateBeforeWrite(sha) ==
    sha = RequestSha /\ ~memory.dirty /\ memory.geo = "before"

Check ==
    /\ At("check")
    /\ ValidateBeforeWrite(edit.sha)
    /\ edit' = [edit EXCEPT !.pc = "recheck"]
    /\ UNCHANGED <<disk, memory, attempts, histories>>

\* The same checks once more on a fresh hash and DBMOD.
Recheck ==
    /\ At("recheck")
    /\ InCustody
    /\ ValidateBeforeWrite(disk.sha)
    /\ edit' = [edit EXCEPT !.pc = "edit"]
    /\ UNCHANGED <<disk, memory, attempts, histories>>

\* mutationStarted: the end points of the target lines are set.
MoveLines ==
    /\ At("edit")
    /\ memory' = [geo |-> "after", dirty |-> TRUE]
    /\ edit' = [edit EXCEPT !.pc = "moved"]
    /\ UNCHANGED <<disk, attempts, histories>>

\* In-transaction ValidateReadback, then Commit.
Commit ==
    /\ At("moved")
    /\ memory.geo = "after"
    /\ edit' = [edit EXCEPT !.pc = "committed"]
    /\ UNCHANGED <<disk, memory, attempts, histories>>

\* An exception before the commit is known to have happened: the transaction
\* is disposed.  What the drawing then holds is AutoCAD's: the lines moved back
\* or, when Commit itself raised, possibly not, and DBMOD with them.
Abort ==
    /\ edit.pc \in {"edit", "moved"}
    /\ memory' \in [geo : {"before", memory.geo}, dirty : BOOLEAN]
    /\ memory'.geo = "after" => memory'.dirty
    /\ edit' = [edit EXCEPT !.pc = "aborted"]
    /\ UNCHANGED <<disk, attempts, histories>>

\* TryVerifyNativeLineEditUnchanged.
VerifyUnchanged ==
    /\ At("aborted")
    /\ Report(IF disk.sha = edit.sha /\ ~memory.dirty /\ memory.geo = "before"
                THEN "UNCHANGED" ELSE "UNCERTAIN")
    /\ UNCHANGED <<disk, memory, attempts, histories>>

\* The file was rewritten since it was hashed: the lines are moved back in
\* memory (that may fail) and the file is left alone.
RestoreInMemoryOnly ==
    /\ At("committed")
    /\ InCustody
    /\ disk.sha # edit.sha
    /\ \E geo \in {"before", memory.geo} : memory' = [geo |-> geo, dirty |-> TRUE]
    /\ Report("UNCERTAIN")
    /\ UNCHANGED <<disk, attempts, histories>>

AllowSave ==
    /\ At("committed")
    /\ InCustody
    /\ disk.sha = edit.sha
    /\ edit' = [edit EXCEPT !.pc = "save"]
    /\ UNCHANGED <<disk, memory, attempts, histories>>

\* SaveAs of the open drawing over the candidate, under the file's custody:
\* AutoCAD renames the old file to its backup and creates a new one.
SaveOwnedCandidate(next) ==
    /\ InCustody
    /\ disk' = [geo |-> memory.geo, sha |-> disk.sha + 1, file |-> disk.file + 1]
    /\ memory' = [memory EXCEPT !.dirty = FALSE]
    /\ edit' = [edit EXCEPT !.pc = next]
    /\ saves' = saves \cup {disk.sha + 1}
    /\ lost' = lost \cup {w \in foreign : w.sha = disk.sha}
    /\ UNCHANGED <<attempts, origin, foreign>>

Save == At("save") /\ SaveOwnedCandidate("adopt")

\* The end of SaveOwnedCandidate: custody of the file now at the path.
Adopt ==
    /\ edit.pc \in {"adopt", "rollback_adopt"}
    /\ edit' = [edit EXCEPT !.pc = IF At("adopt") THEN "sign" ELSE "rollback_reopen",
                            !.custody = disk.file]
    /\ UNCHANGED <<disk, memory, attempts, histories>>

\* drawingSha256After, which also becomes the hash a rollback expects.
Sign ==
    /\ At("sign")
    /\ InCustody
    /\ edit' = [edit EXCEPT !.pc = "reopen", !.after = disk.sha, !.expected = disk.sha]
    /\ UNCHANGED <<disk, memory, attempts, histories>>

\* Read-back of the open drawing and of a second open of the saved file.
Reopen ==
    /\ At("reopen")
    /\ InCustody
    /\ memory.geo = "after" /\ disk.geo = "after" /\ ~memory.dirty
    /\ edit.after # edit.sha
    /\ Report("SAVED")
    /\ UNCHANGED <<disk, memory, attempts, histories>>

-----------------------------------------------------------------------------
(* The catch block *)

\* A check fails, or a call raises, before the first line is moved.
FailBeforeEdit ==
    /\ edit.pc \in {"start", "hash", "check", "recheck"}
    /\ Report("UNCHANGED")
    /\ UNCHANGED <<disk, memory, attempts, histories>>

FailAfterCommit ==
    /\ edit.pc \in {"committed", "save", "adopt", "sign", "reopen"}
    /\ edit' = [edit EXCEPT !.pc = "restore"]
    /\ UNCHANGED <<disk, memory, attempts, histories>>

\* TryRestoreAndPersistNativeLineEdit: first the open drawing ...
Restore ==
    /\ At("restore")
    /\ InCustody
    /\ memory' = [geo |-> "before", dirty |-> TRUE]
    /\ edit' = [edit EXCEPT !.pc = "persist"]
    /\ UNCHANGED <<disk, attempts, histories>>

\* ... then, TryPersistRollbackIfDiskCurrent, the file ...
AllowRollback ==
    /\ At("persist")
    /\ disk.sha = edit.expected
    /\ edit' = [edit EXCEPT !.pc = "rollback_save"]
    /\ UNCHANGED <<disk, memory, attempts, histories>>

RollbackSave == At("rollback_save") /\ SaveOwnedCandidate("rollback_adopt")

\* ... which is read back from a second open.
RollbackReopen ==
    /\ At("rollback_reopen")
    /\ InCustody
    /\ disk.geo = "before" /\ ~memory.dirty
    /\ Report("ROLLED_BACK")
    /\ UNCHANGED <<disk, memory, attempts, histories>>

RollbackFails ==
    /\ edit.pc \in {"restore", "persist", "rollback_save", "rollback_adopt", "rollback_reopen"}
    /\ Report("UNCERTAIN")
    /\ UNCHANGED <<disk, memory, attempts, histories>>

-----------------------------------------------------------------------------
(* The environment *)

\* Custody shares read, write and delete: another program may write into the
\* file or replace it.
ForeignWrite ==
    /\ Cardinality(foreign) < MaxForeign
    /\ edit.pc # "done"
    /\ \E geo \in Geometries, replaced \in BOOLEAN :
         /\ disk' = [geo |-> geo, sha |-> disk.sha + 1,
                     file |-> IF replaced THEN disk.file + 1 ELSE disk.file]
         /\ foreign' = foreign \cup {[sha |-> disk.sha + 1, at |-> edit.pc, replaced |-> replaced]}
    /\ UNCHANGED <<memory, edit, attempts, origin, saves, lost>>

\* The kept request is served by a later command.
Again ==
    /\ At("done")
    /\ attempts < MaxAttempts
    /\ attempts' = attempts + 1
    /\ edit' = Start
    /\ origin' = [memory |-> memory, saves |-> saves]
    /\ UNCHANGED <<disk, memory, saves, foreign, lost>>

Apply ==
    \/ AcquireCustody \/ Hash \/ Check \/ Recheck
    \/ MoveLines \/ Commit \/ AllowSave \/ Save \/ Adopt \/ Sign \/ Reopen
    \/ RestoreInMemoryOnly

Catch ==
    \/ FailBeforeEdit
    \/ Abort \/ VerifyUnchanged
    \/ FailAfterCommit \/ Restore \/ AllowRollback \/ RollbackSave \/ RollbackReopen
    \/ RollbackFails

Next == Apply \/ Catch \/ ForeignWrite \/ Again

Spec == Init /\ [][Next]_vars

-----------------------------------------------------------------------------
(* What the durable state reported to the caller means *)

TypeOK ==
    /\ disk \in [geo : Geometries, sha : Nat, file : Nat]
    /\ memory \in Memories
    /\ edit \in [pc : Pcs, custody : Nat, sha : Nat, expected : Nat, after : Nat,
                 report : Reports]
    /\ At("done") <=> edit.report # "none"
    /\ attempts \in 1..MaxAttempts
    /\ origin \in [memory : Memories, saves : SUBSET Nat]
    /\ saves \subseteq Nat
    /\ foreign \subseteq ForeignWrites
    /\ lost \subseteq foreign

\* Nobody wrote the file while the execution was at one of these steps.
Quiet(pcs) == \A w \in foreign : w.at \notin pcs

\* SAVED: the file holds the edited lines, and the bytes that were hashed for
\* the caller unless they were rewritten during the last read-back; the drawing
\* was saved exactly once and the open drawing is clean.
SavedIsTrue ==
    edit.report = "SAVED" =>
        /\ disk.geo = "after"
        /\ Quiet({"reopen"}) => disk.sha = edit.after
        /\ \E sha \in saves : saves = {sha}
        /\ memory = [geo |-> "after", dirty |-> FALSE]

\* ROLLED_BACK: the file and the open drawing both hold the lines as they were
\* before the edit, in bytes the rollback wrote unless they were rewritten
\* during its read-back.
RolledBackIsTrue ==
    edit.report = "ROLLED_BACK" =>
        /\ disk.geo = "before"
        /\ Quiet({"rollback_adopt", "rollback_reopen"}) => disk.sha \in saves
        /\ memory = [geo |-> "before", dirty |-> FALSE]

\* UNCHANGED: this execution saved nothing and left the open drawing as it
\* found it, whichever step failed.
UnchangedIsTrue ==
    edit.report = "UNCHANGED" => memory = origin.memory /\ saves = origin.saves

\* What the caller is told is true of the file and of the open drawing, in
\* each of the durable states an edit can report.
ReportIsTrue == SavedIsTrue /\ RolledBackIsTrue /\ UnchangedIsTrue

\* A SaveAs destroys the bytes of another program only if they were written
\* after the last look the edit took at the file: between a hash and the save
\* it allows, or between a save and the hash that adopts it; a file that was
\* replaced, only before its successor is taken into custody.
OverwritesOnlyInWindows ==
    \A w \in lost :
        /\ w.at \in {"save", "adopt", "sign", "rollback_save"}
        /\ w.replaced => w.at = "adopt"

\* What the line edit reports is true, and what it overwrites was out of sight.
OutputsAreTrue == TypeOK /\ ReportIsTrue /\ OverwritesOnlyInWindows

\* The edit reaches the disk at most once however often its request is
\* executed: it is saved only over bytes no execution has written.
EditSavedOnce ==
    [][At("save") /\ saves' # saves => saves = {}]_vars
=============================================================================
