------------------------------ MODULE LiveRepair ------------------------------
(***************************************************************************)
(* The mechanical-repair command: repair_live of cad_agent/live.py, with   *)
(* the review (mcp_integration_lib/reviewer2.py), the repair (repair2.py)  *)
(* and the document operations of mcp_client.py it drives AutoCAD with.    *)
(*                                                                         *)
(* Kept: every command to AutoCAD, every file written and every check as a *)
(* step, each able to fail; a command whose answer is lost may still take  *)
(* effect; a user may activate another document, save the staged one, or   *)
(* rewrite the files with another program; the process may die.            *)
(* Abstracted: a drawing is, for each primitive, which entity stands for   *)
(* it; `bad' are those whose geometry AutoCAD reads differently from the   *)
(* evidence. The reads of one review are one step. A command is answered   *)
(* only after a late one is over, since one dispatcher serves both. Every  *)
(* document can run the dispatcher, as one reviewed earlier does.          *)
(***************************************************************************)
EXTENDS Naturals

CONSTANTS
    Prims,      \* primitive ids of the build
    MaxForeign, \* bound: writes of the pair by others
    MaxSwitches \* bound: documents activated by the user during the call

ASSUME LiveAssumption == MaxForeign \in Nat /\ MaxSwitches \in Nat

Docs == {"staged", "other"}

\* What stands for a primitive: the entity the builder wrote, the one a repair
\* created, nothing (erased), another program's, or a file cut short; "none"
\* where there is no handle or no file at all.
Contents == [Prims -> {"orig", "new", "gone", "alien", "cut", "none"}]
All(s) == [p \in Prims |-> s]

\* Build evidence: the drawing whose SHA-256 it names, and its handles.
Evidences == [bound : Contents, handles : Contents]
Pairs == [dxf : Contents, evidence : Evidences]
Same(s) == [bound |-> All(s), handles |-> All(s)]
NoPair == [dxf |-> All("none"), evidence |-> Same("none")]

Quiet == [op |-> "none", doc |-> "none", prim |-> "none"]

VARIABLES
    \* files
    disk, evidence, backup,
    \* AutoCAD
    open, active,
    memory,     \* content of an open document
    bad,
    late,       \* a command whose answer was lost and that still takes effect
    \* repair_live
    pc,
    handles,    \* build.handle_by_primitive_id
    boundPath,  \* the client has recorded the staged file as its active drawing
    todo,       \* mismatches not repaired yet
    at,         \* the primitive erased and not created
    repaired,   \* repaired_count > 0
    reason,     \* why the canonical pair is being restored
    first,      \* what was hashed before the backup
    attested,   \* the pair the attestation loaded, if any
    outcome,
    \* history: the pair on disk when the backup was verified, if any
    original,
    foreign, switches

files == <<disk, evidence, backup>>
autocad == <<open, active, memory, late>>
locals == <<handles, boundPath, todo, at, repaired, reason, first, attested>>
environment == <<bad, foreign, switches>>
vars == <<files, autocad, pc, locals, outcome, original, environment>>

Pcs == {"load", "open", "read", "backup", "copy_dxf", "copy_evidence", "verify",
        "repair", "create", "review", "save", "write_evidence",
        "attest_close", "attest_open", "attest_identity", "attest_load", "attest_review", "cleanup",
        "close", "restore_dxf", "restore_evidence", "reopen", "reload", "done"}
Outcomes == {"running", "refused", "not_needed", "saved", "restored", "rollback_failed", "raised", "died"}

Init ==
    /\ disk = [d \in Docs |-> All("orig")]
    /\ evidence = Same("orig")
    /\ backup = NoPair
    /\ open \in SUBSET Docs
    /\ active \in IF open = {} THEN {"none"} ELSE open
    /\ memory = disk
    /\ bad \in SUBSET Prims
    /\ late = Quiet
    /\ pc = "load"
    /\ handles = All("none")
    /\ boundPath = FALSE
    /\ todo = {} /\ at = "none" /\ repaired = FALSE /\ reason = "none"
    /\ first = NoPair /\ attested = {} /\ original = {}
    /\ outcome = "running"
    /\ foreign = 0 /\ switches = 0

-----------------------------------------------------------------------------
(* Helpers.                                                                *)

Pair == [dxf |-> disk["staged"], evidence |-> evidence]

\* load_build_evidence accepts a pair only if the hash in the evidence is the file's.
Loads(e, dxf) == e.bound = dxf

Return(result) == pc' = "done" /\ outcome' = result
Goto(step) == pc' = step /\ UNCHANGED outcome

\* AutoCAD is idle and a document is active, so a command can be answered.
Answers == late = Quiet /\ active # "none"

\* The answer to a command typed now is lost; what it does happens later or never.
Lost(op, p) ==
    /\ late' \in {late} \cup IF late = Quiet /\ (op = "open" \/ active # "none")
                             THEN {[op |-> op, doc |-> active, prim |-> p]} ELSE {}
    /\ UNCHANGED <<open, active, memory>>

\* Effects of commands on AutoCAD and on the files.
Opened ==
    /\ open' = open \cup {"staged"}
    /\ memory' = IF "staged" \in open THEN memory ELSE [memory EXCEPT !["staged"] = disk["staged"]]
    /\ active' = "staged"

Closed(d) ==
    /\ open' = open \ {d}
    /\ active' = IF active # d THEN active ELSE IF open = {d} THEN "none" ELSE CHOOSE o \in open \ {d} : TRUE
    /\ UNCHANGED memory

\* Erasing a handle the document does not have does nothing.
Erased(d, p) == memory' = IF memory[d][p] = "orig" THEN [memory EXCEPT ![d][p] = "gone"] ELSE memory
Created(d, p) == memory' = [memory EXCEPT ![d][p] = "new"]
Saved(d) == disk' = [disk EXCEPT ![d] = memory[d]]

\* Primitives whose entity the active document lacks or has with other geometry.
Mismatches(h) == {p \in Prims : h[p] # memory[active][p] \/ (h[p] = "orig" /\ p \in bad)}

-----------------------------------------------------------------------------
(* Load the evidence, open and review.                                     *)

LoadEvidence ==
    /\ pc = "load"
    /\ \/ Loads(evidence, disk["staged"]) /\ handles' = evidence.handles /\ Goto("open")
       \/ ~Loads(evidence, disk["staged"]) /\ Return("refused") /\ UNCHANGED handles
    /\ UNCHANGED <<files, autocad, boundPath, todo, at, repaired, reason, first, attested,
                   original, environment>>

ReviewOpens ==
    /\ pc = "open"
    /\ Opened /\ boundPath' = TRUE /\ Goto("read")
    /\ UNCHANGED <<files, late, handles, todo, at, repaired, reason, first, attested,
                   original, environment>>

\* A drawing that is not seen to open, or opens without a dispatcher, is one
\* mismatch, of no primitive: nothing is read, and nothing will be repaired.
BadReviewCannotOpen ==    \* reads on
    /\ pc = "open"
    /\ Lost("open", "none") /\ UNCHANGED <<boundPath, todo>> /\ Goto("read")
    /\ UNCHANGED <<files, handles, at, repaired, reason, first, attested, original, environment>>
ReviewCannotOpen ==
    /\ pc = "open"
    /\ \/ Lost("open", "none") /\ UNCHANGED boundPath
       \/ Opened /\ boundPath' = TRUE /\ UNCHANGED late
    /\ todo' = {} /\ Goto("backup")
    /\ UNCHANGED <<files, handles, at, repaired, reason, first, attested, original, environment>>

ReviewReads ==
    /\ pc = "read" /\ Answers
    /\ todo' = Mismatches(handles)
    /\ \/ todo' = {} /\ Return("not_needed")
       \/ todo' # {} /\ Goto("backup")
    /\ UNCHANGED <<files, autocad, handles, boundPath, at, repaired, reason, first, attested,
                   original, environment>>

\* No entity list: a mismatch of no primitive. Geometry that cannot be read, a
\* contour or a dimension that does not match: refused.
ReviewCannotRead ==
    /\ pc = "read"
    /\ \/ todo' = {} /\ Goto("backup")
       \/ UNCHANGED todo /\ Return("refused")
    /\ UNCHANGED <<files, autocad, handles, boundPath, at, repaired, reason, first, attested,
                   original, environment>>

-----------------------------------------------------------------------------
(* Back up: hash, copy both, hash again.                                   *)

HashSources ==
    /\ pc = "backup"
    /\ first' = Pair /\ Goto("copy_dxf")
    /\ UNCHANGED <<files, autocad, handles, boundPath, todo, at, repaired, reason, attested,
                   original, environment>>

CopyDxf ==
    /\ pc = "copy_dxf"
    /\ backup' = [backup EXCEPT !.dxf = disk["staged"]] /\ Goto("copy_evidence")
    /\ UNCHANGED <<disk, evidence, autocad, locals, original, environment>>

CopyEvidence ==
    /\ pc = "copy_evidence"
    /\ backup' = [backup EXCEPT !.evidence = evidence] /\ Goto("verify")
    /\ UNCHANGED <<disk, evidence, autocad, locals, original, environment>>

BadBackupIsVerified == backup = first    \* does not hash the sources again
BackupIsVerified == first = Pair /\ backup = first

VerifyBackup ==
    /\ pc = "verify" /\ BackupIsVerified
    /\ original' = {Pair} /\ Goto("repair")
    /\ UNCHANGED <<files, autocad, locals, environment>>

\* Owned copies are removed, or the removal fails; either way nothing was mutated.
BackupFails ==
    /\ pc \in {"copy_dxf", "copy_evidence", "verify"}
    /\ backup' \in {backup, NoPair} /\ Return("raised")
    /\ UNCHANGED <<disk, evidence, autocad, locals, original, environment>>

-----------------------------------------------------------------------------
(* Repair: erase and create each mismatched primitive in the active        *)
(* document.                                                               *)

\* A primitive without geometry or of an unsupported kind is skipped.
Skip(p) ==
    /\ pc = "repair" /\ p \in todo
    /\ todo' = todo \ {p}
    /\ UNCHANGED <<files, autocad, pc, handles, boundPath, at, repaired, reason, first, attested,
                   outcome, original, environment>>

Erase(p) ==
    /\ pc = "repair" /\ p \in todo /\ Answers
    /\ Erased(active, p) /\ at' = p /\ Goto("create")
    /\ UNCHANGED <<files, open, active, late, handles, boundPath, todo, repaired, reason, first,
                   attested, original, environment>>

Create ==
    /\ pc = "create" /\ Answers
    /\ Created(active, at) /\ handles' = [handles EXCEPT ![at] = "new"]
    /\ todo' = todo \ {at} /\ at' = "none" /\ repaired' = TRUE /\ Goto("repair")
    /\ UNCHANGED <<files, open, active, late, boundPath, reason, first, attested, original, environment>>

\* A timeout or tool error ends the repair; no handle is trusted any more.
BadRepairFails ==    \* keeps the handles
    /\ \/ pc = "repair" /\ \E p \in todo : Lost("erase", p)
       \/ pc = "create" /\ Lost("create", at)
    /\ reason' = "transport" /\ Goto("close")
    /\ UNCHANGED <<files, handles, boundPath, todo, at, repaired, first, attested, original, environment>>
RepairFails ==
    /\ \/ pc = "repair" /\ \E p \in todo : Lost("erase", p)
       \/ pc = "create" /\ Lost("create", at)
    /\ handles' = All("none") /\ reason' = "transport" /\ Goto("close")
    /\ UNCHANGED <<files, boundPath, todo, at, repaired, first, attested, original, environment>>

EndRepair ==
    /\ pc = "repair" /\ todo = {} /\ Goto("review")
    /\ UNCHANGED <<files, autocad, locals, original, environment>>

\* The second review opens nothing: it reads the active document.
ReviewPasses ==
    /\ pc = "review" /\ Answers /\ Mismatches(handles) = {} /\ repaired
    /\ Goto("save")
    /\ UNCHANGED <<files, autocad, locals, original, environment>>

ReviewFails ==
    /\ pc = "review"
    /\ reason' = "review" /\ Goto("close")
    /\ UNCHANGED <<files, autocad, handles, boundPath, todo, at, repaired, first, attested,
                   original, environment>>

-----------------------------------------------------------------------------
(* Save, rebind the evidence, attest, remove the backup.                   *)

Save ==
    /\ pc = "save" /\ Answers
    /\ Saved(active) /\ Goto("write_evidence")
    /\ UNCHANGED <<evidence, backup, autocad, locals, original, environment>>

SaveIsLost ==
    /\ pc = "save" /\ Lost("save", "none") /\ Return("raised")
    /\ UNCHANGED <<files, locals, original, environment>>

WriteEvidence ==
    /\ pc = "write_evidence"
    /\ evidence' = [bound |-> disk["staged"], handles |-> handles]
    /\ \/ Goto("attest_close")
       \/ Return("raised")    \* replaced, and the check of what was published failed
    /\ UNCHANGED <<disk, backup, autocad, locals, original, environment>>

\* drawing_close: the client's recorded document must be the active one, and
\* must be gone from the open documents afterwards.
Closes == Answers /\ boundPath /\ active = "staged" /\ Closed("staged") /\ boundPath' = FALSE

CloseIsLost ==
    IF boundPath /\ active = "staged" THEN Lost("close", "none") ELSE UNCHANGED autocad

AttestCloses ==
    /\ pc = "attest_close" /\ Closes /\ Goto("attest_open")
    /\ UNCHANGED <<files, late, handles, todo, at, repaired, reason, first, attested, original, environment>>

AttestOpens ==
    /\ pc = "attest_open"
    /\ Opened /\ boundPath' = TRUE /\ Goto("attest_identity")
    /\ UNCHANGED <<files, late, handles, todo, at, repaired, reason, first, attested, original, environment>>

AttestIdentity ==
    /\ pc = "attest_identity" /\ Answers
    /\ open = {"staged"} /\ active = "staged" /\ Goto("attest_load")
    /\ UNCHANGED <<files, autocad, locals, original, environment>>

AttestLoads ==
    /\ pc = "attest_load" /\ Loads(evidence, disk["staged"])
    /\ attested' = {Pair} /\ Goto("attest_review")
    /\ UNCHANGED <<files, autocad, handles, boundPath, todo, at, repaired, reason, first, original, environment>>

AttestReviews ==
    /\ pc = "attest_review" /\ Answers /\ (\E loaded \in attested : Mismatches(loaded.evidence.handles) = {})
    /\ Goto("cleanup")
    /\ UNCHANGED <<files, autocad, locals, original, environment>>

\* Any failure from the evidence on is raised; the backup stays.
AttestFails ==
    /\ \/ pc = "attest_close" /\ CloseIsLost
       \/ pc = "attest_open" /\ Lost("open", "none")
       \/ pc \in {"write_evidence", "attest_identity", "attest_load", "attest_review"} /\ UNCHANGED autocad
    /\ Return("raised")
    /\ UNCHANGED <<files, locals, original, environment>>

Cleanup ==
    /\ pc = "cleanup"
    /\ \/ backup' = NoPair /\ Return("saved")
       \/ backup' \in {backup, [backup EXCEPT !.dxf = All("none")], [backup EXCEPT !.evidence = Same("none")]}
          /\ Return("raised")
    /\ UNCHANGED <<disk, evidence, autocad, locals, original, environment>>

-----------------------------------------------------------------------------
(* Restore the canonical pair from the backup and reopen it.               *)

RestoreCloses ==
    /\ pc = "close" /\ Closes /\ Goto("restore_dxf")
    /\ UNCHANGED <<files, late, handles, todo, at, repaired, reason, first, attested, original, environment>>

RestoreDxf ==
    /\ pc = "restore_dxf"
    /\ disk' = [disk EXCEPT !["staged"] = backup.dxf] /\ Goto("restore_evidence")
    /\ UNCHANGED <<evidence, backup, autocad, locals, original, environment>>

RestoreEvidence ==
    /\ pc = "restore_evidence"
    /\ evidence' = backup.evidence /\ Goto("reopen")
    /\ UNCHANGED <<disk, backup, autocad, locals, original, environment>>

Reopen ==
    /\ pc = "reopen"
    /\ Opened /\ boundPath' = TRUE /\ Goto("reload")
    /\ UNCHANGED <<files, late, handles, todo, at, repaired, reason, first, attested, original, environment>>

\* The staged file is open and the evidence is its own; only then do the
\* handles of before the repair count again.
Reload ==
    /\ pc = "reload" /\ Answers
    /\ "staged" \in open /\ Loads(evidence, disk["staged"])
    /\ handles' = IF reason = "transport" THEN first.evidence.handles ELSE handles
    /\ Return("restored")
    /\ UNCHANGED <<files, autocad, boundPath, todo, at, repaired, reason, first, attested, original, environment>>

\* Reported after a transport failure, raised after a failed review. Files are
\* truncated before they are copied.
RestoreFails ==
    /\ \/ pc = "close" /\ CloseIsLost /\ UNCHANGED files
       \/ /\ pc = "restore_dxf" /\ UNCHANGED <<evidence, backup, autocad>>
          /\ \E c \in {disk["staged"], All("cut"), backup.dxf} : disk' = [disk EXCEPT !["staged"] = c]
       \/ /\ pc = "restore_evidence" /\ UNCHANGED <<disk, backup, autocad>>
          /\ evidence' \in {evidence, Same("cut"), backup.evidence}
       \/ pc = "reopen" /\ Lost("open", "none") /\ UNCHANGED files
       \/ pc = "reload" /\ UNCHANGED <<files, autocad>>
    /\ Return(IF reason = "transport" THEN "rollback_failed" ELSE "raised")
    /\ UNCHANGED <<locals, original, environment>>

-----------------------------------------------------------------------------
(* AutoCAD, the user, other programs, and death.                           *)

LateEffect ==
    /\ late # Quiet /\ late' = Quiet
    /\ \/ late.op = "open" /\ Opened /\ UNCHANGED disk
       \/ late.op = "close" /\ Closed(late.doc) /\ UNCHANGED disk
       \/ late.op = "erase" /\ Erased(late.doc, late.prim) /\ UNCHANGED <<open, active, disk>>
       \/ late.op = "create" /\ Created(late.doc, late.prim) /\ UNCHANGED <<open, active, disk>>
       \/ late.op = "save" /\ Saved(late.doc) /\ UNCHANGED <<open, active, memory>>
    /\ UNCHANGED <<evidence, backup, pc, locals, outcome, original, environment>>

UserActivates(d) ==
    /\ pc \notin {"load", "done"} /\ switches < MaxSwitches
    /\ late = Quiet /\ d \in open \ {active}
    /\ active' = d /\ switches' = switches + 1
    /\ UNCHANGED <<files, open, memory, late, pc, locals, outcome, original, bad, foreign>>

UserSaves ==
    /\ pc # "done" /\ foreign < MaxForeign
    /\ late = Quiet /\ active = "staged"
    /\ Saved("staged") /\ foreign' = foreign + 1
    /\ UNCHANGED <<evidence, backup, autocad, pc, locals, outcome, original, bad, switches>>

ForeignWrite ==
    /\ pc # "done" /\ foreign < MaxForeign
    /\ \/ disk' = [disk EXCEPT !["staged"] = All("alien")] /\ UNCHANGED evidence
       \/ evidence' = Same("alien") /\ UNCHANGED disk
    /\ foreign' = foreign + 1
    /\ UNCHANGED <<backup, autocad, pc, locals, outcome, original, bad, switches>>

\* The process may die; a write of the restore may then be cut short.
Die ==
    /\ pc # "done" /\ Return("died")
    /\ \/ UNCHANGED <<disk, evidence>>
       \/ pc = "restore_dxf" /\ disk' = [disk EXCEPT !["staged"] = All("cut")] /\ UNCHANGED evidence
       \/ pc = "restore_evidence" /\ evidence' = Same("cut") /\ UNCHANGED disk
    /\ UNCHANGED <<backup, autocad, locals, original, environment>>

Next ==
    \/ LoadEvidence \/ ReviewOpens \/ ReviewCannotOpen \/ ReviewReads \/ ReviewCannotRead
    \/ HashSources \/ CopyDxf \/ CopyEvidence \/ VerifyBackup \/ BackupFails
    \/ \E p \in Prims : Skip(p) \/ Erase(p)
    \/ Create \/ RepairFails \/ EndRepair \/ ReviewPasses \/ ReviewFails
    \/ Save \/ SaveIsLost \/ WriteEvidence
    \/ AttestCloses \/ AttestOpens \/ AttestIdentity \/ AttestLoads \/ AttestReviews \/ AttestFails
    \/ Cleanup
    \/ RestoreCloses \/ RestoreDxf \/ RestoreEvidence \/ Reopen \/ Reload \/ RestoreFails
    \/ LateEffect \/ UserSaves \/ ForeignWrite \/ Die
    \/ \E d \in Docs : UserActivates(d)

Spec == Init /\ [][Next]_vars

-----------------------------------------------------------------------------
(* Properties.                                                             *)

\* Every variable has its type.
TypeOK ==
    /\ disk \in [Docs -> Contents] /\ evidence \in Evidences
    /\ backup \in Pairs /\ first \in Pairs /\ attested \subseteq Pairs /\ original \subseteq Pairs
    /\ open \subseteq Docs /\ active \in open \cup {"none"} /\ memory \in [Docs -> Contents]
    /\ late \in [op : {"none", "open", "erase", "create", "save", "close"},
                 doc : Docs \cup {"none"}, prim : Prims \cup {"none"}]
    /\ late.op \notin {"none", "open"} => late.doc \in Docs
    /\ pc \in Pcs /\ outcome \in Outcomes /\ (pc = "done" <=> outcome # "running")
    /\ handles \in Contents /\ boundPath \in BOOLEAN /\ repaired \in BOOLEAN
    /\ todo \subseteq Prims /\ bad \subseteq Prims /\ at \in Prims \cup {"none"}
    /\ reason \in {"none", "transport", "review"}
    /\ foreign \in 0..MaxForeign /\ switches \in 0..MaxSwitches

\* A call that reports "saved" has attested a pair on disk whose evidence is
\* the DXF's own, names the entities that are in it, and has no primitive
\* left that deviates, whatever was lost, saved or activated on the way.  Two
\* writes by others may have put a pair of their own there; three may have put
\* back the bytes that the evidence was written for under what AutoCAD opened.
SavedIsTrue ==
    outcome = "saved" =>
        \E pair \in attested :
            /\ Loads(pair.evidence, pair.dxf)
            /\ foreign < 3 => pair.dxf = pair.evidence.handles
            /\ foreign < 2 => \A p \in bad : pair.dxf[p] = "new"

\* A call that reports the canonical pair restored leaves the verified pair of
\* before the repair on disk and open in AutoCAD, without any late effect
\* (unless others have written both files, so that the pair is one of theirs).
RestoredIsTrue ==
    outcome = "restored" =>
        /\ late = Quiet /\ "staged" \in open
        /\ foreign < 2 => original = {Pair} /\ memory["staged"] = disk["staged"]

\* What repair_live reports of the drawing is true when it returns.
ReportIsTrue == SavedIsTrue /\ RestoredIsTrue

\* From the first mutation until the saved candidate is attested, the pair of
\* before the repair is either what is on disk or what the backup holds.
Recoverable ==
    attested = {} => \A pair \in original : backup = pair

\* Evidence that the loader accepts names the entities of its DXF, at every
\* step and after every failure, as long as nobody else wrote a file or
\* changed the active document.
EvidenceIsTrue ==
    foreign = 0 /\ switches = 0 /\ Loads(evidence, disk["staged"]) => evidence.handles = disk["staged"]

\* A command never changes or saves a document other than the staged one that
\* happens to be active, unless the user activated it during the call; an
\* open that is lost or comes late is not an exception.
OthersAreUntouched ==
    switches = 0 => disk["other"] = All("orig") /\ memory["other"] = All("orig")

\* After a failed repair a handle is trusted again only if the open document
\* is proven to have its entity (or others have written both files).
HandlesAreProven ==
    outcome # "running" /\ reason = "transport" /\ handles # All("none") =>
        /\ outcome = "restored"
        /\ foreign < 2 => memory["staged"] = handles

\* What repair_live reports is true, its evidence is the DXF's own and its
\* handles are proven.
ReportsAreTrue == TypeOK /\ ReportIsTrue /\ EvidenceIsTrue /\ HandlesAreProven
=============================================================================
