------------------------------- MODULE StagedRun -------------------------------
(***************************************************************************)
(* The staged runs of the command line: run / resume for an image and      *)
(* run-pdf / resume-pdf for a document (cad_agent/cli.py, cad_agent/pdf.py).*)
(* A command verifies the source, makes the stages whose checkpoint is     *)
(* missing or no longer matches its file, and records each in the manifest.*)
(* Nothing locks a run: commands may overlap, be killed, or meet a person  *)
(* who edits a file.                                                       *)
(*                                                                         *)
(* The content of a file is the set of what it was made from: the source,  *)
(* the edits it has seen, and, for a DXF, the command that built it (two   *)
(* builds never have the same bytes).  A file, and a checkpoint, is {} or  *)
(* the set of one content.  build-evidence names the DXF it is about, and  *)
(* is that DXF's content here.                                             *)
(***************************************************************************)
EXTENDS Naturals

CONSTANTS Commands, LastPage, MaxEdits, MaxKills

Pages == 1..LastPage
Stages == {"rendered", "primitive", "semantic", "dxf", "evidence"}
Sources == {"source", "other source"}

VARIABLES
  kind,       \* "image" or "pdf": which pair of commands works in this directory
  source,     \* the bytes of the input file
  disk,       \* disk[p][k]: the file of stage k of page p
  listing,    \* pdf/manifest.json: the source its pages were extracted from
  manifest,   \* the saved run manifest, {} or {record}
  pc, copy,   \* each command: where it is, and the manifest it holds
  at,         \* the page it works on
  edits, kills,
  calm,       \* history: the commands that met no edit and no other command yet
  met,        \* history: two commands were alive together
  raced,      \* history: the pages two commands built together
  cut         \* history: a command stopped between two writes that belong together

vars == <<kind, source, disk, listing, manifest, pc, copy, at, edits, kills, calm, met, raced, cut>>

Resting == {"idle", "done", "failed", "killed"}
Alive == {c \in Commands : pc[c] \notin Resting}
Building == {"evidence", "record dxf", "record evidence"}

Empty == [k \in Stages |-> {}]
NewRun(bytes, how) == [of |-> bytes, mode |-> how, render |-> {}, page |-> [p \in Pages |-> Empty]]
NoRun == NewRun("none", "manual")
Edited(k) == {CASE k = "rendered" -> "edited render"
                [] k = "primitive" -> "edited primitives"
                [] k = "semantic" -> "edited semantics"
                [] k = "dxf" -> "edited dxf"
                [] k = "evidence" -> "edited evidence"}
Partial == {"partial"}

AtMostOne(S) == \A x, y \in S : x = y

TypeOK ==
  /\ kind \in {"image", "pdf"}
  /\ source \in Sources
  /\ \A p \in Pages, k \in Stages : AtMostOne(disk[p][k])
  /\ AtMostOne(listing) /\ AtMostOne(manifest)
  /\ at \in [Commands -> Pages]
  /\ \A c \in Commands : copy[c].of \in Sources \cup {"none"}
  /\ raced \subseteq Pages /\ calm \subseteq Commands

Init ==
  /\ kind \in {"image", "pdf"}
  /\ source = "source"
  /\ disk = [p \in Pages |-> Empty]
  /\ listing = {} /\ manifest = {}
  /\ pc = [c \in Commands |-> "idle"]
  /\ copy = [c \in Commands |-> NoRun]
  /\ at = [c \in Commands |-> 1]
  /\ edits = 0 /\ kills = 0
  /\ calm = Commands /\ met = FALSE /\ raced = {} /\ cut = FALSE

-----------------------------------------------------------------------------
\* completed_artifact and _completed: a record, and a file with its hash.
Complete(record, file) == record # {} /\ record = file
Done(c, k) == Complete(copy[c].page[at[c]][k], disk[at[c]][k])
File(c, k) == disk[at[c]][k]

\* _validate_pdf_resume_artifacts: once the render is recorded, every
\* rendered page has to be the recorded one.
RendersIntact(m) ==
  m.render # {} => \A p \in Pages : Complete(m.page[p]["rendered"], disk[p]["rendered"])

\* The copy with a stage of the page at work recorded, or with stages forgotten,
\* and its saving: write_manifest replaces the manifest whatever it has become.
Recorded(c, k) == [copy[c] EXCEPT !.page[at[c]][k] = File(c, k)]
Forgotten(c, stages) ==
  [copy[c] EXCEPT !.page[at[c]] = [k \in Stages |-> IF k \in stages THEN {} ELSE @[k]]]
Save(c, m) == copy' = [copy EXCEPT ![c] = m] /\ manifest' = {m}
Goto(c, where) == pc' = [pc EXCEPT ![c] = where]
Put(c, k, content) == disk' = [disk EXCEPT ![at[c]][k] = content]

\* A command that ends forgets what it held.
End(c, how) ==
  /\ Goto(c, how)
  /\ copy' = [copy EXCEPT ![c] = NoRun]
  /\ at' = [at EXCEPT ![c] = 1]
  /\ calm' = calm \cup {c}

\* An image is one page.
Last == IF kind = "image" THEN 1 ELSE LastPage

World == <<kind, source, edits, kills, met, raced, cut>>

\* Two commands that are alive together are not alone.
Meet(c) ==
  /\ met' = (met \/ Alive # {})
  /\ calm' = IF Alive = {} THEN calm ELSE calm \ (Alive \cup {c})

-----------------------------------------------------------------------------
\* run and run-pdf: refused when the manifest is there; new_manifest hashes
\* the source.
Create(c) ==
  /\ pc[c] = "idle" /\ manifest = {}
  /\ copy' = [copy EXCEPT ![c] = NewRun(source, "manual")]
  /\ Goto(c, "save new") /\ Meet(c)
  /\ UNCHANGED <<kind, source, disk, listing, manifest, at, edits, kills, raced, cut>>

\* run-pdf --auto-calibrate also wants an empty directory.
Calibrate(c) ==
  /\ kind = "pdf" /\ pc[c] = "idle" /\ manifest = {}
  /\ listing = {} /\ \A p \in Pages : disk[p] = Empty
  /\ copy' = [copy EXCEPT ![c] = NewRun(source, "candidate")]
  /\ Goto(c, "save new") /\ Meet(c)
  /\ UNCHANGED <<kind, source, disk, listing, manifest, at, edits, kills, raced, cut>>

SaveNew(c) ==
  /\ pc[c] = "save new"
  /\ Save(c, copy[c]) /\ Goto(c, IF copy[c].mode = "manual" THEN "verify" ELSE "candidate")
  /\ UNCHANGED <<disk, listing, at, calm>> /\ UNCHANGED World

\* resume and resume-pdf read the manifest.
Resume(c) ==
  /\ pc[c] = "idle" /\ manifest # {}
  /\ \E m \in manifest : copy' = [copy EXCEPT ![c] = m]
  /\ Goto(c, "verify") /\ Meet(c)
  /\ UNCHANGED <<kind, source, disk, listing, manifest, at, edits, kills, raced, cut>>

\* verify_source and the refusal of calibration candidates, then the first
\* validation of a document's checkpoints.
Verify(c) ==
  /\ pc[c] = "verify"
  /\ IF source = copy[c].of /\ copy[c].mode = "manual" /\ (kind = "pdf" => RendersIntact(copy[c]))
     THEN Goto(c, IF kind = "pdf" THEN "render" ELSE "primitive") /\ UNCHANGED <<copy, at, calm>>
     ELSE End(c, "failed")
  /\ UNCHANGED <<disk, listing, manifest>> /\ UNCHANGED World

\* The render and the primitives of some pages, published in place.
WritePages(written) ==
  disk' = [p \in Pages |->
             IF p \in written
             THEN [disk[p] EXCEPT !["rendered"] = {{source}}, !["primitive"] = {{source}}]
             ELSE disk[p]]

\* _ensure_rendered: run_pdf reads the source once and publishes the render
\* and the primitives of every page; one that fails has published some.
Extract(c) ==
  /\ pc[c] = "render"
  /\ IF Complete(copy[c].render, listing)
     THEN Goto(c, "validate") /\ UNCHANGED <<disk, listing, copy, at, calm, cut>>
     ELSE \E written \in {0..n : n \in 0..LastPage} :
            /\ WritePages(written)
            /\ IF Pages \subseteq written
               THEN listing' = {{source}} /\ Goto(c, "record render") /\ UNCHANGED <<copy, at, calm, cut>>
               ELSE listing' = {Partial} /\ End(c, "failed") /\ cut' = (cut \/ 1 \in written)
  /\ UNCHANGED <<kind, source, manifest, edits, kills, met, raced>>

\* The files are hashed as they are now; a missing one is an error.
Extracted ==
  [p \in Pages |-> [k \in Stages |-> IF k \in {"rendered", "primitive"} THEN disk[p][k] ELSE {}]]

Rendered(c) == [of |-> copy[c].of, mode |-> copy[c].mode, render |-> listing, page |-> Extracted]

RecordRender(c) ==
  /\ pc[c] = "record render"
  /\ IF \E p \in Pages : disk[p]["rendered"] = {} \/ disk[p]["primitive"] = {}
     THEN End(c, "failed") /\ cut' = TRUE /\ UNCHANGED manifest
     ELSE /\ Save(c, Rendered(c))
          /\ Goto(c, "validate") /\ UNCHANGED <<at, calm, cut>>
  /\ UNCHANGED <<kind, source, disk, listing, edits, kills, met, raced>>

\* The second validation, before the pages.
Validate(c) ==
  /\ pc[c] = "validate"
  /\ IF RendersIntact(copy[c])
     THEN Goto(c, "primitive") /\ UNCHANGED <<copy, at, calm>>
     ELSE End(c, "failed")
  /\ UNCHANGED <<disk, listing, manifest>> /\ UNCHANGED World

\* run_pdf_calibration_candidate: pages are extracted with an estimated scale;
\* when that of a page cannot be the run ends with a terminal result.
ExtractCandidate(c) ==
  /\ pc[c] = "candidate"
  /\ \E written \in {0..n : n \in 0..LastPage} :
       /\ WritePages(written)
       /\ IF Pages \subseteq written
          THEN listing' = {{source}} /\ Goto(c, "record candidate") /\ UNCHANGED <<manifest, copy, at, calm>>
          ELSE /\ listing' = {Partial}
               /\ \/ manifest' = {copy[c]} /\ End(c, "done")
                  \/ UNCHANGED manifest /\ End(c, "failed")
  /\ UNCHANGED World

\* Each page's estimate has to be about the render that is there.
RecordCandidate(c) ==
  /\ pc[c] = "record candidate"
  /\ IF \A p \in Pages : disk[p]["rendered"] # {} /\ disk[p]["rendered"] = disk[p]["primitive"]
     THEN /\ manifest' = {Rendered(c)}
          /\ End(c, "done")
     ELSE End(c, "failed") /\ UNCHANGED manifest
  /\ UNCHANGED <<disk, listing>> /\ UNCHANGED World

-----------------------------------------------------------------------------
KeepPrimitive(c) ==
  /\ pc[c] = "primitive" /\ Done(c, "primitive")
  /\ Goto(c, "semantic")
  /\ UNCHANGED <<disk, listing, manifest, copy, at, calm>> /\ UNCHANGED World

\* An image is extracted again in place (_run_primitive).
ExtractImage(c) ==
  /\ kind = "image" /\ pc[c] = "primitive" /\ ~Done(c, "primitive")
  /\ Put(c, "primitive", {{source}})
  /\ Goto(c, "record primitive")
  /\ UNCHANGED <<listing, manifest, copy, at, calm>> /\ UNCHANGED World

\* A document's page loses all its later checkpoints first, complete or not: its
\* text may be asked for in another way now (auto_ocr_roi), ...
Reset(c) == Forgotten(c, Stages \ {"rendered"})

ResetPage(c) ==
  /\ kind = "pdf" /\ pc[c] = "primitive"
  /\ Save(c, Reset(c))
  /\ Goto(c, "regenerate")
  /\ UNCHANGED <<disk, listing, at, calm>> /\ UNCHANGED World

\* ... then _regenerate_primitive_from_pdf extracts the whole document
\* elsewhere, and promotes this page's primitives when source, render and
\* listing are the recorded ones.
SameRender(c) ==
  /\ source = copy[c].of
  /\ Complete(copy[c].render, listing)
  /\ listing = {{source}}
  /\ Done(c, "rendered")
  /\ File(c, "rendered") = {{source}}
  /\ RendersIntact(copy[c])

Regenerate(c) ==
  /\ pc[c] = "regenerate"
  /\ IF SameRender(c)
     THEN Put(c, "primitive", {{source}}) /\ Goto(c, "record primitive") /\ UNCHANGED <<copy, at, calm>>
     ELSE End(c, "failed") /\ UNCHANGED disk
  /\ UNCHANGED <<listing, manifest>> /\ UNCHANGED World

\* _write_stage and _write_page_stage record the hash the file has now; a file
\* that is missing has none, which for a document is an error.
Missing(c, k) == kind = "pdf" /\ File(c, k) = {}

RecordPrimitive(c) ==
  /\ pc[c] = "record primitive"
  /\ IF Missing(c, "primitive") THEN End(c, "failed") /\ UNCHANGED manifest
     ELSE /\ Save(c, Recorded(c, "primitive"))
          /\ Goto(c, "semantic") /\ UNCHANGED <<at, calm>>
  /\ UNCHANGED <<disk, listing>> /\ UNCHANGED World

-----------------------------------------------------------------------------
KeepSemantic(c) ==
  /\ pc[c] = "semantic" /\ Done(c, "semantic")
  /\ Goto(c, "dxf")
  /\ UNCHANGED <<disk, listing, manifest, copy, at, calm>> /\ UNCHANGED World

\* _run_semantic reads the primitives of the disk.
MakeSemantic(c) ==
  /\ pc[c] = "semantic" /\ ~Done(c, "semantic")
  /\ File(c, "primitive") \notin {{}, {Partial}}
  /\ Put(c, "semantic", File(c, "primitive"))
  /\ Goto(c, "record semantic")
  /\ UNCHANGED <<listing, manifest, copy, at, calm>> /\ UNCHANGED World

RecordSemantic(c) ==
  /\ pc[c] = "record semantic"
  /\ IF Missing(c, "semantic") THEN End(c, "failed") /\ UNCHANGED manifest
     ELSE /\ Save(c, Recorded(c, "semantic"))
          /\ Goto(c, IF kind = "pdf" THEN "reset dxf" ELSE "dxf") /\ UNCHANGED <<at, calm>>
  /\ UNCHANGED <<disk, listing>> /\ UNCHANGED World

\* Mutant: the checkpoints of what was built from the old semantics stay.
ResetDxfNever(c) ==
  /\ pc[c] = "reset dxf"
  /\ Goto(c, "dxf")
  /\ UNCHANGED <<disk, listing, manifest, copy, at, calm>> /\ UNCHANGED World

\* A document's DXF and evidence are forgotten by a second write.
ResetDxf(c) ==
  /\ pc[c] = "reset dxf"
  /\ Save(c, Forgotten(c, {"dxf", "evidence"}))
  /\ Goto(c, "dxf")
  /\ UNCHANGED <<disk, listing, at, calm>> /\ UNCHANGED World

-----------------------------------------------------------------------------
NextPage(c) ==
  IF at[c] = Last THEN End(c, "done")
  ELSE at' = [at EXCEPT ![c] = @ + 1] /\ Goto(c, "primitive") /\ UNCHANGED <<copy, calm>>

\* c writes the DXF of a page another command has built and not yet recorded.
Race(c) ==
  raced' = raced \cup {at[d] : d \in {e \in Alive \ {c} : at[e] = at[c] /\ pc[e] \in Building}}

\* Mutant: a document run does not look at its evidence either.
KeepDxfAlone(c) ==
  /\ pc[c] = "dxf" /\ Done(c, "dxf")
  /\ NextPage(c)
  /\ UNCHANGED <<disk, listing, manifest>> /\ UNCHANGED World

\* An image run does not look at its evidence.
KeepDxf(c) ==
  /\ pc[c] = "dxf" /\ Done(c, "dxf")
  /\ kind = "pdf" => Done(c, "evidence")
  /\ NextPage(c)
  /\ UNCHANGED <<disk, listing, manifest>> /\ UNCHANGED World

\* Evidence alone is never made again: both checkpoints are forgotten.
ForgetDxf(c) ==
  /\ kind = "pdf" /\ pc[c] = "dxf" /\ Done(c, "dxf") /\ ~Done(c, "evidence")
  /\ Save(c, Forgotten(c, {"dxf", "evidence"}))
  /\ UNCHANGED <<pc, disk, listing, at, calm>> /\ UNCHANGED World

\* _run_dxf: the DXF from primitives and semantics of the disk, ...
BuildDxf(c) ==
  /\ pc[c] = "dxf" /\ ~Done(c, "dxf")
  /\ \E p \in File(c, "primitive"), s \in File(c, "semantic") :
       /\ Partial \notin {p, s}
       /\ Put(c, "dxf", {p \cup s \cup {c}})
  /\ Goto(c, "evidence")
  /\ Race(c)
  /\ UNCHANGED <<kind, source, listing, manifest, copy, at, edits, kills, calm, met, cut>>

\* ... and the evidence, with the hash the DXF has now.
WriteEvidence(c) ==
  /\ pc[c] = "evidence"
  /\ IF File(c, "dxf") = {} THEN End(c, "failed") /\ UNCHANGED disk
     ELSE Put(c, "evidence", File(c, "dxf")) /\ Goto(c, "record dxf") /\ UNCHANGED <<copy, at, calm>>
  /\ UNCHANGED <<listing, manifest>> /\ UNCHANGED World

RecordDxf(c) ==
  /\ pc[c] = "record dxf"
  /\ IF Missing(c, "dxf") THEN End(c, "failed") /\ UNCHANGED manifest
     ELSE IF kind = "pdf"
     THEN /\ Save(c, Recorded(c, "dxf"))
          /\ Goto(c, "record evidence") /\ UNCHANGED <<at, calm>>
     ELSE manifest' = {Recorded(c, "dxf")} /\ End(c, "done")
  /\ UNCHANGED <<disk, listing>> /\ UNCHANGED World

RecordEvidence(c) ==
  /\ pc[c] = "record evidence"
  /\ IF Missing(c, "evidence") THEN End(c, "failed") /\ UNCHANGED manifest
     ELSE IF at[c] = Last
     THEN manifest' = {Recorded(c, "evidence")} /\ End(c, "done")
     ELSE /\ Save(c, Recorded(c, "evidence"))
          /\ at' = [at EXCEPT ![c] = @ + 1] /\ Goto(c, "primitive") /\ UNCHANGED calm
  /\ UNCHANGED <<disk, listing>> /\ UNCHANGED World

-----------------------------------------------------------------------------
\* A stage that raises: an unreadable input, a failed headless review, a full
\* disk.  What it was writing may be there in part.  An image run records the
\* failure; a document run leaves its manifest.
Making == {"primitive", "semantic", "dxf"}

WritePart(c) ==
  /\ Put(c, pc[c], {Partial})
  /\ IF pc[c] = "dxf" THEN Race(c) ELSE UNCHANGED raced

Fail(c) ==
  /\ pc[c] \in Making /\ ~Done(c, pc[c])
  /\ \/ UNCHANGED <<disk, raced>>
     \/ /\ kind = "image" \/ pc[c] # "primitive"
        /\ WritePart(c)
  /\ IF kind = "image" THEN manifest' = {Forgotten(c, {pc[c]})} ELSE UNCHANGED manifest
  /\ End(c, "failed")
  /\ UNCHANGED <<kind, source, listing, edits, kills, met, cut>>

\* The process ends between two steps, or while it writes a stage in place.
Kill(c) ==
  /\ c \in Alive /\ kills < MaxKills
  /\ kills' = kills + 1
  /\ cut' = (cut \/ pc[c] \in {"record render", "record semantic", "reset dxf"})
  /\ \/ UNCHANGED <<disk, raced>>
     \/ /\ pc[c] \in Making /\ ~Done(c, pc[c]) /\ (pc[c] = "primitive" => kind = "image")
        /\ WritePart(c)
  /\ End(c, "killed")
  /\ UNCHANGED <<kind, source, listing, manifest, edits, met>>

\* A person edits or deletes a file of the run, or replaces the source.
Disturb == edits < MaxEdits /\ edits' = edits + 1 /\ calm' = calm \ Alive

EditFile(p, k) ==
  /\ Disturb /\ manifest # {}
  /\ disk[p][k] # {}
  /\ \E new \in {{}, {Edited(k)}} : new # disk[p][k] /\ disk' = [disk EXCEPT ![p][k] = new]
  /\ UNCHANGED <<kind, source, listing, manifest, pc, copy, at, kills, met, raced, cut>>

EditListing ==
  /\ Disturb /\ listing # {}
  /\ \E new \in {{}, {{"edited listing"}}} : new # listing /\ listing' = new
  /\ UNCHANGED <<kind, source, disk, manifest, pc, copy, at, kills, met, raced, cut>>

ReplaceSource ==
  /\ Disturb
  /\ source' \in Sources \ {source}
  /\ UNCHANGED <<kind, disk, listing, manifest, pc, copy, at, kills, met, raced, cut>>

-----------------------------------------------------------------------------
Step(c) ==
  \/ Create(c) \/ Calibrate(c) \/ SaveNew(c) \/ ExtractCandidate(c) \/ RecordCandidate(c)
  \/ Resume(c) \/ Verify(c)
  \/ Extract(c) \/ RecordRender(c) \/ Validate(c)
  \/ KeepPrimitive(c) \/ ExtractImage(c) \/ ResetPage(c) \/ Regenerate(c) \/ RecordPrimitive(c)
  \/ KeepSemantic(c) \/ MakeSemantic(c) \/ RecordSemantic(c) \/ ResetDxf(c)
  \/ KeepDxf(c) \/ ForgetDxf(c) \/ BuildDxf(c) \/ WriteEvidence(c)
  \/ RecordDxf(c) \/ RecordEvidence(c)
  \/ Fail(c) \/ Kill(c)

Next ==
  \/ \E c \in Commands : Step(c)
  \/ \E p \in Pages, k \in Stages : EditFile(p, k)
  \/ EditListing
  \/ ReplaceSource

Spec == Init /\ [][Next]_vars

-----------------------------------------------------------------------------
Needed == IF kind = "pdf" THEN Stages ELSE {"primitive", "semantic", "dxf"}
IsComplete(m, p, k) == Complete(m.page[p][k], disk[p][k])

\* The content a person put there, or adopted by a record made after it.
ByHand(p, k) == disk[p][k] = {Edited(k)}

\* A command that answers, and met neither an edit nor another command,
\* leaves every stage of every page recorded with the hash its file has:
\* whatever an earlier command or person left, one resume repairs the run
\* (run_stages, run_pdf_stages).
AnswersWhenComplete ==
  \A c \in Commands :
    pc[c] # "done" /\ pc'[c] = "done" /\ c \in calm =>
      (\A m \in manifest : m.mode = "manual" =>
         \A p \in 1..Last, k \in Needed : IsComplete(m, p, k))'

\* When a page of a document is complete and no command runs, its files
\* belong together: the primitives come from the document that was rendered,
\* the semantics from these primitives, the DXF from both.  Excepted are a
\* file edited before it was hashed, commands that overlapped, and a command
\* that died, or whose extraction failed, after it wrote again what later
\* checkpoints were made from and before the write that forgets them
\* (run_pdf_stages, _ensure_rendered).
CompleteIsDerived ==
  kind = "pdf" /\ Alive = {} /\ ~met /\ ~cut =>
    \A m \in manifest, p \in Pages :
      (\A k \in Stages : IsComplete(m, p, k)) =>
        /\ ByHand(p, "rendered") \/ ByHand(p, "primitive")
             \/ disk[p]["rendered"] = disk[p]["primitive"]
        /\ ByHand(p, "semantic") \/ disk[p]["semantic"] = disk[p]["primitive"]
        /\ \/ ByHand(p, "dxf")
           \/ \A d \in disk[p]["dxf"], s \in disk[p]["semantic"], i \in disk[p]["primitive"] :
                d \ Commands = s \cup i

\* Evidence that is complete beside a complete DXF is about that DXF, even
\* after kills and when commands overlap, unless they built the page
\* together or the file was edited before it was hashed (mechanical-repair
\* trusts build-evidence for the DXF beside it).
EvidenceIsAboutTheDxf ==
  kind = "pdf" =>
    \A m \in manifest, p \in Pages \ raced :
      IsComplete(m, p, "dxf") /\ IsComplete(m, p, "evidence") =>
        ByHand(p, "dxf") \/ ByHand(p, "evidence") \/ disk[p]["dxf"] = disk[p]["evidence"]

\* A run whose scale is only an estimate stays one: whatever commands are
\* started in its directory, its manifest never holds a stage built on that
\* estimate, and each page's estimate is about the render recorded beside it
\* (run_pdf_stages refuses calibration candidates).
CandidatesAreNotBuilt ==
  \A m \in manifest : m.mode = "candidate" =>
    \A p \in Pages : /\ \A k \in {"semantic", "dxf", "evidence"} : m.page[p][k] = {}
                     /\ m.page[p]["rendered"] = m.page[p]["primitive"]

\* All of this, after every step.
StagesAreDerived ==
  [][(TypeOK /\ CompleteIsDerived /\ EvidenceIsAboutTheDxf /\ CandidatesAreNotBuilt)'
     /\ AnswersWhenComplete]_vars
=============================================================================
