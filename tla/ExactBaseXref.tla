------------------------------ MODULE ExactBaseXref ------------------------------
(***************************************************************************)
(* Components of an exact-base drawing that is attached as an Xref: the    *)
(* live inspection and the extraction into a new candidate file, in the    *)
(* plugin (ExactBaseXrefPolicy, AutoCadExactBaseXrefReader) and in Python  *)
(* (exact_base_xref.py, DotNetIPCClient.exact_base_xref_...).              *)
(*                                                                         *)
(* Kept: the order in which files are hashed, documents are read, the      *)
(* candidate is saved, identified, hashed and cleaned up; the ways each    *)
(* step fails; other programs that write the source, the accepted drawing, *)
(* the input and the output between any two steps; documents whose memory  *)
(* is not what the files hold.                                             *)
(* Abstracted: a file is a version number and its SHA-256 is the number;   *)
(* 0 is what the server configuration names. Identity, dimensions, layers  *)
(* and blocks are one choice whether what is read fits the expectations,   *)
(* which version 0 does. A path is the file it names, so aliases are the   *)
(* direct native base, whose source and accepted drawing are one file.     *)
(* AutoCAD handles a command in one go: documents change between commands. *)
(***************************************************************************)
EXTENDS Naturals

CONSTANTS
    Components,  \* logical_component_id of the inspected blocks
    MaxEvents,   \* bound: writes by others, edits, failures of AutoCAD or the disk
    MaxCalls,    \* bound: requests
    NamesRequest \* the parameters of an extraction carry its request_id

Versions == 0 .. MaxEvents
Documents == {"accepted", "input"}
Foreign == 0    \* who wrote the output: another program, or the call of that number

VARIABLES
    direct,               \* the source is the accepted drawing itself: xref is null
    source, drawing,      \* files
    output,               \* the candidate file: who wrote it, if it is there
    loaded, memory, dbmod,  \* documents: the Xref as loaded, the content, unsaved edits
    \* Python
    inspection, plan,
    \* the plugin
    pc, task, calls, wanted,
    sourceBefore, inputBefore, sourceHash, targetHash, modified, fits, identity,
    inspected, outcome,
    events,
    \* history
    read,        \* what the capture read: content and Xref
    unsaved,     \* ... from a document that was not what its file was
    seen,        \* the output when it was last looked at
    foreignLost, \* a file known to be another program's was replaced or deleted
    excuse       \* of the last call: what went wrong in it

files == <<source, drawing, output>>
documents == <<loaded, memory, dbmod>>
client == <<inspection, plan>>
hashes == <<sourceBefore, inputBefore, sourceHash, targetHash, modified, fits, identity>>
call == <<task, calls, wanted, hashes, inspected>>
history == <<read, unsaved, seen, foreignLost>>
vars == <<direct, files, documents, client, pc, call, outcome, events, history, excuse>>

Inspection == [live : BOOLEAN, target : Versions]
Plan == [parts : SUBSET Components, target : Versions, views : BOOLEAN]

Init ==
    /\ direct \in BOOLEAN
    /\ source = 0 /\ drawing = [d \in Documents |-> 0] /\ output = {}
    /\ loaded = [d \in Documents |-> 0] /\ memory = [d \in Documents |-> 0]
    /\ dbmod = [d \in Documents |-> 0]
    /\ inspection = {} /\ plan = {}
    /\ pc = "idle" /\ task = "none" /\ calls = 0 /\ wanted = {}
    /\ sourceBefore = 0 /\ inputBefore = 0 /\ sourceHash = 0 /\ targetHash = 0
    /\ modified = 0 /\ fits = FALSE /\ identity = {}
    /\ inspected = {} /\ outcome = "none"
    /\ events = 0
    /\ read = {} /\ unsaved = FALSE /\ seen = {} /\ foreignLost = FALSE
    /\ excuse = {}

SourceFile == IF direct THEN drawing["accepted"] ELSE source
Document == IF task = "inspect" THEN "accepted" ELSE "input"
Absent == output = {}

Goto(step) == pc' = step
Fail == Goto("failed")

\* A step of AutoCAD or of the disk fails.
Fails == events < MaxEvents /\ events' = events + 1 /\ excuse' = excuse \cup {"fault"}
Works == UNCHANGED <<events, excuse>>

-----------------------------------------------------------------------------
(* Python: the offline records *)

\* An inspection record of the expected set is written down offline.
Expect ==
    /\ inspection = {} /\ pc = "idle"
    /\ \E v \in {0, drawing["input"]} : inspection' = {[live |-> FALSE, target |-> v]}
    /\ UNCHANGED <<direct, files, documents, plan, pc, call, outcome, events, history, excuse>>

\* build_extraction_plan: some of the inspected components.
BuildPlan ==
    /\ pc = "idle" /\ ~direct
    /\ \E i \in inspection, parts \in SUBSET Components \ {{}}, views \in BOOLEAN :
         plan' = {[parts |-> parts, target |-> i.target, views |-> views]}
    /\ UNCHANGED <<direct, files, documents, inspection, pc, call, outcome, events, history,
                   excuse>>

-----------------------------------------------------------------------------
(* Requests, and what the policy refuses *)

Begin(kind, step) ==
    /\ pc = "idle" /\ calls < MaxCalls
    /\ calls' = calls + 1 /\ task' = kind
    /\ outcome' = "none" /\ identity' = {} /\ read' = {} /\ unsaved' = FALSE
    /\ Goto(step)

\* ValidateInspectionRequest: the source is the configured one, its revision
\* and the hashes are those of the configuration.
Inspect ==
    /\ inspection # {}
    /\ \E i \in inspection :
         Begin("inspect", IF i.target = 0 THEN "hash" ELSE "failed")
    /\ excuse' = {} /\ wanted' = {}
    /\ UNCHANGED <<direct, files, documents, client, sourceBefore, inputBefore, sourceHash,
                   targetHash, modified, fits, inspected, events, seen, foreignLost>>

\* ValidateExtractionRequest: the caller names the hash that its input has,
\* the plan is of that hash, and the output does not exist.
Extract ==
    /\ \E p \in plan :
         /\ LET allowed == p.target = drawing["input"] /\ p.views /\ Absent
            IN  Begin("extract", IF allowed THEN "absent" ELSE "failed")
         /\ wanted' = {p}
         /\ excuse' = {x \in {"plan", "output"} :
               IF x = "output" THEN ~Absent
               ELSE p.target # drawing["input"] \/ ~p.views \/ p.parts # Components}
    /\ UNCHANGED <<direct, files, documents, client, sourceBefore, inputBefore, sourceHash,
                   targetHash, modified, fits, inspected, events, seen, foreignLost>>

-----------------------------------------------------------------------------
(* Reader: the inspection, which an extraction runs as its preflight *)

\* Extract: the output is absent, the source and the input are hashed.
Prepare ==
    /\ pc = "absent"
    /\ sourceBefore' = SourceFile /\ inputBefore' = drawing["input"]
    /\ IF Absent THEN Goto("hash") ELSE Fail
    /\ UNCHANGED <<direct, files, documents, client, task, calls, wanted, sourceHash, targetHash,
                   modified, fits, identity, inspected, outcome, events, history, excuse>>

\* ReadInternal
Hash ==
    /\ pc = "hash"
    /\ sourceHash' = SourceFile /\ targetHash' = drawing[Document] /\ modified' = dbmod[Document]
    /\ Goto("capture")
    /\ UNCHANGED <<direct, files, documents, client, task, calls, wanted, sourceBefore, inputBefore,
                   fits, identity, inspected, outcome, events, history, excuse>>

\* ReadNamedExternalXref
Capture ==
    LET d == Document
        of == [content |-> memory[d], xref |-> IF direct THEN memory[d] ELSE loaded[d]]
    IN  /\ pc = "capture"
        /\ \/ /\ Works /\ Goto("judge")
              /\ read' = {of}
              /\ unsaved' = \/ dbmod[d] = 1
                            \/ memory[d] # targetHash
                            \/ ~direct /\ loaded[d] # sourceHash
              /\ fits' \in (IF of.content = 0 /\ of.xref = 0 THEN {TRUE} ELSE BOOLEAN)
           \/ Fails /\ Fail /\ UNCHANGED <<read, unsaved, fits>>
        /\ UNCHANGED <<direct, files, documents, client, task, calls, wanted, sourceBefore,
                       inputBefore, sourceHash, targetHash, modified, identity, inspected, outcome,
                       seen, foreignLost>>

\* The hashes of ReadInternal, BuildEvidence and ValidateLiveInspection, which
\* asks for the request id of the evidence.
Eligible ==
    /\ SourceFile = sourceHash /\ sourceHash = 0
    /\ drawing[Document] = targetHash /\ dbmod[Document] = modified
    /\ fits
    /\ IF task = "inspect" THEN targetHash = 0
       ELSE (\A p \in wanted : targetHash = p.target) /\ NamesRequest

Judge ==
    /\ pc = "judge"
    /\ IF ~Eligible THEN Fail
       ELSE Goto(IF task = "inspect" THEN "succeeded" ELSE "plan")
    /\ inspected' = {[source |-> SourceFile, target |-> targetHash]}
    /\ UNCHANGED <<direct, files, documents, client, task, calls, wanted, hashes, outcome, events,
                   history, excuse>>

\* ValidatePlanAgainstFreshPreflight: the plan is of all that was inspected.
CheckPlan ==
    /\ pc = "plan"
    /\ IF \E p \in wanted : p.parts = Components THEN Goto("clone") ELSE Fail
    /\ UNCHANGED <<direct, files, documents, client, call, outcome, events, history, excuse>>

-----------------------------------------------------------------------------
(* ExtractApprovedComponents *)

\* The output is absent still, the components are found in the Xref and
\* cloned into a new database.
Clone ==
    /\ pc = "clone"
    /\ \/ Works /\ IF Absent THEN Goto("save") ELSE Fail
       \/ Fails /\ Fail
    /\ seen' = output
    /\ UNCHANGED <<direct, files, documents, client, call, outcome, read, unsaved, foreignLost>>

\* SaveAs replaces what is there by now; when it throws, a part of the file
\* may be there.
Save ==
    LET replaces == foreignLost \/ Foreign \in output \cap seen
    IN  /\ pc = "save"
        /\ \/ Works /\ Goto("identify") /\ output' = {calls} /\ foreignLost' = replaces
           \/ Fails /\ Fail
              /\ \/ output' = {calls} /\ foreignLost' = replaces
                 \/ UNCHANGED <<output, foreignLost>>
        /\ UNCHANGED <<direct, source, drawing, documents, client, call, outcome, read, unsaved,
                       seen>>

\* CaptureCandidateIdentity; the file stays when this fails.
Identify ==
    /\ pc = "identify"
    /\ \/ Works /\ identity' = output /\ IF Absent THEN Fail ELSE Goto("measure")
       \/ Fails /\ Fail /\ UNCHANGED identity
    /\ UNCHANGED <<direct, files, documents, client, task, calls, wanted, sourceBefore, inputBefore,
                   sourceHash, targetHash, modified, fits, inspected, outcome, history>>

\* The hashes of ExtractApprovedComponents, which nobody compares.
Measure ==
    /\ pc = "measure"
    /\ \/ Works /\ Goto(IF Absent THEN "clean" ELSE "compare")
       \/ Fails /\ Goto("clean")
    /\ UNCHANGED <<direct, files, documents, client, call, outcome, history>>

\* The hashes after the extraction, and the handles of the components.
Compare ==
    /\ pc = "compare"
    /\ \/ Works /\ Goto(IF /\ SourceFile = sourceBefore /\ sourceBefore = 0
                           /\ drawing["input"] = inputBefore /\ ~Absent
                        THEN "succeeded" ELSE "clean")
       \/ Fails /\ Goto("clean")
    /\ inspected' = {[source |-> SourceFile, target |-> drawing["input"]]}
    /\ UNCHANGED <<direct, files, documents, client, task, calls, wanted, hashes, outcome, history>>

\* Mutant: the output is deleted whatever it has become.
CleanAny ==
    /\ pc = "clean"
    /\ IF Absent THEN Fail ELSE Goto("delete")
    /\ seen' = output
    /\ UNCHANGED <<direct, files, documents, client, call, outcome, events, read, unsaved,
                   foreignLost, excuse>>

\* DeleteCandidateIfIdentityMatches
Clean ==
    /\ pc = "clean"
    /\ IF Absent \/ output # identity THEN Fail ELSE Goto("delete")
    /\ seen' = output
    /\ UNCHANGED <<direct, files, documents, client, call, outcome, events, read, unsaved,
                   foreignLost, excuse>>

Delete ==
    /\ pc = "delete"
    /\ \/ Works /\ output' = {}
          /\ foreignLost' = (foreignLost \/ Foreign \in (output \cap seen) \ identity)
       \/ Fails /\ UNCHANGED <<output, foreignLost>>
    /\ Fail
    /\ UNCHANGED <<direct, source, drawing, documents, client, call, outcome, read, unsaved, seen>>

-----------------------------------------------------------------------------
\* The result, as Python validates it: the hashes are those it asked for.
Answer ==
    LET asked == IF task = "inspect" THEN {0} ELSE {p.target : p \in wanted}
        ok == pc = "succeeded" /\ \A i \in inspected : i.source = 0 /\ i.target \in asked
    IN  /\ pc \in {"succeeded", "failed"}
        /\ outcome' = IF ok THEN "success" ELSE "failure"
        /\ inspection' = IF ok /\ task = "inspect" THEN {[live |-> TRUE, target |-> targetHash]}
                         ELSE inspection
        /\ Goto("idle")
        /\ UNCHANGED <<direct, files, documents, plan, call, events, history, excuse>>

-----------------------------------------------------------------------------
(* Everything else *)

Happens(what) ==
    /\ events < MaxEvents /\ events' = events + 1
    /\ excuse' = excuse \cup {what}

\* A version a file had before may come back.
WriteSource ==
    /\ Happens("other") /\ source' \in 0 .. events' /\ source' # source
    /\ UNCHANGED <<direct, drawing, output, documents, client, pc, call, outcome, history>>

WriteDrawing(d) ==
    /\ Happens("other")
    /\ \E v \in 0 .. events' : v # drawing[d] /\ drawing' = [drawing EXCEPT ![d] = v]
    /\ UNCHANGED <<direct, source, output, documents, client, pc, call, outcome, history>>

WriteOutput ==
    /\ Happens("write") /\ output' = {Foreign}
    /\ UNCHANGED <<direct, source, drawing, documents, client, pc, call, outcome, history>>

\* The user edits or saves a document, or reloads its Xref.
Edit(d) ==
    /\ pc = "idle" /\ Happens("other")
    /\ memory' = [memory EXCEPT ![d] = events'] /\ dbmod' = [dbmod EXCEPT ![d] = 1]
    /\ UNCHANGED <<direct, files, loaded, client, pc, call, outcome, history>>

SaveDocument(d) ==
    /\ pc = "idle" /\ Happens("other") /\ dbmod[d] = 1
    /\ drawing' = [drawing EXCEPT ![d] = memory[d]] /\ dbmod' = [dbmod EXCEPT ![d] = 0]
    /\ UNCHANGED <<direct, source, output, loaded, memory, client, pc, call, outcome, history>>

Reload(d) ==
    /\ pc = "idle" /\ Happens("other") /\ loaded[d] # source
    /\ loaded' = [loaded EXCEPT ![d] = source]
    /\ UNCHANGED <<direct, files, memory, dbmod, client, pc, call, outcome, history>>

-----------------------------------------------------------------------------
Plugin ==
    \/ Prepare \/ Hash \/ Capture \/ Judge \/ CheckPlan \/ Clone \/ Save \/ Identify \/ Measure
    \/ Compare \/ Clean \/ Delete \/ Answer

Next ==
    \/ Expect \/ BuildPlan \/ Inspect \/ Extract \/ Plugin
    \/ WriteSource \/ WriteOutput
    \/ \E d \in Documents : WriteDrawing(d) \/ Edit(d) \/ SaveDocument(d) \/ Reload(d)

Spec == Init /\ [][Next]_vars

-----------------------------------------------------------------------------
AtMostOne(S) == \A x, y \in S : x = y

TypeOK ==
    /\ source \in Versions /\ drawing \in [Documents -> Versions]
    /\ output \subseteq 0 .. MaxCalls /\ AtMostOne(output)
    /\ loaded \in [Documents -> Versions] /\ memory \in [Documents -> Versions]
    /\ dbmod \in [Documents -> {0, 1}]
    /\ inspection \subseteq Inspection /\ AtMostOne(inspection)
    /\ plan \subseteq Plan /\ AtMostOne(plan)

Done(kind, result) == pc = "idle" /\ task = kind /\ outcome = result

\* What an accepted inspection or extraction read was the source and the
\* drawing that it names, unless the document in AutoCAD was not what its files
\* were when they were hashed: neither the hashes before and after nor DBMOD
\* show that.
EvidenceIsOfTheFiles ==
    outcome = "success" =>
        unsaved \/ \A r \in read : r.xref = 0 /\ (task = "inspect" => r.content = 0)

\* A successful extraction leaves a file of its own, made for the plan of the
\* input that was inspected. An extraction that fails leaves none, unless
\* AutoCAD or the disk failed, another program wrote the file, or the input was
\* not yet, when it was first hashed, what was then inspected: the hashes before
\* and after agree, and the result is refused in Python only.
OutputIsAccountedFor ==
    /\ Done("extract", "success") => output = {calls} \/ "write" \in excuse
    /\ Done("extract", "failure") =>
        \/ calls \notin output \/ excuse \cap {"fault", "write"} # {}
        \/ inputBefore # targetHash

\* Another program's output is lost only in three windows: between the last
\* look for the output and the save, between the save and the look at the
\* identity, when the plugin takes the file for its own, and between the
\* comparison of the identity and the deletion. Any other file that the plugin
\* saw there it leaves alone.
OthersSurvive == ~foreignLost

\* An extraction of all that was inspected, from the files it was inspected in,
\* succeeds when nothing else happens. The live test of the round trip expects
\* it of the dispatcher.
UndisturbedSucceeds ==
    Done("extract", "failure") => excuse # {} \/ events > 0

\* What the inspection and the extraction report and leave behind; the last
\* part is what the dispatcher's request_id is for.
OutputsAreTrue ==
    /\ TypeOK /\ EvidenceIsOfTheFiles /\ OutputIsAccountedFor /\ OthersSurvive
    /\ NamesRequest => UndisturbedSucceeds
=============================================================================
