------------------------------ MODULE DimensionPilot ------------------------------
(***************************************************************************)
(* The dimension pilot (cad_agent/dimension_pilot.py, with                 *)
(* dimension_contracts.py and dimension-pilot of cli.py).  A person        *)
(* approves a plan that names the source, its Primitive IR, its Semantic   *)
(* IR and a verified set-up by their digests.  A run takes a snapshot of   *)
(* these inputs, solves the model they make, builds a DXF beside its       *)
(* output, reviews it, renames it into place and reports.                  *)
(*                                                                         *)
(* Each look at the output, the temporary file or the inputs is a step of  *)
(* its own; the three inputs are hashed in one, since each is read once    *)
(* there.  Two runs may have the same output.  Others rewrite the inputs,  *)
(* write and delete the temporary file and the output.  What the solver    *)
(* answers and what a review finds wrong with a right drawing is left      *)
(* open; a file is what it was built from, or another program's.           *)
(***************************************************************************)
EXTENDS SetupGate

CONSTANTS
    Runs,
    Sources, Primitives, Semantics,      \* versions of the inputs
    SourceOf, PrimitiveOf,               \* what a Primitive and a Semantic IR were made of
    Windows,                             \* os.rename replaces nothing
    MaxEvents

VARIABLES
    inputs,          \* the three input files: source, Primitive IR, Semantic IR
    approved,        \* the dimension plan, or Absent
    approvals,       \* history: every plan that was approved
    tmp, out,        \* the DXF beside the output, and the output
    report,          \* dimension evidence
    pc, run,         \* of each run
    events,
    touched,         \* history: how often others wrote the temporary file
    lost             \* history: where a file of another program was replaced or deleted

pvars == <<inputs, approved, approvals, tmp, out, report, pc, run, events, lost,
           touched>>

Inputs == [source : Sources, primitive : Primitives, semantic : Semantics]

Nothing == [by |-> Absent, content |-> Absent]
Alien == [by |-> "other", content |-> <<"alien">>]

Fresh == [plan |-> Absent, setup |-> Absent, gate |-> Absent, snapshot |-> Absent,
          before |-> Absent, seen |-> Absent, after |-> Absent, stuck |-> FALSE]

Goto(r, label) == pc' = [pc EXCEPT ![r] = label]
Set(r, field, value) == run' = [run EXCEPT ![r][field] = value]

\* A file's content: what build_dxf makes of a snapshot, or <<"empty">>, <<"alien">>.
Built(snapshot) == <<snapshot.primitive, snapshot.semantic>>

Losing(where, file) ==
    lost' = IF file.by = "other" THEN lost \cup {where} ELSE lost

-----------------------------------------------------------------------------
\* A plan for the inputs and set-up records as they are (validate_dimension_plan).
ApprovePlan ==
    /\ plan # Absent /\ evidence # Absent
    /\ approved' = [inputs |-> inputs, plan |-> plan, evidence |-> evidence,
                    template |-> evidence.template]
    /\ approved' # approved
    /\ approvals' = approvals \cup {approved'}
    /\ UNCHANGED <<gvars, inputs, tmp, out, report, pc, run, events, lost, touched>>

\* dimension-pilot: no outputs yet; the plan and the set-up records are read.
Begin(r) ==
    /\ pc[r] = "idle"
    /\ approved # Absent /\ plan # Absent /\ evidence # Absent
    /\ ValidPlan(plan) /\ ValidEvidence(evidence)
    /\ IF out # Nothing \/ report # Absent
       THEN Goto(r, "raised") /\ UNCHANGED run
       ELSE /\ Goto(r, "snapshot")
            /\ run' = [run EXCEPT ![r].plan = approved, ![r].setup = plan, ![r].gate = evidence]
    /\ UNCHANGED <<gvars, inputs, approved, approvals, tmp, out, report, events, lost, touched>>

\* The inputs are hashed, the IRs in the bytes that will be used; all must be
\* the plan's, and the set-up verified for it.
Snapshot(r) ==
    /\ pc[r] = "snapshot"
    /\ Set(r, "snapshot", inputs)
    /\ LET p == run[r].plan
           same == inputs = p.inputs /\ run[r].setup = p.plan /\ run[r].gate = p.evidence
       IN  Goto(r, IF same /\ SetupVerified(run[r].gate, run[r].setup, p)
                   THEN "model" ELSE "report")
    /\ UNCHANGED <<gvars, inputs, approved, approvals, tmp, out, report, events, lost, touched>>

\* _artifact_change_blockers
Unchanged(r) == inputs = run[r].snapshot

\* The inputs have not changed and were made of each other; datum,
\* attachments, constraints and dimensions are those of the model, or not.
CheckModel(r) ==
    /\ pc[r] = "model"
    /\ LET s == run[r].snapshot
           chained == SourceOf[s.primitive] = s.source /\ PrimitiveOf[s.semantic] = s.primitive
       IN  \/ Unchanged(r) /\ chained /\ Goto(r, "solve")
           \/ Goto(r, "report")
    /\ UNCHANGED <<gvars, inputs, approved, approvals, tmp, out, report, run, events, lost,
                   touched>>

\* solve_constraints: okay, fully constrained and within tolerance, or not.
Solve(r) ==
    /\ pc[r] = "solve"
    /\ \/ Unchanged(r) /\ Goto(r, "open")
       \/ Goto(r, "report")
    /\ UNCHANGED <<gvars, inputs, approved, approvals, tmp, out, report, run, events, lost,
                   touched>>

-----------------------------------------------------------------------------
\* The temporary file is created exclusively ...
OpenTemporary(r) ==
    /\ pc[r] = "open"
    /\ IF tmp = Nothing
       THEN Goto(r, "build") /\ tmp' = [by |-> r, content |-> <<"empty">>]
       ELSE Goto(r, "raised") /\ UNCHANGED tmp
    /\ UNCHANGED <<gvars, inputs, approved, approvals, out, report, run, events, lost, touched>>

\* ... and written by build_dxf, whatever is there now.
BuildDxf(r) ==
    /\ pc[r] = "build"
    /\ tmp' = [by |-> r, content |-> Built(run[r].snapshot)]
    /\ Losing("build", tmp)
    /\ Goto(r, "before")
    /\ UNCHANGED <<gvars, inputs, approved, approvals, out, report, run, events, touched>>

\* Bound on what others do, on kills and on failing deletions.
Event == events < MaxEvents /\ events' = events + 1

\* _cleanup_path: what is there is deleted, unless it cannot be (stuck).
CleanUp(r) ==
    \/ /\ tmp' = Nothing /\ Losing("cleanup", tmp)
       /\ UNCHANGED <<run, events>>
    \/ /\ tmp # Nothing /\ Event
       /\ Set(r, "stuck", TRUE)
       /\ UNCHANGED <<tmp, lost>>

\* The bytes before the review, what the review reads, and the bytes after.
ReadTemporary(r) ==
    /\ pc[r] \in {"before", "seen", "after"} /\ tmp # Nothing
    /\ Set(r, pc[r], tmp.content)
    /\ Goto(r, CASE pc[r] = "before" -> "seen"
                 [] pc[r] = "seen" -> "after"
                 [] pc[r] = "after" -> "judge")
    /\ UNCHANGED <<gvars, inputs, approved, approvals, tmp, out, report, events, lost, touched>>

\* Building, reading or the review raises, as it does when the file is gone.
BuildFails(r) ==
    /\ pc[r] \in {"build", "before", "seen", "after"}
    /\ Goto(r, "raised") /\ CleanUp(r)
    /\ UNCHANGED <<gvars, inputs, approved, approvals, out, report, touched>>

\* Mutant: the bytes are hashed before the review only.
AcceptedUnread(r) == run[r].seen = Built(run[r].snapshot) /\ Unchanged(r)

\* The bytes did not change, the review passed, and the inputs are the same.
Accepted(r) ==
    /\ run[r].before = run[r].after
    /\ run[r].seen = Built(run[r].snapshot)
    /\ Unchanged(r)

Judge(r) ==
    /\ pc[r] = "judge"
    /\ \/ /\ Accepted(r) /\ Goto(r, "absent")
          /\ UNCHANGED <<tmp, run, events, lost>>
       \/ Goto(r, "report") /\ CleanUp(r)
    /\ UNCHANGED <<gvars, inputs, approved, approvals, out, report, touched>>

\* The output must still not be there ...
CheckAbsent(r) ==
    /\ pc[r] = "absent"
    /\ IF out = Nothing
       THEN Goto(r, "rename") /\ UNCHANGED <<tmp, run, events, lost>>
       ELSE Goto(r, "raised") /\ CleanUp(r)
    /\ UNCHANGED <<gvars, inputs, approved, approvals, out, report, touched>>

\* ... and os.rename, which replaces a file except on Windows.
Rename(r) ==
    /\ pc[r] = "rename"
    /\ IF tmp = Nothing \/ (Windows /\ out # Nothing)
       THEN Goto(r, "raised") /\ CleanUp(r) /\ UNCHANGED out
       ELSE /\ Goto(r, "verify")
            /\ out' = tmp /\ tmp' = Nothing
            /\ Losing("rename", out)
            /\ UNCHANGED <<run, events>>
    /\ UNCHANGED <<gvars, inputs, approved, approvals, report, touched>>

\* The published bytes are hashed; what is not as reviewed is deleted.
VerifyOutput(r) ==
    /\ pc[r] = "verify"
    /\ IF out.content = run[r].after
       THEN Goto(r, "passed") /\ UNCHANGED <<out, lost>>
       ELSE Goto(r, "raised") /\ out' = Nothing /\ Losing("verify", out)
    /\ UNCHANGED <<gvars, inputs, approved, approvals, tmp, report, run, events, touched>>

\* Dimension evidence, as its contract wants it: what passed has a DXF, what is
\* blocked has none; neither is an acceptance.
Evidence(r) ==
    [run |-> r, passed |-> pc[r] = "passed", plan |-> run[r].plan,
     gate |-> run[r].gate, inputs |-> run[r].snapshot,
     dxf |-> IF pc[r] = "passed" THEN run[r].after ELSE Absent]

\* write_dimension_evidence: created where there is none.
WriteEvidence(r) ==
    /\ pc[r] \in {"passed", "report"}
    /\ IF report # Absent
       THEN Goto(r, "raised") /\ UNCHANGED report
       ELSE Goto(r, "done") /\ report' = Evidence(r)
    /\ UNCHANGED <<gvars, inputs, approved, approvals, tmp, out, run, events, lost, touched>>

\* The command is killed.
Kill(r) ==
    /\ pc[r] \in {"build", "before", "seen", "after", "judge", "absent", "rename", "verify",
                  "passed"}
    /\ Event
    /\ Goto(r, "dead")
    /\ UNCHANGED <<gvars, inputs, approved, approvals, tmp, out, report, run, lost, touched>>

-----------------------------------------------------------------------------
\* Others rewrite an input, or write or delete the temporary file or the
\* output: with bytes of their own, or with a drawing built before.
RewriteInput ==
    /\ Event
    /\ \E input \in DOMAIN inputs, v \in Sources \cup Primitives \cup Semantics :
        inputs' = [inputs EXCEPT ![input] = v]
    /\ inputs' \in Inputs \ {inputs}
    /\ UNCHANGED <<gvars, approved, approvals, tmp, out, report, pc, run, lost, touched>>

Foreign(file) == ({Nothing, Alien} \ {file})
    \cup {[by |-> "other", content |-> Built(run[r].snapshot)] :
              r \in {x \in Runs : run[x].snapshot # Absent}}

TouchTemporary ==
    /\ Event /\ tmp' \in Foreign(tmp)
    /\ touched' = touched + 1
    /\ UNCHANGED <<gvars, inputs, approved, approvals, out, report, pc, run, lost>>

TouchOutput ==
    /\ Event /\ out' \in Foreign(out)
    /\ UNCHANGED <<gvars, inputs, approved, approvals, tmp, report, pc, run, lost, touched>>

PilotInit ==
    /\ GateInit
    /\ inputs \in Inputs
    /\ approved = Absent /\ approvals = {}
    /\ tmp = Nothing /\ out = Nothing /\ report = Absent
    /\ pc = [r \in Runs |-> "idle"] /\ run = [r \in Runs |-> Fresh]
    /\ events = 0 /\ lost = {} /\ touched = 0

RunNext(r) ==
    \/ Begin(r) \/ Snapshot(r) \/ CheckModel(r) \/ Solve(r)
    \/ OpenTemporary(r) \/ BuildDxf(r) \/ ReadTemporary(r) \/ BuildFails(r)
    \/ Judge(r) \/ CheckAbsent(r) \/ Rename(r) \/ VerifyOutput(r) \/ WriteEvidence(r) \/ Kill(r)

PilotNext ==
    \/ GateNext /\ UNCHANGED pvars
    \/ ApprovePlan \/ \E r \in Runs : RunNext(r)
    \/ RewriteInput \/ TouchTemporary \/ TouchOutput

PilotSpec == PilotInit /\ [][PilotNext]_<<gvars, pvars>>

-----------------------------------------------------------------------------
Labels == {"idle", "snapshot", "model", "solve", "open", "build", "before", "seen", "after",
           "judge", "absent", "rename", "verify", "passed", "report", "done", "raised", "dead"}

PilotTypeOK ==
    /\ inputs \in Inputs
    /\ approved \in approvals \cup {Absent}
    /\ tmp.by \in Runs \cup {"other", Absent} /\ out.by \in Runs \cup {"other", Absent}
    /\ pc \in [Runs -> Labels]
    /\ events \in 0..MaxEvents

-----------------------------------------------------------------------------
\* Evidence that passed is of an approved plan, whose inputs were made of
\* each other and whose set-up was verified for the released template; its
\* DXF is the drawing of these inputs that passed the review, unless others
\* wrote the temporary file.
PassedIsApproved ==
    report # Absent /\ report.passed =>
        /\ report.plan \in approvals /\ report.inputs = report.plan.inputs
        /\ SourceOf[report.inputs.primitive] = report.inputs.source
        /\ PrimitiveOf[report.inputs.semantic] = report.inputs.primitive
        /\ report.gate = report.plan.evidence /\ report.gate.verified
        /\ report.gate.plan = report.plan.plan /\ report.gate.template = Released
        /\ report.dxf = Built(report.inputs) \/ touched > 0

\* One write of others is seen, before the review or after it: only two, there
\* and back, let another drawing pass. (A third run could write back as well.)
OneSwapIsSeen ==
    report # Absent /\ report.passed =>
        \/ report.dxf = Built(report.inputs) \/ touched # 1
        \/ \E q, r, s \in Runs : q # r /\ r # s /\ q # s

\* A run that ended leaves no temporary file of its own, and an output of
\* its own only if that passed; and one run at a time writes the temporary
\* file, unless others took it away.  A killed run may leave either.
Writing == {"build", "before", "seen", "after", "judge", "absent", "rename"}

NothingIsLeft ==
    /\ \A r \in Runs : tmp.by = r =>
        pc[r] \in Writing \cup {"dead"} \/ run[r].stuck
    /\ \A r \in Runs : out.by = r /\ pc[r] \in {"report", "done", "raised"} =>
        run[r].after = out.content \/ touched > 0
    /\ \A r, s \in Runs : pc[r] \in Writing /\ pc[s] \in Writing /\ r # s => touched > 0

\* On Windows a run neither replaces nor deletes another program's output
\* before its own took the place.
OutputsAreKept == Windows => "rename" \notin lost

PilotIsSound == PassedIsApproved /\ NothingIsLeft /\ OutputsAreKept

\* All of this, and the set-up's.
PilotsAreSound ==
    /\ GateTypeOK /\ PilotTypeOK
    /\ VerifiedConforms /\ AuditsAreTrue /\ PilotIsSound /\ OneSwapIsSeen
=============================================================================
