-------------------------------- MODULE AgentRun --------------------------------
(***************************************************************************)
(* Runs of agent_lib/run.py that share their input files and an output     *)
(* directory.  An advisory run asks a vision model about doubtful texts,   *)
(* parts and conflicts and lets the advisor (advisor.py) propose           *)
(* constraints to drop, and saves the report and an audit.  A person       *)
(* reviews the two and approves the report for the inputs the audit names; *)
(* another run, given the approved digests, applies the report.            *)
(*                                                                         *)
(* A digest is the content it is taken of.  The inputs are the page (the   *)
(* image with its Primitive IR) and the Semantic IR, in versions that      *)
(* share no id; an item is a text or conflict of a page, or a part of a    *)
(* Semantic IR.  Pruning (constraint_pruning.py) leaves out a constraint   *)
(* beside one that makes it redundant.  Solving (constraint_solving.py) is *)
(* taken for a property of the set of constraints: the solver is sensitive *)
(* to their order, the code tries three.  What prompts and answers say is  *)
(* not modelled.                                                           *)
(***************************************************************************)
EXTENDS Integers, FiniteSets

CONSTANTS
    Advisers, Appliers,      \* runs without and with an approval
    Pages, Semantics,        \* versions of the inputs
    TextsOf, ConflictsOf,    \* of a page: its doubtful texts and conflicts ...
    PartsOf,                 \* ... and of a Semantic IR: its doubtful parts
    ListOf,                  \* the constraints of a Semantic IR
    Confidence,              \* of a constraint
    Redundant,               \* pairs: the first is pruned beside the second
    Solvers,                 \* which sets of constraints have a solution: possible answers
    MaxIterations,           \* of the advisor, 10 in the code
    MaxRewrites,             \* bound on rewritten inputs
    Absent, Torn             \* no file; a file cut off by open("w")

Runs == Advisers \cup Appliers
ItemsIn(inputs) == TextsOf[inputs[1]] \cup ConflictsOf[inputs[1]] \cup PartsOf[inputs[2]]
Items == UNION {ItemsIn(inputs) : inputs \in Pages \X Semantics}
Constraints == UNION {ListOf[s] : s \in Semantics}

Prune(S) == {c \in S : \A d \in S : <<c, d>> \notin Redundant}
Weakest(S) == {c \in S : \A d \in S : Confidence[c] <= Confidence[d]}

VARIABLES
    page, sem,               \* the input files
    files,                   \* reports: agent_report.json, agent_report_applied.json, a copy
    audit,                   \* agent_application.json
    dxf,                     \* agent_run_output.dxf
    solvable,                \* the sets of constraints that have a solution
    approvals,               \* what the person approved
    rewrites,
    pc, run                  \* of each run

avars == <<page, sem, files, audit, dxf, solvable, approvals, rewrites, pc, run>>

\* AgentReport.  made_for is the inputs its maker had loaded.
Reports == [maker : Advisers, made_for : Pages \X Semantics,
            overrides : SUBSET Items, drops : SUBSET Constraints,
            applied : SUBSET (Items \cup Constraints)]
Names == {"advice", "applied", "copy"}
NoReport == [maker |-> Absent, made_for |-> Absent, overrides |-> {}, drops |-> {},
             applied |-> {}]

\* The locals of run(): what was hashed and loaded, the constraints in
\* memory, the solver's answer for them, the report.
Fresh == [approval |-> Absent, solver |-> TRUE, hashed |-> Absent, loaded |-> Absent,
          list |-> {}, status |-> "none", checked |-> Absent, report |-> NoReport,
          after |-> "none", saved |-> Absent]

Set(r, field, value) == run' = [run EXCEPT ![r][field] = value]
Goto(r, label) == pc' = [pc EXCEPT ![r] = label]

\* The process ends and its locals with it (which inputs it read is remembered).
End(r, label) ==
    /\ Goto(r, label)
    /\ run' = [run EXCEPT ![r] = [Fresh EXCEPT !.hashed = run[r].hashed, !.loaded = run[r].loaded]]

Solved(S) == IF Prune(S) \in solvable THEN "okay" ELSE "failed"

ReportName(r) == IF r \in Appliers THEN "applied" ELSE "advice"

-----------------------------------------------------------------------------
\* run(): the approval is complete or absent; python-solvespace may be missing.
Start(r) ==
    /\ pc[r] = "idle"
    /\ \E solver \in BOOLEAN, approval \in approvals \cup {Absent} :
        /\ (approval # Absent) <=> (r \in Appliers)
        /\ run' = [run EXCEPT ![r] = [Fresh EXCEPT !.approval = approval, !.solver = solver]]
    /\ Goto(r, "hash")
    /\ UNCHANGED <<page, sem, files, audit, dxf, solvable, approvals, rewrites>>

\* The digests of the inputs, compared with the approved ones.
HashInputs(r) ==
    /\ pc[r] = "hash"
    /\ IF r \in Appliers /\ run[r].approval.inputs # <<page, sem>>
       THEN End(r, "refused")
       ELSE Goto(r, "load") /\ Set(r, "hashed", <<page, sem>>)
    /\ UNCHANGED <<page, sem, files, audit, dxf, solvable, approvals, rewrites>>

\* cv2.imread and the two loaders open the files again.
LoadInputs(r) ==
    /\ pc[r] = "load"
    /\ run' = [run EXCEPT ![r].loaded = <<page, sem>>, ![r].list = ListOf[sem]]
    /\ Goto(r, "solve")
    /\ UNCHANGED <<page, sem, files, audit, dxf, solvable, approvals, rewrites>>

\* Prune and solve; without python-solvespace there is no result.
Solve(r) ==
    /\ pc[r] = "solve"
    /\ Set(r, "status", IF run[r].solver THEN Solved(run[r].list) ELSE "none")
    /\ Goto(r, IF r \in Appliers THEN "check" ELSE "reread")
    /\ UNCHANGED <<page, sem, files, audit, dxf, solvable, approvals, rewrites>>

\* What the vision model may change, which is asked about each item, unless
\* there is no vision reader, the item cannot be found in the image or the
\* call fails: a text it reads otherwise, a part it gives another of the known
\* types, a conflict it decides (whichever side wins).
RereadTexts(inputs) == SUBSET TextsOf[inputs[1]]
ReclassifyParts(inputs) == SUBSET PartsOf[inputs[2]]
ResolveConflicts(inputs) == SUBSET ConflictsOf[inputs[1]]

\* run_agent, modules 1 to 3: one override for each, in the report only.
Reread(r) ==
    /\ pc[r] = "reread"
    /\ \E texts \in RereadTexts(run[r].loaded), parts \in ReclassifyParts(run[r].loaded),
          conflicts \in ResolveConflicts(run[r].loaded) :
        Set(r, "report", [maker |-> r, made_for |-> run[r].loaded,
                          overrides |-> texts \cup parts \cup conflicts,
                          drops |-> {}, applied |-> {}])
    /\ Goto(r, IF run[r].status = "failed" /\ run[r].list # {} THEN "advise" ELSE "save")
    /\ UNCHANGED <<page, sem, files, audit, dxf, solvable, approvals, rewrites>>

\* advise_drop_constraints, one iteration: the weakest constraint goes, and
\* what remains (unpruned) is solved.
AdviseDrop(r) ==
    /\ pc[r] = "advise"
    /\ LET remaining == run[r].list \ run[r].report.drops
       IN  IF remaining = {} \/ Cardinality(run[r].report.drops) = MaxIterations
           THEN Goto(r, "save") /\ UNCHANGED run
           ELSE \E c \in Weakest(remaining) :
               /\ Set(r, "report", [run[r].report EXCEPT !.drops = @ \cup {c}])
               /\ IF remaining \ {c} \in solvable THEN Goto(r, "save") ELSE UNCHANGED pc
    /\ UNCHANGED <<page, sem, files, audit, dxf, solvable, approvals, rewrites>>

-----------------------------------------------------------------------------
\* The approved report is hashed ...
CheckReport(r) ==
    /\ pc[r] = "check"
    /\ IF files[run[r].approval.path] = run[r].approval.report
       THEN Goto(r, "load_report") /\ Set(r, "checked", files[run[r].approval.path])
       ELSE End(r, "refused")
    /\ UNCHANGED <<page, sem, files, audit, dxf, solvable, approvals, rewrites>>

\* ... and read again.  A file that is gone or cut off raises; a report with
\* applied actions is refused.
LoadReport(r) ==
    /\ pc[r] = "load_report"
    /\ LET report == files[run[r].approval.path]
       IN  IF report \in {Absent, Torn} THEN End(r, "dead")
           ELSE IF report.applied # {} THEN End(r, "refused")
           ELSE Goto(r, "apply") /\ Set(r, "report", report)
    /\ UNCHANGED <<page, sem, files, audit, dxf, solvable, approvals, rewrites>>

\* apply_agent_report: an override whose target exists; every drop is marked,
\* its target existing or not.  When there are drops, run() prunes and solves
\* again, and fails here without python-solvespace.
Apply(r) ==
    /\ pc[r] = "apply"
    /\ LET report == run[r].report
           overridden == report.overrides \cap ItemsIn(run[r].loaded)
           remaining == run[r].list \ report.drops
       IN  /\ run' = [run EXCEPT ![r] = [@ EXCEPT
                   !.report = [report EXCEPT !.applied = overridden \cup report.drops],
                   !.list = remaining,
                   !.status = IF report.drops = {} THEN run[r].status ELSE Solved(remaining),
                   !.after = IF report.drops = {} THEN "none" ELSE Solved(remaining)]]
           /\ Goto(r, IF report.drops # {} /\ ~run[r].solver THEN "failing" ELSE "save")
    /\ UNCHANGED <<page, sem, files, audit, dxf, solvable, approvals, rewrites>>

-----------------------------------------------------------------------------
\* save_document: the file is cut off, then written.
OpenReport(r) ==
    /\ pc[r] = "save"
    /\ files' = [files EXCEPT ![ReportName(r)] = Torn]
    /\ Goto(r, "write")
    /\ UNCHANGED <<page, sem, audit, dxf, solvable, approvals, rewrites, run>>

WriteReport(r) ==
    /\ pc[r] = "write"
    /\ files' = [files EXCEPT ![ReportName(r)] = run[r].report]
    /\ Goto(r, "hash_saved")
    /\ UNCHANGED <<page, sem, audit, dxf, solvable, approvals, rewrites, run>>

\* The saved report's digest is taken of the file.
HashSaved(r) ==
    /\ pc[r] = "hash_saved"
    /\ Set(r, "saved", files[ReportName(r)])
    /\ Goto(r, "audit")
    /\ UNCHANGED <<page, sem, files, audit, dxf, solvable, approvals, rewrites>>

\* agent_application.json, of whichever run came last.
Audit(r, inputs) ==
    [run |-> r, report_id |-> run[r].report.maker, inputs |-> inputs, saved |-> run[r].saved,
     approval |-> run[r].approval, applied |-> run[r].report.applied, after |-> run[r].after]

\* Mutant: the inputs' digests are taken when the audit is saved.
SaveAuditRehashed(r) ==
    /\ pc[r] = "audit"
    /\ audit' = Audit(r, <<page, sem>>)
    /\ Goto(r, "draw")
    /\ UNCHANGED <<page, sem, files, dxf, solvable, approvals, rewrites, run>>

SaveAudit(r) ==
    /\ pc[r] = "audit"
    /\ audit' = Audit(r, run[r].hashed)
    /\ Goto(r, "draw")
    /\ UNCHANGED <<page, sem, files, dxf, solvable, approvals, rewrites, run>>

\* build_dxf: solved geometry only if the solver said okay.
BuildDxf(r) ==
    /\ pc[r] = "draw"
    /\ dxf' = [list |-> run[r].list, solved |-> run[r].status = "okay"]
    /\ End(r, "done")
    /\ UNCHANGED <<page, sem, files, audit, solvable, approvals, rewrites>>

\* The process is killed, or solve_constraints raises.  An audit that is cut
\* off while it is saved can no longer be read.
Die(r) ==
    /\ pc[r] \in {"failing", "write", "hash_saved", "audit"}
    /\ End(r, "dead")
    /\ audit' = audit \/ (pc[r] = "audit" /\ audit' = Absent)
    /\ UNCHANGED <<page, sem, files, dxf, solvable, approvals, rewrites>>

-----------------------------------------------------------------------------
\* The person reads agent_report.json beside the audit of the run that made
\* it, and approves it for the inputs the audit names, where it is or as a copy.
Approve ==
    /\ files["advice"] \notin {Absent, Torn} /\ audit # Absent
    /\ audit.saved = files["advice"] /\ audit.report_id = files["advice"].maker
    /\ audit.run \in Advisers
    /\ approvals = {}                                             \* bound: one approval
    /\ \E path \in {"advice", "copy"} :
        /\ approvals' = {[path |-> path, report |-> files["advice"], inputs |-> audit.inputs]}
        /\ files' = [files EXCEPT ![path] = files["advice"]]
    /\ UNCHANGED <<page, sem, audit, dxf, solvable, rewrites, pc, run>>

\* Phase 1 or 2 runs again.
RewriteInput ==
    /\ rewrites < MaxRewrites /\ rewrites' = rewrites + 1
    /\ \/ page' \in Pages \ {page} /\ UNCHANGED sem
       \/ sem' \in Semantics \ {sem} /\ UNCHANGED page
    /\ UNCHANGED <<files, audit, dxf, solvable, approvals, pc, run>>

AgentInit ==
    /\ page \in Pages /\ sem \in Semantics
    /\ files = [n \in Names |-> Absent]
    /\ audit = Absent /\ dxf = Absent
    /\ solvable \in Solvers
    /\ approvals = {} /\ rewrites = 0
    /\ pc = [r \in Runs |-> "idle"]
    /\ run = [r \in Runs |-> Fresh]

RunNext(r) ==
    \/ Start(r) \/ HashInputs(r) \/ LoadInputs(r) \/ Solve(r)
    \/ Reread(r) \/ AdviseDrop(r)
    \/ CheckReport(r) \/ LoadReport(r) \/ Apply(r)
    \/ OpenReport(r) \/ WriteReport(r) \/ HashSaved(r) \/ SaveAudit(r) \/ BuildDxf(r)
    \/ Die(r)

AgentNext == Approve \/ RewriteInput \/ \E r \in Runs : RunNext(r)

AgentSpec == AgentInit /\ [][AgentNext]_avars

-----------------------------------------------------------------------------
Labels == {"idle", "hash", "load", "solve", "reread", "advise", "check", "load_report",
           "apply", "save", "write", "hash_saved", "audit", "draw",
           "failing", "done", "refused", "dead"}

AgentTypeOK ==
    /\ page \in Pages /\ sem \in Semantics
    /\ \A n \in Names : files[n] \in {Absent, Torn} \/ files[n] \in Reports
    /\ pc \in [Runs -> Labels]
    /\ \A r \in Runs :
        /\ run[r].list \subseteq Constraints
        /\ run[r].status \in {"none", "okay", "failed"}
        /\ run[r].report = NoReport \/ run[r].report \in Reports

-----------------------------------------------------------------------------
\* An input was rewritten between its digest and its loading.
Raced(r) == run[r].loaded # Absent /\ run[r].loaded # run[r].hashed

Applied(r) == run[r].report.applied

\* What is applied was approved, for these inputs, and every action of it
\* means something in the documents it is applied to - unless an input
\* changed between digest and loading, in the applying run or in the one
\* that made the report, or the report did.
AppliedWasApproved == \A r \in Appliers :
    Applied(r) # {} =>
        LET report == [run[r].report EXCEPT !.applied = {}]
        IN  /\ run[r].hashed = run[r].approval.inputs
            /\ run[r].checked = run[r].approval.report
            /\ report = run[r].checked => \/ Raced(r) \/ Raced(report.maker)
                \/ /\ report.made_for = run[r].loaded
                   /\ Applied(r) = report.overrides \cup report.drops
                   /\ report.drops \subseteq ListOf[run[r].loaded[2]]

\* The audit of an application names the approval it rests on and what it
\* did, and the saved digest is that of a report with just these actions
\* marked, unless another application wrote its own over it.
OthersApplied(r) == \E s \in Appliers \ {r} : run[s].loaded # Absent

AuditIsTrue ==
    audit # Absent /\ audit.applied # {} =>
        /\ audit.approval \in approvals /\ audit.inputs = audit.approval.inputs
        /\ audit.run \in Appliers
        /\ \/ OthersApplied(audit.run)
           \/ audit.saved \notin {Absent, Torn} /\ audit.saved.applied = audit.applied

ApplicationIsApproved == AppliedWasApproved /\ AuditIsTrue

\* Solved geometry is drawn only of constraints the solver agreed to as they
\* are drawn, the approved ones dropped.
DrawnAsSolved == dxf # Absent => (dxf.solved => Prune(dxf.list) \in solvable)

AgentIsSound == ApplicationIsApproved /\ DrawnAsSolved
=============================================================================
