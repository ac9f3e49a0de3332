-------------------------------- MODULE SetupGate --------------------------------
(***************************************************************************)
(* The gate of a drawing's set-up (cad_agent/drawing_setup.py,             *)
(* drawing_contracts.py and the commands of cli.py that call them).        *)
(*                                                                         *)
(* A plan is made for the approved template; an audit asks AutoCAD for     *)
(* what the open drawing is set up like; the two are compared field by     *)
(* field into evidence, which a later command requires to be verified and  *)
(* to belong to its plan.  A plan may carry a policy, written by hand, by  *)
(* which some fields are only observed.  A layer check classifies the      *)
(* layers of an audit while nobody changes audit or drawing.               *)
(*                                                                         *)
(* A digest is the content it is taken of.  Of a drawing is kept which     *)
(* fields are as the profile expects, of a template its version; the       *)
(* profile, the domain pack and the template's manifest are approved once. *)
(* One person runs these commands, one after the other; drawings,          *)
(* templates and records are edited at any time.                           *)
(***************************************************************************)
EXTENDS Integers, FiniteSets

CONSTANTS
    Fields,          \* what is compared: variables, layer, styles, layouts, fonts, settings
    Drawings,        \* versions of the audited drawing
    Conforming,      \* of each: the fields that are as expected
    Templates,       \* versions of the template file
    Released,        \* the version its approved manifest names
    Policies,        \* sets of fields that a policy may exempt
    Unresolvable,    \* sets of fields whose expectation may be written "UNRESOLVED"
    MaxChanges,      \* bound on what others do
    Absent, NoPolicy

VARIABLES
    template,        \* the template file
    drawing,         \* the audited drawing's file
    memory,          \* what AutoCAD shows of it
    plan, audit, evidence, layers,      \* files, or Absent
    asked,           \* the command that runs: what it has hashed and read
    changes

gvars == <<template, drawing, memory, plan, audit, evidence, layers, asked, changes>>

Idle == [command |-> "none", before |-> Absent, audit |-> Absent, shows |-> Absent,
         unsaved |-> FALSE, saved |-> FALSE]          \* unsaved, saved: history

-----------------------------------------------------------------------------
\* create_setup_plan: profile, settings and template as the manifest names them.
CreateSetupPlan ==
    /\ asked = Idle /\ template = Released
    /\ plan' = [template |-> template, policy |-> NoPolicy, unresolved |-> {}]
    /\ UNCHANGED <<template, drawing, memory, audit, evidence, layers, asked, changes>>

\* drawing-setup-audit: no output yet; the drawing is hashed ...
BeginAudit ==
    /\ asked = Idle /\ audit = Absent
    /\ asked' = [Idle EXCEPT !.command = "audit", !.before = drawing]
    /\ UNCHANGED <<template, drawing, memory, plan, audit, evidence, layers, changes>>

\* ... AutoCAD is asked, which answers with what it shows, saved or not ...
AskAutoCad ==
    /\ asked.command = "audit" /\ asked.shows = Absent
    /\ asked' = [asked EXCEPT !.shows = memory, !.unsaved = memory # drawing]
    /\ UNCHANGED <<template, drawing, memory, plan, audit, evidence, layers, changes>>

\* ... and the drawing is hashed again: create_setup_audit, or source_changed.
CreateSetupAudit ==
    /\ asked.command = "audit" /\ asked.shows # Absent
    /\ audit' = IF drawing = asked.before
                THEN [drawing |-> asked.before, shows |-> asked.shows,
                      unsaved |-> asked.unsaved, saved |-> asked.saved]
                ELSE audit
    /\ asked' = Idle
    /\ UNCHANGED <<template, drawing, memory, plan, evidence, layers, changes>>

-----------------------------------------------------------------------------
\* _policy_scope: what is compared, and what is only observed.
Gating(p) == IF p.policy = NoPolicy THEN Fields ELSE Fields \ p.policy
Observed(p) == Fields \ Gating(p)

\* read_contract of a plan: an expectation is left open only where it is not
\* compared (_validate_expectation_policy, _validate_expectations).
ValidPlan(p) == p.unresolved \subseteq Observed(p)

\* Each field of evaluate_setup_plan is one comparison, of its variables,
\* layers, styles, layouts, fonts or settings; with its blockers or, when it
\* is only observed, its record.
Mismatches(p, a) == Gating(p) \ Conforming[a.shows]

\* Mutant: a plan that gates nothing is verified.
EvaluateVacuous(p, a) ==
    [verified |-> Mismatches(p, a) = {}, plan |-> p, audit |-> a,
     template |-> p.template, policy |-> p.policy,
     gating |-> IF p.policy = NoPolicy THEN {} ELSE Gating(p),
     observed |-> IF p.policy = NoPolicy THEN {} ELSE Observed(p),
     asserted |-> p.policy # NoPolicy /\ Mismatches(p, a) = {}]

\* evaluate_setup_plan: with a policy, nothing is verified unless something
\* gates.  The evidence names its plan and audit.
EvaluateSetupPlan(p, a) ==
    LET verified == Mismatches(p, a) = {} /\ (p.policy = NoPolicy \/ Gating(p) # {})
    IN  [verified |-> verified, plan |-> p, audit |-> a,
         template |-> p.template, policy |-> p.policy,
         gating |-> IF p.policy = NoPolicy THEN {} ELSE Gating(p),
         observed |-> IF p.policy = NoPolicy THEN {} ELSE Observed(p),
         asserted |-> p.policy # NoPolicy /\ verified]

\* drawing-setup-verify: no output yet; plan and audit are read, whatever
\* became of the drawing since.
VerifySetup ==
    /\ asked = Idle /\ evidence = Absent
    /\ plan # Absent /\ ValidPlan(plan) /\ audit # Absent
    /\ evidence' = EvaluateSetupPlan(plan, audit)
    /\ UNCHANGED <<template, drawing, memory, plan, audit, layers, asked, changes>>

\* read_contract of evidence: _validate_evidence and _validate_policy_evidence.
ValidEvidence(e) ==
    e.policy # NoPolicy =>
        /\ e.asserted => e.verified
        /\ IF e.gating # {} THEN e.verified => e.asserted ELSE ~e.verified

\* require_setup_verified: the evidence is verified, of this plan and
\* template, and its scope is the one the plan's policy gives.
SetupVerified(e, p, expected) ==
    /\ e.verified
    /\ p = expected.plan /\ e.plan = p /\ e.template = expected.template
    /\ IF p.policy = NoPolicy THEN e.policy = NoPolicy
       ELSE /\ e.policy = p.policy /\ e.asserted
            /\ e.gating = Gating(p) /\ e.gating # {} /\ e.observed = Observed(p)

-----------------------------------------------------------------------------
\* layer-standard-check: the audit is read with its digest, the drawing must
\* be the audited one ...
BeginLayerCheck ==
    /\ asked = Idle /\ layers = Absent
    /\ audit # Absent /\ audit.drawing = drawing
    /\ asked' = [Idle EXCEPT !.command = "layers", !.before = drawing, !.audit = audit]
    /\ UNCHANGED <<template, drawing, memory, plan, audit, evidence, layers, changes>>

\* ... and both are hashed again after the names were classified.
CreateLayerStandardCheck ==
    /\ asked.command = "layers"
    /\ layers' = IF drawing = asked.before /\ audit = asked.audit
                 THEN [audit |-> asked.audit, drawing |-> asked.before,
                       names |-> asked.audit.shows]
                 ELSE layers
    /\ asked' = Idle
    /\ UNCHANGED <<template, drawing, memory, plan, audit, evidence, changes>>

-----------------------------------------------------------------------------
Change == changes < MaxChanges /\ changes' = changes + 1

\* A user edits the drawing, saves it, or another program replaces the file.
EditDrawing ==
    /\ Change /\ memory' \in Drawings \ {memory}
    /\ UNCHANGED <<template, drawing, plan, audit, evidence, layers, asked>>

SaveDrawing ==
    /\ Change /\ drawing' = memory /\ memory # drawing
    /\ asked' = IF asked = Idle THEN Idle ELSE [asked EXCEPT !.saved = TRUE]
    /\ UNCHANGED <<template, memory, plan, audit, evidence, layers>>

ReplaceTemplate ==
    /\ Change /\ template' \in Templates \ {template}
    /\ UNCHANGED <<drawing, memory, plan, audit, evidence, layers, asked>>

\* The plan is given a policy, or records are thrown away to be made anew.
WritePolicy ==
    /\ Change /\ plan # Absent
    /\ \E policy \in Policies, unresolved \in Unresolvable :
        plan' = [plan EXCEPT !.policy = policy, !.unresolved = unresolved]
    /\ UNCHANGED <<template, drawing, memory, audit, evidence, layers, asked>>

Discard ==
    /\ Change
    /\ \/ audit # Absent /\ audit' = Absent /\ UNCHANGED evidence
       \/ evidence # Absent /\ evidence' = Absent /\ UNCHANGED audit
    /\ UNCHANGED <<template, drawing, memory, plan, layers, asked>>

-----------------------------------------------------------------------------
GateInit ==
    /\ template \in Templates /\ drawing \in Drawings /\ memory = drawing
    /\ plan = Absent /\ audit = Absent /\ evidence = Absent /\ layers = Absent
    /\ asked = Idle /\ changes = 0

GateNext ==
    \/ CreateSetupPlan \/ BeginAudit \/ AskAutoCad \/ CreateSetupAudit
    \/ VerifySetup \/ BeginLayerCheck \/ CreateLayerStandardCheck
    \/ EditDrawing \/ SaveDrawing \/ ReplaceTemplate \/ WritePolicy \/ Discard

GateSpec == GateInit /\ [][GateNext]_gvars

GateTypeOK ==
    /\ template \in Templates /\ drawing \in Drawings /\ memory \in Drawings
    /\ plan # Absent => plan.template \in Templates /\ plan.policy \in Policies \cup {NoPolicy}
    /\ audit # Absent => audit.drawing \in Drawings /\ audit.shows \in Drawings
    /\ asked.command \in {"none", "audit", "layers"}
    /\ changes \in 0..MaxChanges

-----------------------------------------------------------------------------
\* Verified evidence is of a plan for the released template, something of the
\* plan is really compared, and all of it holds of what AutoCAD showed for
\* the audit; which is the drawing the audit names, unless it had unsaved
\* edits (DBMOD is compared with itself, not with 0).
VerifiedConforms ==
    evidence # Absent /\ evidence.verified =>
        /\ evidence.plan.template = Released /\ evidence.template = Released
        /\ Gating(evidence.plan) # {} /\ Gating(evidence.plan) \cap evidence.plan.unresolved = {}
        /\ Gating(evidence.plan) \subseteq Conforming[evidence.audit.shows]
        /\ ValidEvidence(evidence)

\* An audit names the drawing AutoCAD showed when nothing was unsaved and
\* nothing was saved while it ran; a layer check's names are of its audit.
AuditsAreTrue ==
    /\ audit # Absent /\ ~audit.unsaved /\ ~audit.saved => audit.shows = audit.drawing
    /\ layers # Absent =>
        /\ layers.names = layers.audit.shows /\ layers.drawing = layers.audit.drawing
=============================================================================
