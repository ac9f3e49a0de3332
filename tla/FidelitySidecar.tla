---------------------------- MODULE FidelitySidecar ----------------------------
(***************************************************************************)
(* cad_agent/fidelity.py, one page of a private fidelity root and one kind *)
(* of its sidecars: the text, table text, dimensions, hatches or linetypes *)
(* read off the rendered page are observed into a file, approved by a      *)
(* person, and emitted into a copy of a layout DXF.                        *)
(*                                                                         *)
(* The commands are processes started by hand. A file's hash is its        *)
(* content: an observation is what it says of each item, the rendered page *)
(* and the base DXF are version numbers, 0 being the one the manifest      *)
(* names. Every file can be changed by hand between any two steps (an      *)
(* edit), and a rebuild can be killed. Other commands are one step.        *)
(***************************************************************************)
EXTENDS Naturals, Sequences

CONSTANTS
    Items,      \* what there is to read on the page
    MaxFiles,   \* bound: observations of the page
    MaxRoots,   \* bound: rebuilt drawings of the page
    MaxEdits    \* bound: edits

Kinds == {"text", "table", "dimension", "hatch", "linetype"}
Readings == {"read", "altered"}    \* what the page says, or something else
Placed == Items \X Readings        \* an entity: the item it is for and what it says
Unbound == MaxEdits + 1            \* no version: the approval names no base

VARIABLES
    kind,
    render,        \* version of the rendered page
    layout,        \* version of the base DXF
    ground,        \* the file this kind of observation starts from exists
    observations,  \* the observation files, oldest first
    approval,      \* the page's approval file
    rebuild,       \* the rebuild in progress
    drawings,      \* the rebuilt drawings, oldest first
    edits,
    approved,      \* history: all that was ever approved
    answered       \* history: the approval and base of a rebuild that answered with drawing 1

evidence == <<ground, observations>>
grants == <<approval, approved>>
results == <<rebuild, drawings, answered>>
sidecar == <<kind, render, layout, evidence, grants, results, edits>>

Observation == [reads : [Items -> Readings], named : BOOLEAN]
Approval == [of : 1..MaxFiles, hash : Observation, items : SUBSET Placed,
             base : 0..Unbound]
Report == [approval : SUBSET Approval, base : 0..Unbound]
Rebuild == [step : {"checked", "read", "written"}, by : SUBSET Approval, items : SUBSET Placed,
            base : 0..Unbound, raced : BOOLEAN]
Drawing == [by : SUBSET Approval, items : SUBSET Placed, base : 0..Unbound, intact : BOOLEAN,
            report : SUBSET Report, raced : BOOLEAN]

AtMostOne(S) == \A x, y \in S : x = y

SidecarTypeOK ==
    /\ kind \in Kinds
    /\ render \in 0..MaxEdits /\ layout \in 0..MaxEdits /\ edits \in 0..MaxEdits
    /\ ground \in BOOLEAN
    /\ observations \in Seq(Observation) /\ Len(observations) <= MaxFiles
    /\ approval \subseteq Approval /\ AtMostOne(approval)
    /\ rebuild \subseteq Rebuild /\ AtMostOne(rebuild)
    /\ drawings \in Seq(Drawing) /\ Len(drawings) <= MaxRoots
    /\ approved \subseteq Placed
    /\ answered \subseteq [by : SUBSET Approval, base : 0..Unbound, raced : BOOLEAN]

SidecarInit ==
    /\ kind \in Kinds
    /\ render = 0 /\ layout = 0 /\ ground = FALSE
    /\ observations = <<>> /\ approval = {} /\ rebuild = {} /\ drawings = <<>>
    /\ edits = 0 /\ approved = {} /\ answered = {}

-----------------------------------------------------------------------------
\* Observations

\* The artefact a record names, if the file is still the one recorded.
SafeRender == render = 0

\* The candidates of a table observation carry no id: only one written by
\* another hand can name them.
Observed == [reads |-> [i \in Items |-> "read"], named |-> kind # "table"]

\* run_fidelity_observations: the table grid, once.
ObserveGrid ==
    /\ kind = "table" /\ ~ground /\ SafeRender
    /\ ground' = TRUE
    /\ UNCHANGED <<kind, render, layout, observations, grants, results, edits>>

\* run_fidelity_text_observations: one file; dimensions start from it.
ObserveText ==
    /\ SafeRender
    /\ \/ kind = "text" /\ observations = <<>> /\ observations' = <<Observed>> /\ UNCHANGED ground
       \/ kind = "dimension" /\ ~ground /\ ground' = TRUE /\ UNCHANGED observations
    /\ UNCHANGED <<kind, render, layout, grants, results, edits>>

\* The others take a directory of their own, revision after revision.
ObserveAnew ==
    /\ SafeRender /\ Len(observations) < MaxFiles
    /\ observations' = Append(observations, Observed)
    /\ UNCHANGED <<kind, render, layout, ground, grants, results, edits>>

ObserveTable == kind = "table" /\ ground /\ ObserveAnew

ObserveDimension == kind = "dimension" /\ ground /\ ObserveAnew

ObserveHatch == kind = "hatch" /\ ObserveAnew

\* No command writes a linetype observation.
ObserveLinetype == kind = "linetype" /\ ObserveAnew

-----------------------------------------------------------------------------
\* Approvals: one file for the page, never overwritten.

Saw(o, chosen) == {<<i, observations[o].reads[i]>> : i \in chosen}

Approve(o, chosen, base) ==
    /\ approval = {} /\ chosen # {}
    /\ approval' = {[of |-> o, hash |-> observations[o], items |-> Saw(o, chosen), base |-> base]}
    /\ approved' = approved \cup Saw(o, chosen)
    /\ UNCHANGED <<kind, render, layout, evidence, results, edits>>

\* It copies the candidates, and asks nothing of the rendered page.
ApproveText(o, chosen) == kind = "text" /\ Approve(o, chosen, Unbound)

ApproveTable(o, chosen) ==
    kind = "table" /\ SafeRender /\ observations[o].named /\ Approve(o, chosen, Unbound)

ApproveHatch(o, chosen) == kind = "hatch" /\ SafeRender /\ Approve(o, chosen, layout)

\* No command writes a dimension approval: a person does, in the form the rebuild asks for.
ApproveDimension(o, chosen) == kind = "dimension" /\ Approve(o, chosen, layout)

-----------------------------------------------------------------------------
\* Rebuilds

Job == CHOOSE j \in rebuild : TRUE
Granted(by) == UNION {a.items : a \in by}

Become(job) ==
    /\ rebuild' = {job}
    /\ UNCHANGED <<kind, render, layout, evidence, grants, drawings, answered, edits>>

\* The command fails, or is killed; what it wrote stays.
Stop ==
    /\ rebuild # {} /\ rebuild' = {}
    /\ UNCHANGED <<kind, render, layout, evidence, grants, drawings, answered, edits>>

\* Mutant: the hash of the observation is not compared.
CheckNoHash ==
    /\ rebuild = {} /\ (kind # "text" => Len(drawings) < MaxRoots)
    /\ \E a \in approval :
         /\ kind = "text" => a.of = 1
         /\ kind # "text" => SafeRender
         /\ a.base \in {layout, Unbound}
         /\ Become([step |-> "checked", by |-> {a}, items |-> {}, base |-> Unbound,
                    raced |-> FALSE])

\* The approval is read, and the files it names are still the ones approved:
\* text must have been approved from the canonical observation.
Check ==
    /\ rebuild = {} /\ (kind # "text" => Len(drawings) < MaxRoots)
    /\ \E a \in approval :
         /\ observations[a.of] = a.hash
         /\ kind = "text" => a.of = 1
         /\ kind # "text" => SafeRender
         /\ a.base \in {layout, Unbound}
         /\ Become([step |-> "checked", by |-> {a}, items |-> {}, base |-> Unbound,
                    raced |-> FALSE])

JobAt(step) == rebuild # {} /\ Job.step = step

\* The text read again, and found again in the page, must be what was approved.
ReadText ==
    /\ kind = "text" /\ JobAt("checked")
    /\ \A a \in Job.by :
         /\ a.items \subseteq {<<i, observations[1].reads[i]>> : i \in Items}
         /\ SafeRender /\ a.items \subseteq Items \X {"read"}
    /\ Become([Job EXCEPT !.step = "read", !.items = Granted(Job.by), !.base = layout])

\* The approval names the candidates; what they say is read from the file,
\* now opened again.
ReadCandidates ==
    /\ JobAt("checked")
    /\ \E a \in Job.by :
         Become([Job EXCEPT !.step = "read",
                            !.items = {<<p[1], observations[a.of].reads[p[1]]>> : p \in a.items},
                            !.base = layout])

\* A cell whose text is blank is passed over: what it says, nothing, is drawn.
ReadTable == kind = "table" /\ ReadCandidates

ReadDimension == kind = "dimension" /\ ReadCandidates

\* The boundaries are the approval's; the candidates must still hold them.
ReadBoundaries ==
    /\ kind = "hatch" /\ JobAt("checked")
    /\ \E a \in Job.by :
         /\ a.items = {<<p[1], observations[a.of].reads[p[1]]>> : p \in a.items}
         /\ Become([Job EXCEPT !.step = "read", !.items = a.items, !.base = layout])

\* Linetypes have no approval.
ReadPatterns(o) ==
    /\ kind = "linetype" /\ rebuild = {} /\ SafeRender /\ Len(drawings) < MaxRoots
    /\ Become([step |-> "read", by |-> {}, items |-> Saw(o, Items), base |-> layout,
               raced |-> FALSE])

Drawn(report) ==
    [by |-> Job.by, items |-> Job.items, base |-> Job.base, intact |-> TRUE, report |-> report,
     raced |-> Job.raced]

\* The hashes of the report are taken of the files as they are by then.
ReportNow == [approval |-> approval, base |-> IF kind = "text" THEN Job.base ELSE layout]

Answer ==
    /\ rebuild' = {}
    /\ answered' = {[by |-> Job.by, base |-> Job.base, raced |-> Job.raced]}
    /\ UNCHANGED <<kind, render, layout, evidence, grants, edits>>

\* Drawing and report are staged, and appear together at a place still free.
PublishText ==
    /\ kind = "text" /\ JobAt("read") /\ approval # {} /\ drawings = <<>>
    /\ drawings' = <<Drawn({ReportNow})>>
    /\ Answer

\* A drawing already there is the result if it is the one its report names,
\* made from these inputs; the rebuild fails otherwise.
ReuseText ==
    /\ kind = "text" /\ JobAt("read") /\ drawings # <<>>
    /\ drawings[1].intact /\ drawings[1].report = {ReportNow} /\ drawings[1].items = Job.items
    /\ Answer /\ UNCHANGED drawings

\* The others write the drawing into a directory of its own, then its report.
WriteDrawing ==
    /\ kind # "text" /\ JobAt("read")
    /\ drawings' = Append(drawings, Drawn({}))
    /\ rebuild' = {[Job EXCEPT !.step = "written"]}
    /\ UNCHANGED <<kind, render, layout, evidence, grants, answered, edits>>

WriteReport ==
    /\ JobAt("written") /\ (kind # "linetype" => approval # {})
    /\ drawings' = [drawings EXCEPT ![Len(drawings)].report = {ReportNow}]
    /\ rebuild' = {}
    /\ UNCHANGED <<kind, render, layout, evidence, grants, answered, edits>>

-----------------------------------------------------------------------------
\* Edits

Edit == edits < MaxEdits /\ edits' = edits + 1

Raced == {[j EXCEPT !.raced = TRUE] : j \in rebuild}

EditObservation(o, i) ==
    /\ Edit /\ observations[o].reads[i] = "read"
    /\ observations' = [observations EXCEPT ![o].reads[i] = "altered"]
    /\ rebuild' = Raced
    /\ UNCHANGED <<kind, render, layout, ground, grants, drawings, answered>>

\* Gives the candidates of a table observation the ids its approval asks for;
\* not counted as an edit.
NameCandidates(o) ==
    /\ ~observations[o].named
    /\ observations' = [observations EXCEPT ![o].named = TRUE]
    /\ rebuild' = Raced
    /\ UNCHANGED <<kind, render, layout, ground, grants, drawings, answered, edits>>

ReplaceRender ==
    /\ Edit /\ render' = render + 1 /\ rebuild' = Raced
    /\ UNCHANGED <<kind, layout, evidence, grants, drawings, answered>>

ReplaceLayout ==
    /\ Edit /\ layout' = layout + 1 /\ rebuild' = Raced
    /\ UNCHANGED <<kind, render, evidence, grants, drawings, answered>>

\* An approval is deleted to be given anew.
Withdraw ==
    /\ Edit /\ approval # {} /\ approval' = {} /\ rebuild' = Raced
    /\ UNCHANGED <<kind, render, layout, evidence, drawings, approved, answered>>

EditDrawing(d) ==
    /\ Edit /\ drawings[d].intact
    /\ drawings' = [drawings EXCEPT ![d].intact = FALSE, ![d].items = Items \X {"altered"}]
    /\ rebuild' = Raced
    /\ UNCHANGED <<kind, render, layout, evidence, grants, answered>>

SidecarNext ==
    \/ ObserveGrid \/ ObserveText
    \/ ObserveTable \/ ObserveDimension \/ ObserveHatch \/ ObserveLinetype
    \/ \E o \in DOMAIN observations, chosen \in SUBSET Items :
          \/ ApproveText(o, chosen) \/ ApproveTable(o, chosen)
          \/ ApproveHatch(o, chosen) \/ ApproveDimension(o, chosen)
    \/ Check \/ ReadText \/ ReadTable \/ ReadDimension \/ ReadBoundaries
    \/ \E o \in DOMAIN observations : ReadPatterns(o)
    \/ PublishText \/ ReuseText \/ WriteDrawing \/ WriteReport \/ Stop
    \/ \E o \in DOMAIN observations, i \in Items : EditObservation(o, i)
    \/ \E o \in DOMAIN observations : NameCandidates(o)
    \/ ReplaceRender \/ ReplaceLayout \/ Withdraw
    \/ \E d \in DOMAIN drawings : EditDrawing(d)
=============================================================================
