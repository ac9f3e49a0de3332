------------------------------ MODULE FidelityPage ------------------------------
(***************************************************************************)
(* cad_agent/fidelity.py: the regions of a page are proposed and approved, *)
(* revision after revision; each approved region is reconstructed into a   *)
(* candidate of its own, which a handoff adds the latest rebuilt drawing   *)
(* of FidelitySidecar to; and the candidates are composed into a page.     *)
(*                                                                         *)
(* A region's box is one of a few, each with the items inside it. One of   *)
(* the three long commands is in progress at a time, next to any rebuild;  *)
(* it is killed anywhere. Candidates and compositions are not edited by    *)
(* hand: nothing checks them against a hash before they are promoted.      *)
(***************************************************************************)
EXTENDS FidelitySidecar

CONSTANTS
    Regions,
    Boxes,
    Inside,      \* the items inside a box
    Drafts,      \* the boxes a revision may propose
    MaxRevision  \* bound: revisions of the proposal

Revisions == 1..MaxRevision

VARIABLES
    proposals,        \* the file of each revision
    regionApprovals,  \* the file of each revision
    candidates,       \* the directory of each region, shared by the revisions
    work,             \* the command in progress
    compositions      \* the directory of each revision

page == <<proposals, regionApprovals, candidates, work, compositions>>
fidelity == <<sidecar, page>>

Proposal == [boxes : [Regions -> Boxes], intact : BOOLEAN]
RegionApproval == [ids : SUBSET Regions, hash : Proposal]
Candidate == [box : SUBSET Boxes, of : Revisions, items : SUBSET Placed, raced : BOOLEAN]
Part == [at : Boxes, from : Boxes, of : Revisions, items : SUBSET Placed, raced : BOOLEAN]
Composition == [parts : UNION {[ids -> Part] : ids \in SUBSET Regions},
                report : SUBSET RegionApproval]
Work == [command : {"reconstruct", "handoff", "compose"}, revision : Revisions,
         todo : SUBSET Regions, making : SUBSET Regions, drawing : 0..MaxRoots,
         checked : SUBSET Placed,   \* history: what that drawing held when it was checked
         parts : UNION {[ids -> Part] : ids \in SUBSET Regions}]

PageTypeOK ==
    /\ proposals \in [Revisions -> SUBSET Proposal]
    /\ regionApprovals \in [Revisions -> SUBSET RegionApproval]
    /\ candidates \in [Regions -> SUBSET Candidate]
    /\ work \subseteq Work /\ AtMostOne(work)
    /\ compositions \in [Revisions -> SUBSET Composition]
    /\ \A r \in Revisions : /\ AtMostOne(proposals[r])
                            /\ AtMostOne(regionApprovals[r])
                            /\ AtMostOne(compositions[r])
    /\ \A g \in Regions : AtMostOne(candidates[g])

PageInit ==
    /\ proposals = [r \in Revisions |-> {}]
    /\ regionApprovals = [r \in Revisions |-> {}]
    /\ candidates = [g \in Regions |-> {}]
    /\ work = {}
    /\ compositions = [r \in Revisions |-> {}]

-----------------------------------------------------------------------------
\* Proposal and approval

\* _normalized_regions: no two regions overlap.
Apart(boxes) == \A g, h \in Regions : g # h => boxes[g] # boxes[h]

Propose(r, boxes) ==
    /\ SafeRender /\ Apart(boxes) /\ proposals[r] = {}
    /\ proposals' = [proposals EXCEPT ![r] = {[boxes |-> boxes, intact |-> TRUE]}]
    /\ UNCHANGED <<sidecar, regionApprovals, candidates, work, compositions>>

ApproveRegions(r, ids) ==
    /\ ids # {} /\ regionApprovals[r] = {}
    /\ \E p \in proposals[r] :
         regionApprovals' = [regionApprovals EXCEPT ![r] = {[ids |-> ids, hash |-> p]}]
    /\ UNCHANGED <<sidecar, proposals, candidates, work, compositions>>

\* Mutant: the proposal is no longer compared with the one approved.
AnyProposal(r) == {a \in regionApprovals[r] : SafeRender}

\* The approval of a revision, if the proposal is still the approved one and
\* the page is still rendered as it was.
InForce(r) == {a \in regionApprovals[r] : SafeRender /\ proposals[r] = {a.hash}}

BoxOf(r, g) == (CHOOSE p \in proposals[r] : TRUE).boxes[g]

Begin(command, r, ids, drawing, parts) ==
    /\ work' = {[command |-> command, revision |-> r, todo |-> ids, making |-> {},
                 drawing |-> drawing, parts |-> parts,
                 checked |-> IF drawing = 0 THEN {} ELSE drawings[drawing].items]}
    /\ UNCHANGED <<sidecar, proposals, regionApprovals, candidates, compositions>>

Doing(command) == {w \in work : w.command = command}

\* What is left of the command; it has ended when nothing is.
Less(w, g) ==
    IF w.todo = {g} THEN {} ELSE {[w EXCEPT !.todo = @ \ {g}, !.making = {}]}

\* The command fails, or is killed; what it wrote stays.
StopWork ==
    /\ work # {} /\ work' = {}
    /\ UNCHANGED <<sidecar, proposals, regionApprovals, candidates, compositions>>

-----------------------------------------------------------------------------
\* Reconstruction, region after region

Reconstruct(r) ==
    /\ work = {}
    /\ \E a \in InForce(r) : Begin("reconstruct", r, a.ids, 0, <<>>)

\* A region whose directory exists ends the command.
MakeRoot(g) ==
    /\ \E w \in Doing("reconstruct") :
         /\ g \in w.todo /\ w.making = {} /\ candidates[g] = {}
         /\ candidates' = [candidates EXCEPT ![g] =
              {[box |-> {}, of |-> w.revision, items |-> {}, raced |-> FALSE]}]
         /\ work' = {[w EXCEPT !.making = {g}]}
    /\ UNCHANGED <<sidecar, proposals, regionApprovals, compositions>>

\* The proposal was read when the command began.
WriteGeometry(g) ==
    /\ \E w \in Doing("reconstruct") : \E a \in regionApprovals[w.revision] :
         /\ w.making = {g}
         /\ candidates' = [candidates EXCEPT ![g] = {[c EXCEPT !.box = {a.hash.boxes[g]}] : c \in @}]
         /\ work' = Less(w, g)
    /\ UNCHANGED <<sidecar, proposals, regionApprovals, compositions>>

-----------------------------------------------------------------------------
\* Semantic handoff

\* _validate_fidelity_owner_output: the report names the drawing, and the
\* text approval or the rendered page of now.
OwnerOutput(d) ==
    /\ d.intact /\ SafeRender
    /\ \E p \in d.report : kind = "text" => approval # {} /\ p.approval = approval

\* Of a kind, the latest drawing; table text and hatches are not handed off.
Handoff(r) ==
    /\ work = {} /\ drawings # <<>> /\ kind \in {"text", "dimension", "linetype"}
    /\ OwnerOutput(drawings[Len(drawings)])
    /\ \E a \in InForce(r) : Begin("handoff", r, a.ids, Len(drawings), <<>>)

\* What lies in the region's box is added to its candidate, which is saved.
\* A linetype that matches no line of the candidate, or two, ends the command.
HandOver(g) ==
    /\ \E w \in Doing("handoff") : \E a \in regionApprovals[w.revision] : \E c \in candidates[g] :
         /\ g \in w.todo /\ c.box # {}
         /\ LET d == drawings[w.drawing]
            IN candidates' = [candidates EXCEPT ![g] =
                 {[c EXCEPT !.items = @ \cup {p \in d.items : p[1] \in Inside[a.hash.boxes[g]]},
                            !.raced = @ \/ (d.raced /\ kind = "dimension") \/ d.items # w.checked]}]
         /\ work' = Less(w, g)
    /\ UNCHANGED <<sidecar, proposals, regionApprovals, compositions>>

-----------------------------------------------------------------------------
\* Composition

PartOf(r, g) == LET c == CHOOSE x \in candidates[g] : TRUE
                IN [at |-> BoxOf(r, g), from |-> CHOOSE b \in c.box : TRUE, of |-> c.of,
                    items |-> c.items, raced |-> c.raced]

\* A candidate is taken whatever revision it was reconstructed for.
Compose(r) ==
    /\ work = {} /\ compositions[r] = {}
    /\ \E a \in InForce(r) :
         /\ \A g \in a.ids : \E c \in candidates[g] : c.box # {}
         /\ Begin("compose", r, {}, 0, [g \in a.ids |-> PartOf(r, g)])

WriteComposition ==
    /\ \E w \in Doing("compose") :
         /\ compositions[w.revision] = {}
         /\ compositions' = [compositions EXCEPT ![w.revision] =
              {[parts |-> w.parts, report |-> {}]}]
    /\ UNCHANGED <<sidecar, proposals, regionApprovals, candidates, work>>

\* The render is checked once more, and the report names the approval.
ReportComposition ==
    /\ \E w \in Doing("compose") : \E c \in compositions[w.revision] :
         /\ SafeRender
         /\ compositions' = [compositions EXCEPT ![w.revision] =
              {[c EXCEPT !.report = regionApprovals[w.revision]]}]
    /\ work' = {}
    /\ UNCHANGED <<sidecar, proposals, regionApprovals, candidates>>

-----------------------------------------------------------------------------
EditProposal(r) ==
    /\ Edit
    /\ \E p \in proposals[r] : \E boxes \in [Regions -> Boxes] :
         /\ boxes # p.boxes
         /\ proposals' = [proposals EXCEPT ![r] = {[boxes |-> boxes, intact |-> FALSE]}]
    /\ UNCHANGED <<kind, render, layout, evidence, grants, results, regionApprovals, candidates,
                   work, compositions>>

FidelityInit == SidecarInit /\ PageInit

FidelityNext ==
    \/ SidecarNext /\ UNCHANGED page
    \/ \E r \in Revisions :
         \/ \E boxes \in Drafts[r] : Propose(r, boxes)
         \/ \E ids \in SUBSET Regions : ApproveRegions(r, ids)
         \/ Reconstruct(r) \/ Handoff(r) \/ Compose(r) \/ EditProposal(r)
    \/ \E g \in Regions : MakeRoot(g) \/ WriteGeometry(g) \/ HandOver(g)
    \/ WriteComposition \/ ReportComposition \/ StopWork

FidelitySpec == FidelityInit /\ [][FidelityNext]_fidelity

-----------------------------------------------------------------------------
FidelityTypeOK == SidecarTypeOK /\ PageTypeOK

\* A rebuilt drawing holds what was approved and nothing else, in the words
\* that were approved, upon the base that was approved: whatever became of
\* the observation, the render, the base or the approval since. Text and
\* hatches keep to it always; table text and dimensions open the observation
\* again after its hash was compared, and keep to it unless a file changed
\* while they ran. A text rebuild that answers with a drawing already there
\* answers with the one these inputs would have given.
EmittedIsApproved ==
    kind # "linetype" =>
        /\ \A n \in DOMAIN drawings : LET d == drawings[n] IN
             /\ d.intact /\ (d.raced => kind \in {"text", "hatch"}) => d.items = Granted(d.by)
             /\ ~d.raced => \A a \in d.by : a.base \in {d.base, Unbound}
        /\ \A a \in answered : ~a.raced /\ drawings[1].intact =>
             drawings[1].items = Granted(a.by) /\ drawings[1].base = a.base

\* What a candidate and a composed page hold of text and dimensions was
\* approved by someone, however the drawing it came from was changed, and
\* whatever approval has been withdrawn, before the handoff began.
PlacedIsApproved ==
    kind # "linetype" =>
        /\ \A g \in Regions : \A c \in candidates[g] : ~c.raced => c.items \subseteq approved
        /\ \A r \in Revisions : \A x \in compositions[r] : \A g \in DOMAIN x.parts :
             ~x.parts[g].raced => x.parts[g].items \subseteq approved

\* A composed page shows the regions its revision approved, all of them,
\* each in the box approved, and of each a candidate that was written to its
\* end for an approved region, though the proposal may have been edited and
\* a reconstruction may have been killed before.
ComposedIsApproved ==
    \A r \in Revisions : \A x \in compositions[r] : \E a \in regionApprovals[r] :
        /\ x.report \subseteq {a}
        /\ DOMAIN x.parts = a.ids
        /\ \A g \in a.ids : LET p == x.parts[g] IN
             /\ p.at = a.hash.boxes[g]
             /\ \E b \in regionApprovals[p.of] : g \in b.ids /\ p.from = b.hash.boxes[g]

\* Candidates and composed pages hold what was approved, where it was.
PagesAreApproved == PlacedIsApproved /\ ComposedIsApproved

\* What is drawn was approved, as it was approved, and pages are composed of
\* what was approved, where it was.
ApprovedIsDrawn == FidelityTypeOK /\ EmittedIsApproved /\ PagesAreApproved
=============================================================================
