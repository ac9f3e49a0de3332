--------------------------- MODULE EvidenceChain ---------------------------
(***************************************************************************)
(* One candidate drawing from review to publication.  The owner's state    *)
(* lists the sealed revisions and selects one (candidate_revision.py).  A  *)
(* review collects the state, the artifact reference, the manifest and the *)
(* evidence package, asks the provider, collects everything again and      *)
(* seals a verdict (visual_supervisor_adapter.py).  A FAIL lets a repair   *)
(* be planned whose result becomes a child revision                        *)
(* (approved_repair_adapter.py, drawing_artifact_reference.py,             *)
(* component_view_registry.py); a PASS lets the candidate be published     *)
(* (publication_composition.py).                                           *)
(*                                                                         *)
(* Every one of these functions works on records its caller hands it, so   *)
(* between two calls, and between two records of one call, the drawing,    *)
(* the manifest and the selection may change.  Drawing contents are        *)
(* numbered as they come into being; a revision and its mutation evidence  *)
(* are named by the contents its artifact reference was issued for, and 1  *)
(* is the root.  The review scope names the state it was built from, and   *)
(* registry and impact records, which never change here, are left out.     *)
(***************************************************************************)
EXTENDS Naturals, FiniteSets

CONSTANTS MaxBytes,    \* contents that ever come into being
          MaxTurns,    \* provider turns
          MaxEvents,   \* restores, rollbacks and manifest corrections
          Answers      \* sets of region statuses the provider may return: PASS, FAIL, SKIP, NOT_RUN

Bytes == 1..MaxBytes
Root == 1
Reads == {"state", "dara", "manifest", "evidence"}

VARIABLES file, noted,                  \* drawing, manifest's latest mutation
          revs, parent, art, sel,       \* the owner's candidate revision state
          fresh, job, made,             \* next contents; repair; what each was made from
          phase, camera, left, one, marks,        \* the review under way
          moment, wavered,              \* history: the world at the turn; values that came back
          sealed, snap, published,      \* verdicts, publisher's snapshot, publications
          turns, events

owner == <<revs, parent, art, sel>>
review == <<phase, camera, left, one, marks, moment>>
repair == <<fresh, job, made>>
outputs == <<sealed, snap, published>>
vars == <<file, noted, owner, repair, review, wavered, outputs, turns, events>>

State == [revs |-> revs, sel |-> sel]
Blank == [k \in Reads |-> {}]

Init ==
  /\ file = Root /\ noted = Root 
  /\ revs = {Root} /\ sel = 0
  /\ parent = [r \in Bytes |-> 0] /\ art = [r \in Bytes |-> r]
  /\ fresh = Root + 1 /\ job = {} /\ made = [r \in Bytes |-> 0]
  /\ phase = "idle" /\ camera = FALSE /\ left = {} /\ one = Blank
  /\ marks = {} /\ moment = {} /\ wavered = {}
  /\ sealed = {} /\ snap = {} /\ published = {}
  /\ turns = 0 /\ events = 0

(***************************************************************************)
(* The selection.  A transition names the selection it expects; the owner  *)
(* applies it to the state it holds, so a stale one changes nothing.       *)
(***************************************************************************)
Ancestors(r) ==
  LET up[n \in 0..MaxBytes] ==
        IF n = 0 \/ parent[n] = 0 THEN {} ELSE {parent[n]} \cup up[parent[n]]
  IN  up[r]

Moves(c) ==
  /\ c \in revs /\ c # sel
  /\ sel' = c
  /\ UNCHANGED <<file, noted, revs, parent, art, repair, review,
                 outputs, turns>>

Select(c) == sel = 0 /\ Moves(c) /\ UNCHANGED <<wavered, events>>

Supersede(c) == sel # 0 /\ parent[c] = sel /\ Moves(c) /\ UNCHANGED <<wavered, events>>

\* A value comes back that an open review may already have read.
Wavers(kind) ==
  /\ events < MaxEvents /\ events' = events + 1
  /\ wavered' = IF phase = "idle" THEN wavered ELSE wavered \cup {kind}

Rollback(c) == sel # 0 /\ c \in Ancestors(sel) /\ Moves(c) /\ Wavers("selection")

(***************************************************************************)
(* The world: people and programs outside the chain.                       *)
(***************************************************************************)
Outside == UNCHANGED <<owner, review, outputs, turns>>

ForeignEdit ==
  /\ fresh <= MaxBytes
  /\ file' = fresh /\ fresh' = fresh + 1
  /\ Outside /\ UNCHANGED <<noted, job, made, wavered, events>>

Restore(r) ==
  /\ r < fresh /\ file # r /\ file' = r
  /\ Wavers("file")
  /\ Outside /\ UNCHANGED <<noted, repair>>

\* The run's manifest is rewritten with the mutation of a repair.
NoteMutation ==
  \E j \in job :
    /\ j.step # "planned" /\ noted < j.new /\ noted' = j.new
    /\ Outside /\ UNCHANGED <<file, repair, wavered, events>>

NoteSelected ==
  /\ sel # 0 /\ noted # sel /\ noted' = sel
  /\ IF noted < sel THEN UNCHANGED <<wavered, events>> ELSE Wavers("manifest")
  /\ Outside /\ UNCHANGED <<file, repair>>

(***************************************************************************)
(* A review.  The caller gathers the owner records in any order, before    *)
(* and after the provider's turn.  finalize_visual_verdict makes every     *)
(* check at the end; here each is made when the record is gathered, as a   *)
(* review that has failed one can only be refused.                         *)
(***************************************************************************)
ReviewOnly == UNCHANGED <<file, noted, owner, repair, snap, published, events>>

Open ==
  /\ phase = "idle" /\ turns < MaxTurns
  /\ phase' = "first" /\ left' = Reads /\ camera' \in BOOLEAN
  /\ ReviewOnly /\ UNCHANGED <<one, marks, moment, wavered, sealed, turns>>

\* The package shows the drawing and names the mutation in the manifest.
Value(k) ==
  CASE k = "state"    -> State
    [] k = "dara"     -> [ref |-> sel, bytes |-> file]
    [] k = "manifest" -> [mut |-> noted, before |-> file]
    [] k = "evidence" -> [shown |-> file, mut |-> noted]

DaraHolds(c) == \A d \in c["dara"] : d.ref # 0 /\ d.bytes = d.ref

Fresh(x, m) == x.shown = m.before /\ x.mut = m.mut

PackageHolds(c) == \A m \in c["manifest"], x \in c["evidence"] : Fresh(x, m)

CameraHolds(c) == \A d \in c["dara"], m \in c["manifest"] : camera => m.before = d.ref

ValidOwnerState(c) ==
  /\ \A s \in c["state"] : s.sel # 0
  /\ DaraHolds(c) /\ PackageHolds(c) /\ CameraHolds(c)

Gather(k) ==
  /\ phase = "first" /\ k \in left
  /\ one' = [one EXCEPT ![k] = {Value(k)}] /\ ValidOwnerState(one')
  /\ left' = left \ {k}
  /\ ReviewOnly /\ UNCHANGED <<phase, camera, marks, moment, wavered, sealed, turns>>

\* The provider answers with a status for every region of the scope.
Turn(statuses) ==
  /\ phase = "first" /\ left = {}
  /\ phase' = "second" /\ left' = Reads /\ marks' = statuses /\ turns' = turns + 1
  /\ moment' = {[state |-> State, file |-> file, noted |-> noted]}
  /\ ReviewOnly /\ UNCHANGED <<camera, one, wavered, sealed>>

\* Mutant: the candidate state is not compared after the provider returned.
UnchangingButState == {"dara", "manifest"}

\* Records that must be found again as they were.  So must the package, but the
\* same one can be handed in again: it holds against the same manifest.
Unchanging == Reads \ {"evidence"}

GatherAgain(k) ==
  /\ phase = "second" /\ k \in left
  /\ k \in Unchanging => one[k] = {Value(k)}
  /\ left' = left \ {k}
  /\ ReviewOnly /\ UNCHANGED <<phase, camera, one, marks, moment, wavered, sealed, turns>>

\* The verdict is computed from the statuses, whatever the provider claims.
Verdict(statuses) ==
  IF "FAIL" \in statuses THEN "FAIL"
  ELSE IF statuses \cap {"SKIP", "NOT_RUN"} # {} THEN "NEEDS_HUMAN" ELSE "PASS"

Closes ==
  /\ phase' = "idle" /\ left' = {} /\ one' = Blank /\ marks' = {} /\ moment' = {}
  /\ camera' = FALSE /\ wavered' = {}

FinalizeVerdict ==
  /\ phase = "second" /\ left = {}
  /\ \E s \in one["state"], d \in one["dara"], m \in one["manifest"],
        x \in one["evidence"], w \in moment :
       sealed' = sealed \cup
         {[cand |-> s.sel, state |-> s, ref |-> d.ref, mut |-> m.mut, shown |-> x.shown,
           outcome |-> Verdict(marks), camera |-> camera, wavered |-> wavered,
           held |-> /\ w = [state |-> s, file |-> x.shown, noted |-> m.mut]
                    /\ d = [ref |-> s.sel, bytes |-> x.shown]]}
  /\ Closes
  /\ ReviewOnly /\ UNCHANGED turns

RefuseVerdict ==
  /\ phase # "idle" /\ Closes
  /\ ReviewOnly /\ UNCHANGED <<turns, sealed>>

(***************************************************************************)
(* A repair, from the plan that answers a FAIL to the child revision.      *)
(***************************************************************************)
RepairOnly == UNCHANGED <<noted, review, wavered, outputs, turns, events>>

\* A verdict result holds for the candidate, the state and the mutation expected.
BindsTo(v) == v.state = State /\ v.cand = sel /\ v.mut = sel

SealedFailure(v) == v.outcome = "FAIL" /\ BindsTo(v)

PreparePlan ==
  /\ job = {} /\ \E v \in sealed : SealedFailure(v)
  /\ job' = {[step |-> "planned", from |-> sel, new |-> 0]}
  /\ RepairOnly /\ UNCHANGED <<file, owner, fresh, made>>

Repair ==
  \E j \in job :
    /\ j.step = "planned" /\ fresh <= MaxBytes
    /\ file' = fresh /\ fresh' = fresh + 1
    /\ made' = [made EXCEPT ![fresh] = file]
    /\ job' = {[step |-> "repaired", from |-> j.from, new |-> fresh]}
    /\ RepairOnly /\ UNCHANGED owner

Advance(j, step) == job' = {[j EXCEPT !.step = step]}

\* Mutant: the evidence's pre-repair hash is not held against the parent.
TransitionHoldsPostOnly(j) == file = j.new

\* The evidence names the parent's contents and the contents repaired to.
TransitionHolds(j) == made[j.new] = j.from /\ file = j.new

IssueReference ==
  \E j \in job :
    /\ j.step = "repaired" /\ TransitionHolds(j) /\ Advance(j, "issued")
    /\ RepairOnly /\ UNCHANGED <<file, owner, fresh, made>>

FinalizeCorrespondence ==
  \E j \in job :
    /\ j.step = "issued" /\ file = j.new /\ Advance(j, "matched")
    /\ RepairOnly /\ UNCHANGED <<file, owner, fresh, made>>

\* A parent is a sealed record whose ancestors are all known.
Lineage(p) == p \in revs

\* The mutation evidence carries a hash of the drawing of its own.
RecordFor(r, p) ==
  /\ revs' = revs \cup {r}
  /\ parent' = [parent EXCEPT ![r] = p]
  /\ art' = [art EXCEPT ![r] = file]

\* The caller names the parent: the planned one, or whichever is selected now.
BuildRevision ==
  \E j \in job : \E p \in {j.from, sel} :
    /\ j.step = "matched" /\ Lineage(p) /\ RecordFor(j.new, p)
    /\ job' = {}
    /\ RepairOnly /\ UNCHANGED <<file, sel, fresh, made>>

Abandon ==
  /\ job # {} /\ job' = {}
  /\ RepairOnly /\ UNCHANGED <<file, owner, fresh, made>>

(***************************************************************************)
(* Publication.  The state and the verdict are the caller's snapshot; only *)
(* the candidate file is read when the publication runs.  A root revision  *)
(* has no latest mutation evidence and is refused.                         *)
(***************************************************************************)
PublishOnly ==
  UNCHANGED <<file, noted, owner, repair, review, wavered, sealed, turns, events>>

FreshPass(v) == v.outcome = "PASS" /\ BindsTo(v)

TakeSnapshot(v) ==
  /\ snap = {} /\ v \in sealed
  /\ FreshPass(v) /\ sel \notin {0, Root}
  /\ snap' = {v}
  /\ PublishOnly /\ UNCHANGED published

\* Mutant: the candidate file is not compared with its record.
PublishUnchecked ==
  \E v \in snap :
    /\ published' = published \cup {[bytes |-> file, verdict |-> v]}
    /\ snap' = {}
    /\ PublishOnly

Publish ==
  \E v \in snap :
    /\ file = art[v.cand]
    /\ published' = published \cup {[bytes |-> file, verdict |-> v]}
    /\ snap' = {}
    /\ PublishOnly

PublicationRefused ==
  \E v \in snap : file # art[v.cand] /\ snap' = {} /\ PublishOnly /\ UNCHANGED published

Next ==
  \/ \E c \in Bytes : Select(c) \/ Supersede(c) \/ Rollback(c) \/ Restore(c)
  \/ ForeignEdit \/ NoteMutation \/ NoteSelected
  \/ Open \/ \E k \in Reads : Gather(k) \/ GatherAgain(k)
  \/ \E s \in Answers : Turn(s)
  \/ FinalizeVerdict \/ RefuseVerdict
  \/ PreparePlan \/ Repair \/ IssueReference \/ FinalizeCorrespondence \/ BuildRevision
  \/ Abandon
  \/ \E v \in sealed : TakeSnapshot(v)
  \/ Publish \/ PublicationRefused

Spec == Init /\ [][Next]_vars

-----------------------------------------------------------------------------
\* A verdict is about one moment.  Its owner records were gathered one by one,
\* some before the turn and all again after it; unless a value that had gone
\* came back meanwhile, the selection, the listed revisions, the drawing the
\* package shows, the reference and the mutation it is sealed with were all in
\* force together when the provider was asked (finalize_visual_verdict).
SealedIsOneMoment == \A v \in sealed : v.wavered = {} => v.held

\* What is published is what a passing review was shown.  Exempt: a revision
\* whose mutation evidence hashed other contents than its reference has; a
\* review during which the selection was rolled back; and, without the native
\* camera, one during which the drawing was edited and restored, as nothing
\* then ties the package to the referenced drawing.
PublishedWasSeen ==
  \A p \in published :
    LET v == p.verdict IN
    \/ p.bytes = v.shown
    \/ art[v.cand] # v.cand
    \/ "selection" \in v.wavered
    \/ ~v.camera /\ "file" \in v.wavered

\* Every repaired revision answers a failure: the contents its repair started
\* from are those of a revision that a sealed FAIL is about, and not whatever
\* the drawing had become when the executor ran.
RevisionsAnswerFailures ==
  \A r \in revs \ {Root} :
    \E v \in sealed :
      /\ v.outcome = "FAIL" /\ v.cand = made[r]
      /\ v.wavered = {} => v.ref = made[r]

\* What is published was judged, and what was judged to fail was repaired.
VerdictsAreAnswered == PublishedWasSeen /\ RevisionsAnswerFailures
=============================================================================
