--------------------------- MODULE FidelityCheckpoint ---------------------------
(***************************************************************************)
(* cad_agent/fidelity.py: the commands that write the manifest of a        *)
(* private fidelity root. fidelity-pdf makes it, fidelity-overlay adds its *)
(* artefacts, fidelity-promote declares a composed page fit for review and *)
(* fidelity-mechanical-review opens it in AutoCAD.                         *)
(*                                                                         *)
(* Each reads the manifest when it starts and writes all of it back when   *)
(* it ends; the write itself is atomic (ManifestLock). Commands are        *)
(* processes: they interleave, and are killed anywhere. A file's hash is   *)
(* its content; a composed drawing is a version number, which an edit      *)
(* raises, and a promotion is told by who gave it.                         *)
(***************************************************************************)
EXTENDS Naturals

CONSTANTS
    Pages,
    Runs,         \* the commands that can be in progress together
    MaxRevision,  \* bound: revisions of a promotion
    MaxEdits      \* bound: edits of a composed drawing and its approval, together

Revisions == 1..MaxRevision
Versions == 0..MaxEdits

VARIABLES
    manifest,    \* the file, if it exists
    layout,      \* version of the composed drawing of a page
    bound,       \* its report names an approval that is there
    promotions,  \* the promotion files of a page, by revision
    reports,     \* the review files
    rewritten,   \* history: the reviews that were written over
    run          \* the command a run is in, if any

files == <<manifest, promotions, reports, rewritten>>
pages == <<layout, bound>>
vars == <<files, pages, run>>

Promotion == [revision : Revisions, by : Runs, drawing : Versions]
Review == [of : Promotion, drawing : Versions, passed : BOOLEAN]
Entry == [promotion : SUBSET Promotion,
          state : {"needs_review", "approved_for_mechanical_review", "mechanical_reviewed",
                   "mechanical_review_failed"},
          review : SUBSET Review]
Baseline == [promotion |-> {}, state |-> "needs_review", review |-> {}]
Command == [name : {"pdf", "overlay", "promote", "review"}, page : Pages, revision : 0..MaxRevision,
            step : {"read", "checked", "opened", "filed"}, saw : [Pages -> Entry],
            passed : BOOLEAN]

TypeOK ==
    /\ manifest \subseteq [Pages -> Entry] /\ \A m, n \in manifest : m = n
    /\ layout \in [Pages -> Versions] /\ bound \in [Pages -> BOOLEAN]
    /\ promotions \in [Pages -> [Revisions -> SUBSET Promotion]]
    /\ reports \in [Pages -> [Revisions -> SUBSET Review]]
    /\ rewritten \subseteq Pages \X Revisions
    /\ run \in [Runs -> SUBSET Command]

Init ==
    /\ manifest = {} /\ layout = [p \in Pages |-> 0] /\ bound = [p \in Pages |-> TRUE]
    /\ promotions = [p \in Pages |-> [v \in Revisions |-> {}]]
    /\ reports = [p \in Pages |-> [v \in Revisions |-> {}]]
    /\ rewritten = {} /\ run = [r \in Runs |-> {}]

-----------------------------------------------------------------------------
\* read_fidelity_manifest, for every command but the first.
Start(r, name, p, v, saw) ==
    /\ run[r] = {}
    /\ run' = [run EXCEPT ![r] = {[name |-> name, page |-> p, revision |-> v, step |-> "read",
                                   saw |-> saw, passed |-> FALSE]}]
    /\ UNCHANGED <<files, pages>>

At(r, name, step) == {c \in run[r] : c.name = name /\ c.step = step}

AnyPage == CHOOSE p \in Pages : TRUE

Step(r, c, step) == run' = [run EXCEPT ![r] = {[c EXCEPT !.step = step]}]

\* write_manifest: all of the manifest as the command knows it.
Save(r, saw) ==
    /\ manifest' = {saw}
    /\ run' = [run EXCEPT ![r] = {}]
    /\ UNCHANGED <<pages, promotions, reports, rewritten>>

\* An error, or the end of the process; the files stay.
Stop(r) ==
    /\ run[r] # {} /\ run' = [run EXCEPT ![r] = {}]
    /\ UNCHANGED <<files, pages>>

\* fidelity-pdf: every page is rendered and drawn before the manifest that
\* was not there is written.
StartPdf(r) ==
    manifest = {} /\ Start(r, "pdf", AnyPage, 0, [p \in Pages |-> Baseline])

WritePdf(r) == \E c \in At(r, "pdf", "read") : Save(r, c.saw)

\* fidelity-overlay
StartOverlay(r) == \E m \in manifest : Start(r, "overlay", AnyPage, 0, m)

\* The overlays' own records change no other.
WriteOverlay(r) ==
    \E c \in At(r, "overlay", "read") :
        Save(r, c.saw)

\* fidelity-promote
StartPromote(r, p, v) == \E m \in manifest : Start(r, "promote", p, v, m)

\* The composed page is bound to a current region approval, and this revision
\* has not been promoted.
CheckPromotion(r) ==
    /\ \E c \in At(r, "promote", "read") :
         /\ bound[c.page] /\ promotions[c.page][c.revision] = {}
         /\ Step(r, c, "checked")
    /\ UNCHANGED <<files, pages>>

FilePromotion(r) ==
    /\ \E c \in At(r, "promote", "checked") :
         LET new == {[revision |-> c.revision, by |-> r, drawing |-> layout[c.page]]}
         IN /\ promotions' = [promotions EXCEPT ![c.page][c.revision] = new]
            /\ run' = [run EXCEPT ![r] = {[c EXCEPT !.step = "filed"]}]
    /\ UNCHANGED <<manifest, reports, rewritten, pages>>

\* Mutant: the review of the promotion before stays in the manifest.
PromoteReviewed(r) ==
    \E c \in At(r, "promote", "filed") :
        Save(r, [c.saw EXCEPT ![c.page] = [promotion |-> promotions[c.page][c.revision],
                                           state |-> "approved_for_mechanical_review",
                                           review |-> @.review]])

\* The file is hashed again for the manifest.
Promote(r) ==
    \E c \in At(r, "promote", "filed") :
        Save(r, [c.saw EXCEPT ![c.page] = [promotion |-> promotions[c.page][c.revision],
                                           state |-> "approved_for_mechanical_review",
                                           review |-> {}]])

\* fidelity-mechanical-review: the promotion is the one the manifest names,
\* and the drawing the one that was promoted.
StartReview(r, p) ==
    \E m \in manifest : \E f \in m[p].promotion :
        /\ m[p].state = "approved_for_mechanical_review"
        /\ promotions[p][f.revision] = {f} /\ layout[p] = f.drawing
        /\ Start(r, "review", p, f.revision, m)

\* AutoCAD opens the drawing; its structure is the one promoted or is not.
\* A revision that has its report ends the command.
Open(r) ==
    /\ \E c \in At(r, "review", "read"), passed \in BOOLEAN :
         /\ reports[c.page][c.revision] = {}
         /\ run' = [run EXCEPT ![r] = {[c EXCEPT !.step = "opened", !.passed = passed]}]
    /\ UNCHANGED <<files, pages>>

\* The report names the promotion and the drawing as they are by now.
FileReview(r) ==
    /\ \E c \in At(r, "review", "opened") : \E f \in promotions[c.page][c.revision] :
         LET new == {[of |-> f, drawing |-> layout[c.page], passed |-> c.passed]}
         IN /\ reports' = [reports EXCEPT ![c.page][c.revision] = new]
            /\ rewritten' = IF reports[c.page][c.revision] = {} THEN rewritten
                            ELSE rewritten \cup {<<c.page, c.revision>>}
            /\ run' = [run EXCEPT ![r] = {[c EXCEPT !.step = "filed"]}]
    /\ UNCHANGED <<manifest, promotions, pages>>

SaveReview(r) ==
    \E c \in At(r, "review", "filed") :
        Save(r, [c.saw EXCEPT ![c.page] = [promotion |-> @.promotion,
                                           state |-> IF c.passed THEN "mechanical_reviewed"
                                                     ELSE "mechanical_review_failed",
                                           review |-> reports[c.page][c.revision]]])

-----------------------------------------------------------------------------
Edits(p) == layout[p] + IF bound[p] THEN 0 ELSE 1

EditLayout(p) ==
    /\ Edits(p) < MaxEdits /\ layout' = [layout EXCEPT ![p] = @ + 1]
    /\ UNCHANGED <<files, bound, run>>

WithdrawApproval(p) ==
    /\ bound[p] /\ Edits(p) < MaxEdits /\ bound' = [bound EXCEPT ![p] = FALSE]
    /\ UNCHANGED <<files, layout, run>>

Next ==
    \/ \E r \in Runs :
         \/ StartPdf(r) \/ WritePdf(r) \/ StartOverlay(r) \/ WriteOverlay(r)
         \/ \E p \in Pages, v \in Revisions : StartPromote(r, p, v)
         \/ CheckPromotion(r) \/ FilePromotion(r) \/ Promote(r)
         \/ \E p \in Pages : StartReview(r, p)
         \/ Open(r) \/ FileReview(r) \/ SaveReview(r) \/ Stop(r)
    \/ \E p \in Pages : EditLayout(p) \/ WithdrawApproval(p)

Spec == Init /\ [][Next]_vars

-----------------------------------------------------------------------------
\* What the manifest says of a page is backed by files, whichever commands
\* interleaved, wrote an older manifest back or were killed between their
\* files and the manifest: a page is promoted if a promotion was filed for
\* it, a fresh promotion has no review, and a page is reviewed, or failed its
\* review, by the report of the revision it names and with its outcome, unless
\* two reviews of that revision ran side by side and one report replaced the
\* other.
ManifestIsExplained ==
    \A m \in manifest, p \in Pages : LET e == m[p] IN
        /\ e.state = "needs_review" <=> e.promotion = {}
        /\ \A f \in e.promotion : promotions[p][f.revision] # {}
        /\ e.state \in {"needs_review", "approved_for_mechanical_review"} <=> e.review = {}
        /\ \A w \in e.review :
             /\ \/ <<p, w.of.revision>> \in rewritten
                \/ /\ reports[p][w.of.revision] = {w}
                   /\ w.passed <=> e.state = "mechanical_reviewed"
             /\ reports[p][w.of.revision] # {}
             /\ \A f \in e.promotion : w.of.revision = f.revision

=============================================================================
