--------------------------------- MODULE MCPage ---------------------------------
(***************************************************************************)
(* What is made of one page, checked in one run though the parts share     *)
(* nothing: its regions and their approved observations (FidelityPage) and *)
(* the files that run_pdf writes for it (PageOutput).  One of them is      *)
(* chosen at the start and takes all the steps; the other stays in an      *)
(* initial state.                                                          *)
(*                                                                         *)
(* FidelityPage: one region, whose box the second revision of the proposal *)
(* moves; an item in both boxes and one in the first only.  Table text and *)
(* hatches are never handed off: no page is made beside them.              *)
(***************************************************************************)
EXTENDS FidelityPage

CONSTANTS both, leftOnly, region, Runs, MaxEvents

VARIABLES
    branch,                                                           \* which one runs
    file, manifest, oPc, bytes, temporary, expected, entry, events, stuck, changed, after,
    adopted, swapped                                                           \* files

outputs == <<file, manifest, oPc, bytes, temporary, expected, entry, events, stuck, changed,
             after, adopted, swapped>>

MCInside == [b \in Boxes |-> IF b = 1 THEN {both, leftOnly} ELSE {both}]

MCDrafts == [r \in Revisions |-> {boxes \in [Regions -> Boxes] : boxes[region] = r}]

Output == INSTANCE PageOutput WITH pc <- oPc

-----------------------------------------------------------------------------
PagesInit ==
    /\ branch \in {"fidelity", "output"}
    /\ FidelityInit /\ (branch # "fidelity" => kind = "text")
    /\ Output!Init

PagesNext ==
    \/ /\ branch = "fidelity" /\ FidelityNext /\ UNCHANGED <<branch, outputs>>
       /\ kind \in {"table", "hatch"} => UNCHANGED page
    \/ branch = "output" /\ Output!Next /\ UNCHANGED <<branch, fidelity>>

everything == <<branch, fidelity, outputs>>

PagesSpec == PagesInit /\ [][PagesNext]_everything

-----------------------------------------------------------------------------
\* What run_pdf's manifest says of the page's files was read from files made of
\* the PDF (PageOutput).
PageFilesAreTrue == Output!PageFilesAreTrue
=============================================================================
