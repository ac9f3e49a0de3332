------------------------------- MODULE MCRecords -------------------------------
(***************************************************************************)
(* Record keepers that share no file, checked in one run: the exchange of  *)
(* visual evidence (VisualEvidence) and the manifest of a fidelity root    *)
(* (FidelityCheckpoint).  The one chosen at the start takes all the steps; *)
(* the other stays in its initial state.                                   *)
(***************************************************************************)
EXTENDS VisualEvidence, TLC

CONSTANTS call1, call2, k1, k2, p1, Pages, Runs, MaxRevision, MaxEdits

VARIABLES
    keeper,                                                            \* which one runs
    cManifest, layout, cBound, promotions, reports, rewritten, run     \* checkpoint

exchange == vars
checkpoint == <<cManifest, layout, cBound, promotions, reports, rewritten, run>>

Checkpoint == INSTANCE FidelityCheckpoint WITH manifest <- cManifest, bound <- cBound

RecordsInit ==
    /\ keeper \in {"exchange", "checkpoint"}
    /\ Init /\ Checkpoint!Init

RecordsNext ==
    \/ keeper = "exchange" /\ Next /\ UNCHANGED <<keeper, checkpoint>>
    \/ keeper = "checkpoint" /\ Checkpoint!Next /\ UNCHANGED <<keeper, exchange>>

RecordsSpec ==
    RecordsInit /\ [][RecordsNext]_<<keeper, exchange, checkpoint>>

Interchangeable == Permutations(Calls) \cup Permutations(Kinds)

-----------------------------------------------------------------------------
\* What the fidelity manifest says of a page is backed by files
\* (FidelityCheckpoint).
ManifestIsExplained == Checkpoint!TypeOK /\ Checkpoint!ManifestIsExplained
=============================================================================
