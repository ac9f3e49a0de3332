---------------------------- MODULE MCCodexWorker ----------------------------
(***************************************************************************)
(* Two parts that share no state, checked in one run: the worker session   *)
(* (CodexWorker), in which one thread opens it, takes turns and closes it  *)
(* while a controller interrupts or cancels; and the staged runs of the    *)
(* command line (StagedRun).  The part chosen at the start takes all the   *)
(* steps.                                                                  *)
(***************************************************************************)
EXTENDS CodexWorker, TLC

CONSTANTS open, first, second, other, owner, controller, command1, command2
CONSTANTS Commands, LastPage, MaxEdits, MaxKills   \* of StagedRun

VARIABLES
    part,                                                              \* which one runs
    kind, source, disk, listing, manifest, sPc, copy, at, edits, kills, calm, met, raced, cut

MCThreadOf == [c \in Calls |-> IF c = other THEN controller ELSE owner]

MCMethodsOf ==
    [c \in Calls |-> CASE c = open -> {"start", "resume"}
                       [] c = first -> {"turn"}
                       [] c = second -> {"turn", "close"}
                       [] OTHER -> {"interrupt", "cancel"}]

staged == <<kind, source, disk, listing, manifest, sPc, copy, at, edits, kills,
            calm, met, raced, cut>>

Staged == INSTANCE StagedRun WITH pc <- sPc

\* A resumed session differs from a started one in its opening alone: it is
\* only cancelled and closed.
Brief == method[second] \in {"none", "close"} /\ method[other] \in {"none", "cancel"}

RunsInit ==
    /\ part \in {"session", "staged"}
    /\ Init
    /\ Staged!Init
    /\ part # "staged" => kind = "pdf"

RunsNext ==
    \/ part = "session" /\ Next /\ (method[open] = "resume" => Brief') /\ UNCHANGED <<part, staged>>
    \/ part = "staged" /\ Staged!Next /\ UNCHANGED <<part, vars>>

RunsSpec == RunsInit /\ [][RunsNext]_<<part, vars, staged>>

Interchangeable == Permutations(Commands)

-----------------------------------------------------------------------------
\* The files of a complete page of a staged run belong together, its evidence
\* is about its DXF, and an estimated scale is never built upon; and a command
\* that answers has repaired every stage of its run (StagedRun).
StagesAreDerived == Staged!StagesAreDerived
=============================================================================
