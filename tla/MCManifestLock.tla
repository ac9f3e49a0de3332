---------------------------- MODULE MCManifestLock ----------------------------
(***************************************************************************)
(* Three parts that share nothing, checked in one run: the lock of a       *)
(* manifest (ManifestLock), the pruning of constraints (ConstraintPruning) *)
(* and the runs of the agent (AgentRun).  The part chosen at the start     *)
(* takes all the steps; the others stay in an initial state.               *)
(*                                                                         *)
(* Constraints: a chain of lines, whose relations form cycles, and a       *)
(* frame with two circles.                                                 *)
(*                                                                         *)
(* Agent: the page and the Semantic IR are rewritten once in all; the      *)
(* second Semantic IR has a constraint that is pruned.  Steps that touch   *)
(* no file are taken at once.  At most two runs are under way together,    *)
(* the second advisory run starts after the first, and an advisory run has *)
(* the solver.                                                             *)
(***************************************************************************)
EXTENDS ManifestLock, ConstraintPruning

CONSTANTS
    Advisers, Appliers, Pages, Semantics, TextsOf, ConflictsOf, PartsOf, ListOf, Confidence,
    Redundant, Solvers, MaxIterations, MaxRewrites, NoFile, Torn             \* agent

VARIABLES
    part,                                                              \* which one runs
    page, sem, files, audit, dxf, solvable, approvals, rewrites, aPc, run    \* agent

agent == <<page, sem, files, audit, dxf, solvable, approvals, rewrites, aPc, run>>

-----------------------------------------------------------------------------
Measured(t, x, y, tenths) == [type |-> t, a |-> x, b |-> y, confidence |-> tenths]

Chain == {
    Measured("parallel", "A", "B", 9), Measured("parallel", "B", "C", 8),
    Measured("parallel", "C", "A", 8), Measured("parallel", "B", "A", 6),
    Measured("collinear", "A", "B", 7), Measured("equal_length", "A", "C", 8),
    Measured("perpendicular", "A", "D", 9), Measured("perpendicular", "D", "B", 7)}

RightFrame == {
    Measured("parallel", "A", "B", 9), Measured("parallel", "C", "D", 8),
    Measured("coincident_endpoint", "A", "C", 8), Measured("coincident_endpoint", "A", "D", 9),
    Measured("coincident_endpoint", "B", "C", 5),
    Measured("perpendicular", "A", "C", 9), Measured("perpendicular", "B", "D", 8),
    Measured("tangent", "A", "O", 7)}

MCScenes == {Chain, RightFrame}
MCTurn == [x \in Angles |-> (x + 2) % 4]

-----------------------------------------------------------------------------
Agent == INSTANCE AgentRun WITH Absent <- NoFile, pc <- aPc

MCTextsOf == [p1 |-> {"t1"}, p2 |-> {}]
MCConflictsOf == [p1 |-> {}, p2 |-> {"v1"}]
MCPartsOf == [s1 |-> {}, s2 |-> {}]
MCListOf == [s1 |-> {"k1", "k2"}, s2 |-> {"m1", "m2"}]
MCConfidence == [k1 |-> 9, k2 |-> 7, m1 |-> 8, m2 |-> 8]
MCRedundant == {<<"m1", "m2">>}

AgentStarts == Agent!AgentInit /\ page = "p1" /\ sem = "s1"

InMemory(r) == aPc[r] \in {"solve", "reread", "advise", "apply", "failing"}
UnderWay(r) == aPc[r] \notin {"idle", "done", "refused", "dead"}

AgentSteps ==
    /\ IF \E r \in Agent!Runs : InMemory(r)
       THEN Agent!RunNext(CHOOSE r \in Agent!Runs : InMemory(r))
       ELSE Agent!AgentNext
    /\ Cardinality({r \in Agent!Runs : UnderWay(r)'}) <= 2
    /\ aPc["a2"] = "idle" \/ aPc["a1"] # "idle"
    /\ \A r \in {"a1", "a2"} : run'[r].solver

-----------------------------------------------------------------------------
PartsInit ==
    /\ part \in {"lock", "pruning", "agent"}
    /\ Init /\ PruneInit /\ AgentStarts

PartsNext ==
    \/ part = "lock" /\ Next /\ UNCHANGED <<part, pvars, agent>>
    \/ part = "pruning" /\ PruneNext /\ UNCHANGED <<part, vars, agent>>
    \/ part = "agent" /\ AgentSteps /\ UNCHANGED <<part, vars, pvars>>

\* ManifestLock's fairness; of the others only safety is stated.
PartsSpec == PartsInit /\ [][PartsNext]_<<part, vars, pvars, agent>> /\ Fairness

-----------------------------------------------------------------------------
\* The constraints of a Semantic IR are exactly enough (ConstraintPruning).
ConstraintsAreExact == part = "pruning" => PruneTypeOK /\ PruningIsExact

\* What an agent's run applies was approved, for the inputs and the report it
\* is applied to; and solved geometry is drawn only of what is solved
\* (AgentRun).
AgentIsSound == Agent!AgentTypeOK /\ Agent!AgentIsSound
=============================================================================
