---------------------------- MODULE MCLispFileIpc ----------------------------
(***************************************************************************)
(* Three parts that share no state, checked in one run: the directory of   *)
(* the AutoLISP bridge (LispFileIpc), the handoff that a worker's session  *)
(* is opened for (VisionHandoff) and the dimension pilot with the gate of  *)
(* its set-up (DimensionPilot).  The part chosen at the start takes all    *)
(* the steps; the others stay in their initial state.                      *)
(*                                                                         *)
(* Pilot: the records of the set-up do not change while a run is under     *)
(* way, which reads each of them once, nor the inputs before a plan was    *)
(* approved; the second run starts after the first, and only if nothing    *)
(* of the set-up was changed.                                              *)
(***************************************************************************)
EXTENDS LispFileIpc

CONSTANTS
    c1, c2,
    Handoffs, Threads, Sessions, Renewals,                             \* handoff
    Fields, Drawings, Conforming, Templates, Released, Policies, Unresolvable, MaxChanges,
    Absent, NoPolicy, Runs, Sources, Primitives, Semantics, SourceOf, PrimitiveOf,
    Windows,                                                           \* pilot
    MaxEvents                                                          \* both

VARIABLES
    part,                                                              \* which one runs
    content, stamp, instructions, expired, consumed, clock, known, objects, bindings, pc,
    object, context, loaded, hashed, turns, accepted, events, raced, overtaken,
    rebound,                                                           \* handoff
    template, drawing, memory, plan, audit, evidence, layers, asked, changes,
    inputs, approved, approvals, tmp, out, report, pilotPc, run, pilotEvents, touched,
    lost                                                               \* pilot

handoff == <<content, stamp, instructions, expired, consumed, clock, known, objects, bindings, pc,
             object, context, loaded, hashed, turns, accepted, events, raced, overtaken, rebound>>
setup == <<template, drawing, memory, plan, audit, evidence, layers, asked, changes>>
pilot == <<setup, inputs, approved, approvals, tmp, out, report, pilotPc, run, pilotEvents,
           touched, lost>>

Vision == INSTANCE VisionHandoff

MCRenewals == {<<"first", "renewed">>}

Pilot == INSTANCE DimensionPilot WITH pc <- pilotPc, events <- pilotEvents

MCConforming == [good |-> {"units", "fonts"}, bad |-> {"units"}]
MCSourceOf == [i1 |-> "v1", i2 |-> "v2"]
MCPrimitiveOf == [s1 |-> "i1"]

PilotSample ==
    /\ Pilot!PilotInit
    /\ template = "t1" /\ drawing = "good"
    /\ inputs = [source |-> "v1", primitive |-> "i1", semantic |-> "s1"]

UnderWay(r) == pilotPc[r] \notin {"idle", "done", "raised", "dead"}

PilotSteps ==
    /\ Pilot!PilotNext
    /\ (\E r \in Runs : UnderWay(r)) => UNCHANGED <<setup, approved>>
    /\ approved = Absent => UNCHANGED pilotEvents
    /\ pilotPc["r1"] = "idle" \/ changes > 0 => pilotPc'["r2"] = "idle"
    /\ pilotPc["r2"] # "idle" => UNCHANGED changes
    /\ changes' + pilotEvents' <= 2

PartsInit ==
    /\ part \in {"lisp", "handoff", "pilot"}
    /\ Init /\ Vision!Init /\ PilotSample

PartsNext ==
    \/ part = "lisp" /\ Next /\ UNCHANGED <<part, handoff, pilot>>
    \/ part = "handoff" /\ Vision!Next /\ UNCHANGED <<part, vars, pilot>>
    \/ part = "pilot" /\ PilotSteps /\ UNCHANGED <<part, vars, handoff>>

\* LispFileIpc's fairness; of the others only safety is stated.
PartsSpec == PartsInit /\ [][PartsNext]_<<part, vars, handoff, pilot>> /\ WF_vars(Dispatch)

-----------------------------------------------------------------------------
\* What a worker is told and what is accepted of it rest on the handoff its
\* session was opened for (VisionHandoff).
HandoffsAreBound == Vision!HandoffsAreBound

\* Verified set-up conforms, and what a pilot reports as passed is the
\* reviewed drawing of approved inputs, with nothing left behind and no
\* other program's output replaced (SetupGate, DimensionPilot).
PilotsAreSound == Pilot!PilotsAreSound
=============================================================================
