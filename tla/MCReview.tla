------------------------------- MODULE MCReview -------------------------------
(***************************************************************************)
(* The review of a candidate revision (EvidenceChain) and the publication  *)
(* of a drawing under one authorization (Publication): they share no       *)
(* state, and one of them, chosen at the start, takes all the steps while  *)
(* the other stays in its initial state.                                   *)
(***************************************************************************)
EXTENDS Publication

CONSTANTS MaxBytes, MaxTurns, MaxEvents, Answers

VARIABLES
    part,                                                              \* which one runs
    file, noted, revs, parent, art, sel, fresh, job, made, phase, camera, left, one, marks,
    moment, wavered, sealed, snap, published, turns, events

publication == vars
chain == <<file, noted, revs, parent, art, sel, fresh, job, made, phase, camera, left, one,
           marks, moment, wavered, sealed, snap, published, turns, events>>

Chain == INSTANCE EvidenceChain

ReviewInit ==
    /\ part \in {"publication", "chain"}
    /\ Init
    /\ artifact[CHOOSE p \in Publishers : TRUE] = CHOOSE x \in Artifacts : TRUE
    /\ part # "publication" => \A p, q \in Publishers : artifact[p] = artifact[q]
    /\ Chain!Init

ReviewNext ==
    \/ part = "publication" /\ Next /\ UNCHANGED <<part, chain>>
    \/ part = "chain" /\ Chain!Next /\ UNCHANGED <<part, publication>>

ReviewSpec == ReviewInit /\ [][ReviewNext]_<<part, publication, chain>>
-----------------------------------------------------------------------------
\* What the visual review seals belongs to one moment of the drawing and its
\* records (EvidenceChain).
SealedIsOneMoment == Chain!SealedIsOneMoment

\* What is published was seen by the turn that judged it, and a further
\* revision answers the failures of the one before (EvidenceChain).
VerdictsAreAnswered == Chain!VerdictsAreAnswered
=============================================================================
