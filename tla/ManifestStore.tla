---------------------------- MODULE ManifestStore ----------------------------
(***************************************************************************)
(* What cad_agent/manifest.py promises about the run manifest: it is one   *)
(* file whose versions follow each other, a lifecycle transition replaces  *)
(* exactly the version its caller hashed, and write_manifest replaces      *)
(* whatever is there.                                                      *)
(***************************************************************************)
EXTENDS Naturals

CONSTANTS Transitions, Writers, Nobody

VARIABLES
    version,    \* of the manifest
    author,     \* who wrote that version
    hashed      \* the version each caller has hashed

Init ==
    /\ version = 0
    /\ author = Nobody
    /\ hashed = [c \in Transitions \cup Writers |-> 0]

Hash(c) == hashed' = [hashed EXCEPT ![c] = version] /\ UNCHANGED <<version, author>>

CompareAndSwap(c) ==
    /\ c \in Transitions
    /\ hashed[c] = version
    /\ version' = version + 1
    /\ author' = c
    /\ UNCHANGED hashed

Write(c) ==
    /\ c \in Writers
    /\ version' = version + 1
    /\ author' = c
    /\ UNCHANGED hashed

Next == \E c \in Transitions \cup Writers : Hash(c) \/ CompareAndSwap(c) \/ Write(c)

Spec == Init /\ [][Next]_<<version, author, hashed>>
=============================================================================
