--------------------------- MODULE DrawingRegister ---------------------------
(***************************************************************************)
(* What a bridge to AutoCAD promises its callers about the candidate       *)
(* drawing: the file is a register whose bytes are named by their SHA-256  *)
(* and which is written only by compare-and-swap.  An edit is bound to the *)
(* hash its caller observed, and is applied only over those very bytes.    *)
(***************************************************************************)
EXTENDS Naturals

CONSTANT Requests

VARIABLES
    sha,        \* version of the bytes on disk; every save makes a new one
    applied     \* the edits applied: by whom, bound to and over which version

Init == sha = 0 /\ applied = {}

Apply(r) ==
    /\ sha' = sha + 1
    /\ applied' = applied \cup {[serial |-> r, base |-> sha, over |-> sha]}

Next == \E r \in Requests : Apply(r)

Spec == Init /\ [][Next]_<<sha, applied>>
=============================================================================
