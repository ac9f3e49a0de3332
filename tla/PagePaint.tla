-------------------------------- MODULE PagePaint --------------------------------
(***************************************************************************)
(* What a PDF page paints, as the witnesses that run_pdf takes from it are *)
(* to be compared with (LayerLines, PageCurves).                           *)
(*                                                                         *)
(* A page is a sequence of paint operations and scopes over a few cells of *)
(* the picture.  An operation has its kind, its layer, the cells of each   *)
(* of its items, its colour and its level, how many scopes it lies in; a   *)
(* scope, whether it is whole: a group that is all of the page, a clip     *)
(* that is a rectangle.  An operation covers the cells that all the clips  *)
(* around it leave.                                                        *)
(***************************************************************************)
EXTENDS Naturals, Sequences, FiniteSets

Paper == "paper"
Scopes == {"clip", "group"}

UnionOf(s) == UNION {s[i] : i \in DOMAIN s}

Kind(p, i) == p[i].kind
CellsOf(p, i) == UnionOf(p[i].items)

\* The scopes that enclose operation i: those not closed by a later operation
\* of their level or a lower one.
Enclosing(p, i) ==
    {j \in 1 .. i - 1 : /\ Kind(p, j) \in Scopes
                        /\ \A k \in j + 1 .. i : p[k].level > p[j].level}

Painted(p, i) ==
    {c \in CellsOf(p, i) : \A j \in Enclosing(p, i) : Kind(p, j) = "clip" => c \in CellsOf(p, j)}

\* The operation that is seen at a cell, 0 for the paper; "" is the content on
\* no layer.
Seen(p, c, visible) ==
    LET there == {i \in DOMAIN p : /\ Kind(p, i) \notin Scopes
                                   /\ p[i].layer \in visible \cup {""}
                                   /\ c \in Painted(p, i)}
    IN  IF there = {} THEN 0 ELSE CHOOSE i \in there : \A j \in there : j <= i

ColourOf(p, i) == IF i = 0 THEN Paper ELSE p[i].colour

-----------------------------------------------------------------------------
\* _full_page_transparency_group_index: the first operation is the page's only
\* group, and it is the whole page's.
PageGroup(p) ==
    IF {i \in DOMAIN p : Kind(p, i) = "group"} = {1} /\ p[1].level = 0 /\ p[1].whole
    THEN 1 ELSE 0
=============================================================================
