------------------------------- MODULE LayerLines -------------------------------
(***************************************************************************)
(* The lines that run_pdf takes from a PDF by its layers                   *)
(* (primitive_ir_lib/run_pdf.py, _page_pdf_source_layer_line_witnesses):   *)
(* every layer in use is switched off in the open document, the page is    *)
(* rendered again and the document's layers are restored; a line is taken  *)
(* if along all of it pixels change with its layer that no other thing     *)
(* painted on the layer can explain.                                       *)
(*                                                                         *)
(* A cell of the page (PagePaint) is the pixels around one sample of a     *)
(* line, and bounds are the cells named.  Abstracted: coordinates, stroke  *)
(* widths, and the index of cells that finds competitors; the checks that  *)
(* metadata is well-formed are one kind of operation, "broken".            *)
(***************************************************************************)
EXTENDS PagePaint

CONSTANTS Layers,      \* layers of the document; "" is the content on no layer
          Reviewed,    \* those of the two reviewed ISO names
          Documents,   \* the sequences of pages considered
          Visible,     \* what may be visible when the document is opened
          MaxFailures  \* library calls that fail

VARIABLES
    document,  \* the pages
    on,        \* the document's layers that are visible
    initial,   \* ... when the page was begun
    page, pc,
    baseline,  \* the rendered page, once it is rendered
    off,       \* the page without each layer probed
    pending,   \* layers still to be probed
    layer,     \* the layer being probed
    lines,     \* the lines taken from the pages so far
    failures,
    opened     \* history: what was visible when the document was opened

vars == <<document, on, initial, page, pc, baseline, off, pending, layer, lines, failures, opened>>

Init ==
    /\ document \in Documents
    /\ opened \in Visible /\ on = opened /\ initial = opened
    /\ page = 1 /\ pc = "render"
    /\ baseline = <<>> /\ off = <<>> /\ pending = {} /\ layer = "" /\ lines = {}
    /\ failures = 0

-----------------------------------------------------------------------------
(* What the PDF library paints *)

\* What the library lists as drawings; text and images are listed elsewhere.
Drawn(p, i) == Kind(p, i) \in {"line", "path", "broken"}

Picture(p, cells, visible) == [c \in cells |-> ColourOf(p, Seen(p, c, visible))]

AllCells(p) == UNION {CellsOf(p, i) : i \in DOMAIN p}
Here == document[page]

-----------------------------------------------------------------------------
(* Which lines are taken *)

\* _source_layer_active_ancestors: one pass over the scopes that are open.
Ancestors(p, i) ==
    LET open[k \in 0 .. i] ==
            IF k = 0 THEN {}
            ELSE LET left == {j \in open[k - 1] : p[j].level < p[k].level}
                 IN  IF k < i /\ Kind(p, k) \in Scopes THEN left \cup {k} ELSE left
    IN  open[i]

\* _source_layer_line_has_safe_ancestry.
SafeAncestry(p, i, item) ==
    \A j \in Ancestors(p, i) :
        IF Kind(p, j) = "group" THEN j = PageGroup(p)
        ELSE p[i].items[item] \subseteq CellsOf(p, j)

\* Layers that a record which cannot be read makes unfit; an image that names
\* no layer itself ("marked": perhaps the content marks it with one) does so
\* for all of them.
Unfit(p) ==
    IF \E i \in DOMAIN p : Kind(p, i) = "marked" THEN Layers
    ELSE {p[i].layer : i \in {i \in DOMAIN p : Kind(p, i) = "broken"}}

\* Mutant: text and images are no competitors, as they are in no list of paths.
CompetesAsPath(p, i, j) == Kind(p, j) \in {"line", "path"} /\ p[j].layer = p[i].layer

\* What may explain a change instead of line i: another path, text or image of
\* its layer, and an image within the content, whose layer is not known.
Competes(p, i, j) ==
    \/ Kind(p, j) \in {"line", "path", "text", "image"} /\ p[j].layer = p[i].layer
    \/ Kind(p, j) = "inline"

Changed(l) == {c \in DOMAIN baseline : baseline[c] # off[l][c]}

\* What is found in the index of bounds and strokes near the cells of an item.
Nearby(p, i, cells) ==
    {j \in DOMAIN p \ {i} : Competes(p, i, j) /\ cells \cap CellsOf(p, j) # {}}

\* _line_has_full_pixel_difference_support: every cell of the item has changed,
\* and nothing else explains it.
Supported(p, i, cells) ==
    /\ cells \subseteq Changed(p[i].layer)
    /\ Nearby(p, i, cells) = {}

\* sibling_can_compete: an item of the same path, unless the two meet only at
\* one end.
Siblings(p, i, item) ==
    {k \in DOMAIN p[i].items \ {item} : Cardinality(p[i].items[k] \cap p[i].items[item]) > 1}

\* A line is a candidate if its layer was probed and its scopes are safe.
Candidate(p, i) ==
    /\ Kind(p, i) = "line" /\ p[i].layer \in DOMAIN off \ Unfit(p)
    /\ \A item \in DOMAIN p[i].items : SafeAncestry(p, i, item)

\* The lines of the reviewed layers: paths of one item.
ReviewedLines(p) ==
    {<<i, 1>> : i \in {i \in DOMAIN p :
        /\ Candidate(p, i) /\ p[i].layer \in Reviewed /\ Len(p[i].items) = 1
        /\ Supported(p, i, p[i].items[1])}}

\* The vector lines of any layer: the items of a path that are supported.
VectorLines(p) ==
    UNION {{<<i, item>> : item \in {item \in DOMAIN p[i].items :
                Supported(p, i, p[i].items[item]) /\ Siblings(p, i, item) = {}}} :
            i \in {i \in DOMAIN p : Candidate(p, i)}}

-----------------------------------------------------------------------------
(* The pages of a document *)

Fails == failures < MaxFailures /\ failures' = failures + 1

\* run_pdf renders the page as the document is, and the probe notes its layers.
Render ==
    /\ pc = "render"
    /\ baseline' = Picture(Here, AllCells(Here), on)
    /\ initial' = on
    /\ pending' = {Here[i].layer : i \in {i \in DOMAIN Here : Drawn(Here, i)}} \cap on
    /\ pc' = "probe"
    /\ UNCHANGED <<document, on, page, off, layer, lines, failures, opened>>

\* The layer is switched off ...
SwitchOff(l) ==
    /\ pc = "probe" /\ l \in pending
    /\ layer' = l /\ pending' = pending \ {l}
    /\ \/ on' = on \ {l} /\ pc' = "look" /\ UNCHANGED failures
       \/ Fails /\ pc' = "restore" /\ UNCHANGED on
    /\ UNCHANGED <<document, initial, page, baseline, off, lines, opened>>

\* ... and the page is rendered without it, if that can be done.
RenderOff ==
    /\ pc = "look"
    /\ \/ /\ off' = [l \in DOMAIN off \cup {layer} |->
                       IF l = layer THEN Picture(Here, AllCells(Here), on) ELSE off[l]]
          /\ UNCHANGED failures
       \/ Fails /\ UNCHANGED off
    /\ pc' = "restore"
    /\ UNCHANGED <<document, on, initial, page, baseline, pending, layer, lines, opened>>

\* Mutant: a layer that could not be switched on again is passed over.
RestoreAndGoOn ==
    /\ pc = "restore"
    /\ \/ on' = initial /\ UNCHANGED failures
       \/ Fails /\ UNCHANGED on
    /\ pc' = "probe"
    /\ UNCHANGED <<document, initial, page, baseline, off, pending, layer, lines, opened>>

\* _restore_pdf_optional_content_state: all layers are set and read back, and
\* the page is given up if one could not be set or read.
Restore ==
    /\ pc = "restore"
    /\ \/ on' = initial /\ pc' = "probe" /\ UNCHANGED failures
       \/ Fails /\ on' \in {on, initial} /\ pc' = "failed"
    /\ UNCHANGED <<document, initial, page, baseline, off, pending, layer, lines, opened>>

\* All layers are probed: the page's lines are taken, and the next is begun.
Take ==
    /\ pc = "probe" /\ pending = {}
    /\ lines' = lines \cup
                {<<page, w[1], w[2]>> : w \in ReviewedLines(Here) \cup VectorLines(Here)}
    /\ IF page < Len(document) THEN page' = page + 1 /\ pc' = "render"
       ELSE UNCHANGED page /\ pc' = "done"
    /\ baseline' = <<>> /\ off' = <<>> /\ layer' = ""
    /\ UNCHANGED <<document, on, initial, pending, failures, opened>>

Next ==
    \/ Render \/ RenderOff \/ Restore \/ Take
    \/ \E l \in Layers : SwitchOff(l)

Spec == Init /\ [][Next]_vars

-----------------------------------------------------------------------------
TypeOK ==
    /\ on \subseteq Layers /\ {initial, opened} \subseteq Visible
    /\ page \in DOMAIN document /\ pending \subseteq Layers
    /\ DOMAIN off \cup {layer} \subseteq Layers \cup {""}
    /\ lines \subseteq (DOMAIN document) \X (1 .. 3) \X (1 .. 2)
    /\ failures \in 0 .. MaxFailures

\* A line taken is seen on the page as the document was opened, along all of
\* it: no other path, text or image, on its layer or another, hides it or is
\* taken for it.
LinesAreSeen ==
    \A w \in lines : LET p == document[w[1]] IN
        \A c \in p[w[2]].items[w[3]] : Seen(p, c, opened) = w[2]

\* A page is begun with the layers the document was opened with, whatever
\* failed before; and a line taken has no scope but a clip that leaves it
\* whole or the page's own group.
LayersAreRestored == pc \in {"render", "done"} => on = opened

ScopesAreKnown ==
    \A w \in lines : LET p == document[w[1]] IN
        \A j \in Enclosing(p, w[2]) :
            \/ Kind(p, j) = "clip" /\ p[w[2]].items[w[3]] \subseteq Painted(p, w[2])
            \/ Kind(p, j) = "group" /\ j = 1 /\ p[j].whole

\* What run_pdf takes from a PDF by its layers is on its pages.
LayerLinesAreTrue == TypeOK /\ LinesAreSeen /\ LayersAreRestored /\ ScopesAreKnown
=============================================================================
