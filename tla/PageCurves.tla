-------------------------------- MODULE PageCurves --------------------------------
(***************************************************************************)
(* The circles and arcs that run_pdf takes from the paths of a page, and   *)
(* what becomes of the circles and lines found in its picture              *)
(* (primitive_ir_lib/run_pdf.py, _page_circle_witnesses, _page_vector_arcs *)
(* and _page_vector_line_witnesses; geometry_extraction.py,                *)
(* extract_raw_geometry; run_image.py).                                    *)
(*                                                                         *)
(* A circle or an arc is taken if nothing that is listed can hide it; a    *)
(* circle of the picture that a path in doubt touches is dropped, and so   *)
(* is a line that an arc explains, but for what a stroke bears out.        *)
(*                                                                         *)
(* A cell (PagePaint) is a part of the perimeter.  Kinds of paint are what *)
(* the fits and tests find: closed curves or polygons that fit a circle,   *)
(* closed contours that do not, open arcs and bows, single lines of which  *)
(* a chain may close to a circle ("piece"), strokes that meet an arc at    *)
(* its end in its direction ("tangent"), straight lines, fills, small      *)
(* triangles, text, images, shadings and stencils, and annotations, which  *)
(* the viewer paints last.  Abstracted: coordinates and tolerances.        *)
(***************************************************************************)
EXTENDS PagePaint

CONSTANTS Sheets,    \* pages: paint, and whether the text can be traced, the order of
                     \* the images is known and the paper is of one colour
          Frame,     \* the cells within the picture
          Rings,     \* the circles that may be found in a picture
          Segments   \* the lines that may be found in one

VARIABLES sheet, taken

vars == <<sheet, taken>>

Init == sheet \in Sheets /\ taken = {}

Circular == {"curves", "polygon"}
Open == {"arc", "bow"}
Strokes == Circular \cup Open \cup {"contour", "piece", "tangent", "line"}

-----------------------------------------------------------------------------
(* Circles *)

\* Single lines that follow each other in one style: a chain of two.
Joined(p, i) ==
    /\ i + 1 \in DOMAIN p /\ Kind(p, i) = "piece" /\ Kind(p, i + 1) = "piece"
    /\ p[i].colour = p[i + 1].colour /\ p[i].width = p[i + 1].width
    /\ p[i].level = p[i + 1].level

\* _single_line_record_paths: a chain is a path, from its first line to its last.
Chains(p) ==
    {[first |-> i, last |-> i + 1, cells |-> CellsOf(p, i) \cup CellsOf(p, i + 1)] :
        i \in {i \in DOMAIN p : Joined(p, i)}}

PathsOf(p, kinds) ==
    {[first |-> i, last |-> i, cells |-> CellsOf(p, i)] :
        i \in {i \in DOMAIN p : Kind(p, i) \in kinds}}

\* _fit_full_circle_path and _fit_full_line_circle_path: closed, and of another
\* colour than the paper is known to have.
Fits(s, c) ==
    /\ Kind(s.paint, c.first) = "piece" => c.cells \in Rings
    /\ s.paper /\ s.paint[c.last].colour # Paper

Circles(s) == {c \in PathsOf(s.paint, Circular) \cup Chains(s.paint) : Fits(s, c)}

\* The rest of the paths with a curve, and the chains and fragments that do not
\* close.
NotCircles(s) ==
    PathsOf(s.paint, {"contour"} \cup Open)
    \cup {c \in PathsOf(s.paint, Circular) \cup Chains(s.paint) : ~Fits(s, c)}

\* _clip_fully_contains_circle: a rectangle, and the whole circle in it.
LeavesWhole(p, j, cells) == p[j].whole /\ cells \subseteq CellsOf(p, j)

\* Any scope of a lower level that began before the path, open or not.
SafeScopes(p, c) ==
    \A j \in 1 .. c.first - 1 : Kind(p, j) \in Scopes /\ p[j].level < p[c.first].level =>
        IF Kind(p, j) = "group" THEN j = PageGroup(p) ELSE LeavesWhole(p, j, c.cells)

\* Mutant: a wider stroke of the circle's own colour is passed over.
MayEraseByColour(p, c, j) ==
    Kind(p, j) \in Strokes => p[j].colour # p[c.last].colour

\* _drawing_may_erase_circle: a stroke of another colour, or a wider one.
MayErase(p, c, j) ==
    Kind(p, j) \in Strokes =>
        p[j].colour # p[c.last].colour \/ p[j].width > p[c.last].width

\* _dimension_arrowhead_context: a small triangle of the circle's colour after
\* the line that is its axis.
OnAxis(p, c, j) ==
    /\ j \in DOMAIN p /\ Kind(p, j) = "triangle" /\ p[j].colour = p[c.last].colour
    /\ j > 1 /\ Kind(p, j - 1) = "line"

\* _paired_circle_dimension_arrowhead: another across the circle, and a later
\* line that joins the two.
Paired(p, c, j) ==
    \E k \in DOMAIN p \ {j} : /\ OnAxis(p, c, k)
                              /\ \E l \in DOMAIN p : l > j /\ l > k /\ Kind(p, l) = "line"

\* _dimension_arrowhead_fill: or the next stroke is its leader.
Arrowhead(p, c, j) ==
    OnAxis(p, c, j) /\ (Paired(p, c, j) \/ (j + 1 \in DOMAIN p /\ Kind(p, j + 1) = "line"))

\* What may hide a part of a circle that it touches. Clips only limit what
\* comes later; shadings and stencils are in none of the lists.
MayHide(s, c, j) ==
    LET p == s.paint IN
    CASE Kind(p, j) = "text" -> j > c.last
      [] Kind(p, j) = "image" -> j > c.last \/ ~s.ordered
      [] Kind(p, j) = "annotation" -> TRUE
      [] Kind(p, j) \in Strokes -> j > c.last /\ MayErase(p, c, j)
      [] Kind(p, j) \in {"fill", "triangle"} -> j > c.last /\ ~Arrowhead(p, c, j)
      [] Kind(p, j) = "group" -> j > c.last
      [] OTHER -> FALSE

Hidden(s, c) ==
    \/ ~s.texts
    \/ \E j \in DOMAIN s.paint : MayHide(s, c, j) /\ CellsOf(s.paint, j) \cap c.cells # {}

Witnesses(s) ==
    {c \in Circles(s) : c.cells \subseteq Frame /\ SafeScopes(s.paint, c) /\ ~Hidden(s, c)}

\* _suspect_geometry: the footprints of all other paths.
Suspects(s) == {c.cells : c \in NotCircles(s) \cup (Circles(s) \ Witnesses(s))}

\* The circles of the IR: the witnesses, each once, and what the picture shows
\* beside them clear of every suspect.
CirclesOf(s, found) ==
    LET rings == {c.cells : c \in Witnesses(s)}
    IN  rings \cup {r \in found \ rings : \A suspect \in Suspects(s) : suspect \cap r = {}}

-----------------------------------------------------------------------------
(* Arcs, and the lines of the picture near them *)

Dark == "ink"

\* Any group before it is in doubt, and so is a scope that is not a rectangle
\* with the whole arc inside.
ScopesResolved(p, i) ==
    LET outer == {j \in 1 .. i - 1 : Kind(p, j) \in Scopes /\ p[j].level < p[i].level}
    IN  /\ \A j \in outer : IF Kind(p, j) = "group" THEN CellsOf(p, j) \cap CellsOf(p, i) = {}
                            ELSE LeavesWhole(p, j, CellsOf(p, i))
        /\ p[i].level > 0 => \E j \in outer : Kind(p, j) = "clip"

\* later_stroke_crosses_arc: not if it only joins the arc at an end.
Joins(p, i, j) ==
    /\ Kind(p, j) = "tangent"
    /\ CellsOf(p, j) \cap CellsOf(p, i) \subseteq p[i].items[1] \cup p[i].items[Len(p[i].items)]

PaintedOver(p, i) ==
    \E j \in i + 1 .. Len(p) : /\ Kind(p, j) \notin Scopes \cup {"annotation"}
                               /\ CellsOf(p, j) \cap CellsOf(p, i) # {} /\ ~Joins(p, i, j)

\* Three quarters of the samples in the picture are dark.
Rendered(p, i) ==
    LET cells == CellsOf(p, i) \cap Frame
        dark == {c \in cells : ColourOf(p, Seen(p, c, {})) = Dark}
    IN  cells # {} /\ 4 * Cardinality(dark) >= 3 * Cardinality(cells)

ArcsOf(p) ==
    {i \in DOMAIN p : /\ Kind(p, i) = "arc" /\ p[i].colour = Dark
                      /\ ScopesResolved(p, i) /\ ~PaintedOver(p, i) /\ Rendered(p, i)}

\* _opaque_stroke_fully_covers_line: a wider white stroke along all of it.
Covers(p, i, j) == p[j].colour = Paper /\ p[j].width > p[i].width

\* _page_vector_line_witnesses: no later thing covers all of the line.
Bears(p, i) ==
    /\ Kind(p, i) = "line" /\ p[i].colour = Dark /\ p[i].level = 0
    /\ \A j \in i + 1 .. Len(p) :
         /\ Kind(p, j) \notin Scopes \cup {"annotation"} /\ CellsOf(p, i) \subseteq CellsOf(p, j)
         => Kind(p, j) \in Strokes /\ ~Covers(p, i, j)

\* A line of the picture that an arc explains is kept where the first stroke
\* that it runs along bears it out (_clip_raster_line_to_pdf_vector_witness).
LinesOf(p, line) ==
    LET along == {i \in DOMAIN p : Bears(p, i) /\ line \cap CellsOf(p, i) # {}}
        first == {i \in along : \A j \in along : i <= j}
    IN  IF \A i \in ArcsOf(p) : ~(line \subseteq CellsOf(p, i)) THEN {line}
        ELSE {line \cap CellsOf(p, i) : i \in first}

-----------------------------------------------------------------------------
Extract ==
    /\ taken = {}
    /\ \E found \in SUBSET Rings, line \in Segments :
         taken' = {[circles |-> CirclesOf(sheet, found), arcs |-> ArcsOf(sheet.paint),
                    lines |-> LinesOf(sheet.paint, line)]}
    /\ UNCHANGED sheet

Next == Extract

Spec == Init /\ [][Next]_vars

-----------------------------------------------------------------------------
TypeOK ==
    \A t \in taken : /\ t.arcs \subseteq DOMAIN sheet.paint
                     /\ \A c \in t.circles : c \subseteq Frame

\* A group may fade what it holds, unless it is the page.
Opaque(p, i) ==
    \A j \in Enclosing(p, i) : Kind(p, j) = "group" => j = 1 /\ p[j].level = 0 /\ p[j].whole

\* Where path c runs, the picture shows it; or a stroke of its colour that is
\* no wider; or the head of an arrow on it, of its colour; or a shading.
ShownAs(p, c, cell) ==
    LET i == Seen(p, cell, {}) IN
    /\ i > 0
    /\ \/ i \in c.first .. c.last
       \/ Kind(p, i) = "shade"
       \/ /\ p[i].colour = p[c.last].colour
          /\ Kind(p, i) = "triangle" \/ (Kind(p, i) \in Strokes /\ p[i].width <= p[c.last].width)

\* If the page has a path along a circle of the IR, such a path is seen all
\* along it -- also if the circle was found in the picture.
CirclesAreSeen ==
    LET p == sheet.paint
        paths == PathsOf(p, Circular \cup {"contour"}) \cup Chains(p)
    IN  \A t \in taken : \A ring \in t.circles :
            LET there == {c \in paths : c.cells = ring}
            IN  there # {} => \E c \in there :
                    /\ \A i \in c.first .. c.last : Opaque(p, i)
                    /\ \A cell \in ring : ShownAs(p, c, cell)

\* A circle in the picture's frame that nothing else on the page touches or
\* encloses is in the IR, found in the picture or not.
CirclesAreFound ==
    sheet.texts /\ sheet.paper => \A t \in taken : \A c \in Circles(sheet) :
        /\ c.cells \subseteq Frame
        /\ \A j \in DOMAIN sheet.paint \ (c.first .. c.last) :
             CellsOf(sheet.paint, j) \cap c.cells = {} /\ Kind(sheet.paint, j) \notin Scopes
        => c.cells \in t.circles

\* An arc is what the picture shows along all of it, but for strokes that join
\* it at an end, and annotations over a quarter of it.
ArcsAreSeen ==
    LET p == sheet.paint IN
    \A t \in taken : \A i \in t.arcs :
        LET over == [c \in CellsOf(p, i) \cap Frame |-> Seen(p, c, {})]
            noted == {c \in DOMAIN over : over[c] > 0 /\ Kind(p, over[c]) = "annotation"}
        IN  /\ Opaque(p, i) /\ 4 * Cardinality(noted) <= Cardinality(DOMAIN over)
            /\ \A c \in DOMAIN over \ noted :
                 over[c] = i \/ (over[c] > 0 /\ Joins(p, i, over[c]))

\* What is kept of a line that an arc explains lies on a stroke of the page
\* that is not seen to be buried by one fill, text or image.
LinesAreBorneOut ==
    LET p == sheet.paint IN
    \A t \in taken : \A line \in t.lines : \A a \in t.arcs :
        line \subseteq CellsOf(p, a) =>
            \E i \in DOMAIN p :
                /\ Kind(p, i) = "line" /\ line \subseteq CellsOf(p, i)
                /\ \A j \in DOMAIN p : Kind(p, j) \notin Strokes \cup {"annotation"} =>
                     \E c \in CellsOf(p, i) : Seen(p, c, {}) # j

CurvesAreTrue == TypeOK /\ CirclesAreSeen /\ CirclesAreFound /\ ArcsAreSeen /\ LinesAreBorneOut
=============================================================================
