--------------------------------- MODULE MCPaint ---------------------------------
(***************************************************************************)
(* The pages for which LayerLines and PageCurves are checked: three        *)
(* operations in a row, nested in the scopes before them in all ways, one  *)
(* of which may be taken, and the two others what may be mistaken for it,  *)
(* hide it or leave it alone; and a few pages apart.                       *)
(***************************************************************************)
EXTENDS PagePaint

\* Three operations: whether each is in the first, or in the two before it.
Levels == {<<0>> \o n : n \in (0 .. 1) \X (0 .. 2)}

IsScope(o) == o.kind \in Scopes

Nests(o, n) ==
    /\ n[2] <= (IF IsScope(o[1]) THEN 1 ELSE 0)
    /\ n[3] <= n[2] + (IF IsScope(o[2]) THEN 1 ELSE 0)

-----------------------------------------------------------------------------
(* LayerLines: layers "l" and "m"; what is painted on "m" is as white as    *)
(* the paper, or a line.                                                    *)

InkOf(name, l) == IF name = "line" THEN "ink" ELSE IF l = "m" THEN Paper ELSE "red"

On(name, l, items, whole) == [kind |-> name, layer |-> l, items |-> items, whole |-> whole]

OnPage(o, level) ==
    [kind |-> o.kind, layer |-> o.layer, items |-> o.items, whole |-> o.whole,
     colour |-> InkOf(o.kind, o.layer), level |-> level]

LayerLine ==
    {On("line", "l", items, FALSE) :
        items \in {<<{1, 2}>>, <<{1}, {2}>>, <<{1, 2}, {2}>>, <<{1, 2, 3}, {2, 3}>>}}

Beside ==
    {On(name, "l", <<cells>>, FALSE) :
        name \in {"path", "text", "image", "inline", "marked"}, cells \in {{1}, {1, 2}}}
    \cup {On(name, "m", <<{1}>>, FALSE) : name \in {"path", "image"}}
    \cup {On("broken", l, <<{1}>>, FALSE) : l \in {"l", "m"}}
    \cup {On("clip", "", <<cells>>, FALSE) : cells \in {{1}, {1, 2}}}
    \cup {On("group", "", <<{1, 2}>>, whole) : whole \in BOOLEAN}

WithLine == (LayerLine \X Beside \X Beside) \cup (Beside \X LayerLine \X Beside)
            \cup (Beside \X Beside \X LayerLine)

\* A second page follows, with a line of the other layer.
Documents ==
    {<<<<OnPage(x[1][1], 0), OnPage(x[1][2], x[2][2]), OnPage(x[1][3], x[2][3])>>,
       <<OnPage(On("line", "m", <<{1}>>, FALSE), 0)>>>> :
        x \in {y \in WithLine \X Levels : Nests(y[1], y[2])}}

-----------------------------------------------------------------------------
(* PageCurves: a circle of the cells 1 to 4, a curve that leaves it, and a  *)
(* cell beside it.                                                          *)

Around == {1, 2, 3, 4}
Away == {3, 4, 9}

Drawn(name, items, colour, width, whole) ==
    [kind |-> name, items |-> items, colour |-> colour, width |-> width, whole |-> whole]
Single(name, cells, colour, width) == Drawn(name, <<cells>>, colour, width, FALSE)

OnSheet(o, level) ==
    [kind |-> o.kind, layer |-> "", items |-> o.items, colour |-> o.colour, width |-> o.width,
     whole |-> o.whole, level |-> level]

Circle == Single("curves", Around, "ink", 1)
Curves ==
    {Single(name, Around, colour, 1) : name \in {"curves", "contour"}, colour \in {"ink", Paper}}
    \cup {Single("polygon", Away, "ink", 1), Single("polygon", Around, "red", 2)}
    \cup {Drawn("arc", <<{1}, {2}, {3}, {4}>>, colour, 1, FALSE) : colour \in {"ink", "red"}}

Blank == Single("fill", {5}, "red", 1)
Others ==
    {Blank, Single("tangent", {4}, "ink", 1), Single("bow", {1}, "red", 1),
     Single("line", {3, 4}, "ink", 1), Single("line", {3, 4}, Paper, 2),
     Single("triangle", {1}, "ink", 1)}
    \cup {Single(name, {1}, "red", 1) : name \in {"text", "image", "shade", "fill"}}
    \cup {Single("line", {4}, "ink", width) : width \in {1, 2}}
    \cup {Single("piece", cells, "ink", 1) : cells \in {{1, 2}, {3, 4}}}
    \cup {Drawn("clip", <<cells>>, "ink", 1, whole) : cells \in {{1}, Around}, whole \in BOOLEAN}
    \cup {Drawn("group", <<Around \cup {5}>>, "ink", 1, whole) : whole \in BOOLEAN}

Notes == {Single("annotation", cells, "red", 1) : cells \in {{1}, {1, 2}}}

WithCurve == (Others \X Others \X (Curves \cup Notes))
             \cup (Others \X Curves \X (Others \cup Notes))
             \cup (Curves \X Others \X (Others \cup Notes))

\* Arrows: a leader on one side, and the ends of a dimension on both.
LineAt(c) == Single("line", {c}, "ink", 1)
HeadAt(c) == Single("triangle", {c}, "ink", 1)
Arrows ==
    {<<LineAt(4)>>, <<LineAt(3), HeadAt(3), LineAt(5)>>,
     <<LineAt(3), Single("fill", {3}, "ink", 1), LineAt(5)>>}

Clear == [texts |-> TRUE, ordered |-> TRUE, paper |-> TRUE]
Unclear == [texts : BOOLEAN, ordered : BOOLEAN, paper : BOOLEAN]
Flat == <<0, 0, 0>>

\* A nesting, what is known of the page, and what follows on it.
Variants ==
    {<<n, Clear, <<>>>> : n \in Levels} \cup {<<Flat, known, <<>>>> : known \in Unclear}
    \cup {<<Flat, Clear, rest>> : rest \in Arrows}

\* What is not known matters on every page, but a blank one will do for the
\* third operation; the arrows follow the first head.
Varies(o, v) ==
    /\ Nests(o, v[1])
    /\ v[2] # Clear => o[3] = Blank
    /\ v[3] # <<>> => o = <<Circle, LineAt(4), HeadAt(1)>>

OnTop(rest) == [i \in DOMAIN rest |-> OnSheet(rest[i], 0)]

Sheets ==
    {[paint |-> <<OnSheet(x[1][1], 0), OnSheet(x[1][2], x[2][1][2]), OnSheet(x[1][3], x[2][1][3])>>
                \o OnTop(x[2][3]),
      texts |-> x[2][2].texts, ordered |-> x[2][2].ordered, paper |-> x[2][2].paper] :
        x \in {y \in WithCurve \X Variants : Varies(y[1], y[2])}}
=============================================================================
