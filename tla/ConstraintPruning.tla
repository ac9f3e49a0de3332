--------------------------- MODULE ConstraintPruning ---------------------------
(***************************************************************************)
(* From the primitives of a page to the constraints a Semantic IR keeps    *)
(* (semantic_ir_lib: assemble.py, constraint_detection.py,                 *)
(* pattern_compound.py, constraint_pruning.py).  Every pair of primitives  *)
(* is measured, compound parts are chosen on the raw measurements, then    *)
(* the constraints are pruned: weak ones, duplicates, those that follow by *)
(* transitivity, and perpendiculars between two groups of parallel lines   *)
(* that another one already witnesses.  A saved document is read and       *)
(* pruned again by agent_lib/run.py, before and after constraints are      *)
(* dropped from it.                                                        *)
(*                                                                         *)
(* A constraint is a record of its type, its two primitives and its        *)
(* confidence in tenths; coordinates and tolerances are not modelled.  The *)
(* order of equally confident constraints, that of the input list in the   *)
(* code, is left open.                                                     *)
(***************************************************************************)
EXTENDS Integers, FiniteSets

CONSTANTS
    Lines, Circles,
    Scenes,          \* of each: the constraints its primitives may show
    MinConfidence,   \* 6: confidence below it is not worth forcing on the drawing
    Angles, Turn     \* orientations of a line, and the quarter turn

Detections == UNION Scenes
Transitive == {"parallel", "equal_length", "collinear"}
Relations == Transitive \cup {"perpendicular"}
Reasons == {"low_confidence", "duplicate", "transitive_redundant", "group_redundant"}

ASSUME DetectionAssumption ==
    /\ MinConfidence \in Int
    /\ \A c \in Detections :
        /\ c.confidence \in Int
        /\ c.type \in Relations => c.a \in Lines /\ c.b \in Lines

ASSUME TurnAssumption ==
    /\ Turn \in [Angles -> Angles]
    /\ \A x \in Angles : Turn[Turn[x]] = x

VARIABLES
    stage,           \* what is done next to the list
    given,           \* the constraints that came in
    left,            \* those no step has decided on
    kept,            \* PruneResult.kept
    dropped,         \* PruneResult.dropped_*
    relation,        \* the type whose constraints are spanned, or "none"
    group,           \* the union-find in use: the root of each line
    joined,          \* the kept constraints it was built from
    found, parts,    \* compound parts: candidates not yet decided on, and chosen ones
    again            \* the list is one that was pruned before

pvars == <<stage, given, left, kept, dropped, relation, group, joined, found, parts, again>>

OfType(S, t) == {c \in S : c.type = t}
Pair(c) == {c.a, c.b}
SameKey(c, d) == c.type = d.type /\ Pair(c) = Pair(d)

\* The most confident of S, whatever comes first in a stable sort.
Strongest(S) == {c \in S : \A d \in S : d.confidence <= c.confidence}

\* _UnionFind: every line alone; the root of a is hung below the root of b.
Apart == [x \in Lines |-> x]
\* Mutant: a alone is hung below the root of b.
UnionAlone(g, a, b) == [g EXCEPT ![a] = g[b]]

Union(g, a, b) == [x \in Lines |-> IF g[x] = g[a] THEN g[b] ELSE g[x]]
GroupPair(g, c) == {g[c.a], g[c.b]}

-----------------------------------------------------------------------------
\* What one pass over the pairs can measure: each relation once per pair, a
\* confidence of at least a half, collinear only where parallel was found,
\* never parallel and perpendicular together.
LineRelations(S) ==
    /\ \A c, d \in S : SameKey(c, d) => c = d
    /\ \A c \in S : c.a # c.b /\ c.confidence >= 5
    /\ \A c \in OfType(S, "collinear") :
        \E d \in OfType(S, "parallel") : Pair(c) = Pair(d)
    /\ \A c \in OfType(S, "parallel"), d \in OfType(S, "perpendicular") : Pair(c) # Pair(d)

CircleRelations(S) ==
    /\ \A c \in OfType(S, "tangent") : c.a \in Lines /\ c.b \in Circles
    /\ \A c \in OfType(S, "concentric") : Pair(c) \subseteq Circles

\* detect_constraints and detect_circle_constraints, on the page's primitives.
DetectConstraints ==
    /\ stage = "detect"
    /\ \E scene \in Scenes : given' \in SUBSET scene
    /\ LineRelations(given') /\ CircleRelations(given')
    /\ stage' = "compound"
    /\ UNCHANGED <<left, kept, dropped, relation, group, joined, found, parts, again>>

\* load_semantic_ir_document: the constraints of a document on disk, whatever they are.
LoadConstraints ==
    /\ stage = "detect"
    /\ \E scene \in Scenes : given' \in SUBSET scene
    /\ stage' = "filter"
    /\ UNCHANGED <<left, kept, dropped, relation, group, joined, found, parts, again>>

-----------------------------------------------------------------------------
Related(t, x, y) == \E c \in OfType(given, t) : Pair(c) = {x, y}
Coincident(x, y) == Related("coincident_endpoint", x, y)

\* khung_chu_nhat: two parallel pairs, three of their four corners, one right angle.
IsFrame(P) == \E a, b, c, d \in Lines :
    /\ P = {a, b, c, d} /\ Cardinality(P) = 4
    /\ Related("parallel", a, b) /\ Related("parallel", c, d)
    /\ Cardinality({e \in {a, b} \X {c, d} : Coincident(e[1], e[2])}) >= 3
    /\ \E x \in {a, b}, y \in {c, d} : Related("perpendicular", x, y)

\* gia_do: a right angle with a common end.
IsBracket(P) == \E a, b \in Lines :
    P = {a, b} /\ Related("perpendicular", a, b) /\ Coincident(a, b)

\* ban_le: parallel lines, a circle of its own near each (which is geometry).
IsHinge(P) == \E a, b \in Lines, o, q \in Circles :
    P = {a, b, o, q} /\ Cardinality(P) = 4 /\ Related("parallel", a, b)

\* diem_noi: three lines or more at a point, half of their pairs coincident.
IsNode(P) ==
    /\ P \subseteq Lines /\ Cardinality(P) >= 3
    /\ LET pairs == {Q \in SUBSET P : Cardinality(Q) = 2}
       IN  2 * Cardinality({Q \in pairs : \E x, y \in Q : x # y /\ Coincident(x, y)})
              >= Cardinality(pairs)

\* build_compound_parts: the candidates.  Where hinges' circles and nodes'
\* ends lie is not in the constraints: any of them may be there.
FindCompounds ==
    /\ stage = "compound"
    /\ LET all == SUBSET (Lines \cup Circles)
           certain == {P \in all : IsFrame(P) \/ IsBracket(P)}
       IN  \E placed \in SUBSET {P \in all : IsHinge(P) \/ IsNode(P)} :
               found' = certain \cup placed
    /\ stage' = "choose"
    /\ UNCHANGED <<given, left, kept, dropped, relation, group, joined, parts, again>>

\* The largest first, and only if none of its primitives is taken.
ChooseCompound ==
    /\ stage = "choose"
    /\ \E P \in found :
        /\ \A Q \in found : Cardinality(Q) <= Cardinality(P)
        /\ found' = found \ {P}
        /\ parts' = IF \E Q \in parts : P \cap Q # {} THEN parts ELSE parts \cup {P}
    /\ UNCHANGED <<stage, given, left, kept, dropped, relation, group, joined, again>>

CompoundsChosen ==
    /\ stage = "choose" /\ found = {}
    /\ stage' = "filter"
    /\ UNCHANGED <<given, left, kept, dropped, relation, group, joined, found, parts, again>>

-----------------------------------------------------------------------------
Drop(reason, S) == dropped' = [dropped EXCEPT ![reason] = @ \cup S]

\* Step 1: what is too weak.
FilterWeak ==
    /\ stage = "filter"
    /\ left' = {c \in given : c.confidence >= MinConfidence}
    /\ Drop("low_confidence", given \ left')
    /\ stage' = "dedupe"
    /\ UNCHANGED <<given, kept, relation, group, joined, found, parts, again>>

\* Step 2: of two with one type and pair the more confident stays.
DropDuplicate ==
    /\ stage = "dedupe"
    /\ \E c, d \in left :
        /\ c # d /\ SameKey(c, d) /\ d.confidence <= c.confidence
        /\ left' = left \ {d}
        /\ Drop("duplicate", {d})
    /\ UNCHANGED <<stage, given, kept, relation, group, joined, found, parts, again>>

Deduped ==
    /\ stage = "dedupe"
    /\ \A c, d \in left : SameKey(c, d) => c = d
    /\ stage' = "span"
    /\ UNCHANGED <<given, left, kept, dropped, relation, group, joined, found, parts, again>>

\* Step 3, once per transitive type: a spanning forest, the most confident first.
BeginRelation ==
    /\ stage = "span" /\ OfType(left, relation) = {}
    /\ \E t \in Transitive : OfType(left, t) # {} /\ relation' = t
    /\ group' = Apart /\ joined' = {}
    /\ UNCHANGED <<stage, given, left, kept, dropped, found, parts, again>>

SpanNext ==
    /\ stage = "span"
    /\ \E c \in Strongest(OfType(left, relation)) :
        /\ left' = left \ {c}
        /\ IF group[c.a] # group[c.b]
           THEN /\ kept' = kept \cup {c}
                /\ group' = Union(group, c.a, c.b) /\ joined' = joined \cup {c}
                /\ UNCHANGED dropped
           ELSE /\ Drop("transitive_redundant", {c})
                /\ UNCHANGED <<kept, group, joined>>
    /\ UNCHANGED <<stage, given, relation, found, parts, again>>

\* Step 4 begins: the groups of lines with one orientation, by what was kept.
Orienting == OfType(kept, "parallel") \cup OfType(kept, "collinear")

BeginOrientation ==
    /\ stage = "span" /\ \A t \in Transitive : OfType(left, t) = {}
    /\ stage' = "orient" /\ relation' = "none"
    /\ group' = Apart /\ joined' = {}
    /\ UNCHANGED <<given, left, kept, dropped, found, parts, again>>

OrientNext ==
    /\ stage = "orient" /\ Orienting \ joined # {}
    /\ LET c == CHOOSE c \in Orienting \ joined : TRUE
       IN  group' = Union(group, c.a, c.b) /\ joined' = joined \cup {c}
    /\ UNCHANGED <<stage, given, left, kept, dropped, relation, found, parts, again>>

Oriented ==
    /\ stage = "orient" /\ Orienting \subseteq joined
    /\ stage' = "perpendicular"
    /\ UNCHANGED <<given, left, kept, dropped, relation, group, joined, found, parts, again>>

\* One perpendicular for each pair of groups, the most confident one.
PerpendicularNext ==
    /\ stage = "perpendicular"
    /\ \E c \in Strongest(OfType(left, "perpendicular")) :
        /\ left' = left \ {c}
        /\ IF \E d \in OfType(kept, "perpendicular") : GroupPair(group, d) = GroupPair(group, c)
           THEN Drop("group_redundant", {c}) /\ UNCHANGED kept
           ELSE kept' = kept \cup {c} /\ UNCHANGED dropped
    /\ UNCHANGED <<stage, given, relation, group, joined, found, parts, again>>

\* The other types are kept as they are.
Finish ==
    /\ stage = "perpendicular" /\ OfType(left, "perpendicular") = {}
    /\ kept' = kept \cup left /\ left' = {}
    /\ stage' = "done"
    /\ UNCHANGED <<given, dropped, relation, group, joined, found, parts, again>>

\* agent_lib/run.py prunes what the saved document holds, and once more when
\* the approved actions have dropped some of it: here of a document that was
\* saved pruned; dropping from any other leaves a list as LoadConstraints finds.
PruneAgain ==
    /\ stage = "done" /\ ~again
    /\ given' \in SUBSET kept
    /\ stage' = "filter" /\ again' = TRUE
    /\ left' = {} /\ kept' = {} /\ dropped' = [r \in Reasons |-> {}]
    /\ relation' = "none" /\ group' = Apart /\ joined' = {} /\ parts' = {}
    /\ UNCHANGED found

PruneInit ==
    /\ stage = "detect" /\ again = FALSE
    /\ given = {} /\ left = {} /\ kept = {} /\ dropped = [r \in Reasons |-> {}]
    /\ relation = "none" /\ group = Apart /\ joined = {}
    /\ found = {} /\ parts = {}

PruneNext ==
    \/ DetectConstraints \/ LoadConstraints
    \/ FindCompounds \/ ChooseCompound \/ CompoundsChosen
    \/ FilterWeak \/ DropDuplicate \/ Deduped
    \/ BeginRelation \/ SpanNext
    \/ BeginOrientation \/ OrientNext \/ Oriented
    \/ PerpendicularNext \/ Finish \/ PruneAgain

PruneSpec == PruneInit /\ [][PruneNext]_pvars

-----------------------------------------------------------------------------
Stages == {"detect", "compound", "choose", "filter", "dedupe", "span", "orient",
           "perpendicular", "done"}

PruneTypeOK ==
    /\ stage \in Stages /\ again \in BOOLEAN
    /\ given \subseteq Detections /\ left \subseteq given /\ kept \subseteq given
    /\ dropped \in [Reasons -> SUBSET Detections]
    /\ relation \in Transitive \cup {"none"}
    /\ group \in [Lines -> Lines]
    /\ joined \subseteq kept
    /\ found \subseteq SUBSET (Lines \cup Circles)
    /\ parts \subseteq SUBSET (Lines \cup Circles)

-----------------------------------------------------------------------------
\* A drawing gives each line a value (its direction, its length, its carrier).
Agrees(h, S) == \A c \in S : h[c.a] = h[c.b]
AtLeast(S, c) == {k \in S : k.confidence >= c.confidence}

\* In every drawing that has the kept constraints that are at least as
\* confident as c, c holds too.
FollowsByTransitivity(c) ==
    \A h \in [Lines -> Lines] :
        Agrees(h, AtLeast(OfType(kept, c.type), c)) => h[c.a] = h[c.b]

\* A kept perpendicular that is at least as confident makes c a right angle
\* in every drawing that has the kept parallels and collinears.
FollowsFromGroups(c) ==
    \E k \in AtLeast(OfType(kept, "perpendicular"), c) :
        \A h \in [Lines -> Angles] :
            Agrees(h, Orienting) /\ h[k.b] = Turn[h[k.a]] => h[c.b] = Turn[h[c.a]]

\* Nothing that was confident enough is lost: it is kept, or follows from
\* constraints that were kept and none of which is weaker.
NothingIsLost ==
    stage = "done" => \A c \in given : c.confidence >= MinConfidence =>
        CASE c.type \in Transitive      -> FollowsByTransitivity(c)
          [] c.type = "perpendicular"   -> FollowsFromGroups(c)
          [] OTHER                      -> \E k \in AtLeast(kept, c) : SameKey(k, c)

\* No kept constraint follows from the others of its type, and two kept
\* perpendiculars join different pairs of groups: S is a set that pruning
\* leaves alone.
Independent(S) ==
    /\ \A c \in S : c.confidence >= MinConfidence
    /\ \A c, d \in S : SameKey(c, d) => c = d
    /\ \A c \in S : c.type \in Transitive =>
        \E h \in [Lines -> Lines] : Agrees(h, OfType(S, c.type) \ {c}) /\ h[c.a] # h[c.b]
    /\ \E h \in [Lines -> Lines] :
        /\ Agrees(h, OfType(S, "parallel") \cup OfType(S, "collinear"))
        /\ \A c, d \in OfType(S, "perpendicular") : GroupPair(h, c) = GroupPair(h, d) => c = d

NothingIsRedundant == stage = "done" => Independent(kept)

\* A list that was pruned before loses nothing when it is pruned again, even
\* after constraints were taken out of it.
PrunedStaysPruned == again => \A r \in Reasons : dropped[r] = {}

\* Each primitive is in one compound part at most.
PartsAreDisjoint == \A P, Q \in parts : P # Q => P \cap Q = {}

\* The constraints of a Semantic IR are exactly enough: everything confident
\* that was measured follows from them (NothingIsLost), none of them follows
\* from the others (NothingIsRedundant), pruning them again changes nothing
\* (PrunedStaysPruned), and a primitive is counted in one compound part.
PruningIsExact ==
    NothingIsLost /\ NothingIsRedundant /\ PrunedStaysPruned /\ PartsAreDisjoint
=============================================================================
