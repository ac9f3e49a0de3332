------------------------------ MODULE SourceFusion ------------------------------
(***************************************************************************)
(* Fusion of the evidence of several sources into one packet:              *)
(* cad_agent/source_fusion.py.  Page and region locators, renders and      *)
(* observations are made under a custody of the sources and one primitive  *)
(* artifact; a packet closes over them, is kept by its caller, and is      *)
(* required to match the custody of the moment before it is used.          *)
(*                                                                         *)
(* Kept: the records a caller holds are of any age, while sources are      *)
(* edited and inspected again and the artifact is extracted again; the     *)
(* packet it keeps may be altered before it is used.                       *)
(* Abstracted: a hash is what it is the hash of, so a record is its own    *)
(* identity; a PDF has one page, a source one region; the facts of a page  *)
(* are those of its bytes; primitives are of one kind, so a conflict is of *)
(* ids alone; boxes, units, matrices and the tolerance policy are part of  *)
(* a record being well formed.                                             *)
(***************************************************************************)
EXTENDS FiniteSets, Naturals

CONSTANTS
    Sources,    \* the items of the bundle
    Pdfs,       \* those of kind PDF; the others are images
    Ids,        \* legacy ids of the primitives
    MaxEvents   \* bound: edits, new artifacts

Bytes == {"one", "two"}     \* of a source or of a raster
Shapes == {"x", "y"}        \* content of a primitive

VARIABLES
    bytes,          \* of the source files
    custody,        \* the READY custody of the moment: the bytes it verified
    artifact,       \* the primitive artifact: its raster and its primitives
    renders,        \* render provenance records the caller holds
    observations,   \* primitive observations it holds
    packet,         \* the fusion packet it keeps, if any
    evaluation,     \* the packet that the evaluation it keeps is of, if any
    used,           \* whether the packet was just found to match, or reused
    events

held == <<renders, observations>>
vars == <<bytes, custody, artifact, held, packet, evaluation, used, events>>

\* The bytes of a PDF may be renamed, as may shapes and the raster.
Init ==
    /\ bytes \in [Sources -> Bytes] /\ \A s \in Pdfs : bytes[s] = "one"
    /\ custody = bytes
    /\ artifact \in [raster : {"one"}, shape : [Ids -> Shapes]]
    /\ artifact.shape[CHOOSE i \in Ids : TRUE] = "x"
    /\ renders = {} /\ observations = {}
    /\ packet = {} /\ evaluation = {}
    /\ used = "not"
    /\ events = 0

-----------------------------------------------------------------------------
(* Records and their validation *)

\* _normalize_page_record: of this custody, and with the facts it observed.
Page(c, s) == [source |-> s, custody |-> c, pdf |-> c[s]]
PageHolds(page, c) ==
    /\ page.custody = c /\ page.source \in Pdfs
    /\ page.pdf = c[page.source]

\* validate_page_locators: every declared page and no other.
PagesHold(pages, c) ==
    /\ \A page \in pages : PageHolds(page, c)
    /\ {page.source : page \in pages} = Pdfs /\ Cardinality(pages) = Cardinality(Pdfs)

PagesOf(c) == {Page(c, s) : s \in Pdfs}

\* _normalize_region_record: on the image itself, or on a page of the PDF.
Region(c, s) ==
    [source |-> s, custody |-> c,
     on |-> IF s \in Pdfs THEN [page |-> {Page(c, s)}, raster |-> {}]
                          ELSE [page |-> {}, raster |-> {c[s]}]]
RegionHolds(region, pages, c) ==
    /\ region.custody = c
    /\ IF region.source \in Pdfs
       THEN \E page \in pages : region.on.page = {page} /\ page.source = region.source
       ELSE region.on.page = {} /\ region.on.raster = {c[region.source]}

\* validate_region_locators
RegionsHold(regions, pages, c) ==
    /\ \A region \in regions : RegionHolds(region, pages, c)
    /\ {region.source : region \in regions} = Sources

\* _normalize_render_record: a raster of a source of this custody, and the
\* document the primitives were extracted from.
RenderHolds(render, pages, c, a) ==
    /\ render.custody = c /\ render.artifact = a
    /\ render.observed = c[render.source]
    /\ IF render.source \in Pdfs
       THEN \E page \in pages : render.page = {page} /\ page.source = render.source
       ELSE render.page = {} /\ render.raster = render.observed

\* _task6_render_checkpoint: one artifact for all renders of a packet.
Checkpoints(rs) == {render.artifact : render \in rs}

\* _task6_render_provenance: the renders of a packet, each of its sources and
\* all of one artifact.
RendersHold(rs, pages, c) ==
    /\ rs # {} /\ Cardinality(Checkpoints(rs)) = 1
    /\ \A render \in rs, a \in Checkpoints(rs) : RenderHolds(render, pages, c, a)

\* _task5_primitive_content: what a primitive says, apart from its id.
ContentOf(i) == artifact.shape[i]

\* project_primitive_observations: primitives of equal content under one
\* render are one observation, which counts their ids.
Binds(render) == render.artifact = artifact /\ render.raster = artifact.raster
Projected(render) ==
    {[ids |-> {i \in Ids : ContentOf(i) = shape}, shape |-> shape,
      binding |-> render, artifact |-> artifact] :
        shape \in {ContentOf(i) : i \in Ids}}

\* _task6_validate_primitive_observations: bound to a render of the packet.
\* The content is not compared with the artifact.
PrimitiveHolds(o, rs) ==
    /\ o.binding \in rs /\ {o.artifact} = Checkpoints(rs)
    /\ o.ids # {}

\* _task5_resolve_membership: an id that stands for several must be named
\* with all of them.
Whole(ids, obs) == \A o \in obs : o.ids \cap ids = {} \/ o.ids \subseteq ids

\* _task5_validate_primitive_observations: no id in two of them.
Disjoint(obs) == \A o, p \in obs : o # p => o.ids \cap p.ids = {}

\* project_semantic_observations of some observations of one artifact.
Semantic(ids, obs) ==
    [artifact |-> (CHOOSE o \in obs : TRUE).artifact,
     named |-> {[key |-> o, ids |-> o.ids \cap ids] : o \in {p \in obs : p.ids \cap ids # {}}}]
Semantics(ids, obs) ==
    IF /\ obs # {} /\ Cardinality({o.artifact : o \in obs}) = 1
       /\ Disjoint(obs) /\ ids \subseteq UNION {o.ids : o \in obs} /\ Whole(ids, obs)
    THEN {Semantic(ids, obs)} ELSE {}

\* _task6_validate_semantic_observations: of observations of the packet, each
\* as often as it counts.
SemanticHolds(m, obs, rs) ==
    /\ {m.artifact} = Checkpoints(rs)
    /\ \A n \in m.named : n.key \in obs /\ Cardinality(n.ids) = Cardinality(n.key.ids)

\* Mutant: observations are grouped by their source as well.
ConflictsOfOneSource(obs) ==
    {{p \in obs : p.ids = o.ids /\ p.binding.source = o.binding.source} : o \in obs}
        \ {{o} : o \in obs}

\* _task6_conflicts: two observations of one subject, whatever they say of it.
Conflicts(obs) == {{p \in obs : p.ids = o.ids} : o \in obs} \ {{o} : o \in obs}

StatusOf(conflicts) == IF conflicts = {} THEN "READY" ELSE "BLOCKED_UNRESOLVED"

\* _task6_validate_conflicts: the conflicts a packet tells, and its status, are
\* those of its observations.
ConflictsHold(p) == p.conflicts = Conflicts(p.primitives) /\ p.status = StatusOf(p.conflicts)

\* _task6_validate_source_fusion_packet without sources: what a packet says
\* of itself.
PacketIsClosed(p) ==
    /\ p.renders # {} /\ Cardinality(Checkpoints(p.renders)) = 1
    /\ p.primitives # {} /\ \A o \in p.primitives : PrimitiveHolds(o, p.renders)
    /\ \A m \in p.semantics : SemanticHolds(m, p.primitives, p.renders)
    /\ ConflictsHold(p)

\* ... and with them, as build_source_fusion_packet closes it and
\* require_source_fusion_match requires it.
PacketHolds(p, c) ==
    /\ PacketIsClosed(p)
    /\ p.custody = c
    /\ PagesHold(p.pages, c) /\ RegionsHold(p.regions, p.pages, c)
    /\ RendersHold(p.renders, p.pages, c)

-----------------------------------------------------------------------------
(* The caller *)

Unused == used' = "not"

\* A source is inspected again.
Inspect ==
    /\ custody # bytes
    /\ custody' = bytes /\ Unused
    /\ UNCHANGED <<bytes, artifact, held, packet, evaluation, events>>

\* A page is rendered, or an image taken as it is. A raster of a PDF is what
\* the renderer makes of it.
Render(s) ==
    /\ Cardinality(renders) < 2
    /\ \E raster \in Bytes :
         LET render == [source |-> s, custody |-> custody, observed |-> custody[s],
                        raster |-> raster, artifact |-> artifact,
                        page |-> IF s \in Pdfs THEN {Page(custody, s)} ELSE {}]
         IN  /\ RenderHolds(render, PagesOf(custody), custody, artifact)
             /\ renders' = renders \cup {render} /\ renders' # renders
    /\ Unused
    /\ UNCHANGED <<bytes, custody, artifact, observations, packet, evaluation, events>>

Project(render) ==
    /\ Binds(render)
    /\ observations' = observations \cup Projected(render) /\ observations' # observations
    /\ Unused
    /\ UNCHANGED <<bytes, custody, artifact, renders, packet, evaluation, events>>

\* build_source_fusion_packet, of records the caller chooses.
Build(rs, obs, ms) ==
    LET p == [custody |-> custody, pages |-> PagesOf(custody),
              regions |-> {Region(custody, s) : s \in Sources},
              renders |-> rs, primitives |-> obs, semantics |-> ms,
              conflicts |-> Conflicts(obs), status |-> StatusOf(Conflicts(obs))]
    IN  /\ packet = {}
        /\ PacketHolds(p, custody)
        /\ packet' = {p}
        /\ Unused
        /\ UNCHANGED <<bytes, custody, artifact, held, evaluation, events>>

\* The packet it kept, or that packet altered: its conflicts or an observation
\* removed, its custody renamed, records of another custody or artifact added.
Kept ==
    UNION {{p} \cup {[p EXCEPT !.conflicts = {}, !.status = "READY"]}
               \cup {[p EXCEPT !.custody = custody]}
               \cup {[p EXCEPT !.primitives = @ \ {o}] : o \in p.primitives}
               \cup {[p EXCEPT !.renders = renders, !.primitives = observations]} : p \in packet}

\* require_source_fusion_match
Match ==
    \E p \in Kept :
        /\ PacketHolds(p, custody)
        /\ packet' = {p} /\ used' = "matched"
        /\ UNCHANGED <<bytes, custody, artifact, held, evaluation, events>>

\* build_source_fusion_evaluation: at the time given to it, whatever became of
\* the sources. The match does not ask whether it said REUSABLE.
Evaluate ==
    \E p \in Kept :
        /\ PacketIsClosed(p)
        /\ packet' = {p} /\ evaluation' = {p} /\ evaluation' # evaluation
        /\ Unused
        /\ UNCHANGED <<bytes, custody, artifact, held, events>>

\* require_source_fusion_evaluation_match
Reuse ==
    \E p \in Kept :
        /\ evaluation = {p}
        /\ PacketIsClosed(p)
        /\ packet' = {p} /\ used' = "reused"
        /\ UNCHANGED <<bytes, custody, artifact, held, evaluation, events>>

-----------------------------------------------------------------------------
(* What happens meanwhile *)

Event == events < MaxEvents /\ events' = events + 1 /\ Unused

EditSource(s) ==
    /\ Event
    /\ bytes' = [bytes EXCEPT ![s] = CHOOSE b \in Bytes : b # bytes[s]]
    /\ UNCHANGED <<custody, artifact, held, packet, evaluation>>

\* The raster is traced again, with other primitives.
Extract(i) ==
    /\ Event
    /\ artifact' = [artifact EXCEPT !.shape[i] = CHOOSE x \in Shapes : x # artifact.shape[i]]
    /\ UNCHANGED <<bytes, custody, held, packet, evaluation>>

ObservationsOf(rs) == {o \in observations : o.binding \in rs}

Next ==
    \/ Inspect \/ Match \/ Evaluate \/ Reuse
    \/ \E s \in Sources : Render(s) \/ EditSource(s)
    \/ \E render \in renders : Project(render)
    \/ \E i \in Ids : Extract(i)
    \/ \E rs, bound \in SUBSET renders, ids \in SUBSET Ids, render \in renders :
         Build(rs, ObservationsOf(bound), Semantics(ids, ObservationsOf({render})))

Spec == Init /\ [][Next]_vars

-----------------------------------------------------------------------------
\* Every variable has its type.
TypeOK ==
    /\ bytes \in [Sources -> Bytes] /\ custody \in [Sources -> Bytes]
    /\ artifact \in [raster : Bytes, shape : [Ids -> Shapes]]
    /\ \A o \in observations : o.ids \subseteq Ids /\ o.binding \in renders
    /\ (\A p, q \in packet : p = q) /\ used \in {"not", "matched", "reused"}
    /\ \A p \in packet : p.status \in {"READY", "BLOCKED_UNRESOLVED"}
    /\ events \in 0..MaxEvents

\* A READY packet that is used describes no primitive twice, under two sources
\* or two renders of one; its observations are of one artifact; and what it
\* says of a primitive it says of all that look the same.
IsOneReading(p) ==
    p.status = "READY" =>
        /\ Disjoint(p.primitives)
        /\ \A o, q \in p.primitives : o.artifact = q.artifact
        /\ \A m \in p.semantics : \A n \in m.named : n.ids = n.key.ids

\* A packet that matches rests, through renders and pages, on the bytes that
\* the custody of the moment verified; READY, it is one reading of them. One
\* reused on an evaluation is what was evaluated, and one reading too, though
\* perhaps of bytes that are no longer there.
FusionIsTraced ==
    \A p \in packet :
        /\ used # "not" => IsOneReading(p)
        /\ used = "reused" => evaluation = {p}
        /\ used = "matched" => \A o \in p.primitives :
             /\ o.binding.observed = custody[o.binding.source]
             /\ o.binding.source \in Pdfs =>
                    \E page \in o.binding.page : page.pdf = custody[page.source]
             /\ o.binding.source \notin Pdfs => o.artifact.raster = custody[o.binding.source]

\* A packet that is used is traced to the sources.
SourcesAreTraced == TypeOK /\ FusionIsTraced
=============================================================================
