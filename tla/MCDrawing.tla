------------------------------- MODULE MCDrawing -------------------------------
(***************************************************************************)
(* Parts that change or read a drawing file or its sources and share       *)
(* nothing else, checked in one run: the mechanical repair (LiveRepair),   *)
(* the bounded line edit in AutoCAD (NativeLineEdit), the custody of the   *)
(* source files (SourceCustody), what is taken from a PDF of them by its   *)
(* layers and from its curves (LayerLines, PageCurves), the fusion of what *)
(* is observed of them (SourceFusion), the native render of a layout       *)
(* (NativeRender) and the extraction from an exact-base Xref               *)
(* (ExactBaseXref).  One of them is chosen at the start and takes all the  *)
(* steps; the others stay in an initial state.                             *)
(***************************************************************************)
EXTENDS LiveRepair

CONSTANTS
    MaxWrites, MaxAttempts,                                            \* line edit
    Sources, Pdfs, Objects, Ids, Instances, Requests,
    Components, MaxCalls, NamesRequest,                                \* Xref
    MaxEvents                                                          \* of each part

VARIABLES
    part,                                                              \* which one runs
    \* line edit
    eDisk, eMemory, edit, attempts, origin, saves, eForeign, eLost,
    \* custody
    cAt, cBytes, mapped, declared, readable, cCall, cPc, current, cObject, seen, facts,
    cCustody, accepted, cEvents, wavered,
    \* fusion
    fBytes, fCustody, artifact, renders, observations, packet, evaluation, used, fEvents,
    \* lines by their layers, and curves
    document, on, initial, page, lPc, baseline, off, pending, layer, lines, failures, opened,
    sheet, taken,
    \* native render
    rFile, rMemory, dbmod, background, directories, claims, final, rPc, request, modified, saved,
    temporary, restored, read, attached, rKind, camera, asked, answer, sha, attachment, raster,
    rEvents, moves, touched, spoiled, lookedAt, restless,
    \* exact-base Xref
    direct, source, drawing, output, loaded, xMemory, xDbmod, inspection, plan, xPc, task, calls,
    wanted, sourceBefore, inputBefore, sourceHash, targetHash, xModified, fits, identity,
    inspected, xOutcome, xEvents, xRead, unsaved, xSeen, foreignLost, excuse

repair == vars
lineEdit == <<eDisk, eMemory, edit, attempts, origin, saves, eForeign, eLost>>
custody == <<cAt, cBytes, mapped, declared, readable, cCall, cPc, current, cObject, seen, facts,
             cCustody, accepted, cEvents, wavered>>
fusion == <<fBytes, fCustody, artifact, renders, observations, packet, evaluation, used, fEvents>>
layerLines == <<document, on, initial, page, lPc, baseline, off, pending, layer, lines, failures,
                opened>>
curves == <<sheet, taken>>
render == <<rFile, rMemory, dbmod, background, directories, claims, final, rPc, request, modified,
            saved, temporary, restored, read, attached, rKind, camera, asked, answer, sha,
            attachment, raster, rEvents, moves, touched, spoiled, lookedAt, restless>>
xref == <<direct, source, drawing, output, loaded, xMemory, xDbmod, inspection, plan, xPc, task,
          calls, wanted, sourceBefore, inputBefore, sourceHash, targetHash, xModified, fits,
          identity, inspected, xOutcome, xEvents, xRead, unsaved, xSeen, foreignLost, excuse>>

Edit == INSTANCE NativeLineEdit WITH
    MaxForeign <- MaxWrites,
    disk <- eDisk, memory <- eMemory, foreign <- eForeign, lost <- eLost

Custody == INSTANCE SourceCustody WITH
    at <- cAt, bytes <- cBytes, call <- cCall, pc <- cPc, object <- cObject,
    custody <- cCustody, events <- cEvents

Fusion == INSTANCE SourceFusion WITH
    bytes <- fBytes, custody <- fCustody, events <- fEvents

Paint == INSTANCE MCPaint
MCDocuments == Paint!Documents
MCSheets == Paint!Sheets

Lines == INSTANCE LayerLines WITH
    Layers <- {"l", "m"}, Reviewed <- {"l"}, Documents <- MCDocuments, Visible <- {{"l", "m"}},
    MaxFailures <- 1,
    pc <- lPc

PdfCurves == INSTANCE PageCurves WITH
    Sheets <- MCSheets, Frame <- 1 .. 5, Rings <- {1 .. 4}, Segments <- {{3, 4}, {4, 5}}

Render == INSTANCE NativeRender WITH
    file <- rFile, memory <- rMemory, pc <- rPc, kind <- rKind, events <- rEvents

Xref == INSTANCE ExactBaseXref WITH
    memory <- xMemory, dbmod <- xDbmod, pc <- xPc, modified <- xModified,
    outcome <- xOutcome, events <- xEvents, read <- xRead, seen <- xSeen

Nobody == [s \in Sources |-> CHOOSE o \in Objects : TRUE]
One(S) == [x \in S |-> "one"]
ADocument == CHOOSE d \in MCDocuments : TRUE
ASheet == CHOOSE s \in MCSheets : TRUE

DrawingInit ==
    /\ part \in {"repair", "edit", "custody", "fusion", "lines", "curves", "render", "xref"}
    /\ Init /\ (part # "repair" => open = {} /\ bad = {})
    /\ Edit!Init /\ (part # "edit" => eMemory = [geo |-> "before", dirty |-> FALSE])
    /\ Custody!Init
    /\ part # "custody" => /\ cAt = [s \in Sources |-> {Nobody[s]}]
                           /\ cBytes = One(Objects) /\ declared = One(Sources) /\ readable = {"one"}
    /\ Fusion!Init
    /\ part # "fusion" => fBytes = One(Sources) /\ artifact.shape = [i \in Ids |-> "x"]
    /\ document \in (IF part = "lines" THEN MCDocuments ELSE {ADocument}) /\ Lines!Init
    /\ sheet \in (IF part = "curves" THEN MCSheets ELSE {ASheet}) /\ PdfCurves!Init
    /\ Render!Init
    /\ part # "render" => \A r \in Requests : rKind[r] = "PNG" /\ camera[r] = "NONE"
    /\ Xref!Init /\ (part # "xref" => ~direct)

DrawingNext ==
    \/ /\ part = "repair" /\ Next
       /\ UNCHANGED <<part, lineEdit, custody, fusion, layerLines, curves, render, xref>>
    \/ /\ part = "edit" /\ Edit!Next
       /\ UNCHANGED <<part, repair, custody, fusion, layerLines, curves, render, xref>>
    \/ /\ part = "custody" /\ Custody!Next
       /\ UNCHANGED <<part, repair, lineEdit, fusion, layerLines, curves, render, xref>>
    \/ /\ part = "fusion" /\ Fusion!Next
       /\ UNCHANGED <<part, repair, lineEdit, custody, layerLines, curves, render, xref>>
    \/ /\ part = "lines" /\ Lines!Next
       /\ UNCHANGED <<part, repair, lineEdit, custody, fusion, curves, render, xref>>
    \/ /\ part = "curves" /\ PdfCurves!Next
       /\ UNCHANGED <<part, repair, lineEdit, custody, fusion, layerLines, render, xref>>
    \/ /\ part = "render" /\ Render!Next
       /\ UNCHANGED <<part, repair, lineEdit, custody, fusion, layerLines, curves, xref>>
    \/ /\ part = "xref" /\ Xref!Next
       /\ UNCHANGED <<part, repair, lineEdit, custody, fusion, layerLines, curves, render>>

everything == <<part, repair, lineEdit, custody, fusion, layerLines, curves, render, xref>>

DrawingSpec == DrawingInit /\ [][DrawingNext]_everything

\* Of the parts' properties, ReportsAreTrue, Recoverable and OthersAreUntouched
\* are LiveRepair's own.
-----------------------------------------------------------------------------
\* The edit is saved at most once (NativeLineEdit).
EditSavedOnce == Edit!EditSavedOnce

\* A custody hands on the declared bytes, its media facts are of those bytes,
\* and READY sources are distinct files, also in a record that a caller altered
\* before it was matched (SourceCustody); a fusion packet that is used rests on
\* the bytes of the custody of the moment and reads every primitive once
\* (SourceFusion).
SourcesAreTraced == Custody!SourcesAreTraced /\ Fusion!SourcesAreTraced

\* The lines, circles and arcs taken from a page are seen on it, and what of
\* the picture is dropped for them is explained (LayerLines, PageCurves).
PrimitivesAreSeen ==
    /\ part = "lines" => Lines!LayerLinesAreTrue
    /\ part = "curves" => PdfCurves!CurvesAreTrue

\* What the line edit reports is true, and it overwrites another program's
\* bytes only in the windows that no hash covers (NativeLineEdit); a render's
\* evidence names the bytes that were published, one AutoCAD session publishes
\* for a request, and every session gets its variable back (NativeRender); what an extraction reports was read, and its candidate file
\* is accounted for, other programs' files included (ExactBaseXref).
OutputsAreTrue == Edit!OutputsAreTrue /\ Render!OutputsAreTrue /\ Xref!OutputsAreTrue
=============================================================================
