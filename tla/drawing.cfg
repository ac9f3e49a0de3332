\* Repair: two primitives, one write by others and one document activated by
\* the user at any step. Edit: executed up to twice, two writes by another program.
\* Custody: two sources, two files, two events. Fusion: an image and a PDF of one
\* page, two primitives, two events. Render: two sessions, one request, two events.
\* Xref: two components, two calls, two events.
CONSTANTS
    Prims = {"p1", "p2"}
    MaxForeign = 1
    MaxSwitches = 1
    Sources = {"image", "pdf"}
    Pdfs = {"pdf"}
    Objects = {"o1", "o2"}
    Ids = {"a", "b"}
    Instances = {"acad1", "acad2"}
    Requests = {"request1"}
    Components = {"block1", "block2"}
    MaxWrites = 2
    MaxAttempts = 2
    MaxCalls = 2
    NamesRequest = TRUE
    MaxEvents = 2
SPECIFICATION DrawingSpec
INVARIANTS
    ReportsAreTrue
    Recoverable
    OthersAreUntouched
    SourcesAreTraced
    PrimitivesAreSeen
    OutputsAreTrue
PROPERTY EditSavedOnce
CHECK_DEADLOCK FALSE
