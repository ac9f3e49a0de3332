\* Two callers whose calls overlap, one restart of AutoCAD, a close or an
\* export beside the edit.
CONSTANTS
    NoFile = NoFile
    Clients = {alice, bob}
    RequestIds = {1, 2}
    Ops = {"edit", "close", "export"}
    MaxIssues = 2
    MaxCrashes = 1
    CallerNamesIds = FALSE
SPECIFICATION Spec
INVARIANTS
    OneEditPerDrawing
    AnswersAreTrue
PROPERTIES
    WritesAreCompareAndSwap
    CallsReturn
CHECK_DEADLOCK FALSE
