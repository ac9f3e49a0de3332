\* Does a failed publication leave the target alone?
CONSTANTS
    Publishers = {"first"}
    Artifacts = {"a"}
    Editors = {}
    MaxForeign = 0
    MaxEdits = 0
SPECIFICATION Spec
INVARIANT FailedLeavesTarget
CHECK_DEADLOCK FALSE
