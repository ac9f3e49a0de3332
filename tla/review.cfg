\* Publication: two publishers of one authorization beside a command that
\* rewrites the manifest from an earlier read, the first of them of artifact "a".
\* Chain: one root, two repairs, two turns, two restores, rollbacks or corrections.
CONSTANTS
    Publishers = {"first", "second"}
    Artifacts = {"a", "b"}
    Editors = {"cli"}
    MaxForeign = 1
    MaxEdits = 1
    MaxBytes = 3
    MaxTurns = 2
    MaxEvents = 2
    Answers = {{"PASS"}, {"FAIL", "SKIP"}}
SPECIFICATION ReviewSpec
INVARIANTS
    RecordIsTrue
    SealedIsOneMoment
    VerdictsAreAnswered
PROPERTIES
    BytesSurvive
    GrantIsNeverReturned
CHECK_DEADLOCK FALSE
