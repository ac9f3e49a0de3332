\* Two transitions, one of which reads the lock of the other.
CONSTANTS
    Nobody = Nobody
    Transitions = {t1, t2}
    Writers = {}
    Windows = TRUE
    MaxCalls = 2
SPECIFICATION Spec
INVARIANT ContentionIsHarmless
CHECK_DEADLOCK FALSE
