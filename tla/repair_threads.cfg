\* Two threads with two authorizations of either kind race for one workspace.
CONSTANTS
    Nothing = Nothing
    Threads = {t1, t2}
    Grants = {g1, g2}
    Leases = {l1}
    Operations = {"erase", "replace"}
    MaxCalls = 2
SPECIFICATION Spec
INVARIANTS
    OneRepairPerGrant
    LeasesAreAccountedFor
PROPERTIES
    CallsReturn
CHECK_DEADLOCK FALSE
