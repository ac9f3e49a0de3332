\* Session: a start or resume, a turn, then another or a close, and beside them
\* an interrupt or cancel. Staged: two commands, two pages, one edit, one kill.
CONSTANTS
    open = open
    first = first
    second = second
    other = other
    owner = owner
    controller = controller
    command1 = command1
    command2 = command2
    Commands = {command1, command2}
    LastPage = 2
    MaxEdits = 1
    MaxKills = 1
    Calls = {open, first, second, other}
    Threads = {owner, controller}
    Turns = {"t1"}
    MaxTuples = 2
    ThreadOf <- MCThreadOf
    MethodsOf <- MCMethodsOf
SPECIFICATION RunsSpec
INVARIANTS
    PromotionIsProven
    ProcessIsOwned
    OncePerTuple
PROPERTIES
    RequestsStopAtTheEnd
    StagesAreDerived
SYMMETRY Interchangeable
CHECK_DEADLOCK FALSE
