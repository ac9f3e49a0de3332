\* Lisp: two clients on one directory, one fault.
\* Handoff: one session, two handoffs, any two of a write of either file, an
\* expiry, a use.
\* Pilot: two runs on one output, two changes or events.
CONSTANTS
    c1 = c1
    c2 = c2
    Clients = {c1, c2}
    Operations = {"edit", "close"}
    MaxCalls = 2
    MaxFaults = 1
    Handoffs = {"first", "renewed"}
    Renewals <- MCRenewals
    Threads = {"started", "forked"}
    Sessions = {"started"}
    Fields = {"units", "fonts"}
    Drawings = {"good", "bad"}
    Conforming <- MCConforming
    Templates = {"t1", "t2"}
    Released = "t1"
    Policies = {{"fonts"}, {"units", "fonts"}}
    Unresolvable = {{}, {"fonts"}, {"units"}}
    Runs = {"r1", "r2"}
    Sources = {"v1", "v2"}
    Primitives = {"i1", "i2"}
    Semantics = {"s1"}
    SourceOf <- MCSourceOf
    PrimitiveOf <- MCPrimitiveOf
    Windows = TRUE
    Absent = Absent
    NoPolicy = NoPolicy
    MaxChanges = 2
    MaxEvents = 2
SPECIFICATION PartsSpec
INVARIANTS
    ChannelIsSound
    HandoffsAreBound
    PilotsAreSound
PROPERTIES
    AnswersAreTrue
    OwnerIsReleased
CHECK_DEADLOCK FALSE
