\* One component, one call, no event; the parameters of an extraction carry no
\* request id, as the policy builds them.
CONSTANTS
    Components = {"block"}
    MaxEvents = 0
    MaxCalls = 1
    NamesRequest = FALSE
SPECIFICATION Spec
INVARIANT UndisturbedSucceeds
CHECK_DEADLOCK FALSE
