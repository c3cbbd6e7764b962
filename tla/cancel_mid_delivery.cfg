\* Multi-frame messages and a ctx cancellation of Send in its frame loop.
CONSTANTS
    Callers = {c1, c2}
    NoCaller = NoCaller
    MaxMsgs = 2
    MaxFrames = 2
    MaxCredit = 1
    MaxFlows = 2
    MaxCancels = 1
    CreditBits = 3
    MonotoneCredit = TRUE
    PeerMayDetach = FALSE
    SessionMayEnd = FALSE
    SSMs = {"settled"}
    RSMs = {"first"}
    CloseOnDispErrs = {FALSE}
    Echoes = {FALSE}
    EmptyMsgs = FALSE
    Coordinator = FALSE
SPECIFICATION Spec
INVARIANT NoAbandonedDelivery
CHECK_DEADLOCK FALSE
