\* A peer that may lower its credit limit (a flow granting less than is
\* already on the wire): the uint32 credit arithmetic of the sender wraps.
CONSTANTS
    Callers = {c1}
    NoCaller = NoCaller
    MaxMsgs = 2
    MaxFrames = 1
    MaxCredit = 1
    MaxFlows = 3
    MaxCancels = 0
    CreditBits = 3
    MonotoneCredit = FALSE
    PeerMayDetach = FALSE
    SessionMayEnd = FALSE
    SSMs = {"settled"}
    RSMs = {"first"}
    CloseOnDispErrs = {FALSE}
    Echoes = {FALSE}
    EmptyMsgs = FALSE
    Coordinator = FALSE
SPECIFICATION Spec
INVARIANT CreditRespected
CHECK_DEADLOCK FALSE
