\* The peer detaches with an error while the application closes the link.
CONSTANTS
    Callers = {c1}
    NoCaller = NoCaller
    MaxMsgs = 1
    MaxFrames = 1
    MaxCredit = 1
    MaxFlows = 1
    MaxCancels = 0
    CreditBits = 3
    MonotoneCredit = TRUE
    PeerMayDetach = TRUE
    SessionMayEnd = FALSE
    SSMs = {"unsettled"}
    RSMs = {"second"}
    CloseOnDispErrs = {FALSE}
    Echoes = {FALSE}
    EmptyMsgs = FALSE
    Coordinator = FALSE
SPECIFICATION Spec
INVARIANT CloseReportsRemoteError
CHECK_DEADLOCK FALSE
