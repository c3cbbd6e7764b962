\* One Send caller; receiver settle mode first with sender settle mode mixed (each message
\* pre-settled or not), closeOnDispositionError either way, echo flows, one
\* ctx cancellation, the application's Close, peer detach and session end.
CONSTANTS
    Callers = {c1}
    NoCaller = NoCaller
    MaxMsgs = 2
    MaxFrames = 2
    MaxCredit = 1
    MaxFlows = 2
    MaxCancels = 1
    CreditBits = 3
    MonotoneCredit = TRUE
    PeerMayDetach = TRUE
    SessionMayEnd = TRUE
    SSMs = {"mixed"}
    RSMs = {"first"}
    CloseOnDispErrs = {TRUE, FALSE}
    Echoes = {TRUE, FALSE}
    EmptyMsgs = TRUE
    Coordinator = FALSE
SPECIFICATION Spec
INVARIANT SendResultSound
PROPERTY CreditLinkSpec
CHECK_DEADLOCK FALSE
