\* Multi-frame messages and the application closing the link while the mux
\* holds a transfer frame; no cancellation.
CONSTANTS
    Callers = {c1}
    NoCaller = NoCaller
    MaxMsgs = 1
    MaxFrames = 2
    MaxCredit = 1
    MaxFlows = 1
    MaxCancels = 0
    CreditBits = 3
    MonotoneCredit = TRUE
    PeerMayDetach = FALSE
    SessionMayEnd = FALSE
    SSMs = {"settled"}
    RSMs = {"first"}
    CloseOnDispErrs = {FALSE}
    Echoes = {FALSE}
    EmptyMsgs = FALSE
    Coordinator = FALSE
SPECIFICATION Spec
INVARIANT DeliveryFramesInOrder
CHECK_DEADLOCK FALSE
