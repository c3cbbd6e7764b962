\* Receiver settle mode second: two concurrent Send callers, messages of up
\* to two frames, a peer that never lowers its credit limit, one ctx
\* cancellation, the application's Close and peer detach.
CONSTANTS
    Callers = {c1, c2}
    NoCaller = NoCaller
    MaxMsgs = 2
    MaxFrames = 2
    MaxCredit = 1
    MaxFlows = 2
    MaxCancels = 1
    CreditBits = 3
    MonotoneCredit = TRUE
    PeerMayDetach = TRUE
    SessionMayEnd = FALSE
    SSMs = {"unsettled"}
    RSMs = {"second"}
    CloseOnDispErrs = {TRUE}
    Echoes = {FALSE}
    EmptyMsgs = FALSE
    Coordinator = TRUE
SPECIFICATION Spec
SYMMETRY CallerSymmetry
INVARIANT TypeOK
INVARIANT CreditRespected
INVARIANT TransfersContiguous
INVARIANT AcksFollowDispositions
INVARIANT SendResultSound
PROPERTY CreditLinkSpec
CHECK_DEADLOCK FALSE
