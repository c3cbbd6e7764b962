\* Receiver settle mode second, one caller, under the fairness of the Go
\* scheduler: every disposition is acknowledged unless the link ends, and a
\* closed link terminates.
CONSTANTS
    Callers = {c1}
    NoCaller = NoCaller
    MaxMsgs = 2
    MaxFrames = 1
    MaxCredit = 2
    MaxFlows = 1
    MaxCancels = 0
    CreditBits = 3
    MonotoneCredit = TRUE
    PeerMayDetach = TRUE
    SessionMayEnd = TRUE
    SSMs = {"unsettled"}
    RSMs = {"second"}
    CloseOnDispErrs = {TRUE}
    Echoes = {FALSE}
    EmptyMsgs = FALSE
    Coordinator = FALSE
SPECIFICATION FairSpec
PROPERTY AckEventually
PROPERTY LinkClosesEventually
CHECK_DEADLOCK FALSE
