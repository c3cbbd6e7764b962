\* Two links over one handle under FairSpec: refusals, cancelled attaches,
\* background cleanups with their 5 s timeout, settle-mode mismatches,
\* closes and handle reuse, interleaved.
CONSTANTS
    l1 = l1  l2 = l2  
    Links = {l1, l2}
    HandleMax = 0
    LocalRSMs = {"nil", "second", "invalid"}
    LocalSSMs = {"nil", "settled"}
    LocalMaxSizes = {0}
    PeerRSMs = {"nil", "second"}
    PeerSSMs = {"nil", "settled"}
    PeerMaxSizes = {0}
    SessionMayEnd = TRUE
SPECIFICATION FairSpec
INVARIANT TypeOK HandlesNeverConfused AttachedAgreesWithPeer NoUnexpectedReply
PROPERTY BackgroundCleanupEnds
CHECK_DEADLOCK FALSE
