\* One link refused by the peer: after the closing Detaches are exchanged
\* its handle is still allocated (link.go:172-201, against spec.md 4.4).
CONSTANTS
    l1 = l1
    Links = {l1}
    HandleMax = 0
    LocalRSMs = {"nil"}
    LocalSSMs = {"nil"}
    LocalMaxSizes = {0}
    PeerRSMs = {"nil"}
    PeerSSMs = {"nil"}
    PeerMaxSizes = {0}
    SessionMayEnd = FALSE

SPECIFICATION Spec
INVARIANT HandleFreedAfterDetach
CHECK_DEADLOCK FALSE
