\* One link with its own max message size and a peer answering 0 (no
\* limit): the link ends up with no limit (link.go:203, against spec.md 4.4).
CONSTANTS
    l1 = l1
    Links = {l1}
    HandleMax = 0
    LocalRSMs = {"nil"}
    LocalSSMs = {"nil"}
    LocalMaxSizes = {0, 100}
    PeerRSMs = {"nil"}
    PeerSSMs = {"nil"}
    PeerMaxSizes = {0, 50, 200}
    SessionMayEnd = FALSE

SPECIFICATION Spec
INVARIANT MaxMessageSizeResolved
CHECK_DEADLOCK FALSE
