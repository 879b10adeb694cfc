\* Safety with two addresses: ticks visit both records in either order.
CONSTANTS
    p1 = p1
    p2 = p2
    n1 = n1
    n2 = n2
    stale = stale
    Peer <- MCPeer
    Nonce <- MCNonce
    PingTimeout = 3
    PingInterval = 1
    MaxRecordedLatencies = 1
    ResponseBound = 2
    MaxWire = 0
    StaleNonce = stale
    TickSource = "periodic"

SPECIFICATION Spec
SYMMETRY MCSymmetry
INVARIANT AwaitingTracksPing
INVARIANT OnePingInFlight
INVARIANT NoFalseTimeout

