\* Safety of one connection address against every remote behaviour.
CONSTANTS
    p1 = p1
    p2 = p2
    n1 = n1
    n2 = n2
    stale = stale
    Peer <- MCOnePeer
    Nonce <- MCNonce
    PingTimeout = 3
    PingInterval = 1
    MaxRecordedLatencies = 2
    ResponseBound = 2
    MaxWire = 2
    StaleNonce = stale
    TickSource = "periodic"

SPECIFICATION Spec
SYMMETRY MCSymmetry
INVARIANT SysTypeOK
INVARIANT AwaitingTracksPing
INVARIANT OnePingInFlight
INVARIANT NoFalseTimeout
PROPERTY LatencyIsRoundTrip
