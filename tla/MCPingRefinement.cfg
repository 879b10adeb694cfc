\* PingSystem implements the abstract per-address lifecycle PeerLiveness.
CONSTANTS
    p1 = p1
    p2 = p2
    n1 = n1
    n2 = n2
    stale = stale
    Peer <- MCOnePeer
    Nonce <- MCNonce
    PingTimeout = 3
    PingInterval = 1
    MaxRecordedLatencies = 1
    ResponseBound = 2
    MaxWire = 2
    StaleNonce = stale
    TickSource = "periodic"

SPECIFICATION Spec
\* Never binds for the code as written (OnePingInFlight holds in the safety
\* runs); it bounds the wire for code that would overlap pings.
CONSTRAINT OnePingInFlight
PROPERTY PeerLivenessRefined
