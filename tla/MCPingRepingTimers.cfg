\* A driver that ticks only when a timer the ping manager armed is due, with
\* a pong that takes longer than ping_timeout - PING_INTERVAL.
CONSTANTS
    p1 = p1
    p2 = p2
    n1 = n1
    n2 = n2
    stale = stale
    Peer <- MCOnePeer
    Nonce <- MCNonce
    PingTimeout = 3
    PingInterval = 2
    MaxRecordedLatencies = 2
    ResponseBound = 2
    MaxWire = 0
    StaleNonce = stale
    TickSource = "timers"

SPECIFICATION Spec
PROPERTY RepingedPeerPingedAgain
