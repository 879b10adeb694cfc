\* A driver that ticks only when a timer the ping manager armed is due.
CONSTANTS
    p1 = p1
    p2 = p2
    n1 = n1
    n2 = n2
    stale = stale
    Peer <- MCOnePeer
    Nonce <- MCNonce
    PingTimeout = 3
    PingInterval = 1
    MaxRecordedLatencies = 1
    ResponseBound = 2
    MaxWire = 1
    StaleNonce = stale
    TickSource = "timers"

SPECIFICATION Spec
PROPERTY HungPeerDropped
