--------------------------- MODULE MCPingSystem ----------------------------
(* Model-checking instance of PingSystem: two addresses, two nonces, time  *)
(* in units of PING_INTERVAL with PING_TIMEOUT three of them.              *)
EXTENDS PingSystem

CONSTANTS p1, p2, n1, n2, stale

MCPeer  == {p1, p2}
MCNonce == {n1, n2}
MCOnePeer == {p1}
(* One nonce suffices where no remote sends unsolicited messages: with one *)
(* ping in flight per address, every pong answers the awaited ping.      *)
MCOneNonce == {n1}

(* Symmetry of addresses and nonces, for the runs that check only safety. *)
MCSymmetry == Permutations(MCPeer) \cup Permutations(MCNonce)
=============================================================================
