---------------------------- MODULE PingManager ----------------------------
(***************************************************************************)
(* The liveness manager of nakamoto's p2p state machine                     *)
(* (src/p2p/src/fsm/pingmgr.rs, BIP 0031): one record per negotiated peer,  *)
(* a single outstanding ping per peer, timeout detection on every tick.     *)
(*                                                                          *)
(* Time.  The injected Clock is abstracted to the age of each record's      *)
(* `since` timestamp: a record holds age = now - since instead of `since`.  *)
(* Every comparison the code makes is `now - since >= D` for D one of       *)
(* PING_TIMEOUT or PING_INTERVAL, so ages are capped at AgeCap, the larger  *)
(* of the two, without changing any guard.  A latency sample `now - since`  *)
(* is the age itself; samples at or above AgeCap are recorded as AgeCap.    *)
(*                                                                          *)
(* The Outbox (output.rs, not in this repository) is a FIFO of Io values;   *)
(* the manager only appends to it, the driver pops from its head.          *)
(***************************************************************************)
EXTENDS Naturals, Sequences, FiniteSets, TLC

LOCAL SeqExt == INSTANCE SequencesExt

CONSTANTS
    Peer,          \* peer addresses (PeerId = SocketAddr)
    Nonce,         \* the values rng.u64(..) can draw, abstracted to a small set
    PingTimeout,   \* ping_timeout, PING_TIMEOUT = 10 min by default
    PingInterval,  \* PING_INTERVAL = 2 min
    MaxRecordedLatencies \* MAX_RECORDED_LATENCIES = 64

ASSUME PingTimeout \in Nat \ {0} /\ PingInterval \in Nat \ {0}
ASSUME MaxRecordedLatencies \in Nat \ {0}

VARIABLES
    peers,   \* PingManager.peers : HashMap<PeerId, Peer>, as a function on its keys
    outbox   \* PingManager.outbox : Outbox, a sequence of Io

mgrVars == <<peers, outbox>>

AgeCap == IF PingTimeout >= PingInterval THEN PingTimeout ELSE PingInterval
Age == 0..AgeCap

(* enum State { AwaitingPong { nonce, since }, Idle { since } } *)
AwaitingPong(n, a) == [tag |-> "AwaitingPong", nonce |-> n, age |-> a]
Idle(a)            == [tag |-> "Idle", age |-> a]
State == {AwaitingPong(n, a) : n \in Nonce, a \in Age} \cup {Idle(a) : a \in Age}

(* The Io values the ping manager produces: Outbox::ping, Outbox::pong,      *)
(* Outbox::disconnect(addr, DisconnectReason::PeerTimeout("ping")) and       *)
(* Outbox::set_timer.                                                        *)
PingIo(p, n)   == [kind |-> "ping", peer |-> p, nonce |-> n]
PongIo(p, n)   == [kind |-> "pong", peer |-> p, nonce |-> n]
DisconnectIo(p) == [kind |-> "disconnect", peer |-> p]
TimerIo(d)     == [kind |-> "timer", dur |-> d]
Io == {PingIo(p, n) : p \in Peer, n \in Nonce} \cup {PongIo(p, n) : p \in Peer, n \in Nonce}
        \cup {DisconnectIo(p) : p \in Peer} \cup {TimerIo(d) : d \in {PingTimeout, PingInterval}}

TypeOK ==
    /\ DOMAIN peers \subseteq Peer
    /\ \A p \in DOMAIN peers :
          /\ peers[p].state \in State
          /\ peers[p].latencies \in Seq(Age)
          /\ Len(peers[p].latencies) <= MaxRecordedLatencies
    /\ outbox \in Seq(Io)

(* Mutant: the history is never truncated. *)
RecordLatencyUntruncated(lat, sample) == <<sample>> \o lat

(* Peer::record_latency: push_front, then truncate to MAX_RECORDED_LATENCIES. *)
RecordLatency(lat, sample) ==
    SubSeq(<<sample>> \o lat, 1, IF Len(lat) + 1 <= MaxRecordedLatencies
                                 THEN Len(lat) + 1 ELSE MaxRecordedLatencies)

(* PingManager::new: no peers, empty outbox. *)
MgrInit ==
    /\ peers = [p \in {} |-> 0]
    /\ outbox = <<>>

(* peer_negotiated: draw a nonce, enqueue the ping, then insert a fresh      *)
(* record, overwriting any record the address already had (HashMap::insert). *)
PeerNegotiated(p) ==
    \E n \in Nonce :
        /\ outbox' = Append(outbox, PingIo(p, n))
        /\ peers' = (p :> [state |-> AwaitingPong(n, 0), latencies |-> <<>>]) @@ peers

(* received_event, PeerDisconnected: peers.remove(&addr), a no-op if absent. *)
PeerDisconnected(p) ==
    /\ peers' = [q \in DOMAIN peers \ {p} |-> peers[q]]
    /\ UNCHANGED outbox

(* received_ping: answer with the received nonce if the peer is known;      *)
(* an unknown peer is ignored.                                             *)
ReceivedPing(p, n) ==
    \/ /\ p \in DOMAIN peers
       /\ outbox' = Append(outbox, PongIo(p, n))
       /\ UNCHANGED peers
    \/ /\ p \notin DOMAIN peers
       /\ UNCHANGED mgrVars

(* received_pong: only a pong carrying the outstanding nonce is accepted; it *)
(* records now - since and moves the peer to Idle { since: now }.           *)
(* Mutant: any pong is accepted while a pong is awaited. *)
PongMatchesAnyNonce(p, n) ==
    /\ p \in DOMAIN peers
    /\ peers[p].state.tag = "AwaitingPong"

PongMatches(p, n) ==
    /\ p \in DOMAIN peers
    /\ peers[p].state.tag = "AwaitingPong"
    /\ peers[p].state.nonce = n

ReceivedPong(p, n) ==
    \/ /\ PongMatches(p, n)
       /\ peers' = [peers EXCEPT ![p] =
                      [state |-> Idle(0),
                       latencies |-> RecordLatency(@.latencies, @.state.age)]]
       /\ UNCHANGED outbox
    \/ /\ ~PongMatches(p, n)
       /\ UNCHANGED mgrVars

(* Mutants of timer_expired's per-peer step: an off-by-one timeout check, *)
(* a timeout that enqueues nothing, a re-ping that keeps the old `since`,  *)
(* a re-ping that leaves the peer Idle.                                    *)
TickIoEarlyTimeout(p, n) ==
    LET st == peers[p].state IN
    CASE st.tag = "AwaitingPong" /\ st.age + 1 >= PingTimeout -> <<DisconnectIo(p)>>
      [] st.tag = "Idle" /\ st.age >= PingInterval ->
             <<PingIo(p, n), TimerIo(PingTimeout), TimerIo(PingInterval)>>
      [] OTHER -> <<>>

TickIoNoDisconnect(p, n) ==
    LET st == peers[p].state IN
    IF st.tag = "Idle" /\ st.age >= PingInterval
    THEN <<PingIo(p, n), TimerIo(PingTimeout), TimerIo(PingInterval)>>
    ELSE <<>>

TickStateKeepsSince(p, n) ==
    LET st == peers[p].state IN
    IF st.tag = "Idle" /\ st.age >= PingInterval THEN AwaitingPong(n, st.age) ELSE st

TickStateStaysIdle(p, n) == peers[p].state

(* timer_expired, for one peer, given the nonce rng would draw for it:      *)
(* the Io it enqueues and its next state.                                  *)
TickIo(p, n) ==
    LET st == peers[p].state IN
    CASE st.tag = "AwaitingPong" /\ st.age >= PingTimeout -> <<DisconnectIo(p)>>
      [] st.tag = "Idle" /\ st.age >= PingInterval ->
             <<PingIo(p, n), TimerIo(PingTimeout), TimerIo(PingInterval)>>
      [] OTHER -> <<>>

TickState(p, n) ==
    LET st == peers[p].state IN
    IF st.tag = "Idle" /\ st.age >= PingInterval THEN AwaitingPong(n, 0) ELSE st

(* timer_expired: every record is visited in HashMap iteration order, which *)
(* depends on the hasher seeded from rng, so the order is any permutation.  *)
TimerExpired ==
    \E draw \in [DOMAIN peers -> Nonce], order \in SeqExt!SetToSeqs(DOMAIN peers) :
        /\ peers' = [p \in DOMAIN peers |->
                        [peers[p] EXCEPT !.state = TickState(p, draw[p])]]
        /\ outbox' = outbox \o SeqExt!FlattenSeq([i \in DOMAIN order |-> TickIo(order[i], draw[order[i]])])

(* The injected clock advances one unit: every `since` ages by one. *)
Elapse ==
    /\ peers' = [p \in DOMAIN peers |->
                    [peers[p] EXCEPT !.state.age = IF @ < AgeCap THEN @ + 1 ELSE @]]
    /\ UNCHANGED outbox

(* enum Event: the variants of the closed event taxonomy.  The ping manager *)
(* reads the address of PeerNegotiated and PeerDisconnected and the sender  *)
(* and payload of MessageReceived; every other field is abstracted away.    *)
EventKind == {"Initializing", "Ready", "PeerLoadedBloomFilter", "PeerConnected",
              "PeerConnecting", "PeerDisconnected", "PeerTimedOut",
              "PeerConnectionFailed", "PeerNegotiated", "PeerHeightUpdated",
              "PeerMisbehaved", "BlockConnected", "BlockDisconnected",
              "BlockProcessed", "BlockMatched", "ReceivedMerkleBlock",
              "BlockHeadersSynced", "BlockHeadersImported", "BlockFilterImported",
              "FeeEstimated", "FilterProcessed", "FilterReceived",
              "FilterRescanStarted", "FilterRescanStopped",
              "MerkleBlockRescanStopped", "MerkleBlockScanStarted",
              "FilterHeadersSynced", "TxStatusChanged", "ReceivedMatchedTx",
              "Scanned", "MessageReceived", "AddressBookExhausted", "Error"}

(* received_event: dispatch on the variant; a MessageReceived carrying      *)
(* anything but Ping or Pong, and every other variant, is a no-op.          *)
ReceivedEvent(e) ==
    \/ e.kind = "PeerNegotiated" /\ PeerNegotiated(e.addr)
    \/ e.kind = "PeerDisconnected" /\ PeerDisconnected(e.addr)
    \/ e.kind = "MessageReceived" /\ e.msg.type = "ping" /\ ReceivedPing(e.addr, e.msg.nonce)
    \/ e.kind = "MessageReceived" /\ e.msg.type = "pong" /\ ReceivedPong(e.addr, e.msg.nonce)
    \/ /\ \/ e.kind \notin {"PeerNegotiated", "PeerDisconnected", "MessageReceived"}
          \/ e.kind = "MessageReceived" /\ e.msg.type \notin {"ping", "pong"}
       /\ UNCHANGED mgrVars

(* Outbox::next, called through PingManager's Iterator impl by the driver. *)
NextIo == Head(outbox)
PopIo == outbox' = Tail(outbox)

=============================================================================
