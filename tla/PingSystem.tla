---------------------------- MODULE PingSystem -----------------------------
(***************************************************************************)
(* The ping manager inside its environment, as spec.md sections 2, 4.1 and *)
(* 5 describe it: a transport that opens and closes one TCP connection per  *)
(* address and turns wire messages into events, a driver that feeds every  *)
(* event and tick to the manager and drains its Outbox after each one, and *)
(* remote peers that answer pings, send their own pings, send unsolicited  *)
(* pongs, or hang.  The environment is not in this repository and is        *)
(* modelled from spec.md; the manager's steps are those of PingManager.     *)
(*                                                                          *)
(* Ticks.  The driver calls timer_expired when a timer the manager armed  *)
(* with set_timer is due (TimerTick), and at other times (Tick): a periodic *)
(* tick (spec.md 2 and 6) or the timer of another manager.  TickSource     *)
(* says which of them the driver guarantees: "periodic", ticks at some     *)
(* time in every period, or "timers", only the manager's own timers.        *)
(***************************************************************************)
EXTENDS PingManager, Integers

LOCAL Fn == INSTANCE Functions

CONSTANTS
    ResponseBound, \* a live remote's pong reaches the manager this long after its ping
    MaxWire,       \* bound on the messages a remote may have in flight
    TickSource,    \* "periodic" or "timers"
    StaleNonce     \* the nonce of an unsolicited pong: stale, duplicated or forged

(* An unsolicited pong carries a nonce other than the one the manager      *)
(* awaits: with 64-bit random nonces a match is negligible, so StaleNonce  *)
(* stands for every such value.                                            *)
ASSUME StaleNonce \notin Nonce

ASSUME ResponseBound \in 1..(PingTimeout - 1)
ASSUME MaxWire \in Nat
ASSUME TickSource \in {"periodic", "timers"}

VARIABLES
    link,    \* transport: the connection to each address
    remote,  \* the remote node behind each open connection: "up" or "hung"
    toPeer,  \* bytes on the wire from us to the remote, in order
    toUs,    \* bytes on the wire from the remote to us, in order
    timers   \* remaining time of the timers the manager armed

envVars == <<link, remote, toPeer, toUs, timers>>
vars == <<peers, outbox, link, remote, toPeer, toUs, timers>>

(* A wire message.  rt is the time since the ping it belongs to left the    *)
(* manager (our ping, and the pong answering it); other messages carry     *)
(* NoRt.                                                                   *)
NoRt == -1
Msg(t, n, r) == [type |-> t, nonce |-> n, rt |-> r]
Ours(m) == m.rt # NoRt
(* Any message but ping and pong (headers, inv, addr, ...): its content is  *)
(* never read by the ping manager.                                         *)
OtherMsg == Msg("other", CHOOSE n \in Nonce : TRUE, NoRt)

Open == {"connected", "negotiated"}

SysTypeOK ==
    /\ TypeOK
    /\ link \in [Peer -> {"none", "connected", "negotiated", "closing"}]
    /\ remote \in [Peer -> {"up", "hung"}]
    /\ \A p \in Peer :
          \A m \in Fn!Range(toPeer[p]) \cup Fn!Range(toUs[p]) :
             m \in [type : {"ping", "pong", "other"}, nonce : Nonce \cup {StaleNonce}, rt : 0..ResponseBound \cup {NoRt}]
    /\ timers \subseteq 0..AgeCap

Init ==
    /\ MgrInit
    /\ link = [p \in Peer |-> "none"]
    /\ remote = [p \in Peer |-> "up"]
    /\ toPeer = [p \in Peer |-> <<>>]
    /\ toUs = [p \in Peer |-> <<>>]
    /\ timers = {}

(* The driver hands the manager a stimulus only once the Outbox produced by *)
(* the previous one has been drained (spec.md 5).                          *)
Stimulus(e) ==
    /\ outbox = <<>>
    /\ ReceivedEvent(e)

-----------------------------------------------------------------------------
(* Transport and handshake. *)

Connect(p) ==
    /\ link[p] = "none"
    /\ Stimulus([kind |-> "PeerConnected", addr |-> p])
    /\ link' = [link EXCEPT ![p] = "connected"]
    /\ remote' = [remote EXCEPT ![p] = "up"]
    /\ UNCHANGED <<toPeer, toUs, timers>>

Negotiate(p) ==
    /\ link[p] = "connected"
    /\ Stimulus([kind |-> "PeerNegotiated", addr |-> p])
    /\ link' = [link EXCEPT ![p] = "negotiated"]
    /\ UNCHANGED <<remote, toPeer, toUs, timers>>

(* The connection closes: bytes in flight either way are lost and the      *)
(* manager sees PeerDisconnected.  CloseRequested follows a disconnect Io; *)
(* CloseByRemote is the remote or the network ending it at any time.       *)
Closed(p) ==
    /\ Stimulus([kind |-> "PeerDisconnected", addr |-> p])
    /\ link' = [link EXCEPT ![p] = "none"]
    /\ toPeer' = [toPeer EXCEPT ![p] = <<>>]
    /\ toUs' = [toUs EXCEPT ![p] = <<>>]
    /\ UNCHANGED <<remote, timers>>

CloseRequested(p) == link[p] = "closing" /\ Closed(p)
CloseByRemote(p)  == link[p] \in Open /\ Closed(p)

(* The transport reads the next message of an open connection. *)
Deliver(p) ==
    /\ link[p] # "none"
    /\ toUs[p] # <<>>
    /\ Stimulus([kind |-> "MessageReceived", addr |-> p, msg |-> Head(toUs[p])])
    /\ toUs' = [toUs EXCEPT ![p] = Tail(@)]
    /\ UNCHANGED <<link, remote, toPeer, timers>>

(* The driver executes the Io at the head of the Outbox. *)
Execute(io) ==
    CASE io.kind = "ping" ->
            /\ toPeer' = IF link[io.peer] \in Open
                         THEN [toPeer EXCEPT ![io.peer] = Append(@, Msg("ping", io.nonce, 0))]
                         ELSE toPeer
            /\ UNCHANGED <<link, timers>>
      [] io.kind = "pong" ->
            \* written to the connection; the remote only consumes it, so it
            \* is not kept on the wire
            /\ UNCHANGED <<toPeer, link, timers>>
      [] io.kind = "disconnect" ->
            /\ link' = IF link[io.peer] \in Open
                       THEN [link EXCEPT ![io.peer] = "closing"] ELSE link
            /\ UNCHANGED <<toPeer, timers>>
      [] io.kind = "timer" ->
            /\ timers' = timers \cup {io.dur}
            /\ UNCHANGED <<link, toPeer>>

Drain ==
    /\ outbox # <<>>
    /\ PopIo
    /\ Execute(NextIo)
    /\ UNCHANGED <<peers, remote, toUs>>

-----------------------------------------------------------------------------
(* Remote nodes. *)

(* A live remote reads its next message: it answers a ping with a pong     *)
(* carrying the same nonce and consumes anything else.                     *)
RemoteReceive(p) ==
    /\ link[p] \in Open
    /\ remote[p] = "up"
    /\ toPeer[p] # <<>>
    /\ LET m == Head(toPeer[p]) IN
         toUs' = IF m.type = "ping"
                 THEN [toUs EXCEPT ![p] = Append(@, Msg("pong", m.nonce, m.rt))]
                 ELSE toUs
    /\ toPeer' = [toPeer EXCEPT ![p] = Tail(@)]
    /\ UNCHANGED <<peers, outbox, link, remote, timers>>

(* A live remote sends a message of its own: a ping, an unsolicited pong   *)
(* with any nonce, or any other message, before or after the handshake.    *)
RemoteSend(p) ==
    /\ link[p] \in Open
    /\ remote[p] = "up"
    /\ Len(toUs[p]) < MaxWire
    /\ \E m \in {Msg("ping", n, NoRt) : n \in Nonce} \cup {Msg("pong", StaleNonce, NoRt), OtherMsg} :
          toUs' = [toUs EXCEPT ![p] = Append(@, m)]
    /\ UNCHANGED <<peers, outbox, link, remote, toPeer, timers>>

(* The remote hangs: it stops reading and sending but keeps the connection. *)
Hang(p) ==
    /\ link[p] \in Open
    /\ remote[p] = "up"
    /\ remote' = [remote EXCEPT ![p] = "hung"]
    /\ UNCHANGED <<peers, outbox, link, toPeer, toUs, timers>>

-----------------------------------------------------------------------------
(* Ticks and time. *)

Tick ==
    /\ outbox = <<>>
    /\ TimerExpired
    /\ UNCHANGED timers
    /\ UNCHANGED <<link, remote, toPeer, toUs>>

TimerTick ==
    /\ outbox = <<>>
    /\ 0 \in timers
    /\ timers' = timers \ {0}
    /\ TimerExpired
    /\ UNCHANGED <<link, remote, toPeer, toUs>>

(* A live remote on an open connection answers within ResponseBound: time *)
(* cannot pass the deadline of one of our pings or of its pong.  Time does  *)
(* not pass a due timer either, nor while the Outbox holds Io.             *)
Deadline(p) ==
    (link[p] \in Open /\ remote[p] = "up") =>
        \A m \in Fn!Range(toPeer[p]) \cup Fn!Range(toUs[p]) :
            Ours(m) => m.rt < ResponseBound

AgeMsg(m) == IF Ours(m) /\ m.rt < ResponseBound THEN [m EXCEPT !.rt = @ + 1] ELSE m
AgeWire(w) == [p \in Peer |-> [i \in DOMAIN w[p] |-> AgeMsg(w[p][i])]]

Tock ==
    /\ outbox = <<>>
    /\ 0 \notin timers
    /\ \A p \in Peer : Deadline(p)
    /\ Elapse
    /\ toPeer' = AgeWire(toPeer)
    /\ toUs' = AgeWire(toUs)
    /\ timers' = {t - 1 : t \in timers}
    /\ UNCHANGED <<link, remote>>

Next ==
    \/ Drain
    \/ Tick
    \/ TimerTick
    \/ Tock
    \/ \E p \in Peer :
          \/ Connect(p) \/ Negotiate(p) \/ CloseRequested(p) \/ CloseByRemote(p)
          \/ Deliver(p) \/ RemoteReceive(p) \/ RemoteSend(p) \/ Hang(p)

(* Fairness the driver contract justifies.  The Outbox is drained and a   *)
(* live remote answers (weak fairness).  Due timers fire, other ticks keep *)
(* coming only under the "periodic" driver, time keeps passing, an event  *)
(* the transport has (a message read, a requested close) is delivered      *)
(* eventually.  These are strongly fair: each is a stimulus, enabled only  *)
(* when the Outbox is empty, and other stimuli keep refilling it (a remote *)
(* that keeps pinging, a tick that re-queues a disconnect Io for a         *)
(* timed-out peer).  Connecting, negotiating, remote sends,                *)
(* hangs and remote closes are not guaranteed.                             *)
Fairness ==
    /\ WF_vars(Drain)
    /\ SF_vars(TimerTick)
    /\ IF TickSource = "periodic" THEN SF_vars(Tick) ELSE TRUE
    /\ SF_vars(Tock)
    /\ \A p \in Peer :
          /\ SF_vars(Deliver(p))
          /\ SF_vars(CloseRequested(p))
          /\ WF_vars(RemoteReceive(p))

Spec == Init /\ [][Next]_vars /\ Fairness

-----------------------------------------------------------------------------
(* Properties. *)

(* The Io of ours in flight to or from p: a ping in the Outbox, or a ping  *)
(* or its answering pong on the wire, each with its round-trip time so far. *)
InFlight(p) ==
    {[nonce |-> io.nonce, rt |-> 0] : io \in {io \in Fn!Range(outbox) : io.kind = "ping" /\ io.peer = p}}
    \cup {[nonce |-> m.nonce, rt |-> m.rt] : m \in {m \in Fn!Range(toPeer[p]) \cup Fn!Range(toUs[p]) : Ours(m)}}

(* While the manager awaits a pong from a live, negotiated peer, the ping  *)
(* it awaits is really in flight, and the `since` of AwaitingPong is the   *)
(* moment that ping left: the manager's `now - since` is the time the ping *)
(* and its pong have been travelling.  Breaks if a re-ping in              *)
(* timer_expired, or peer_negotiated, keeps a stale `since` or a nonce     *)
(* other than the one it sent.                                             *)
AwaitingTracksPing ==
    \A p \in DOMAIN peers :
        (link[p] = "negotiated" /\ remote[p] = "up" /\ peers[p].state.tag = "AwaitingPong")
            => [nonce |-> peers[p].state.nonce, rt |-> peers[p].state.age] \in InFlight(p)

(* A pong the manager accepts from a live peer is the answer to the ping  *)
(* it awaits, and the latency it records is that ping's true round trip:  *)
(* every step that takes p from AwaitingPong to Idle delivers our pong and *)
(* records its round-trip time.  Breaks if received_pong matched a stale  *)
(* or forged nonce.                                                        *)
LatencyIsRoundTrip ==
    [][\A p \in DOMAIN peers \cap DOMAIN peers' :
          (/\ remote[p] = "up"
           /\ peers[p].state.tag = "AwaitingPong"
           /\ peers'[p].state.tag = "Idle")
             => /\ toUs[p] # <<>>
                /\ Ours(Head(toUs[p]))
                /\ Head(peers'[p].latencies) = Head(toUs[p]).rt]_vars

(* A remote that answers every ping within ResponseBound < ping_timeout is *)
(* never disconnected for a ping timeout: no disconnect Io for it is       *)
(* queued and its connection is never closing.  This is what the          *)
(* timeout check of timer_expired must guarantee against late ticks,       *)
(* re-pings and unsolicited pongs.                                         *)
NoFalseTimeout ==
    \A p \in Peer :
        remote[p] = "up" => (link[p] # "closing" /\ DisconnectIo(p) \notin Fn!Range(outbox))

(* The number of our pings to p still in flight: in the Outbox, or it or   *)
(* its pong on the wire.                                                   *)
PingsInFlight(p) ==
    Len(SelectSeq(outbox, LAMBDA io : io.kind = "ping" /\ io.peer = p))
    + Len(SelectSeq(toPeer[p], Ours)) + Len(SelectSeq(toUs[p], Ours))

(* One outstanding ping per connection (BIP 31; the TODO in timer_expired *)
(* notes pings never overlap): timer_expired pings a peer again only once  *)
(* its previous ping has been answered.  Breaks if a re-ping leaves the    *)
(* record Idle or a pong is accepted while the awaited ping is still out.  *)
OnePingInFlight ==
    \A p \in Peer : PingsInFlight(p) <= 1

(* A peer that stops answering is eventually dropped: its record is        *)
(* deleted, which happens only through the PeerDisconnected that follows   *)
(* the disconnect Io of timer_expired (spec.md 8, properties 6 and 10).    *)
HungPeerDropped ==
    \A p \in Peer :
        (remote[p] = "hung" /\ p \in DOMAIN peers) ~> p \notin DOMAIN peers

(* A peer that has answered a re-ping keeps being pinged: once Idle, it is *)
(* pinged again or its record goes away.  With two latency samples, its    *)
(* last ping was a re-ping of timer_expired, which armed                   *)
(* set_timer(ping_timeout) and set_timer(PING_INTERVAL) (spec.md 4.2, 8    *)
(* scenario 9), so the manager's own timers should bring the next tick.    *)
RepingedPeerPingedAgain ==
    \A p \in Peer :
        (p \in DOMAIN peers /\ Len(peers[p].latencies) >= 2 /\ peers[p].state.tag = "Idle")
            ~> (p \notin DOMAIN peers \/ peers[p].state.tag = "AwaitingPong")

-----------------------------------------------------------------------------
(* Refinement.  Each address, seen through the manager's record, the       *)
(* transport and the remote node, behaves as PeerLiveness prescribes:      *)
(* tracked while the manager has a record, outstanding while it is         *)
(* AwaitingPong, flagged once a disconnect Io for it is queued or executed, *)
(* responsive while the remote answers.                                    *)
PL(p) == INSTANCE PeerLiveness WITH
    tracked     <- p \in DOMAIN peers,
    outstanding <- p \in DOMAIN peers /\ peers[p].state.tag = "AwaitingPong",
    flagged     <- link[p] = "closing" \/ DisconnectIo(p) \in Fn!Range(outbox),
    responsive  <- remote[p] = "up"

(* Every address follows the abstract lifecycle, fairness included.  The   *)
(* record is created only when absent (HashMap::insert never overwrites a  *)
(* live record), only an awaited pong ends a wait, only a silent peer gets *)
(* the disconnect of timer_expired, an answered peer is pinged again, a     *)
(* silent one flagged, and a flagged one dropped.  This is                *)
(* \A p \in Peer : PL(p)!Spec, with the box moved outside the quantifier.  *)
PeerLivenessRefined ==
    /\ \A p \in Peer : PL(p)!Init
    /\ [][\A p \in Peer : PL(p)!Next \/ UNCHANGED PL(p)!avars]_vars
    /\ \A p \in Peer : PL(p)!Fairness

=============================================================================
