# TLA+ models of nakamoto's ping manager and event types

This directory holds TLA+ models of the Rust sources under `src/`. They are checked with TLC.

- `src/p2p/src/fsm/pingmgr.rs` is the liveness manager (BIP 31).
- `src/p2p/src/fsm/event.rs` holds the event taxonomy and the `TxStatus` order.
- `src/common/src/lib.rs` is a crate root with the `source!` macro (not modelled, see §6).

## 1. The system

### Parts

**PingManager** (`pingmgr.rs`) is a sans-I/O state machine. Its state has three parts:

- a `HashMap<PeerId, Peer>`;
- an `Outbox`, which is a FIFO of `Io`;
- an injected `Clock` and an `rng`.

Each `Peer` record holds two things:

- a `State`, either `AwaitingPong { nonce, since }` or `Idle { since }`;
- a `VecDeque` of at most 64 latency samples, newest first.

Its operations are:

- `received_event`, which dispatches on the event:
  - `PeerNegotiated` leads to `peer_negotiated`, which draws a nonce, queues a ping and inserts an `AwaitingPong` record.
  - `PeerDisconnected` removes the record.
  - `MessageReceived(Ping)` leads to `received_ping`, which answers with a pong if the peer is known.
  - `MessageReceived(Pong)` leads to `received_pong`. It accepts only the awaited nonce, records the latency and goes `Idle`.
  - Every other event is ignored.
- `timer_expired`, which visits every record in hash order:
  - An `AwaitingPong` record older than `ping_timeout` gets a queued `disconnect`.
  - An `Idle` record older than `PING_INTERVAL` gets a new ping and two `set_timer`s, and goes to `AwaitingPong { since: now }`.
- `Iterator::next`, through which the driver pops the Outbox.

**Event** (`event.rs`) is the closed set of 33 event variants the manager receives. Its `Display` is the one-line text each event is logged as (spec.md §4.3, §6).

**TxStatus** (`event.rs`) is a transaction's lifecycle status. Its order comes from `#[derive(PartialOrd, Ord)]`. spec.md §4.4 and `test_tx_status_ordering` require that order to follow the lifecycle.

**Not in this repository, and modelled from spec.md** (§2, §3, §5, §6):

- `output.rs`: the `Outbox` and `Io`.
- The driver (reactor): it feeds events and ticks to the manager and drains the Outbox after each one.
- The transport: it opens and closes connections and turns wire messages into `MessageReceived`.
- The remote nodes.

### How they interact

The driver calls `received_event` and `timer_expired` one at a time. After each call it drains the Outbox and executes each Io:

- a ping or pong is written to the connection;
- a disconnect closes the connection, and the transport later reports `PeerDisconnected`;
- a `set_timer` schedules a later `timer_expired`.

Time passes only between these stimuli.

## 2. Modules

| Module | Models | State | Actions |
|---|---|---|---|
| `PingManager` | `pingmgr.rs` | `peers` (the HashMap as a function), `outbox` | `PeerNegotiated`, `PeerDisconnected`, `ReceivedPing`, `ReceivedPong`, `TimerExpired`, `ReceivedEvent` (dispatch), `PopIo`, and `Elapse` (clock) |
| `PingSystem` | manager + driver + transport + remote nodes (spec.md) | adds `link`, `remote`, `toPeer`, `toUs`, `timers` | `Connect`, `Negotiate`, `CloseRequested`, `CloseByRemote`, `Deliver`, `Drain`, `RemoteReceive`, `RemoteSend`, `Hang`, `Tick`, `TimerTick`, `Tock` |
| `PeerLiveness` | what the manager promises about one address (abstract) | `tracked`, `outstanding`, `flagged`, `responsive` | `Track`, `Answer`, `Probe`, `Flag`, `Drop`, `Hang`, `Revive`, with fairness |
| `MCPingSystem` | model values for TLC | | |
| `TxStatusOrder` | `TxStatus` and its derived `Ord` | `prev`, `cur`, a walk over pairs of statuses | `Next` draws the next status |
| `MCTxStatusOrder` | the instance for TLC | | |
| `EventDisplay` | `Display` for `Event` and `TxStatus` | `prev`, `cur`, a walk over pairs of events | `Next` draws the next event; `Render` has one arm per variant |
| `MCEventDisplay` | the instance for TLC | | |

### Abstractions

**Time.** A record does not store `since`. It stores its age, `now - since`.

- The ages are capped at `AgeCap = max(PingTimeout, PingInterval)`. Every guard in the code compares `now - since >= D` for one of these two durations, so the cap changes no guard.
- A latency sample is the age itself.
- `Tock` advances the clock by one unit.

**Nonces.** `rng.u64(..)` is replaced by a draw from a small set `Nonce`.

- `timer_expired` may draw a fresh nonce for every peer it re-pings. It takes them all as one function `draw`.
- An unsolicited, duplicated or forged pong carries `StaleNonce`. This is a value outside `Nonce`, because a random 64-bit match is negligible.

**Hash order.** The HashMap's hasher is seeded from the `rng`, so the iteration order of `timer_expired` is any permutation of the peers (`SetToSeqs`).

**Round trips.** Each of our pings and pongs on the wire carries a ghost field `rt`: the time since that ping left the Outbox. With it, the properties compare the manager's `now - since` with the real round trip.

**Rendering.** An event is a record of its variant and the fields its arm prints; fields an arm skips are left out. Field types are rendered by what their `Display` does: numbers in decimal, `bool` as `true`/`false`, an address as `ip:port`, a hash or txid as hex (a fixed prefix and the value). An `Option<Height>` is `<<>>` or `<<h>>`. A TLA+ string cannot hold a backtick, so the backticks around a command name are written as `'`; both sides use the same character, so no two lines are merged by this.

**Messages.**

- Pongs that we send are dropped after execution, because the remote only consumes them.
- Messages other than ping and pong are a single `OtherMsg`.

**Ticks.**

- `TimerTick` is `timer_expired` fired because a timer the manager armed is due.
- `Tick` is `timer_expired` at any other time: a periodic tick, or the timer of another manager.
- The constant `TickSource` chooses what the driver guarantees:
  - `"periodic"`: `Tick` is fair.
  - `"timers"`: only the manager's own timers are fair.

## 3. Runs

| Run | Config | Expect | Shows |
|---|---|---|---|
| `ping_safety` | `MCPingSystem.cfg` | pass | One address against every remote behaviour (answer, unsolicited ping/pong/other, hang, close). Checks the type invariant `SysTypeOK`, `AwaitingTracksPing`, `OnePingInFlight`, `NoFalseTimeout` and `LatencyIsRoundTrip` (see below). |
| `ping_two_peers` | `MCPingTwoPeers.cfg` | pass | `AwaitingTracksPing`, `OnePingInFlight` and `NoFalseTimeout` with two addresses. One `timer_expired` handles both records in either hash order, and their Io interleave in the Outbox: each Io must carry its own peer's address and nonce. `LatencyIsRoundTrip` is left to `ping_safety`: with no unsolicited messages here, no stale pong can arrive. |
| `ping_refinement` | `MCPingRefinement.cfg` | pass | `PeerLivenessRefined`: with one address and every remote behaviour, the system implements `PeerLiveness`, fairness included, under a periodic tick. |
| `ping_refinement_two` | `MCPingRefinementTwo.cfg` | pass | The same refinement with two addresses sharing `timer_expired` and the Outbox. |
| `ping_timers_liveness` | `MCPingTimers.cfg` | violation | `HungPeerDropped` fails when only the manager's own timers wake it. |
| `ping_reping_timers` | `MCPingRepingTimers.cfg` | violation | `RepingedPeerPingedAgain` fails under the same driver, even for a peer whose re-ping armed both timers. |
| `txstatus_order` | `MCTxStatusOrder.cfg` | pass | `OrderMatchesSpec`: the derived order equals the lifecycle order of spec.md §4.4 on every pair. |
| `event_display` | `MCEventDisplay.cfg` | pass | `RenderMatchesSpec` and `RenderDeterminesVariant` over every pair of the 135 events the bounds give. |

### Properties

- **`AwaitingTracksPing`** (invariant). For a negotiated live peer, when the manager awaits a pong:
  - the awaited nonce is really in flight, in the Outbox or on the wire;
  - its age equals that ping's round trip so far.

  It catches a re-ping that keeps a stale `since` or records the wrong nonce (`pingmgr.rs:159`).
- **`LatencyIsRoundTrip`** (action property). Any step that takes a live peer from `AwaitingPong` to `Idle`:
  - delivers our own pong;
  - records exactly its round trip.

  It catches matching a stale or forged nonce (`pingmgr.rs:186`).
- **`OnePingInFlight`** (invariant). At most one of our pings per connection is in flight, counting the Outbox and both wires. BIP 31 asks for this, and the TODO at `pingmgr.rs:136` relies on it. It catches a re-ping that does not move the record to `AwaitingPong`.
- **`NoFalseTimeout`** (invariant). A remote that always answers within `ResponseBound < ping_timeout` is never closed for a timeout, and no disconnect for it is ever queued. It catches an off-by-one at `pingmgr.rs:143`.
- **`PeerLivenessRefined`** (refinement). For every address, the record, the transport and the remote, seen through the mapping below, behave as `PeerLiveness` prescribes:

  | Abstract | Concrete |
  |---|---|
  | `tracked` | the manager has a record |
  | `outstanding` | the record is `AwaitingPong` |
  | `flagged` | a disconnect Io for the address is queued, or the link is closing |
  | `responsive` | the remote is up |

  Its steps say:
  - a record is created only for an untracked address, so `HashMap::insert` at `pingmgr.rs:119` never overwrites under this transport;
  - only an outstanding ping is answered;
  - only an answered peer is pinged again;
  - only a silent peer with a ping out is flagged.

  Its fairness says that, under a periodic tick:
  - a responsive peer's ping is answered;
  - an answered peer is pinged again;
  - a silent peer is flagged;
  - a flagged peer is dropped.

  It is stated as `\A p : PL(p)!Spec`, with the box moved outside the quantifier, which TLC requires. It subsumes the earlier liveness properties (a hung peer is dropped, an idle peer is pinged again).
- **`RenderMatchesSpec`** (invariant). Every variant the table of spec.md §6 lists renders as that row says, with the fields put in (`FilterRescanStarted` in its `Some(stop)` row). It catches an arm that uses another variant's template.
- **`RenderDeterminesVariant`** (invariant). Two events that render the same line are of the same variant, and for `TxStatusChanged` of the same status variant (spec.md §4.3: one mapping per variant). It is checked over all 33 `Event` arms and the 5 `TxStatus` arms, not only the eight rows of the table. It catches an arm that reuses another's template. It does not say that a line identifies its event. The code drops fields on purpose (`..`, `_ = filter`): `MerkleBlockScanStarted` prints neither its `stop` nor its peer, and `PeerLoadedBloomFilter` drops its filter (spec.md §9). The model leaves those fields out.
- **`RepingedPeerPingedAgain`** (liveness). A peer that has answered a re-ping (two latency samples) and is Idle is eventually pinged again, or its record goes away. It is checked only in the violation run below, under the timers-only driver.
- **`HungPeerDropped`** (liveness). A hung peer's record is eventually deleted. It is checked only in the violation run below, where no periodic tick is assumed.

### Finding

`peer_negotiated` (`pingmgr.rs:118`) queues the first ping without a `set_timer`. The re-ping at `pingmgr.rs:154-157` arms `set_timer(ping_timeout)` and `set_timer(PING_INTERVAL)`. As a result:

- Under a driver that runs `timer_expired` only on armed timers, a peer that hangs before its first pong is never disconnected.
- A peer that answers its first ping sits Idle with no timer armed.

TLC's counter-example to `HungPeerDropped` under `MCPingTimers.cfg`:

1. Connect.
2. Hang.
3. Negotiate.
4. Drain the ping.
5. Time passes forever and no tick ever comes.

spec.md §2 and §6 assume a periodic tick. Scenario 10 of spec.md §8 expects a tick at `ping_timeout` after negotiation, which nothing in the manager requests.

### Second finding

The re-ping at `pingmgr.rs:154-157` arms `set_timer(ping_timeout)` and `set_timer(PING_INTERVAL)`. Both are counted from the ping, but the next re-ping is due `PING_INTERVAL` after the pong, because `received_pong` sets `Idle { since: now }` (`pingmgr.rs:188`).

- Say the pong comes `r` after the ping. The `ping_timeout` timer finds the record due only if `r <= ping_timeout - PING_INTERVAL`, which is 8 of 10 minutes by default. If `r <= PING_INTERVAL`, the `PING_INTERVAL` timer fires too early as well.
- A slower pong, which is still within the timeout, leaves no armed timer at which the record is due. Under a driver that wakes the manager only on its own timers, the peer is never pinged again.

TLC's counter-example to `RepingedPeerPingedAgain` under `MCPingRepingTimers.cfg` (`PingTimeout = 3`, `PingInterval = 2`):

1. The first ping is answered.
2. One other tick re-pings, arming timers at +2 and +3.
3. The remote puts its pong on the wire, then hangs.
4. The pong is read 2 units after the ping, so the record goes Idle with age 0.
5. The timer at +2 fires: age 0. The timer at +3 fires: age 1. Neither reaches the interval of 2.
6. No further tick comes. The hung peer stays Idle and is never checked again.

Under the periodic tick of spec.md §2, `PeerLivenessRefined` shows that every answered peer is pinged again.

### Mutants

Each property of a passing run is broken by a plausible bug in the mapped code:

| Mutated definition | Bug | Breaks |
|---|---|---|
| `RecordLatency` | no truncate | `SysTypeOK` |
| `TickState` | re-ping keeps the old `since` | `AwaitingTracksPing` |
| `TickState` | re-ping leaves the peer Idle | `OnePingInFlight`, `PeerLivenessRefined` (two peers) |
| `TickIo` | `>=` off by one | `NoFalseTimeout`, `PeerLivenessRefined` (one peer) |
| `PongMatches` | any pong is accepted | `LatencyIsRoundTrip` |
| `Fields` | `Confirmed` fields swapped | `OrderMatchesSpec` |
| `RenderTimedOut` | `PeerTimedOut` printed with `PeerConnecting`'s template | `RenderMatchesSpec` |
| `TxStatusText` | the `Stale` arm copied from `Reverted` | `RenderDeterminesVariant` |

## 4. Bounds

PingSystem runs use the following bounds:

- `PingTimeout = 3`, `PingInterval = 1`, `ResponseBound = 2`.
  - A live remote can take up to 2 units against a timeout of 3, so the timeout boundary (`age = 2` vs `3`) is reached.
  - An Idle peer is re-pinged after one unit, so several ping rounds happen within the age cap.
- Two nonces plus `StaleNonce`. A re-ping can draw the same nonce as the ping before it or a different one, and a remote's own ping can carry either. An unsolicited, duplicated or forged pong carries `StaleNonce`.
- `MaxRecordedLatencies = 2` in `ping_safety`, so the ring fills and is truncated. It is 1 elsewhere, where it is still truncated on every second pong.
- `MaxWire`, the number of unsolicited messages a remote may have in flight:
  - 2 in `ping_safety` and `ping_refinement`;
  - 1 in `ping_timers_liveness`;
  - 0 in `ping_reping_timers`, which needs only our own pings;
  - 0 in `ping_two_peers` and `ping_refinement_two`. This keeps the state space small, and unsolicited traffic per peer is already covered by `ping_safety`.
- `ping_safety` and `ping_two_peers` use symmetry over peers and nonces. This is sound: the model treats both as interchangeable model values, and no property names one.
- `ping_reping_timers` uses `PingInterval = 2` against `PingTimeout = 3` and `ResponseBound = 2`. A pong at age 2 then exceeds `ping_timeout - PING_INTERVAL = 1`, which is the case the finding needs. It also uses `MaxRecordedLatencies = 2`, so that two samples can be seen.
- `ping_two_peers` keeps `MaxWire = 0`. With one unsolicited message per remote it still passes, but takes about three minutes.
- `ping_refinement_two` uses `PingTimeout = 2` and `ResponseBound = 1` (the timeout boundary is still reached) and a single nonce. With no unsolicited messages and one ping in flight, every pong answers the awaited ping, so one nonce loses nothing. With 3/2 the run takes over six minutes.
- The refinement runs explore only states that satisfy `OnePingInFlight` (`CONSTRAINT`). The safety runs show that the constraint never binds for the code as written. It keeps the wire finite for mutants that overlap pings.
- The `event_display` run has two values of every field type: two addresses, heights, hashes, txids, texts, commands and service sets. So every arm is rendered with different field values, and a template shared by two arms shows up as two variants with one line. Every pair of the 135 events is checked: 18,225 states.
- The `TxStatus` run has 2 values of every field type, so there are ties and strict comparisons in every field.

## 5. Fairness

The fairness conditions, and the code behaviour that justifies each:

- **`WF(Drain)`.** The driver drains the Outbox after each stimulus (spec.md §5).
- **`WF(RemoteReceive)`.** A live remote keeps reading its connection.
- **`SF` on `TimerTick`, `Tock`, `Deliver` and `CloseRequested`, and on `Tick` when `TickSource = "periodic"`.** A due timer fires, time passes, and the transport eventually delivers what it has read and the close it was asked for.
  - Strong fairness is needed because these are stimuli. They are enabled only while the Outbox is empty.
  - A remote that keeps pinging refills the Outbox, and so does a tick that re-queues a disconnect for a timed-out peer (there is no debounce, `pingmgr.rs:144`). Under weak fairness TLC finds lassos in which these starve the close.

Connecting, negotiating, remote sends, hangs and remote closes are not guaranteed.

`PeerLiveness` assumes only weak fairness of `Answer` (while responsive), `Probe`, `Flag` and `Drop` (while flagged). The refinement runs check that the fairness above implies these. No fairness is assumed for `Track`, `Hang` or `Revive`.

## 6. Not modelled

- `lib.rs`. The module declarations and re-exports have no behaviour. The `source!()` macro cuts three bytes off the `std::any::type_name` of a nested `fn f`. std does not specify that format, so a model has to assume it ends in `::f`, and the cut is then correct by construction. No property of the macro can be checked.
- `Peer::latency` (`pingmgr.rs:46-50`). It is `#[allow(dead_code)]` and nothing in this repository calls it, so no step of the model does either. It would divide by zero on the empty history every record has until its first pong.
- The `Display` of `SocketAddr`, hashes and `bool` comes from other crates. It is modelled by what it does (`AddrText`, `HashText`, `BoolText`), not from source.
- The other managers (address book, sync, peer, inventory, filter) are not in this repository. Their timers appear only as the unforced `Tick`.
- Event payloads other than the address and the ping/pong nonce. Only `PingManager` reads events, and it reads nothing else. The payloads matter only to rendering, and `EventDisplay` models them there.
- The unit test `test_tx_status_ordering` (`event.rs:540-581`) is not translated. The order it asserts is a sub-chain of the order `OrderMatchesSpec` checks on every pair.
- Clock regressions. `now - since` assumes the monotonic clock of spec.md §2, and the model's clock only moves forward.

Everything in this repository that changes state is an action of some module. What remains (the driver, the transport, the other managers) is not in the repository, and is modelled only as far as spec.md describes it.

## 7. Plan for further work

Done: the abstract `PeerLiveness` with its refinement, with one address and with two.

1. Re-negotiation of an address that is already known (`HashMap::insert` overwriting, `pingmgr.rs:119`). This needs a transport that can report `PeerNegotiated` twice.
2. A driver that fires the first timeout from the spec's scenario 10, and that re-arms timers after a slow pong (see the second finding). It would show which driver contract makes `HungPeerDropped` and `RepingedPeerPingedAgain` hold without a periodic tick.
