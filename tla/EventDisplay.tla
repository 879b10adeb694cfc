--------------------------- MODULE EventDisplay ----------------------------
(***************************************************************************)
(* fmt::Display for Event and TxStatus (src/p2p/src/fsm/event.rs): the     *)
(* one-line text each event variant is logged as.  An event is a record   *)
(* of its variant and the fields its rendering reads.  Fields an arm      *)
(* skips ("..", "_ = filter") cannot change the text and are left out, so  *)
(* events that differ only in them are one record here: a line names the  *)
(* variant, not the event.  Field values are rendered by what their        *)
(* Display does: heights and fee rates in decimal, booleans as             *)
(* true/false, a SocketAddr as ip:port, a hash or txid as its hex string.  *)
(*                                                                          *)
(* A checking harness walks over pairs of events, prev and cur.            *)
(***************************************************************************)
EXTENDS Naturals, Sequences, TLC

CONSTANTS
    Addr, Height, Hash, Tx,  \* as in TxStatusOrder
    Text,                    \* a reason or error message, as displayed
    Cmd,                     \* NetworkMessage::cmd() of a received message
    Services                 \* ServiceFlags, as displayed

VARIABLES prev, cur

TS == INSTANCE TxStatusOrder

(* Display of the field types. *)
AddrText(a) == "10.0.0." \o ToString(a) \o ":8333"
HashText(h) == "00000000" \o ToString(h)
BoolText(b) == IF b THEN "true" ELSE "false"
(* Option<Height>: None as the empty sequence, Some(h) as <<h>>. *)
NoStop == <<>>
Some(h) == <<h>>
(* The backtick MessageReceived quotes cmd with; a TLA+ string cannot hold *)
(* one, so it is written as a single quote (the same character both sides).*)
Backtick == "'"

(* Mutant: the Stale arm copied from the Reverted one. *)
TxStatusTextStaleAsReverted(s) ==
    CASE s.tag = "Unconfirmed"  -> "transaction is unconfirmed"
      [] s.tag = "Acknowledged" -> "transaction was acknowledged by peer " \o AddrText(s.peer)
      [] s.tag = "Confirmed"    -> "transaction was included in block " \o HashText(s.block)
                                     \o " at height " \o ToString(s.height)
      [] s.tag = "Reverted"     -> "transaction " \o HashText(s.transaction) \o " has been reverted"
      [] s.tag = "Stale"        -> "transaction " \o HashText(s.replaced_by) \o " has been reverted"

(* TxStatus as Display. *)
TxStatusText(s) ==
    CASE s.tag = "Unconfirmed"  -> "transaction is unconfirmed"
      [] s.tag = "Acknowledged" -> "transaction was acknowledged by peer " \o AddrText(s.peer)
      [] s.tag = "Confirmed"    -> "transaction was included in block " \o HashText(s.block)
                                     \o " at height " \o ToString(s.height)
      [] s.tag = "Reverted"     -> "transaction " \o HashText(s.transaction) \o " has been reverted"
      [] s.tag = "Stale"        -> "transaction was replaced by " \o HashText(s.replaced_by)
                                     \o " in block " \o HashText(s.block)

(* enum Event, each variant with the fields its rendering reads. *)
E(k) == [kind |-> k]
Events ==
    {E("Initializing"), E("Ready"), E("AddressBookExhausted")}
    \cup [kind : {"PeerLoadedBloomFilter", "PeerConnecting", "PeerTimedOut"}, addr : Addr]
    \cup [kind : {"PeerConnected"}, addr : Addr, link : {"Inbound", "Outbound"}]
    \cup [kind : {"PeerDisconnected", "PeerMisbehaved", "PeerConnectionFailed"}, addr : Addr, text : Text]
    \cup [kind : {"PeerNegotiated"}, addr : Addr, services : Services, height : Height]
    \cup [kind : {"PeerHeightUpdated", "BlockMatched", "FilterRescanStopped", "MerkleBlockRescanStopped",
                  "FilterHeadersSynced", "Scanned"}, height : Height]
    \cup [kind : {"MerkleBlockScanStarted"}, start : Height]
    \cup [kind : {"BlockConnected", "BlockDisconnected", "BlockProcessed", "BlockHeadersSynced"},
          hash : Hash, height : Height]
    \cup [kind : {"ReceivedMerkleBlock"}, height : Height, addr : Addr]
    \cup [kind : {"BlockHeadersImported", "BlockFilterImported"}, hash : Hash, height : Height, reorg : BOOLEAN]
    \cup [kind : {"FeeEstimated"}, height : Height, median : Height]
    \cup [kind : {"FilterProcessed"}, height : Height, matched : BOOLEAN]
    \cup [kind : {"FilterReceived"}, addr : Addr, hash : Hash]
    \cup [kind : {"FilterRescanStarted"}, start : Height, stop : {NoStop} \cup {Some(h) : h \in Height}]
    \cup [kind : {"TxStatusChanged"}, txid : Tx, status : TS!TxStatus]
    \cup [kind : {"ReceivedMatchedTx"}, txid : Tx]
    \cup [kind : {"MessageReceived"}, addr : Addr, cmd : Cmd]
    \cup [kind : {"Error"}, text : Text]

(* Mutant: PeerTimedOut rendered with PeerConnecting's template. *)
RenderCopyPaste(e) == "Connecting to peer " \o AddrText(e.addr)

(* The PeerTimedOut arm. *)
RenderTimedOut(e) == "Peer " \o AddrText(e.addr) \o " timed out"

(* Event as Display, one arm per variant. *)
Render(e) ==
    LET h == IF "height" \in DOMAIN e THEN ToString(e.height) ELSE "" IN
    CASE e.kind = "Initializing" -> "Initializing peer-to-peer system.."
      [] e.kind = "PeerLoadedBloomFilter" -> "Bloom filter loaded to peer " \o AddrText(e.addr)
      [] e.kind = "MerkleBlockScanStarted" -> "A merkle block rescan started at height " \o ToString(e.start)
      [] e.kind = "MerkleBlockRescanStopped" -> "A merkle block resan stopped " \o h
      [] e.kind = "Ready" -> "Ready to process events and commands"
      [] e.kind = "BlockHeadersSynced" ->
             "Chain in sync with network at height " \o h \o " (" \o HashText(e.hash) \o ")"
      [] e.kind = "ReceivedMerkleBlock" -> "MerkleBlock received at height " \o h \o " from " \o AddrText(e.addr)
      [] e.kind = "BlockFilterImported" ->
             "Block Filters imported to " \o HashText(e.hash) \o " at height " \o h \o " (reorg=" \o BoolText(e.reorg) \o ")"
      [] e.kind = "BlockHeadersImported" ->
             "Chain tip updated to " \o HashText(e.hash) \o " at height " \o h \o " (reorg=" \o BoolText(e.reorg) \o ")"
      [] e.kind = "BlockConnected" -> "Block " \o HashText(e.hash) \o " connected at height " \o h
      [] e.kind = "BlockDisconnected" -> "Block " \o HashText(e.hash) \o " disconnected at height " \o h
      \* {:?} of a BlockHash forwards to its hex Display
      [] e.kind = "BlockProcessed" -> "Block " \o HashText(e.hash) \o " processed at height " \o h
      [] e.kind = "BlockMatched" -> "Block matched at height " \o h
      [] e.kind = "FeeEstimated" ->
             "Transaction median fee rate for block #" \o h \o " is " \o ToString(e.median) \o " sat/vB"
      [] e.kind = "FilterRescanStarted" /\ e.stop # NoStop ->
             "Rescan started from height " \o ToString(e.start) \o " to " \o ToString(e.stop[1])
      [] e.kind = "FilterRescanStarted" /\ e.stop = NoStop -> "Rescan started from height " \o ToString(e.start)
      [] e.kind = "FilterRescanStopped" -> "Rescan completed at height " \o h
      [] e.kind = "FilterHeadersSynced" -> "Filter headers synced up to height " \o h
      [] e.kind = "FilterReceived" -> "Filter for block " \o HashText(e.hash) \o " received from " \o AddrText(e.addr)
      [] e.kind = "FilterProcessed" -> "Filter processed at height " \o h \o " (match = " \o BoolText(e.matched) \o ")"
      [] e.kind = "TxStatusChanged" ->
             "Transaction " \o HashText(e.txid) \o " status changed: " \o TxStatusText(e.status)
      [] e.kind = "Scanned" -> "Chain scanned up to height " \o h
      [] e.kind = "PeerConnected" -> "Peer " \o AddrText(e.addr) \o " connected (" \o e.link \o ")"
      [] e.kind = "PeerConnectionFailed" ->
             "Peer connection attempt to " \o AddrText(e.addr) \o " failed with " \o e.text
      [] e.kind = "PeerHeightUpdated" -> "Peer height updated to " \o h
      [] e.kind = "ReceivedMatchedTx" -> "Received transaction match " \o HashText(e.txid)
      [] e.kind = "PeerMisbehaved" -> "Peer " \o AddrText(e.addr) \o " misbehaved: " \o e.text
      [] e.kind = "PeerDisconnected" -> "Disconnected from " \o AddrText(e.addr) \o " (" \o e.text \o ")"
      [] e.kind = "PeerTimedOut" -> RenderTimedOut(e)
      [] e.kind = "PeerConnecting" -> "Connecting to peer " \o AddrText(e.addr)
      [] e.kind = "PeerNegotiated" ->
             "Peer " \o AddrText(e.addr) \o " negotiated with services " \o e.services \o " and height " \o h \o ".."
      [] e.kind = "MessageReceived" -> "Message " \o Backtick \o e.cmd \o Backtick \o " received from " \o AddrText(e.addr)
      [] e.kind = "AddressBookExhausted" -> "Address book exhausted.. fetching new addresses from peers"
      [] e.kind = "Error" -> "Error: " \o e.text

-----------------------------------------------------------------------------
(* The representative renderings spec.md 6 requires, with the fields      *)
(* substituted in.                                                          *)
SpecKinds == {"Initializing", "Ready", "PeerConnecting", "PeerTimedOut", "PeerMisbehaved",
              "BlockHeadersSynced", "FilterRescanStarted", "AddressBookExhausted"}

SpecRow(e) ==
    CASE e.kind = "Initializing" -> "Initializing peer-to-peer system.."
      [] e.kind = "Ready" -> "Ready to process events and commands"
      [] e.kind = "PeerConnecting" -> "Connecting to peer " \o AddrText(e.addr)
      [] e.kind = "PeerTimedOut" -> "Peer " \o AddrText(e.addr) \o " timed out"
      [] e.kind = "PeerMisbehaved" -> "Peer " \o AddrText(e.addr) \o " misbehaved: " \o e.text
      [] e.kind = "BlockHeadersSynced" ->
             "Chain in sync with network at height " \o ToString(e.height) \o " (" \o HashText(e.hash) \o ")"
      [] e.kind = "FilterRescanStarted" ->
             "Rescan started from height " \o ToString(e.start) \o " to " \o ToString(e.stop[1])
      [] e.kind = "AddressBookExhausted" -> "Address book exhausted.. fetching new addresses from peers"

(* Every variant spec.md 6 lists renders exactly as the table requires     *)
(* (FilterRescanStarted in its stop = Some(s) row).  Breaks if an arm of   *)
(* Display uses another variant's template or drops a field.               *)
RenderMatchesSpec ==
    (cur.kind \in SpecKinds /\ ~(cur.kind = "FilterRescanStarted" /\ cur.stop = NoStop))
        => Render(cur) = SpecRow(cur)

(* A log line names the variant it was rendered from: two events whose    *)
(* text is equal are of the same variant, and a TxStatusChanged line names *)
(* the status variant too (spec.md 4.3: exactly one mapping per variant).  *)
(* Breaks if an arm, among all 33 and the five TxStatus arms, reuses the   *)
(* template of another.                                                    *)
RenderDeterminesVariant ==
    Render(prev) = Render(cur) =>
        /\ prev.kind = cur.kind
        /\ prev.kind = "TxStatusChanged" => prev.status.tag = cur.status.tag

Init == prev \in Events /\ cur \in Events
Next == \E e \in Events : prev' = cur /\ cur' = e
Spec == Init /\ [][Next]_<<prev, cur>>

=============================================================================
