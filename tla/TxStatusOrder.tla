--------------------------- MODULE TxStatusOrder ---------------------------
(***************************************************************************)
(* The total order of TxStatus (src/p2p/src/fsm/event.rs), which the code  *)
(* obtains from #[derive(PartialOrd, Ord)]: variants compare by their      *)
(* position in the enum, values of one variant by their fields in          *)
(* declaration order, lexicographically.  The field types are abstracted   *)
(* to small sets of naturals under their own order: SocketAddr, Height,    *)
(* BlockHash and Txid (both compared as byte arrays), Transaction.         *)
(*                                                                          *)
(* A checking harness walks over pairs of statuses: `prev` and `cur` are   *)
(* the last two statuses drawn.                                            *)
(***************************************************************************)
EXTENDS Naturals, Sequences

LOCAL SeqExt == INSTANCE SequencesExt

CONSTANTS
    Addr,     \* peer: net::SocketAddr
    Height,   \* height: Height
    Hash,     \* block: BlockHash, replaced_by: Txid
    Tx        \* transaction: Transaction

ASSUME Addr \subseteq Nat /\ Height \subseteq Nat /\ Hash \subseteq Nat /\ Tx \subseteq Nat

VARIABLES prev, cur

(* enum TxStatus *)
Unconfirmed      == [tag |-> "Unconfirmed"]
Acknowledged(a)  == [tag |-> "Acknowledged", peer |-> a]
Confirmed(h, b)  == [tag |-> "Confirmed", height |-> h, block |-> b]
Reverted(t)      == [tag |-> "Reverted", transaction |-> t]
Stale(r, b)      == [tag |-> "Stale", replaced_by |-> r, block |-> b]

TxStatus ==
    {Unconfirmed} \cup {Acknowledged(a) : a \in Addr}
    \cup {Confirmed(h, b) : h \in Height, b \in Hash}
    \cup {Reverted(t) : t \in Tx}
    \cup {Stale(r, b) : r \in Hash, b \in Hash}

(* The discriminant derive(Ord) compares first: declaration order. *)
Discriminant(s) ==
    CASE s.tag = "Unconfirmed"  -> 0
      [] s.tag = "Acknowledged" -> 1
      [] s.tag = "Confirmed"    -> 2
      [] s.tag = "Reverted"     -> 3
      [] s.tag = "Stale"        -> 4

(* Mutant: Confirmed declares its fields as { block, height }. *)
FieldsSwapped(s) ==
    CASE s.tag = "Unconfirmed"  -> <<>>
      [] s.tag = "Acknowledged" -> <<s.peer>>
      [] s.tag = "Confirmed"    -> <<s.block, s.height>>
      [] s.tag = "Reverted"     -> <<s.transaction>>
      [] s.tag = "Stale"        -> <<s.replaced_by, s.block>>

(* The fields derive(Ord) compares next, in declaration order. *)
Fields(s) ==
    CASE s.tag = "Unconfirmed"  -> <<>>
      [] s.tag = "Acknowledged" -> <<s.peer>>
      [] s.tag = "Confirmed"    -> <<s.height, s.block>>
      [] s.tag = "Reverted"     -> <<s.transaction>>
      [] s.tag = "Stale"        -> <<s.replaced_by, s.block>>

(* Lexicographic "less than" on equally long sequences of naturals. *)
RECURSIVE LexLess(_, _)
LexLess(x, y) ==
    /\ x # <<>>
    /\ \/ Head(x) < Head(y)
       \/ Head(x) = Head(y) /\ LexLess(Tail(x), Tail(y))

(* TxStatus as PartialOrd::lt, as derived. *)
TxStatusLess(a, b) ==
    \/ Discriminant(a) < Discriminant(b)
    \/ Discriminant(a) = Discriminant(b) /\ LexLess(Fields(a), Fields(b))

Init == prev \in TxStatus /\ cur \in TxStatus

Next == \E s \in TxStatus : prev' = cur /\ cur' = s

Spec == Init /\ [][Next]_<<prev, cur>>

-----------------------------------------------------------------------------
(* The reference: the order spec.md 4.4 prescribes, written out as one     *)
(* sorted sequence, the lifecycle stages in order and, within a stage,     *)
(* the values in the order of their fields (two Confirmed by height, then  *)
(* block).                                                                 *)
ForEach(S, F(_)) ==
    LET xs == SeqExt!SetToSortSeq(S, LAMBDA x, y : x < y) IN
    [i \in 1..Len(xs) |-> F(xs[i])]

SpecOrder ==
    <<Unconfirmed>>
    \o ForEach(Addr, Acknowledged)
    \o SeqExt!FlattenSeq(ForEach(Height, LAMBDA h : ForEach(Hash, LAMBDA b : Confirmed(h, b))))
    \o ForEach(Tx, Reverted)
    \o SeqExt!FlattenSeq(ForEach(Hash, LAMBDA r : ForEach(Hash, LAMBDA b : Stale(r, b))))

Rank(s) == CHOOSE i \in 1..Len(SpecOrder) : SpecOrder[i] = s

TypeOK == prev \in TxStatus /\ cur \in TxStatus

(* The derived comparison agrees with the order spec.md 4.4 prescribes and *)
(* test_tx_status_ordering checks: Unconfirmed < Acknowledged < Confirmed  *)
(* < Reverted < Stale, a Reverted above every Confirmed, and two Confirmed *)
(* by (height, block).  Breaks if the variants or fields are reordered in  *)
(* the enum, or the comparison of fields is not strict.                    *)
OrderMatchesSpec ==
    TxStatusLess(prev, cur) <=> Rank(prev) < Rank(cur)

=============================================================================
