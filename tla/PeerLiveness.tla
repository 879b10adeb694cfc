--------------------------- MODULE PeerLiveness ----------------------------
(***************************************************************************)
(* What the ping manager promises about one peer address (spec.md 4.2 and  *)
(* 8), with time, nonces, wires and the Outbox abstracted away.            *)
(*                                                                          *)
(*   tracked      the manager has a record for the address                 *)
(*   outstanding  a ping to it awaits its pong                              *)
(*   flagged      the manager has asked for it to be disconnected           *)
(*   responsive   the remote node answers in time (environment)             *)
(*                                                                          *)
(* The manager tracks a peer once negotiated, keeps one ping outstanding,  *)
(* pings again after each answer, and flags only a peer that has stopped   *)
(* answering; a flagged peer is dropped.  PingSystem implements this        *)
(* specification for every address (see PeerLivenessRefined there).       *)
(***************************************************************************)
VARIABLES tracked, outstanding, flagged, responsive

avars == <<tracked, outstanding, flagged, responsive>>

TypeOK == {tracked, outstanding, flagged, responsive} \subseteq BOOLEAN

Init ==
    /\ tracked = FALSE
    /\ outstanding = FALSE
    /\ flagged = FALSE
    /\ responsive = TRUE

(* Negotiated: a record is created with its first ping out. *)
Track ==
    /\ ~tracked
    /\ tracked' = TRUE
    /\ outstanding' = TRUE
    /\ UNCHANGED <<flagged, responsive>>

(* The outstanding ping is answered, possibly after the peer was flagged. *)
Answer ==
    /\ tracked /\ outstanding
    /\ outstanding' = FALSE
    /\ UNCHANGED <<tracked, flagged, responsive>>

(* An answered peer is pinged again. *)
Probe ==
    /\ tracked /\ ~outstanding
    /\ outstanding' = TRUE
    /\ UNCHANGED <<tracked, flagged, responsive>>

(* Only a peer that stopped answering its outstanding ping is flagged. *)
Flag ==
    /\ tracked /\ outstanding /\ ~flagged /\ ~responsive
    /\ flagged' = TRUE
    /\ UNCHANGED <<tracked, outstanding, responsive>>

(* The record goes away: after a flag, or because the connection closed. *)
Drop ==
    /\ tracked
    /\ tracked' = FALSE
    /\ outstanding' = FALSE
    /\ flagged' = FALSE
    /\ UNCHANGED responsive

(* The remote node stops answering; a new connection may answer again. *)
Hang ==
    /\ responsive
    /\ responsive' = FALSE
    /\ UNCHANGED <<tracked, outstanding, flagged>>

Revive ==
    /\ ~tracked /\ ~responsive
    /\ responsive' = TRUE
    /\ UNCHANGED <<tracked, outstanding, flagged>>

Next == Track \/ Answer \/ Probe \/ Flag \/ Drop \/ Hang \/ Revive

(* What must eventually happen: a responsive peer's ping is answered, an   *)
(* answered peer is pinged again, a silent peer is flagged, and a flagged   *)
(* peer is dropped.  Nothing forces a peer to be negotiated or to hang.    *)
Fairness ==
    /\ WF_avars(responsive /\ Answer)
    /\ WF_avars(Probe)
    /\ WF_avars(Flag)
    /\ WF_avars(flagged /\ Drop)

Spec == Init /\ [][Next]_avars /\ Fairness

=============================================================================
