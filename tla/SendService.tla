----------------------------- MODULE SendService -----------------------------
(***************************************************************************)
(* What the send path promises: every NET_BUFFER_LIST NDIS sends is        *)
(* refused or taken in; the NET_BUFFERs of those taken in go to the wire,  *)
(* each once and in that order; and a list is given back, once, after all  *)
(* of it was sent.                                                         *)
(***************************************************************************)
EXTENDS Integers, Sequences

CONSTANTS Nbls, NbCount, NULL

VARIABLES
  state,    (* of each list: with "ndis", "called" or "accepted"           *)
  pending,  (* the NET_BUFFERs that were taken in and not sent             *)
  wire      (* the last one sent                                           *)

serviceVars == <<state, pending, wire>>

Init == state = [l \in Nbls |-> "ndis"] /\ pending = <<>> /\ wire = NULL

Call(l) ==
  /\ state[l] = "ndis"
  /\ state' = [state EXCEPT ![l] = "called"]
  /\ UNCHANGED <<pending, wire>>

Refuse(l) ==
  /\ state[l] = "called"
  /\ state' = [state EXCEPT ![l] = "ndis"]
  /\ UNCHANGED <<pending, wire>>

Accept(l) ==
  /\ state[l] = "called"
  /\ state' = [state EXCEPT ![l] = "accepted"]
  /\ pending' = pending \o [k \in 1 .. NbCount[l] |-> <<l, k>>]
  /\ UNCHANGED wire

Transmit ==
  /\ pending # <<>>
  /\ wire' = Head(pending)
  /\ pending' = Tail(pending)
  /\ UNCHANGED state

Complete(S) ==
  /\ S # {}
  /\ \A l \in S : state[l] = "accepted"
  /\ \A k \in 1 .. Len(pending) : pending[k][1] \notin S
  /\ state' = [l \in Nbls |-> IF l \in S THEN "ndis" ELSE state[l]]
  /\ UNCHANGED <<pending, wire>>

Next ==
  \/ \E l \in Nbls : Call(l) \/ Refuse(l) \/ Accept(l)
  \/ Transmit
  \/ \E S \in SUBSET Nbls : Complete(S)

ServiceSpec == Init /\ [][Next]_serviceVars
=============================================================================
