--------------------------- MODULE SendRefinement ---------------------------
(***************************************************************************)
(* SendPath implements SendService.                                        *)
(***************************************************************************)
EXTENDS SendPath, SequencesExt

(* How many of the busy TCBs the NIC has sent in full.  It sends them in   *)
(* the order of the ring, so these are the first ones.                     *)
nSent ==
  Cardinality({d \in 0 .. nBusySend - 1 : Sent(NthTcb(CurrSendHead, d))})

(* The NET_BUFFERs with a TCB that the NIC has not sent in full.           *)
InRing == [d \in 1 .. nBusySend - nSent |->
             tcb[NthTcb(CurrSendHead, nSent + d - 1)].nb]

From(l, k) == [d \in 1 .. NbCount[l] - k + 1 |-> <<l, k + d - 1>>]

(* Those of the list being sent that have no TCB yet.                      *)
InLoop ==
  CASE xmit.pc = "loop" -> From(xmit.nbl, xmit.nb)
    [] xmit.pc = "mapping" -> From(xmit.nbl, xmit.nb + 1)
    [] OTHER -> <<>>

(* Those of the lists in the queue; the DPC leaves the list it is sending  *)
(* at the head.                                                            *)
NotBegun == IF xmit.pc # "idle" /\ xmit.by = "dpc" THEN Tail(SendWaitQueue)
                                                   ELSE SendWaitQueue
FramesOf(lists, next) ==
  [k \in 1 .. Len(lists) |-> From(lists[k], next[lists[k]])]
InQueue == FlattenSeq(FramesOf(NotBegun, NextSend))

ListState ==
  [l \in Nbls |-> IF owed[l] = 0 THEN "ndis"
                  ELSE IF l \in entered THEN "called" ELSE "accepted"]

Service == INSTANCE SendService WITH
  state <- ListState, pending <- InRing \o InLoop \o InQueue

(* The send path keeps the promise of SendService: frames go out in the    *)
(* order their lists were taken in, whichever CPU sends them, and a list   *)
(* is completed when all of it is sent.                                    *)
SendServiceSpec == Service!ServiceSpec
=============================================================================
