----------------------------- MODULE MCSendPath -----------------------------
(* The send path on small instances. *)
EXTENDS SendRefinement, TLC

CONSTANTS l1, l2, l3

(* l1 has two NET_BUFFERs, every other list one. *)
MCNbCount == [l \in Nbls |-> IF l = l1 THEN 2 ELSE 1]
(* l1 has one more than there are TCBs.                                    *)
MCLongList == [l \in Nbls |-> IF l = l1 THEN 3 ELSE 1]

(* What the program does once it sends, maps or frees a list that NDIS has *)
(* taken back, or has read through a null pointer, is undefined; and a     *)
(* pause or a reset that empties the queue under a CPU in the send loop    *)
(* leaves the ring and the counts wrong.  Nothing is explored past that.   *)
DefinedSoFar ==
  /\ BusyNblsOwed /\ HeadToRemove
  /\ xmit.pc = "mapping" /\ (maps # {} \/ xmit.nb < NbCount[xmit.nbl])
       => owed[xmit.nbl] = 1
  /\ orderly \/ reset # "none"

(* The last frame on the wire is a history no action reads.                *)
ButWire == <<SendLock, stateVars, linkVars, intrVars, tcbVars, tbdVars, txNext,
             txOn, waitVars, nblVars, xmit, maps, dpcVars>>
=============================================================================
