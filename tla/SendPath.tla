------------------------------ MODULE SendPath ------------------------------
(***************************************************************************)
(* The send path of the miniport: MPSendNetBufferLists and the loop of     *)
(* MiniportSendNetBufferList on the CPUs that send, MpProcessSGList when   *)
(* NDIS has mapped a NET_BUFFER, the NIC that walks the ring of transmit   *)
(* descriptors (TBDs), the DPC that reclaims what was sent and sends what  *)
(* waits, link changes, pause, cancellation and adapter reset.             *)
(*                                                                         *)
(* All of it runs under Adapter->SendLock, and the lock is released around *)
(* every call of NDIS: a step of this module lies between two points where *)
(* the lock is taken or released, or keeps the lock for the next step of   *)
(* the same thread.  The statuses of the lists and what the scatter-gather *)
(* lists hold are left out.                                                *)
(***************************************************************************)
EXTENDS Integers, Sequences, FiniteSets

CONSTANTS
  Nbls,                   (* the NET_BUFFER_LISTs the protocols send       *)
  NbCount,                (* how many NET_BUFFERs each is made of          *)
  NumTcb,                 (* send control blocks (128 in the driver)       *)
  NIC_MAX_PHYS_BUF_COUNT, (* fragments, and so TBDs, of one NET_BUFFER     *)
  Env,                    (* what the environment does besides             *)
  NULL

(* "async": NDIS may call MpProcessSGList after NdisMAllocateNetBufferSG-  *)
(* List has returned; "mapfail": that call may fail; "copyfail":           *)
(* MpCopyNetBuffer may return 0; "empty": a scatter-gather list may hold   *)
(* nothing of the frame; "link": the cable comes and goes;                 *)
(* "other": interrupts that have other causes; "pause", "cancel", "reset": *)
(* NDIS pauses the adapter, cancels sends, resets the adapter.             *)
ASSUME SendAssumption ==
  /\ IsFiniteSet(Nbls) /\ NULL \notin Nbls /\ NULL \notin Nbls \X Nat
  /\ NbCount \in [Nbls -> Nat \ {0}]
  /\ NumTcb \in Nat \ {0} /\ NIC_MAX_PHYS_BUF_COUNT \in Nat \ {0}
  /\ Env \subseteq {"async", "mapfail", "copyfail", "empty", "link", "other",
                    "pause", "cancel", "reset"}

VARIABLES
  SendLock,       (* "free", "send" (a sending CPU), "dpc" or "reset"      *)
  AdapterState,   (* "NicRunning", "NicPausing" or "NicPaused"             *)
  cable,          (* the link as the PHY sees it                           *)
  MediaState,     (* Adapter->MediaState is MediaConnectStateConnected     *)
  NoCable,        (* fMP_ADAPTER_NO_CABLE: the adapter is not ready        *)
  IntrStatus,     (* the causes in the IntrStatus register                 *)
  masked,         (* interrupts are disabled at the NIC                    *)
  tcb,            (* the MP_TCBs                                           *)
  CurrSendHead, CurrSendTail, nBusySend,
  tbd,            (* the transmit descriptors                              *)
  NextFreeTbd,
  txNext,         (* the NIC's position in their ring                      *)
  txOn,           (* CmdTxEnb: the transmitter was started                 *)
  SendWaitQueue, SendingNetBufferList,
  RefCount,       (* MP_GET_NET_BUFFER_LIST_REF_COUNT                      *)
  NextSend,       (* ..._NEXT_SEND: index of a NET_BUFFER, 0 for NULL      *)
  entered,        (* the sends past the check of mp_main.c:1269            *)
  xmit,           (* the activation of MiniportSendNetBufferList           *)
  maps,           (* <<TCB, NET_BUFFER>>: MpProcessSGList is to be called  *)
  dpc,            (* where the DPC is                                      *)
  freed,          (* the TCB it is freeing, with its old contents          *)
  CompleteNetBufferLists,
  pause,          (* MPPause: "none", "entered", "freed" (the queue)       *)
  reset,          (* where MPReset is, "none" outside it                   *)
  rfreed,         (* the list of the NET_BUFFER it is freeing              *)
  aborted,        (* the lists it will complete                            *)
  owed,           (* calls of NdisMSendNetBufferListsComplete owed to NDIS *)
  wire,           (* history: the last NET_BUFFER sent in full             *)
  orderly         (* history: the queue was emptied only with no send on   *)

linkVars == <<cable, MediaState, NoCable>>
tcbVars  == <<tcb, CurrSendHead, CurrSendTail, nBusySend>>
tbdVars  == <<tbd, NextFreeTbd>>
nicVars  == <<txNext, txOn, wire>>
intrVars == <<IntrStatus, masked>>
resetVars == <<reset, rfreed, aborted, orderly>>
waitVars == <<SendWaitQueue, SendingNetBufferList>>
nblVars  == <<RefCount, NextSend, entered, owed>>
dpcVars  == <<dpc, freed, CompleteNetBufferLists>>
stateVars == <<AdapterState, pause, resetVars>>
sendVars == <<SendLock, stateVars, linkVars, intrVars, tcbVars, tbdVars,
              nicVars, waitVars, nblVars, xmit, maps, dpcVars>>

Tcbs == 0 .. NumTcb - 1
nTbds == NIC_MAX_PHYS_BUF_COUNT * NumTcb
(* The d-th TCB after i, the d-th TBD after t, around their rings.         *)
NthTcb(i, d) == IF i + d >= NumTcb THEN i + d - NumTcb ELSE i + d
NextTcb(i)   == NthTcb(i, 1)
NthTbd(t, d) == IF t + d >= nTbds THEN t + d - nTbds ELSE t + d
(* Mutant: the index does not wrap.                                        *)
TbdNoWrap(t) == t + 1
INC_TBD(t) == NthTbd(t, 1)

ZeroTbd == [own |-> FALSE, last |-> FALSE, frame |-> NULL]
ZeroTcb == [inUse |-> FALSE, waiting |-> FALSE, nbl |-> NULL, nb |-> NULL,
            TbdStart |-> 0, nTbds |-> 0]
NoXmit  == [pc |-> "idle", by |-> "send", nbl |-> NULL, nb |-> 0, tcb |-> 0]
NoFreed == [tcb |-> 0, nbl |-> NULL, nb |-> NULL]

MP_TCB_RESOURCES_AVAIABLE == nBusySend < NumTcb
MP_IS_READY == ~ NoCable /\ reset = "none"

(* The TBDs of a TCB whose NET_BUFFER was given to the NIC.                *)
TbdsOf(i) == {NthTbd(tcb[i].TbdStart, d) : d \in 0 .. tcb[i].nTbds - 1}
TbdEnd(i) == NthTbd(tcb[i].TbdStart, tcb[i].nTbds - 1)
(* Mutant: the OWN bit of the first TBD is looked at.                      *)
FirstSent(i) == tcb[i].nTbds > 0 /\ ~ tbd[tcb[i].TbdStart].own
Sent(i)   == tcb[i].nTbds > 0 /\ ~ tbd[TbdEnd(i)].own

(* NICInitSend, and an adapter that was started.                           *)
Init ==
  /\ SendLock = "free" /\ AdapterState = "NicRunning" /\ pause = "none"
  /\ reset = "none" /\ rfreed = NULL /\ aborted = <<>> /\ orderly = TRUE
  /\ cable = TRUE /\ MediaState = TRUE /\ NoCable = FALSE
  /\ IntrStatus = {} /\ masked = FALSE
  /\ tcb = [i \in Tcbs |-> ZeroTcb]
  /\ CurrSendHead = 0 /\ CurrSendTail = 0 /\ nBusySend = 0
  /\ tbd = [t \in 0 .. nTbds - 1 |-> ZeroTbd]
  /\ NextFreeTbd = 0 /\ txNext = 0 /\ txOn = FALSE
  /\ SendWaitQueue = <<>> /\ SendingNetBufferList = NULL
  /\ RefCount = [l \in Nbls |-> 0] /\ NextSend = [l \in Nbls |-> 0]
  /\ entered = {} /\ xmit = NoXmit /\ maps = {}
  /\ dpc = "idle" /\ freed = NoFreed /\ CompleteNetBufferLists = <<>>
  /\ owed = [l \in Nbls |-> 0] /\ wire = NULL

(* NdisMSendNetBufferListsComplete for the lists of a set.                 *)
Completed(S) == [l \in Nbls |-> IF l \in S THEN owed[l] - 1 ELSE owed[l]]

-----------------------------------------------------------------------------
(* MPSendNetBufferLists.                                                   *)

(* NDIS sends l, and the adapter seems to run: AdapterState is read        *)
(* without the lock.  Otherwise l is completed at once.                    *)
MPSendEnter(l) ==
  /\ owed[l] = 0
  /\ AdapterState = "NicRunning"
  /\ owed' = [owed EXCEPT ![l] = 1]
  /\ entered' = entered \cup {l}
  /\ UNCHANGED <<SendLock, stateVars, linkVars, intrVars, tcbVars, tbdVars,
                 nicVars, waitVars, RefCount, NextSend, xmit, maps, dpcVars>>

(* Not ready and not connected: l fails.                                   *)
MPSendNoLink(l) ==
  /\ l \in entered /\ SendLock = "free"
  /\ ~ MP_IS_READY /\ ~ MediaState
  /\ entered' = entered \ {l}
  /\ owed' = Completed({l})
  /\ UNCHANGED <<SendLock, stateVars, linkVars, intrVars, tcbVars, tbdVars,
                 nicVars, waitVars, RefCount, NextSend, xmit, maps, dpcVars>>

MustQueue ==
  IF MP_IS_READY
  THEN \/ SendWaitQueue # <<>>
       \/ ~ MP_TCB_RESOURCES_AVAIABLE
       \/ SendingNetBufferList # NULL
  ELSE MediaState

(* Mutant: the reference count is set only when the list is sent at once.  *)
QueueUncounted(l) ==
  /\ l \in entered /\ SendLock = "free"
  /\ MustQueue
  /\ entered' = entered \ {l}
  /\ NextSend' = [NextSend EXCEPT ![l] = 1]
  /\ SendWaitQueue' = Append(SendWaitQueue, l)
  /\ UNCHANGED <<SendLock, stateVars, linkVars, intrVars, tcbVars, tbdVars,
                 nicVars, SendingNetBufferList, RefCount, owed, xmit, maps,
                 dpcVars>>

MPSendQueue(l) ==
  /\ l \in entered /\ SendLock = "free"
  /\ MustQueue
  /\ entered' = entered \ {l}
  /\ RefCount' = [RefCount EXCEPT ![l] = NbCount[l]]
  /\ NextSend' = [NextSend EXCEPT ![l] = 1]
  /\ SendWaitQueue' = Append(SendWaitQueue, l)
  /\ UNCHANGED <<SendLock, stateVars, linkVars, intrVars, tcbVars, tbdVars,
                 nicVars, SendingNetBufferList, owed, xmit, maps, dpcVars>>

(* The lock is kept, for MiniportSendNetBufferList(l, bFromQueue = FALSE). *)
MPSendStart(l) ==
  /\ l \in entered /\ SendLock = "free"
  /\ MP_IS_READY /\ ~ MustQueue
  /\ entered' = entered \ {l}
  /\ RefCount' = [RefCount EXCEPT ![l] = NbCount[l]]
  /\ SendingNetBufferList' = l
  /\ xmit' = [pc |-> "loop", by |-> "send", nbl |-> l, nb |-> 1, tcb |-> 0]
  /\ SendLock' = "send"
  /\ UNCHANGED <<stateVars, linkVars, intrVars, tcbVars, tbdVars, nicVars,
                 SendWaitQueue, NextSend, owed, maps, dpcVars>>

-----------------------------------------------------------------------------
(* MiniportSendNetBufferList.                                              *)

bFromQueue == xmit.by = "dpc"

(* Where the DPC goes on when the call returns: it looks at the queue      *)
(* again, or gives up (after NDIS_STATUS_RESOURCES).                       *)
AfterXmit == IF dpc = "linksending" THEN "linkdequeue" ELSE "dequeue"
AfterFull == IF dpc = "linksending" THEN "send" ELSE "idle"
AfterFailed == IF dpc = "linksending" THEN "linkrelock" ELSE "relock"

(* A TCB for the next NET_BUFFER.  Its TBDs start at NextFreeTbd, which is *)
(* cleared but not advanced; the lock is released for the mapping.         *)
XmitAllocateTcb ==
  /\ xmit.pc = "loop" /\ xmit.nb <= NbCount[xmit.nbl]
  /\ MP_TCB_RESOURCES_AVAIABLE
  /\ LET i  == CurrSendTail
         nb == <<xmit.nbl, xmit.nb>>
     IN  /\ tcb' = [tcb EXCEPT ![i] =
                      [inUse |-> TRUE, waiting |-> TRUE, nbl |-> xmit.nbl,
                       nb |-> nb, TbdStart |-> NextFreeTbd, nTbds |-> 0]]
         /\ tbd' = [tbd EXCEPT ![NextFreeTbd] = ZeroTbd]
         /\ maps' = maps \cup {<<i, nb>>}
         /\ xmit' = [xmit EXCEPT !.pc = "mapping", !.tcb = i]
  /\ nBusySend' = nBusySend + 1
  /\ CurrSendTail' = NextTcb(CurrSendTail)
  /\ SendLock' = "free"
  /\ UNCHANGED <<stateVars, linkVars, intrVars, CurrSendHead, NextFreeTbd,
                 nicVars, waitVars, nblVars, dpcVars>>

(* NdisMAllocateNetBufferSGList returned NDIS_STATUS_SUCCESS: on to the    *)
(* next NET_BUFFER.                                                        *)
XmitMapped ==
  /\ xmit.pc = "mapping" /\ SendLock = "free"
  /\ "async" \in Env \/ maps = {}
  /\ xmit' = [xmit EXCEPT !.pc = "loop", !.nb = xmit.nb + 1]
  /\ SendLock' = xmit.by
  /\ UNCHANGED <<stateVars, linkVars, intrVars, tcbVars, tbdVars, nicVars,
                 waitVars, nblVars, maps, dpcVars>>

(* It returned an error: the TCB is given back, and the NET_BUFFERs that   *)
(* were not sent are taken off the reference count.                        *)
XmitMapFailed ==
  /\ "mapfail" \in Env
  /\ xmit.pc = "mapping" /\ SendLock = "free"
  /\ LET i  == xmit.tcb
         nb == <<xmit.nbl, xmit.nb>>
     IN  /\ <<i, nb>> \in maps
         /\ maps' = maps \ {<<i, nb>>}
         /\ tcb' = [tcb EXCEPT ![i].inUse = FALSE, ![i].waiting = FALSE,
                               ![i].nb = NULL, ![i].nbl = NULL]
         /\ CurrSendTail' = i
  /\ nBusySend' = nBusySend - 1
  /\ RefCount' = [RefCount EXCEPT ![xmit.nbl] =
                    @ - (NbCount[xmit.nbl] - xmit.nb + 1)]
  /\ xmit' = [xmit EXCEPT !.pc = "failed"]
  /\ SendLock' = xmit.by
  /\ UNCHANGED <<stateVars, linkVars, intrVars, CurrSendHead, tbdVars,
                 nicVars, waitVars, NextSend, entered, owed, dpcVars>>

(* Mutant: the list goes to the tail of the queue.                         *)
PutAtTail(l) == IF bFromQueue THEN SendWaitQueue ELSE Append(SendWaitQueue, l)

(* A list from the queue is there already, another one goes to its head.   *)
PutBack(l) == IF bFromQueue THEN SendWaitQueue ELSE <<l>> \o SendWaitQueue

(* No TCB left: the list waits in the queue, from this NET_BUFFER on.      *)
XmitNoTcb ==
  /\ xmit.pc = "loop" /\ xmit.nb <= NbCount[xmit.nbl]
  /\ ~ MP_TCB_RESOURCES_AVAIABLE
  /\ NextSend' = [NextSend EXCEPT ![xmit.nbl] = xmit.nb]
  /\ SendWaitQueue' = PutBack(xmit.nbl)
  /\ SendingNetBufferList' = NULL
  /\ dpc' = IF bFromQueue THEN AfterFull ELSE dpc
  /\ masked' = (masked /\ ~ (bFromQueue /\ AfterFull = "idle"))
  /\ xmit' = NoXmit
  /\ SendLock' = "free"
  /\ UNCHANGED <<stateVars, linkVars, IntrStatus, tcbVars, tbdVars, nicVars,
                 RefCount, entered, owed, maps, freed,
                 CompleteNetBufferLists>>

(* All the NET_BUFFERs are processed.  RemoveHeadQueue takes the head,     *)
(* whatever it is, and reads through a null pointer when there is none.    *)
XmitDone ==
  /\ xmit.pc = "loop" /\ xmit.nb > NbCount[xmit.nbl]
  /\ bFromQueue => SendWaitQueue # <<>>
  /\ SendWaitQueue' = IF bFromQueue THEN Tail(SendWaitQueue)
                                    ELSE SendWaitQueue
  /\ SendingNetBufferList' = NULL
  /\ dpc' = IF bFromQueue THEN AfterXmit ELSE dpc
  /\ xmit' = NoXmit
  /\ SendLock' = IF bFromQueue THEN "dpc" ELSE "free"
  /\ UNCHANGED <<stateVars, linkVars, intrVars, tcbVars, tbdVars, nicVars,
                 nblVars, maps, freed, CompleteNetBufferLists>>

(* The same after a mapping failed, and the list is completed if nothing   *)
(* of it is with the NIC.                                                  *)
XmitFailed ==
  /\ xmit.pc = "failed"
  /\ bFromQueue => SendWaitQueue # <<>>
  /\ SendWaitQueue' = IF bFromQueue THEN Tail(SendWaitQueue)
                                    ELSE SendWaitQueue
  /\ SendingNetBufferList' = NULL
  /\ IF RefCount[xmit.nbl] = 0
     THEN /\ owed' = Completed({xmit.nbl})
          /\ SendLock' = "free"
          /\ dpc' = IF bFromQueue THEN AfterFailed ELSE dpc
     ELSE /\ UNCHANGED owed
          /\ SendLock' = IF bFromQueue THEN "dpc" ELSE "free"
          /\ dpc' = IF bFromQueue THEN AfterXmit ELSE dpc
  /\ xmit' = NoXmit
  /\ UNCHANGED <<stateVars, linkVars, intrVars, tcbVars, tbdVars, nicVars,
                 RefCount, NextSend, entered, maps, freed,
                 CompleteNetBufferLists>>

(* The null pointer: ASSERT of mp.h:154, or a bug check.                   *)
XmitBugCheck ==
  /\ xmit.by = "dpc" /\ SendWaitQueue = <<>>
  /\ xmit.pc = "failed" \/ (xmit.pc = "loop" /\ xmit.nb > NbCount[xmit.nbl])
  /\ dpc # "bugcheck"
  /\ dpc' = "bugcheck"
  /\ UNCHANGED <<SendLock, stateVars, linkVars, intrVars, tcbVars, tbdVars,
                 nicVars, waitVars, nblVars, xmit, maps, freed,
                 CompleteNetBufferLists>>

-----------------------------------------------------------------------------
(* MpProcessSGList, called by NDIS for a TCB: from within NdisMAllocate-   *)
(* NetBufferSGList, or later.                                              *)

(* Mutant: NextFreeTbd stops at the last TBD of the frame.                 *)
TbdEndIsFree(i, n) == NthTbd(tcb[i].TbdStart, n - 1)
TbdAfter(i, n) == NthTbd(tcb[i].TbdStart, n)

(* NICSendNetBuffer and NICStartSend: n TBDs from TbdStart on are filled   *)
(* and given to the NIC.                                                   *)
MpProcessSGList(i, nb, n) ==
  /\ <<i, nb>> \in maps /\ SendLock = "free"
  /\ tcb[i].inUse
  /\ maps' = maps \ {<<i, nb>>}
  /\ tcb' = [tcb EXCEPT ![i].waiting = FALSE,
                        ![i].nTbds = n]
  /\ tbd' = [t \in DOMAIN tbd |->
               IF \E d \in 0 .. n - 1 : t = NthTbd(tcb[i].TbdStart, d)
               THEN [own |-> TRUE, frame |-> tcb[i].nb,
                     last |-> t = NthTbd(tcb[i].TbdStart, n - 1)]
               ELSE tbd[t]]
  /\ NextFreeTbd' = TbdAfter(i, n)
  /\ txOn' = TRUE
  /\ UNCHANGED <<SendLock, stateVars, linkVars, intrVars, CurrSendHead,
                 CurrSendTail, nBusySend, txNext, wire, waitVars, nblVars,
                 xmit, dpcVars>>

(* Too many fragments, and MpCopyNetBuffer could not copy them: the frame  *)
(* is given up, but its TCB stays in use and waiting.                      *)
MpProcessSGListCopyFailed(i, nb) ==
  /\ "copyfail" \in Env
  /\ <<i, nb>> \in maps /\ SendLock = "free"
  /\ tcb[i].inUse
  /\ maps' = maps \ {<<i, nb>>}
  /\ LET l == tcb[i].nbl
     IN  /\ RefCount' = [RefCount EXCEPT ![l] = @ - 1]
         /\ owed' = IF RefCount[l] = 1 THEN Completed({l}) ELSE owed
  /\ UNCHANGED <<SendLock, stateVars, linkVars, intrVars, tcbVars,
                 tbdVars, nicVars, waitVars, NextSend, entered, xmit, dpcVars>>

(* NICSendNetBuffer finds nothing to fill a TBD with.  The result is       *)
(* looked at by nobody: the frame is not given to the NIC, its TCB stays   *)
(* in use and waiting at its place in the ring, and the list waits ("NDIS  *)
(* may wait eternally for this NBL to complete", mp_nic.c:678) until a     *)
(* reset aborts it.                                                        *)
MpProcessSGListEmpty(i, nb) ==
  /\ "empty" \in Env
  /\ <<i, nb>> \in maps /\ SendLock = "free"
  /\ tcb[i].inUse
  /\ maps' = maps \ {<<i, nb>>}
  /\ UNCHANGED <<SendLock, stateVars, linkVars, intrVars, tcbVars,
                 tbdVars, nicVars, waitVars, nblVars, xmit, dpcVars>>

(* A reset has freed the TCB: NetBuffer is NULL, so the SG list is kept.   *)
MpProcessSGListLate(i, nb) ==
  /\ <<i, nb>> \in maps /\ SendLock = "free"
  /\ ~ tcb[i].inUse
  /\ maps' = maps \ {<<i, nb>>}
  /\ UNCHANGED <<SendLock, stateVars, linkVars, intrVars, tcbVars,
                 tbdVars, nicVars, waitVars, nblVars, xmit, dpcVars>>

(* It has zeroed the TCB, with the pointer to the adapter whose lock is to *)
(* be taken.                                                               *)
MpProcessSGListBugCheck(i, nb) ==
  /\ <<i, nb>> \in maps
  /\ tcb[i] = ZeroTcb /\ dpc # "bugcheck"
  /\ dpc' = "bugcheck"
  /\ UNCHANGED <<SendLock, stateVars, linkVars, intrVars, tcbVars, tbdVars,
                 nicVars, waitVars, nblVars, xmit, maps, freed,
                 CompleteNetBufferLists>>

-----------------------------------------------------------------------------
(* The NIC sends one TBD; after the last of a frame it interrupts.         *)
NicTransmit ==
  /\ txOn /\ tbd[txNext].own
  /\ tbd' = [tbd EXCEPT ![txNext].own = FALSE]
  /\ txNext' = INC_TBD(txNext)
  /\ IF tbd[txNext].last
     THEN wire' = tbd[txNext].frame /\ IntrStatus' = IntrStatus \cup {"tx"}
     ELSE UNCHANGED <<wire, IntrStatus>>
  /\ UNCHANGED <<SendLock, stateVars, linkVars, masked, tcbVars, NextFreeTbd,
                 txOn, waitVars, nblVars, xmit, maps, dpcVars>>

CableChange ==
  /\ "link" \in Env
  /\ cable' = ~ cable
  /\ IntrStatus' = IntrStatus \cup {"link"}
  /\ UNCHANGED <<SendLock, stateVars, MediaState, NoCable, masked, tcbVars,
                 tbdVars, nicVars, waitVars, nblVars, xmit, maps, dpcVars>>

OtherInterrupt ==
  /\ "other" \in Env
  /\ IntrStatus' = IntrStatus \cup {"other"}
  /\ UNCHANGED <<SendLock, stateVars, linkVars, masked, tcbVars, tbdVars,
                 nicVars, waitVars, nblVars, xmit, maps, dpcVars>>

-----------------------------------------------------------------------------
(* The DPC (its receive part is in RecvPath).                              *)

(* MPIsr, and MPHandleInterrupt down to MpHandleLinkInterrupt: all causes  *)
(* are acknowledged at once.                                               *)
DpcAck ==
  /\ dpc = "idle" /\ ~ masked /\ IntrStatus # {}
  /\ IntrStatus' = {} /\ masked' = TRUE
  /\ dpc' = IF "link" \in IntrStatus THEN "link" ELSE "send"
  /\ UNCHANGED <<SendLock, stateVars, linkVars, tcbVars, tbdVars, nicVars,
                 waitVars, nblVars, xmit, maps, freed,
                 CompleteNetBufferLists>>

(* MpHandleLinkChangeInterrupt, and the flag in MPIndicateLinkState.       *)
DpcLinkState ==
  /\ dpc = "link"
  /\ MediaState' = cable
  /\ dpc' = "linkflag"
  /\ UNCHANGED <<SendLock, stateVars, cable, NoCable, intrVars, tcbVars,
                 tbdVars, nicVars, waitVars, nblVars, xmit, maps, freed,
                 CompleteNetBufferLists>>

DpcLinkFlag ==
  /\ dpc = "linkflag"
  /\ NoCable' = ~ MediaState
  /\ dpc' = IF MediaState THEN "linkrelock" ELSE "send"
  /\ UNCHANGED <<SendLock, stateVars, cable, MediaState, intrVars, tcbVars,
                 tbdVars, nicVars, waitVars, nblVars, xmit, maps, freed,
                 CompleteNetBufferLists>>

(* SendLock is taken for the queue (again).                                *)
DpcRelock ==
  /\ dpc \in {"linkrelock", "relock"} /\ SendLock = "free"
  /\ SendLock' = "dpc"
  /\ dpc' = IF dpc = "linkrelock" THEN "linkdequeue" ELSE "dequeue"
  /\ UNCHANGED <<stateVars, linkVars, intrVars, tcbVars, tbdVars, nicVars,
                 waitVars, nblVars, xmit, maps, freed,
                 CompleteNetBufferLists>>

(* MpHandleSendInterrupt.                                                  *)
DpcSendIdle ==
  /\ dpc = "send" /\ SendLock = "free"
  /\ nBusySend = 0 /\ SendWaitQueue = <<>>
  /\ dpc' = "idle" /\ masked' = FALSE
  /\ UNCHANGED <<SendLock, stateVars, linkVars, IntrStatus, tcbVars, tbdVars,
                 nicVars, waitVars, nblVars, xmit, maps, freed,
                 CompleteNetBufferLists>>

DpcSendEnter ==
  /\ dpc = "send" /\ SendLock = "free"
  /\ nBusySend # 0 \/ SendWaitQueue # <<>>
  /\ SendLock' = "dpc"
  /\ dpc' = "reap"
  /\ UNCHANGED <<stateVars, linkVars, intrVars, tcbVars, tbdVars, nicVars,
                 waitVars, nblVars, xmit, maps, freed,
                 CompleteNetBufferLists>>

(* MP_FREE_SEND_NET_BUFFER, up to the call that frees the SG list, for     *)
(* which the lock is released.                                             *)
DpcFreeTcb ==
  /\ dpc = "reap" /\ nBusySend > 0 /\ Sent(CurrSendHead)
  /\ LET i == CurrSendHead
     IN  /\ freed' = [tcb |-> i, nbl |-> tcb[i].nbl, nb |-> tcb[i].nb]
         /\ tcb' = [tcb EXCEPT ![i].inUse = FALSE, ![i].waiting = FALSE,
                               ![i].nb = NULL]
         /\ CurrSendHead' = NextTcb(i)
  /\ nBusySend' = nBusySend - 1
  /\ SendLock' = "free"
  /\ dpc' = "freeSG"
  /\ UNCHANGED <<stateVars, linkVars, intrVars, CurrSendTail, tbdVars,
                 nicVars, waitVars, nblVars, xmit, maps,
                 CompleteNetBufferLists>>

(* Mutant: the list is completed with its last NET_BUFFER but one.         *)
LastButOne(l) == RefCount[l] <= 2
LastReference(l) == RefCount[l] = 1

(* NdisMFreeNetBufferSGList(pMpTcb->pSGList), the lock again, and the      *)
(* reference count: a list whose last NET_BUFFER went is a success.        *)
DpcFreeSGList ==
  /\ dpc = "freeSG" /\ SendLock = "free"
  /\ LET l == freed.nbl
     IN  /\ RefCount' = [RefCount EXCEPT ![l] = @ - 1]
         /\ IF LastReference(l)
            THEN CompleteNetBufferLists' = Append(CompleteNetBufferLists, l)
            ELSE UNCHANGED CompleteNetBufferLists
  /\ freed' = NoFreed
  /\ SendLock' = "dpc"
  /\ dpc' = "reap"
  /\ UNCHANGED <<stateVars, linkVars, intrVars, tcbVars, tbdVars, nicVars,
                 waitVars, NextSend, entered, owed, xmit, maps>>

(* The head is not sent yet, or there is none.                             *)
DpcReapEnd ==
  /\ dpc = "reap" /\ (nBusySend > 0 => ~ Sent(CurrSendHead))
  /\ IF CompleteNetBufferLists = <<>>
     THEN dpc' = "dequeue" /\ UNCHANGED SendLock
     ELSE dpc' = "complete" /\ SendLock' = "free"
  /\ UNCHANGED <<stateVars, linkVars, intrVars, tcbVars, tbdVars, nicVars,
                 waitVars, nblVars, xmit, maps, freed,
                 CompleteNetBufferLists>>

DpcComplete ==
  /\ dpc = "complete"
  /\ owed' = Completed({CompleteNetBufferLists[k] :
                          k \in 1 .. Len(CompleteNetBufferLists)})
  /\ CompleteNetBufferLists' = <<>>
  /\ dpc' = "relock"
  /\ UNCHANGED <<SendLock, stateVars, linkVars, intrVars, tcbVars, tbdVars,
                 nicVars, waitVars, RefCount, NextSend, entered, xmit, maps,
                 freed>>

CanDequeue ==
  /\ MP_IS_READY
  /\ SendWaitQueue # <<>> /\ MP_TCB_RESOURCES_AVAIABLE
  /\ SendingNetBufferList = NULL

(* The head of the queue is sent, from where it stopped; it stays in the   *)
(* queue until it is done.                                                 *)
DpcDequeue ==
  /\ dpc \in {"linkdequeue", "dequeue"} /\ CanDequeue
  /\ LET l == Head(SendWaitQueue)
     IN  /\ SendingNetBufferList' = l
         /\ xmit' = [pc |-> "loop", by |-> "dpc", nbl |-> l,
                     nb |-> NextSend[l], tcb |-> 0]
         /\ NextSend' = [NextSend EXCEPT ![l] = 0]
  /\ dpc' = IF dpc = "linkdequeue" THEN "linksending" ELSE "sending"
  /\ UNCHANGED <<SendLock, stateVars, linkVars, intrVars, tcbVars, tbdVars,
                 nicVars, SendWaitQueue, RefCount, entered, owed, maps, freed,
                 CompleteNetBufferLists>>

(* Mutant: the interrupt stays disabled when the queue is left waiting.    *)
EndStaysMasked ==
  /\ dpc \in {"linkdequeue", "dequeue"} /\ ~ CanDequeue
  /\ SendLock' = "free"
  /\ dpc' = IF dpc = "linkdequeue" THEN "send" ELSE "idle"
  /\ masked' = (masked /\ (dpc = "linkdequeue" \/ SendWaitQueue # <<>>))
  /\ UNCHANGED <<stateVars, linkVars, IntrStatus, tcbVars, tbdVars, nicVars,
                 waitVars, nblVars, xmit, maps, freed,
                 CompleteNetBufferLists>>
DpcDequeueEnd ==
  /\ dpc \in {"linkdequeue", "dequeue"} /\ ~ CanDequeue
  /\ SendLock' = "free"
  /\ dpc' = IF dpc = "linkdequeue" THEN "send" ELSE "idle"
  /\ masked' = (masked /\ dpc = "linkdequeue")
  /\ UNCHANGED <<stateVars, linkVars, IntrStatus, tcbVars, tbdVars, nicVars,
                 waitVars, nblVars, xmit, maps, freed,
                 CompleteNetBufferLists>>

-----------------------------------------------------------------------------
(* MPPause, MPRestart, and MPCancelSendNetBufferLists.                     *)

MPPause ==
  /\ "pause" \in Env
  /\ AdapterState = "NicRunning" /\ reset = "none"
  /\ AdapterState' = "NicPausing"
  /\ pause' = "entered"
  /\ UNCHANGED <<SendLock, resetVars, linkVars, intrVars, tcbVars, tbdVars,
                 nicVars, waitVars, nblVars, xmit, maps, dpcVars>>

QueuedLists == {SendWaitQueue[k] : k \in 1 .. Len(SendWaitQueue)}
(* What NEXT_SEND says was not sent is taken off the count.                *)
LeftOf(l) == IF NextSend[l] = 0 THEN RefCount[l]
             ELSE RefCount[l] - (NbCount[l] - NextSend[l] + 1)
QueuedAndWhole == {l \in QueuedLists : LeftOf(l) = 0}

(* Every list leaves the queue, and those of which nothing is with the NIC *)
(* are completed.                                                          *)
MpFreeQueuedSendNetBufferLists ==
  /\ RefCount' = [l \in Nbls |-> IF l \in QueuedLists THEN LeftOf(l)
                                                      ELSE RefCount[l]]
  /\ owed' = Completed(QueuedAndWhole)
  /\ SendWaitQueue' = <<>>
  /\ orderly' = (orderly /\ xmit.pc = "idle")

MPPauseQueue ==
  /\ pause = "entered" /\ SendLock = "free"
  /\ MpFreeQueuedSendNetBufferLists
  /\ pause' = "freed"
  /\ UNCHANGED <<SendLock, AdapterState, reset, rfreed, aborted, linkVars,
                 intrVars, tcbVars, tbdVars, nicVars, SendingNetBufferList,
                 NextSend, entered, xmit, maps, dpcVars>>

(* The receive side holds no reference (RecvPath has the general case):    *)
(* MPPause returns NDIS_STATUS_SUCCESS.                                    *)
MPPauseReturn ==
  /\ pause = "freed"
  /\ AdapterState' = "NicPaused"
  /\ pause' = "none"
  /\ UNCHANGED <<SendLock, resetVars, linkVars, intrVars, tcbVars, tbdVars,
                 nicVars, waitVars, nblVars, xmit, maps, dpcVars>>

MPRestart ==
  /\ AdapterState = "NicPaused"
  /\ AdapterState' = "NicRunning"
  /\ UNCHANGED <<SendLock, pause, resetVars, linkVars, intrVars, tcbVars,
                 tbdVars, nicVars, waitVars, nblVars, xmit, maps, dpcVars>>

(* Mutant: the cancelled lists stay in the queue.                          *)
CancelKeepsQueue(S) ==
  /\ "cancel" \in Env
  /\ SendLock = "free"
  /\ LET queued == {SendWaitQueue[k] : k \in 1 .. Len(SendWaitQueue)}
         gone == {l \in queued \cap S : l # SendingNetBufferList}
     IN  /\ gone # {}
         /\ owed' = Completed(gone)
  /\ UNCHANGED <<SendLock, stateVars, linkVars, intrVars, tcbVars, tbdVars,
                 nicVars, waitVars, RefCount, NextSend, entered, xmit, maps,
                 dpcVars>>

(* The queued lists with the given id (here: any set S of lists) but the   *)
(* one being sent are unlinked and completed.                              *)
MPCancelSendNetBufferLists(S) ==
  /\ "cancel" \in Env
  /\ SendLock = "free"
  /\ LET Cancelled(l) == l \in S /\ l # SendingNetBufferList
         Kept(l) == ~ Cancelled(l)
         queued == {SendWaitQueue[k] : k \in 1 .. Len(SendWaitQueue)}
         gone == {l \in queued : Cancelled(l)}
     IN  /\ gone # {}
         /\ SendWaitQueue' = SelectSeq(SendWaitQueue, Kept)
         /\ owed' = Completed(gone)
  /\ UNCHANGED <<SendLock, stateVars, linkVars, intrVars, tcbVars, tbdVars,
                 nicVars, SendingNetBufferList, RefCount, NextSend, entered,
                 xmit, maps, dpcVars>>

-----------------------------------------------------------------------------
(* MPReset, which NDIS calls when MPCheckForHang finds a send stuck; here, *)
(* at any time but during a pause.                                         *)

(* With all locks held: RESET_IN_PROGRESS, the interrupt is disabled and   *)
(* the chip reset, which stops the transmitter.                            *)
MPReset ==
  /\ "reset" \in Env
  /\ reset = "none" /\ pause = "none" /\ SendLock = "free"
  /\ reset' = "queue"
  /\ masked' = TRUE /\ IntrStatus' = {}
  /\ txOn' = FALSE /\ txNext' = 0
  /\ UNCHANGED <<SendLock, AdapterState, pause, rfreed, aborted, orderly,
                 linkVars, tcbVars, tbdVars, wire, waitVars, nblVars, xmit,
                 maps, dpcVars>>

(* SendLock alone is taken again; it is released to complete lists.        *)
MPResetQueue ==
  /\ reset = "queue" /\ SendLock = "free"
  /\ MpFreeQueuedSendNetBufferLists
  /\ SendLock' = IF QueuedAndWhole = {} THEN "reset" ELSE "free"
  /\ reset' = "busy"
  /\ UNCHANGED <<AdapterState, pause, rfreed, aborted, linkVars, intrVars,
                 tcbVars, tbdVars, nicVars, SendingNetBufferList, NextSend,
                 entered, xmit, maps, dpcVars>>

(* Mutant: only frames the NIC has sent are freed (as the test commented   *)
(* out in mp_nic.c:1708 had it).                                           *)
SentIsLeft == nBusySend > 0 /\ Sent(CurrSendHead)
BusyIsLeft == nBusySend > 0

(* What MP_FREE_SEND_NET_BUFFER does with the count of l: the list of the  *)
(* last NET_BUFFER is aborted.                                             *)
Abort(l) ==
  /\ RefCount' = [RefCount EXCEPT ![l] = @ - 1]
  /\ IF RefCount[l] = 1
     THEN aborted' = Append(aborted, l)
     ELSE UNCHANGED aborted

ResetHolds == SendLock \in {"free", "reset"}

(* MpFreeBusySendNetBufferLists: the oldest TCB is freed, whether the NIC  *)
(* is done or not.  One that still waits for its mapping has no SG list.   *)
MPResetFreeTcb ==
  /\ reset = "busy" /\ ResetHolds /\ BusyIsLeft
  /\ LET i == CurrSendHead
     IN  /\ tcb' = [tcb EXCEPT ![i].inUse = FALSE, ![i].waiting = FALSE,
                               ![i].nb = NULL]
         /\ CurrSendHead' = NextTcb(i)
         /\ nBusySend' = nBusySend - 1
         /\ IF tcb[i].nb # NULL /\ ~ tcb[i].waiting
            THEN /\ reset' = "freeSG" /\ rfreed' = tcb[i].nbl
                 /\ SendLock' = "free"
                 /\ UNCHANGED <<RefCount, aborted>>
            ELSE /\ IF tcb[i].nbl = NULL
                    THEN UNCHANGED <<RefCount, aborted>>
                    ELSE Abort(tcb[i].nbl)
                 /\ SendLock' = "reset"
                 /\ UNCHANGED <<reset, rfreed>>
  /\ UNCHANGED <<AdapterState, pause, orderly, linkVars, intrVars,
                 CurrSendTail, tbdVars, nicVars, waitVars, NextSend, entered,
                 owed, xmit, maps, dpcVars>>

MPResetFreeSGList ==
  /\ reset = "freeSG" /\ SendLock = "free"
  /\ Abort(rfreed)
  /\ rfreed' = NULL
  /\ reset' = "busy" /\ SendLock' = "reset"
  /\ UNCHANGED <<AdapterState, pause, orderly, linkVars, intrVars, tcbVars,
                 tbdVars, nicVars, waitVars, NextSend, entered, owed, xmit,
                 maps, dpcVars>>

MPResetFreed ==
  /\ reset = "busy" /\ ResetHolds /\ ~ BusyIsLeft
  /\ reset' = IF aborted = <<>> THEN "init" ELSE "complete"
  /\ SendLock' = IF aborted = <<>> THEN "reset" ELSE "free"
  /\ UNCHANGED <<AdapterState, pause, rfreed, aborted, orderly, linkVars,
                 intrVars, tcbVars, tbdVars, nicVars, waitVars, nblVars, xmit,
                 maps, dpcVars>>

MPResetComplete ==
  /\ reset = "complete"
  /\ owed' = Completed({aborted[k] : k \in 1 .. Len(aborted)})
  /\ aborted' = <<>>
  /\ reset' = "init"
  /\ UNCHANGED <<SendLock, AdapterState, pause, rfreed, orderly, linkVars,
                 intrVars, tcbVars, tbdVars, nicVars, waitVars, RefCount,
                 NextSend, entered, xmit, maps, dpcVars>>

(* The TCBs are zeroed and NICInitSend starts afresh; nBusySend and        *)
(* SendingNetBufferList stay.                                              *)
MPResetInitSend ==
  /\ reset = "init" /\ ResetHolds
  /\ tcb' = [i \in Tcbs |-> ZeroTcb]
  /\ CurrSendHead' = 0 /\ CurrSendTail' = 0
  /\ tbd' = [t \in DOMAIN tbd |-> ZeroTbd] /\ NextFreeTbd' = 0
  /\ reset' = "receive" /\ SendLock' = "free"
  /\ UNCHANGED <<AdapterState, pause, rfreed, aborted, orderly, linkVars,
                 intrVars, nBusySend, nicVars, waitVars, nblVars, xmit, maps,
                 dpcVars>>

(* All locks again, the receiver (RecvRing), interrupts.                   *)
MPResetEnd ==
  /\ reset = "receive" /\ SendLock = "free"
  /\ reset' = "none" /\ masked' = FALSE
  /\ UNCHANGED <<SendLock, AdapterState, pause, rfreed, aborted, orderly,
                 linkVars, IntrStatus, tcbVars, tbdVars, nicVars, waitVars,
                 nblVars, xmit, maps, dpcVars>>

-----------------------------------------------------------------------------
Enter == \E l \in Nbls : MPSendEnter(l)
SendLocked ==
  \E l \in Nbls : MPSendNoLink(l) \/ MPSendQueue(l) \/ MPSendStart(l)

Xmit ==
  \/ XmitAllocateTcb \/ XmitMapped \/ XmitMapFailed \/ XmitNoTcb
  \/ XmitDone \/ XmitFailed \/ XmitBugCheck

ProcessSGList ==
  \E m \in maps :
    \/ \E n \in 1 .. NIC_MAX_PHYS_BUF_COUNT : MpProcessSGList(m[1], m[2], n)
    \/ MpProcessSGListCopyFailed(m[1], m[2])
    \/ MpProcessSGListEmpty(m[1], m[2])
    \/ MpProcessSGListLate(m[1], m[2])
    \/ MpProcessSGListBugCheck(m[1], m[2])

Dpc ==
  \/ DpcAck \/ DpcLinkState \/ DpcLinkFlag \/ DpcRelock
  \/ DpcSendIdle \/ DpcSendEnter \/ DpcFreeTcb \/ DpcFreeSGList
  \/ DpcReapEnd \/ DpcComplete \/ DpcDequeue \/ DpcDequeueEnd

Ndis ==
  \/ MPPause \/ MPPauseQueue \/ MPPauseReturn \/ MPRestart
  \/ \E S \in SUBSET Nbls : MPCancelSendNetBufferLists(S)

Reset ==
  \/ MPReset \/ MPResetQueue \/ MPResetFreeTcb \/ MPResetFreeSGList
  \/ MPResetFreed \/ MPResetComplete \/ MPResetInitSend \/ MPResetEnd

Next ==
  \/ Enter \/ SendLocked \/ Xmit \/ ProcessSGList
  \/ NicTransmit \/ CableChange \/ OtherInterrupt
  \/ Dpc \/ Ndis \/ Reset

Spec == Init /\ [][Next]_sendVars

(* Every thread of the driver goes on, a spinlock is granted in the end to *)
(* every CPU that waits for it, NDIS maps what it was given, the NIC sends *)
(* and interrupts.  Nothing brings interrupts of other causes.             *)
Fairness ==
  /\ \A l \in Nbls : SF_sendVars(MPSendNoLink(l) \/ MPSendQueue(l)
                                    \/ MPSendStart(l))
  /\ SF_sendVars(Xmit) /\ SF_sendVars(ProcessSGList)
  /\ WF_sendVars(NicTransmit)
  /\ SF_sendVars(Dpc)
FairSpec == Spec /\ Fairness

-----------------------------------------------------------------------------
Busy == {i \in Tcbs : tcb[i].inUse}

(* Types.                                                                  *)
TypeOK ==
  /\ SendLock \in {"free", "send", "dpc", "reset"}
  /\ reset \in {"none", "queue", "busy", "freeSG", "complete", "init",
                "receive"}
  /\ AdapterState \in {"NicRunning", "NicPausing", "NicPaused"}
  /\ pause \in {"none", "entered", "freed"}
  /\ cable \in BOOLEAN /\ MediaState \in BOOLEAN /\ NoCable \in BOOLEAN
  /\ IntrStatus \subseteq {"tx", "link", "other"}
  /\ CurrSendHead \in Tcbs /\ CurrSendTail \in Tcbs
  /\ nBusySend \in Int
  /\ NextFreeTbd \in 0 .. nTbds - 1 /\ txNext \in 0 .. nTbds - 1
  /\ SendWaitQueue \in Seq(Nbls)
  /\ SendingNetBufferList \in Nbls \cup {NULL}
  /\ RefCount \in [Nbls -> Int] /\ owed \in [Nbls -> Int]
  /\ xmit.pc \in {"idle", "loop", "mapping", "failed"}
  /\ dpc \in {"idle", "link", "linkflag", "linkrelock", "linkdequeue",
              "linksending", "send", "reap", "freeSG", "complete", "relock",
              "dequeue", "sending", "bugcheck"}

(* No TBD belongs to two frames: neither to two that were given to the     *)
(* NIC nor to one of those and to one that is being mapped, although       *)
(* GetNextFreeTBD does not advance NextFreeTbd.                            *)
TbdsApart ==
  \A i, j \in Busy : i # j =>
    /\ TbdsOf(i) \cap TbdsOf(j) = {}
    /\ <<i, tcb[i].nb>> \in maps => tcb[i].TbdStart \notin TbdsOf(j)

(* What the NIC may read is a frame of a busy TCB.                         *)
NicOwnsBusyFrames ==
  \A t \in 0 .. nTbds - 1 : tbd[t].own =>
    \E i \in Busy : t \in TbdsOf(i) /\ tbd[t].frame = tcb[i].nb

Queued(l) == \E k \in 1 .. Len(SendWaitQueue) : SendWaitQueue[k] = l

(* The reference count of a list that was taken in is the number of its    *)
(* NET_BUFFERs that are with a TCB, being freed by the DPC or a reset, or  *)
(* still to be sent.                                                       *)
ToSend(l) ==
  (IF xmit.nbl = l /\ xmit.pc # "failed"
   THEN NbCount[l] - xmit.nb + (IF xmit.pc = "loop" THEN 1 ELSE 0) ELSE 0)
  + (IF Queued(l) /\ NextSend[l] # 0 THEN NbCount[l] - NextSend[l] + 1 ELSE 0)

RefsCounted ==
  \A l \in Nbls :
    owed[l] = 1 /\ l \notin entered =>
      RefCount[l] = Cardinality({i \in Busy : tcb[i].nbl = l
                                              /\ tcb[i].nb # NULL})
                    + (IF freed.nbl = l THEN 1 ELSE 0)
                    + (IF rfreed = l THEN 1 ELSE 0) + ToSend(l)

(* Every list NDIS sends is completed at most once.                        *)
CompletedOnce == \A l \in Nbls : owed[l] \in {0, 1}

(* No list was completed while a control block in use points to it, or     *)
(* while the DPC or a reset frees a NET_BUFFER of it.  (The CPU that is    *)
(* still in the loop of MiniportSendNetBufferList is not spoken of: it     *)
(* reads the list after the NIC may have sent all of it, mp_nic.c:298.)    *)
BusyNblsOwed ==
  /\ \A i \in Busy : owed[tcb[i].nbl] = 1
  /\ freed.nbl # NULL => owed[freed.nbl] = 1
  /\ rfreed # NULL => owed[rfreed] = 1

(* As long as the queue is emptied only while no list is being sent, every *)
(* list that was taken in is in the queue, being sent, with a TCB, or in   *)
(* the hands of the DPC or of the reset: an abort, a pause or a failure    *)
(* loses none (comments "Free the packets on SendWaitList" and "being      *)
(* actively sent & stopped" in mp_main.c:982-988).                         *)
InHand(l) ==
  \/ Queued(l) \/ xmit.nbl = l \/ \E i \in Busy : tcb[i].nbl = l
  \/ freed.nbl = l \/ rfreed = l
  \/ \E k \in 1 .. Len(CompleteNetBufferLists) : CompleteNetBufferLists[k] = l
  \/ \E k \in 1 .. Len(aborted) : aborted[k] = l
NoListLost ==
  orderly => \A l \in Nbls : owed[l] = 1 /\ l \notin entered => InHand(l)

(* Every list that is sent is completed in the end: "If we queued any      *)
(* transmits because we didn't have any TBDs earlier, dequeue and send     *)
(* those packets now, as long as we have free TBDs" (mp_nic.c:912-913).    *)
SentIsCompleted == \A l \in Nbls : owed[l] = 1 ~> owed[l] = 0

(* The lost wake-up of mp_nic.c:919: lists wait in the queue while nothing *)
(* is with the NIC, no CPU sends and the DPC has nothing to run for.       *)
Parked ==
  /\ SendWaitQueue # <<>> /\ nBusySend = 0
  /\ xmit = NoXmit /\ dpc = "idle" /\ ~ masked /\ IntrStatus = {}

(* ... and that is the one way a list may wait for ever: every list that   *)
(* is sent is completed, or the driver is parked for good.  No TCB, no     *)
(* interrupt and no reference is lost on the way of a list through the     *)
(* queue and back, whoever sends it.                                       *)
SentUnlessParked == SentIsCompleted \/ <>[]Parked

(* mp.h:154: RemoveHeadQueue is for a queue that is not empty.             *)
HeadToRemove == dpc # "bugcheck"
=============================================================================
