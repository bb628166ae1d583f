------------------------------ MODULE RecvPath ------------------------------
(***************************************************************************)
(* The receive path of the miniport over the ring of RecvRing: the         *)
(* interrupt and its DPC (MPIsr, MPHandleInterrupt,                        *)
(* MpHandleRecvInterrupt), the return of buffers by NDIS                   *)
(* (MPReturnNetBufferLists), the growth of the pool (MPAllocateComplete)   *)
(* and pause and restart (MPPause, MPRestart), running on several CPUs.    *)
(*                                                                         *)
(* A code section under Adapter->RcvLock that touches the ring more than   *)
(* once is split into one step per ring operation, with the lock held in   *)
(* between; the others are one step.  The adapter stays powered and        *)
(* is not reset.                                                           *)
(***************************************************************************)
EXTENDS RecvRing, Functions

CONSTANTS
  NIC_DEF_RECV_BUFFERS,   (* frames indicated in one batch                 *)
  LoopCount,              (* batches handled by one DPC                    *)
  MIN_NUM_RECV_BUFFER,    (* below this many ready, indicate with          *)
                          (* NDIS_STATUS_RESOURCES and grow the pool       *)
  MaxNumRecvBuffer        (* the pool may grow to this many MP_RBDs        *)

(* LoopCount is NIC_MAX_RECV_BUFFERS / NIC_DEF_RECV_BUFFERS + 1, and the   *)
(* ring has at most NIC_MAX_RECV_BUFFERS descriptors.                      *)
ASSUME PathAssumption ==
  /\ NIC_DEF_RECV_BUFFERS \in Nat \ {0}
  /\ LoopCount \in Nat \ {0}
  /\ LoopCount * NIC_DEF_RECV_BUFFERS >= NumHwRecvBuffers
  /\ MIN_NUM_RECV_BUFFER \in Nat
  /\ NIC_MIN_RECV_BUFFERS <= MIN_NUM_RECV_BUFFER
  /\ MaxNumRecvBuffer \in Nat

VARIABLES
  RcvLock,           (* who keeps the lock between steps                   *)
  AdapterState,      (* "NicPaused", "NicRunning" or "NicPausing"          *)
  RcvRefCount,
  OutstandingRecv,   (* Adapter->PoMgmt.OutstandingRecv                    *)
  RecvPendList,      (* the MP_RBDs on Adapter->RecvPendList               *)
  allocated,         (* the MP_RBDs in existence; CurrNumRecvBuffer many   *)
  bAllocNewRecvBuffer,
  IntrStatus,        (* a bit of the mask is set in the IntrStatus register*)
  IntrMask,          (* the interrupt is enabled                           *)
  stalled,           (* the NIC met a clear OWN bit (recvnew.c:42-47)      *)
  dpc,               (* where the DPC is                                   *)
  pMpRbd,            (* its frame being dropped, or NULL                   *)
  NetBufferList,     (* its batch: to be indicated as pended               *)
  FreeNetBufferList, (* its batch: to be indicated with RESOURCES          *)
  LoopIndex,
  bContinue,
  bAllocNew,         (* its local bAllocNewRecvBuffer                      *)
  ret,               (* where MPReturnNetBufferLists is                    *)
  NetBufferLists,    (* what is left of its argument                       *)
  ndisHeld,          (* the MP_RBDs whose NetBufferLists NDIS holds        *)
  pause,             (* NDIS's pause request: "entered", "pending", "done" *)
                     (* or "none"                                          *)
  arrived            (* history: the filled MP_RBDs neither dropped nor    *)
                     (* indicated, in order of arrival                     *)

lockVars == <<RcvLock>>
poolVars == <<allocated, bAllocNewRecvBuffer>>
refVars  == <<AdapterState, RcvRefCount, pause>>
pendVars == <<OutstandingRecv, RecvPendList, ndisHeld>>
intrVars == <<IntrStatus, IntrMask, stalled>>
dpcVars  == <<dpc, pMpRbd, NetBufferList, FreeNetBufferList, LoopIndex,
              bContinue, bAllocNew>>
retVars  == <<ret, NetBufferLists>>
pathVars == <<ringVars, lockVars, poolVars, refVars, pendVars, intrVars,
              dpcVars, retVars, arrived>>

Pausing == AdapterState = "NicPausing"
CurrNumRecvBuffer == Cardinality(allocated)
NetBufferListCount == Len(NetBufferList) + Len(FreeNetBufferList)

(* No lock held, nothing in flight, no DPC: the ring is set up and the     *)
(* interrupt is enabled.                                                   *)
AtRest ==
  /\ Init
  /\ RcvLock = "free"
  /\ OutstandingRecv = 0 /\ RecvPendList = {} /\ ndisHeld = {}
  /\ allocated = Range(RecvList) /\ bAllocNewRecvBuffer = FALSE
  /\ IntrStatus = FALSE /\ IntrMask = TRUE /\ stalled = FALSE
  /\ dpc = "idle" /\ pMpRbd = NULL /\ NetBufferList = <<>>
  /\ FreeNetBufferList = <<>> /\ LoopIndex = 0 /\ bContinue = TRUE
  /\ bAllocNew = FALSE
  /\ ret = "idle" /\ NetBufferLists = {}
  /\ arrived = <<>>

(* The end of MPInitialize: the adapter is paused, MPRestart comes next.   *)
PathInit ==
  /\ AtRest
  /\ AdapterState = "NicPaused" /\ RcvRefCount = 0 /\ pause = "done"

-----------------------------------------------------------------------------
(* The NIC.                                                                *)

NicFrame ==
  /\ ~ stalled
  /\ NicReceive
  /\ arrived' = Append(arrived, bufAddr[nicNext])
  /\ IntrStatus' = TRUE
  /\ UNCHANGED <<lockVars, poolVars, refVars, pendVars, IntrMask, stalled,
                 dpcVars, retVars>>

(* A frame comes and the NIC owns no descriptor: it stops, and no write to *)
(* the command register but a disable and an enable wakes it up            *)
(* (recvnew.c:42-50).  RxFIFOOver may or may not be raised.                *)
NicStall ==
  /\ ~ stalled
  /\ receiver = "on"
  /\ ~ OWN[nicNext]
  /\ stalled' = TRUE
  /\ IntrStatus' \in {IntrStatus, TRUE}
  /\ UNCHANGED <<ringVars, lockVars, poolVars, refVars, pendVars, IntrMask,
                 dpcVars, retVars, arrived>>

-----------------------------------------------------------------------------
(* The interrupt.                                                          *)

MPIsr ==
  /\ IntrMask /\ IntrStatus
  /\ dpc = "idle"
  /\ IntrMask' = FALSE
  /\ dpc' = "queued"
  /\ UNCHANGED <<ringVars, lockVars, poolVars, refVars, pendVars, IntrStatus,
                 stalled, pMpRbd, NetBufferList, FreeNetBufferList, LoopIndex,
                 bContinue, bAllocNew, retVars, arrived>>

(* NIC_ACK_INTERRUPT.                                                      *)
DpcAck ==
  /\ dpc = "queued"
  /\ IntrStatus' = FALSE
  /\ dpc' = "acked"
  /\ UNCHANGED <<ringVars, lockVars, poolVars, refVars, pendVars, IntrMask,
                 stalled, pMpRbd, NetBufferList, FreeNetBufferList, LoopIndex,
                 bContinue, bAllocNew, retVars, arrived>>

(* MpHandleRecvInterrupt returns at once unless the adapter is running.    *)
DpcIgnore ==
  /\ dpc = "acked" /\ RcvLock = "free"
  /\ AdapterState \in {"NicPausing", "NicPaused"}
  /\ dpc' = "restart"
  /\ UNCHANGED <<ringVars, lockVars, poolVars, refVars, pendVars, intrVars,
                 pMpRbd, NetBufferList, FreeNetBufferList, LoopIndex,
                 bContinue, bAllocNew, retVars, arrived>>

(* It takes a receive reference for itself and enters the loop.            *)
DpcEnter ==
  /\ dpc = "acked" /\ RcvLock = "free"
  /\ AdapterState \notin {"NicPausing", "NicPaused"}
  /\ RcvLock' = "dpc"
  /\ RcvRefCount' = RcvRefCount + 1
  /\ dpc' = "receive"
  /\ LoopIndex' = 1 /\ bContinue' = TRUE /\ bAllocNew' = FALSE
  /\ UNCHANGED <<ringVars, poolVars, AdapterState, pause, pendVars, intrVars,
                 pMpRbd, NetBufferList, FreeNetBufferList, retVars, arrived>>

(* Mutant: the batch is linked at its head.                                *)
PendAtHead(x) ==
  /\ dpc = "receive" /\ NetBufferListCount < NIC_DEF_RECV_BUFFERS
  /\ RecvTakeRbd(x)
  /\ nReadyRecv' >= MIN_NUM_RECV_BUFFER
  /\ RecvPendList' = RecvPendList \cup {x}
  /\ RcvRefCount' = RcvRefCount + 1
  /\ NetBufferList' = <<x>> \o NetBufferList
  /\ UNCHANGED <<lockVars, poolVars, AdapterState, pause, OutstandingRecv,
                 ndisHeld, intrVars, dpc, pMpRbd, FreeNetBufferList, LoopIndex,
                 bContinue, bAllocNew, retVars, arrived>>

(* A good frame with enough buffers left: it will be pended.               *)
DpcPend(x) ==
  /\ dpc = "receive" /\ NetBufferListCount < NIC_DEF_RECV_BUFFERS
  /\ RecvTakeRbd(x)
  /\ nReadyRecv' >= MIN_NUM_RECV_BUFFER
  /\ RecvPendList' = RecvPendList \cup {x}
  /\ RcvRefCount' = RcvRefCount + 1
  /\ NetBufferList' = Append(NetBufferList, x)
  /\ UNCHANGED <<lockVars, poolVars, AdapterState, pause, OutstandingRecv,
                 ndisHeld, intrVars, dpc, pMpRbd, FreeNetBufferList, LoopIndex,
                 bContinue, bAllocNew, retVars, arrived>>

(* A good frame with too few left: the driver keeps the buffer.            *)
DpcResources(x) ==
  /\ dpc = "receive" /\ NetBufferListCount < NIC_DEF_RECV_BUFFERS
  /\ RecvTakeRbd(x)
  /\ nReadyRecv' < MIN_NUM_RECV_BUFFER
  /\ FreeNetBufferList' = Append(FreeNetBufferList, x)
  /\ bAllocNew' = TRUE
  /\ UNCHANGED <<lockVars, poolVars, refVars, pendVars, intrVars, dpc, pMpRbd,
                 NetBufferList, LoopIndex, bContinue, retVars, arrived>>

(* A frame with errors or a bad length, or no packet filter is set: it is  *)
(* not counted, and its buffer goes back to the ring.                      *)
DpcBad(x) ==
  /\ dpc = "receive" /\ NetBufferListCount < NIC_DEF_RECV_BUFFERS
  /\ RecvTakeRbd(x)
  /\ pMpRbd' = x
  /\ dpc' = "drop"
  /\ UNCHANGED <<lockVars, poolVars, refVars, pendVars, intrVars,
                 NetBufferList, FreeNetBufferList, LoopIndex, bContinue,
                 bAllocNew, retVars, arrived>>

DpcDrop ==
  /\ dpc = "drop"
  /\ NICReturnRBD(pMpRbd)
  /\ arrived' = WithoutEntry(arrived, pMpRbd)
  /\ pMpRbd' = NULL
  /\ dpc' = "receive"
  /\ UNCHANGED <<lockVars, poolVars, refVars, pendVars, intrVars,
                 NetBufferList, FreeNetBufferList, LoopIndex, bContinue,
                 bAllocNew, retVars>>

(* The inner loop has nothing (more) to take.                              *)
NothingCompleted ==
  RecvList # <<>> => OWN[HwRbd[pMpRbds[CurrentRBD]]]

(* The inner loop is left with a batch, and the lock is released.          *)
DpcEndBatch ==
  /\ dpc = "receive" /\ NetBufferListCount > 0
  /\ NetBufferListCount < NIC_DEF_RECV_BUFFERS => NothingCompleted
  /\ bContinue' = (NetBufferListCount = NIC_DEF_RECV_BUFFERS)
  /\ OutstandingRecv' = OutstandingRecv + NetBufferListCount
  /\ RcvLock' = "free"
  /\ dpc' = "indicate"
  /\ UNCHANGED <<ringVars, poolVars, refVars, RecvPendList, ndisHeld, intrVars,
                 pMpRbd, NetBufferList, FreeNetBufferList, LoopIndex,
                 bAllocNew, retVars, arrived>>

(* The inner loop is left with nothing.                                    *)
DpcEndEmpty ==
  /\ dpc = "receive" /\ NetBufferListCount = 0
  /\ NothingCompleted
  /\ bContinue' = FALSE
  /\ dpc' = "tail"
  /\ UNCHANGED <<ringVars, lockVars, poolVars, refVars, pendVars, intrVars,
                 pMpRbd, NetBufferList, FreeNetBufferList, LoopIndex,
                 bAllocNew, retVars, arrived>>

(* NdisMIndicateReceiveNetBufferLists, for the pended frames and then for  *)
(* those NDIS must copy before it returns.                                 *)
DpcIndicate ==
  /\ dpc = "indicate"
  /\ ndisHeld' = ndisHeld \cup Range(NetBufferList)
  /\ arrived' = SubSeq(arrived, NetBufferListCount + 1, Len(arrived))
  /\ NetBufferList' = <<>>
  /\ dpc' = "indicated"
  /\ UNCHANGED <<ringVars, lockVars, poolVars, refVars, OutstandingRecv,
                 RecvPendList, intrVars, pMpRbd, FreeNetBufferList, LoopIndex,
                 bContinue, bAllocNew, retVars>>

DpcReacquire ==
  /\ dpc = "indicated" /\ RcvLock = "free"
  /\ RcvLock' = "dpc"
  /\ dpc' = "resources"
  /\ UNCHANGED <<ringVars, poolVars, refVars, pendVars, intrVars, pMpRbd,
                 NetBufferList, FreeNetBufferList, LoopIndex, bContinue,
                 bAllocNew, retVars, arrived>>

DpcReturnResources ==
  /\ dpc = "resources" /\ FreeNetBufferList # <<>>
  /\ OutstandingRecv' = OutstandingRecv - 1
  /\ NICReturnRBD(Head(FreeNetBufferList))
  /\ FreeNetBufferList' = Tail(FreeNetBufferList)
  /\ UNCHANGED <<lockVars, poolVars, refVars, RecvPendList, ndisHeld, intrVars,
                 dpc, pMpRbd, NetBufferList, LoopIndex, bContinue, bAllocNew,
                 retVars, arrived>>

(* Mutant: one batch more than LoopCount.                                  *)
OneBatchMore ==
  /\ dpc = "resources" /\ FreeNetBufferList = <<>>
  /\ IF LoopIndex <= LoopCount /\ bContinue
     THEN dpc' = "receive" /\ LoopIndex' = LoopIndex + 1
     ELSE dpc' = "tail" /\ UNCHANGED LoopIndex
  /\ UNCHANGED <<ringVars, lockVars, poolVars, refVars, pendVars, intrVars,
                 pMpRbd, NetBufferList, FreeNetBufferList, bContinue,
                 bAllocNew, retVars, arrived>>

DpcNextBatch ==
  /\ dpc = "resources" /\ FreeNetBufferList = <<>>
  /\ IF LoopIndex < LoopCount /\ bContinue
     THEN dpc' = "receive" /\ LoopIndex' = LoopIndex + 1
     ELSE dpc' = "tail" /\ UNCHANGED LoopIndex
  /\ UNCHANGED <<ringVars, lockVars, poolVars, refVars, pendVars, intrVars,
                 pMpRbd, NetBufferList, FreeNetBufferList, bContinue,
                 bAllocNew, retVars, arrived>>

(* After the loop: one more MP_RBD is asked for when buffers ran low.  The *)
(* lookaside list or NDIS may refuse.                                      *)
AskForMpRbd ==
  IF bAllocNew /\ ~ bAllocNewRecvBuffer
       /\ CurrNumRecvBuffer < MaxNumRecvBuffer
  THEN bAllocNewRecvBuffer' \in BOOLEAN
  ELSE UNCHANGED bAllocNewRecvBuffer

(* The end of MpHandleRecvInterrupt: the DPC's reference is dropped, and   *)
(* the last one to go completes a pause.                                   *)
DpcTail ==
  /\ dpc = "tail"
  /\ AskForMpRbd
  /\ RcvRefCount' = RcvRefCount - 1
  /\ IF RcvRefCount' = 0 /\ Pausing
     THEN AdapterState' = "NicPaused" /\ dpc' = "complete"
     ELSE UNCHANGED AdapterState /\ dpc' = "restart"
  /\ RcvLock' = "free"
  /\ LoopIndex' = 0 /\ bContinue' = TRUE /\ bAllocNew' = FALSE
  /\ UNCHANGED <<ringVars, allocated, pause, pendVars, intrVars, pMpRbd,
                 NetBufferList, FreeNetBufferList, retVars, arrived>>

(* NdisMPauseComplete, with the lock released.                             *)
DpcPauseComplete ==
  /\ dpc = "complete"
  /\ pause' = "done"
  /\ dpc' = "restart"
  /\ UNCHANGED <<ringVars, lockVars, poolVars, AdapterState, RcvRefCount,
                 pendVars, intrVars, pMpRbd, NetBufferList, FreeNetBufferList,
                 LoopIndex, bContinue, bAllocNew, retVars, arrived>>

(* Mutant: the receiver is started at the base of the ring.                *)
StartAtBase ==
  /\ dpc = "restart" /\ RcvLock = "free"
  /\ receiver' = "on" /\ nicNext' = 0
  /\ dpc' = "enable"
  /\ UNCHANGED <<driverVars, OWN, bufAddr, lockVars, poolVars,
                 refVars, pendVars, intrVars, pMpRbd, NetBufferList,
                 FreeNetBufferList, LoopIndex, bContinue, bAllocNew, retVars,
                 arrived>>

(* "Start the receive unit if it had stopped": CmdRxEnb is set unless it   *)
(* is set already.                                                         *)
DpcStartReceiver ==
  /\ dpc = "restart" /\ RcvLock = "free"
  /\ receiver' = "on"
  /\ dpc' = "enable"
  /\ UNCHANGED <<driverVars, OWN, bufAddr, nicNext, lockVars, poolVars,
                 refVars, pendVars, intrVars, pMpRbd, NetBufferList,
                 FreeNetBufferList, LoopIndex, bContinue, bAllocNew, retVars,
                 arrived>>

(* Mutant: the interrupt stays disabled.                                   *)
StayDisabled ==
  /\ dpc = "enable"
  /\ dpc' = "idle"
  /\ UNCHANGED <<ringVars, lockVars, poolVars, refVars, pendVars, intrVars,
                 pMpRbd, NetBufferList, FreeNetBufferList, LoopIndex,
                 bContinue, bAllocNew, retVars, arrived>>

DpcEnableInterrupt ==
  /\ dpc = "enable"
  /\ IntrMask' = TRUE
  /\ dpc' = "idle"
  /\ UNCHANGED <<ringVars, lockVars, poolVars, refVars, pendVars, IntrStatus,
                 stalled, pMpRbd, NetBufferList, FreeNetBufferList, LoopIndex,
                 bContinue, bAllocNew, retVars, arrived>>

-----------------------------------------------------------------------------
(* NDIS gives back some of what it holds.                                  *)

MPReturnNetBufferLists(S) ==
  /\ ret = "idle" /\ RcvLock = "free"
  /\ RcvLock' = "ret"
  /\ NetBufferLists' = S
  /\ ret' = "return"
  /\ UNCHANGED <<ringVars, poolVars, refVars, pendVars, intrVars, dpcVars,
                 arrived>>

(* Mutant: the MP_RBD stays on RecvPendList.                               *)
ReturnStaysPended(x) ==
  /\ ret = "return" /\ x \in NetBufferLists
  /\ NetBufferLists' = NetBufferLists \ {x}
  /\ ndisHeld' = ndisHeld \ {x}
  /\ OutstandingRecv' = OutstandingRecv - 1
  /\ NICReturnRBD(x)
  /\ RcvRefCount' = RcvRefCount - 1
  /\ UNCHANGED <<lockVars, poolVars, AdapterState, pause, RecvPendList,
                 intrVars, dpcVars, ret, arrived>>

(* The branch that shrinks the pool instead is not here: it needs a pool   *)
(* larger than NumRecvBuffer, and MaxNumRecvBuffer equals that             *)
(* (mp_init.c:823, 1160).                                                  *)
ReturnOne(x) ==
  /\ ret = "return" /\ x \in NetBufferLists
  /\ NetBufferLists' = NetBufferLists \ {x}
  /\ ndisHeld' = ndisHeld \ {x}
  /\ RecvPendList' = RecvPendList \ {x}
  /\ OutstandingRecv' = OutstandingRecv - 1
  /\ NICReturnRBD(x)
  /\ RcvRefCount' = RcvRefCount - 1
  /\ UNCHANGED <<lockVars, poolVars, AdapterState, pause, intrVars, dpcVars,
                 ret, arrived>>

(* Mutant: the last buffer returned does not complete the pause.           *)
ReturnForgetsPause ==
  /\ ret = "return" /\ NetBufferLists = {}
  /\ ret' = "idle" /\ RcvLock' = "free"
  /\ UNCHANGED <<ringVars, poolVars, refVars, pendVars, intrVars, dpcVars,
                 NetBufferLists, arrived>>

ReturnEnd ==
  /\ ret = "return" /\ NetBufferLists = {}
  /\ IF RcvRefCount = 0 /\ Pausing
     THEN AdapterState' = "NicPaused" /\ ret' = "complete"
     ELSE UNCHANGED AdapterState /\ ret' = "idle"
  /\ RcvLock' = "free"
  /\ UNCHANGED <<ringVars, poolVars, RcvRefCount, pause, pendVars, intrVars,
                 dpcVars, NetBufferLists, arrived>>

ReturnPauseComplete ==
  /\ ret = "complete"
  /\ pause' = "done"
  /\ ret' = "idle"
  /\ UNCHANGED <<ringVars, lockVars, poolVars, AdapterState, RcvRefCount,
                 pendVars, intrVars, dpcVars, NetBufferLists, arrived>>

-----------------------------------------------------------------------------
(* MPAllocateComplete: the memory asked for came, or did not.              *)

MPAllocateComplete(x) ==
  /\ bAllocNewRecvBuffer /\ RcvLock = "free"
  /\ x \in Rbds \ allocated
  /\ allocated' = allocated \cup {x}
  /\ NICReturnRBD(x)
  /\ bAllocNewRecvBuffer' = FALSE
  /\ UNCHANGED <<lockVars, refVars, pendVars, intrVars, dpcVars, retVars,
                 arrived>>

MPAllocateFailed ==
  /\ bAllocNewRecvBuffer /\ RcvLock = "free"
  /\ bAllocNewRecvBuffer' = FALSE
  /\ UNCHANGED <<ringVars, lockVars, allocated, refVars, pendVars, intrVars,
                 dpcVars, retVars, arrived>>

-----------------------------------------------------------------------------
(* Pause and restart.                                                      *)

MPPause ==
  /\ AdapterState = "NicRunning" /\ pause = "none" /\ RcvLock = "free"
  /\ AdapterState' = "NicPausing"
  /\ pause' = "entered"
  /\ UNCHANGED <<ringVars, lockVars, poolVars, RcvRefCount, pendVars, intrVars,
                 dpcVars, retVars, arrived>>

(* Mutant: the adapter is paused whoever else holds a reference.           *)
PauseAtOnce ==
  /\ pause = "entered" /\ RcvLock = "free"
  /\ RcvRefCount' = RcvRefCount - 1
  /\ AdapterState' = "NicPaused" /\ pause' = "done"
  /\ UNCHANGED <<ringVars, lockVars, poolVars, pendVars, intrVars, dpcVars,
                 retVars, arrived>>

(* The second section of MPPause under the lock: the reference that        *)
(* MPRestart took is dropped.                                              *)
MPPauseReturn ==
  /\ pause = "entered" /\ RcvLock = "free"
  /\ RcvRefCount' = RcvRefCount - 1
  /\ IF RcvRefCount' = 0
     THEN AdapterState' = "NicPaused" /\ pause' = "done"
     ELSE UNCHANGED AdapterState /\ pause' = "pending"
  /\ UNCHANGED <<ringVars, lockVars, poolVars, pendVars, intrVars, dpcVars,
                 retVars, arrived>>

MPRestart ==
  /\ pause = "done" /\ RcvLock = "free"
  /\ RcvRefCount' = RcvRefCount + 1
  /\ AdapterState' = "NicRunning"
  /\ pause' = "none"
  /\ UNCHANGED <<ringVars, lockVars, poolVars, pendVars, intrVars, dpcVars,
                 retVars, arrived>>

-----------------------------------------------------------------------------
DpcTake == \E x \in Rbds : DpcPend(x) \/ DpcResources(x)

DpcStep ==
  \/ DpcAck \/ DpcIgnore \/ DpcEnter
  \/ DpcTake \/ (\E x \in Rbds : DpcBad(x)) \/ DpcDrop
  \/ DpcEndBatch \/ DpcEndEmpty
  \/ DpcIndicate \/ DpcReacquire \/ DpcReturnResources \/ DpcNextBatch
  \/ DpcTail \/ DpcPauseComplete \/ DpcStartReceiver \/ DpcEnableInterrupt

NdisReturns == \E S \in SUBSET ndisHeld : S # {} /\ MPReturnNetBufferLists(S)
RetStep == (\E x \in Rbds : ReturnOne(x)) \/ ReturnEnd \/ ReturnPauseComplete

AllocStep == (\E x \in Rbds : MPAllocateComplete(x)) \/ MPAllocateFailed

(* The life of a running adapter, and with pauses.                         *)
RunningNext ==
  \/ NicFrame \/ NicStall
  \/ MPIsr \/ DpcStep
  \/ NdisReturns \/ RetStep
  \/ AllocStep

PathNext == RunningNext \/ MPPause \/ MPPauseReturn \/ MPRestart

PathSpec == PathInit /\ [][PathNext]_pathVars

(* The end of the first MPRestart, no frame having come before.            *)
RunningInit ==
  /\ AtRest
  /\ AdapterState = "NicRunning" /\ RcvRefCount = 1 /\ pause = "none"

(* A DPC and a call of the driver run to their end, and an interrupt that  *)
(* is raised and enabled is served.  NDIS gives back what it holds: a      *)
(* protocol that keeps a buffer for ever blocks the pause by design.       *)
DriverRuns ==
  /\ WF_pathVars(MPIsr) /\ WF_pathVars(DpcStep)
  /\ WF_pathVars(RetStep) /\ WF_pathVars(MPPauseReturn)
  /\ WF_pathVars(NdisReturns)

(* The wire does not carry bad frames only for ever while the DPC loops.   *)
GoodFramesCome == SF_pathVars(DpcTake)

(* Behaviours that begin after the first MPRestart are those that          *)
(* EveryFrameHandled is about.                                             *)
FairPathSpec ==
  /\ (PathInit \/ RunningInit) /\ [][PathNext]_pathVars
  /\ DriverRuns /\ GoodFramesCome

-----------------------------------------------------------------------------
(* Types of the path's own variables.                                      *)
PathTypeOK ==
  /\ RcvLock \in {"free", "dpc", "ret"}
  /\ AdapterState \in {"NicPaused", "NicRunning", "NicPausing"}
  /\ RcvRefCount \in Nat /\ OutstandingRecv \in Int
  /\ RecvPendList \subseteq Rbds /\ ndisHeld \subseteq Rbds
  /\ allocated \subseteq Rbds /\ bAllocNewRecvBuffer \in BOOLEAN
  /\ IntrStatus \in BOOLEAN /\ IntrMask \in BOOLEAN /\ stalled \in BOOLEAN
  /\ dpc \in {"idle", "queued", "acked", "receive", "drop", "indicate",
              "indicated", "resources", "tail", "complete", "restart",
              "enable"}
  /\ pMpRbd \in Rbds \cup {NULL}
  /\ NetBufferList \in Seq(Rbds) /\ FreeNetBufferList \in Seq(Rbds)
  /\ LoopIndex \in 0 .. LoopCount
  /\ bContinue \in BOOLEAN /\ bAllocNew \in BOOLEAN
  /\ ret \in {"idle", "return", "complete"}
  /\ NetBufferLists \subseteq Rbds
  /\ pause \in {"none", "entered", "pending", "done"}
  /\ arrived \in Seq(Rbds)

(* Every MP_RBD in existence is in exactly one place: ready in the ring,   *)
(* pended (with NDIS or about to be), kept for a RESOURCES indication, or  *)
(* being dropped.  None is lost or in two places however returns, DPC and  *)
(* allocation interleave (the lists of mp_nic.c:1144-1265).                *)
RbdsAccountedFor ==
  LET dropped == {pMpRbd} \ {NULL} IN
  /\ allocated = Range(RecvList) \cup RecvPendList
                   \cup Range(FreeNetBufferList) \cup dropped
  /\ CurrNumRecvBuffer = Len(RecvList) + Cardinality(RecvPendList)
                         + Len(FreeNetBufferList) + Cardinality(dropped)

(* RcvRefCount counts the pended MP_RBDs, the DPC inside the receive loop  *)
(* and the reference MPRestart takes and MPPause drops.                    *)
DpcInLoop == dpc \in {"receive", "drop", "indicate", "indicated", "resources",
                      "tail"}

ReceiveRefs ==
  RcvRefCount = Cardinality(RecvPendList)
                + (IF DpcInLoop THEN 1 ELSE 0)
                + (IF pause \in {"none", "entered"} THEN 1 ELSE 0)

(* NdisMPauseComplete is called only for a pause that returned PENDING and *)
(* only once for it, whoever drops the last reference: DPC, return handler *)
(* or MPPause itself (mp_main.c:560-571, 1197-1209, mp_nic.c:1430-1442).   *)
PauseCompletedOnce ==
  /\ dpc = "complete" \/ ret = "complete" => pause = "pending"
  /\ ~ (dpc = "complete" /\ ret = "complete")

(* In a paused adapter no buffer is with NDIS and no DPC is about to       *)
(* indicate one (mp_main.c:518-519).                                       *)
PausedIsQuiet ==
  AdapterState = "NicPaused" =>
    RecvPendList = {} /\ ndisHeld = {} /\ ~ DpcInLoop

(* Frames are indicated in the order they arrived, though the pended ones  *)
(* of a batch go first and those indicated with RESOURCES second.          *)
FramesInOrder ==
  dpc = "indicate" =>
    LET batch == NetBufferList \o FreeNetBufferList
    IN  /\ Len(batch) <= Len(arrived)
        /\ batch = SubSeq(arrived, 1, Len(batch))

(* A pause completes once NDIS has given its buffers back.                 *)
PauseCompletes == pause = "entered" ~> pause = "done"

(* Every frame is dropped or indicated in the end, unless the adapter is   *)
(* paused: what the DPC finds then it leaves in the ring (mp_nic.c:1065).  *)
EveryFrameHandled ==
  [](pause = "none") =>
    \A x \in Rbds :
      (arrived # <<>> /\ arrived[1] = x)
        ~> ~ (arrived # <<>> /\ arrived[1] = x)

=============================================================================
