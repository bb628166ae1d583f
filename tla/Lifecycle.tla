------------------------------ MODULE Lifecycle ------------------------------
(***************************************************************************)
(* The life of one adapter: MPInitialize with the failure of any of its    *)
(* steps, MPHalt, MPShutdown and MpFreeAdapter, against the actors that    *)
(* use what they take and give back: the ISR, its DPC, the asynchronous    *)
(* allocation of receive buffers, the hang check and the adapter reset.    *)
(*                                                                         *)
(* NDIS serialises initialise, pause, restart, halt, reset and the hang    *)
(* check of one adapter; interrupts, DPCs, sends and MPAllocateComplete    *)
(* come at any time.  The descriptor rings, the queues and the pending     *)
(* requests are in RecvPath, SendPath and Requests: a send is here an      *)
(* MP_TCB whose NET_BUFFER is mapped or not, a receive buffer is a number. *)
(***************************************************************************)
EXTENDS Integers, Sequences, FiniteSets

CONSTANTS
  NumTcb,                   (* send control blocks (128 in the driver)     *)
  NIC_SEND_HANG_THRESHOLD,  (* checks a frame may stay at the head         *)
  NIC_MIN_RECV_BUFFERS,
  MaxNumRecvBuffer,
  GrowthFaults              (* how an added receive buffer may fail        *)

(* "memory": NDIS had no shared memory; "rbd": NICAllocRBD failed, after   *)
(* which nothing gives the shared memory back (mp_main.c:1516-1519).       *)
ASSUME LifecycleAssumption ==
  /\ NumTcb \in Nat \ {0}
  /\ NIC_SEND_HANG_THRESHOLD \in Nat
  /\ NIC_MIN_RECV_BUFFERS \in Nat
  /\ MaxNumRecvBuffer \in Nat /\ MaxNumRecvBuffer > NIC_MIN_RECV_BUFFERS
  /\ GrowthFaults \subseteq {"memory", "rbd"}

VARIABLES
  pnp,          (* where MPInitialize, MPHalt and MpFreeAdapter are        *)
  step,         (* the step of MPInitialize that comes next                *)
  AdapterState, (* "NicPaused" or "NicRunning"                             *)
  res,          (* what the driver holds                                   *)
  recorded,     (* what the adapter block says it holds                    *)
  RefCount,     (* MP_GET_REF                                              *)
  ExitEvent,    (* signalled                                               *)
  alloc,        (* the asynchronous allocation of a receive buffer         *)
  CurrNumRecvBuffer,
  masked,       (* interrupts are disabled at the NIC                      *)
  irq,          (* IntrStatus has a cause                                  *)
  receiving,    (* CmdRxEnb                                                *)
  queued,       (* the ISR has queued the DPC                              *)
  dpc,          (* where the DPC is                                        *)
  head,         (* CurrSendHead                                            *)
  nBusySend,
  sent,         (* how many frames from the head on the NIC is done with   *)
  mapping,      (* the newest frame is being mapped, the send lock released*)
  Count,        (* Count of each MP_TCB                                    *)
  seen,         (* history: hang checks that found this TCB's frame first, *)
  spent,        (* and those that found frames first that were in this TCB *)
                (* before it and could not be mapped                       *)
  hang,         (* MPCheckForHang has asked for a reset                    *)
  reset         (* where MPReset is                                        *)

pnpVars   == <<pnp, step, AdapterState>>
resVars   == <<res, recorded>>
refVars   == <<RefCount, ExitEvent>>
recvVars  == <<alloc, CurrNumRecvBuffer>>
nicVars   == <<masked, irq, receiving>>
dpcVars   == <<queued, dpc>>
sendVars  == <<head, nBusySend, sent, mapping, Count, seen, spent>>
resetVars == <<hang, reset>>
vars == <<pnpVars, resVars, refVars, recvVars, nicVars, dpcVars, sendVars,
          resetVars>>

Tcbs == 0 .. NumTcb - 1
(* The d-th TCB after i around their ring.                                 *)
NthTcb(i, d) == IF i + d >= NumTcb THEN i + d - NumTcb ELSE i + d
Busy == {NthTcb(head, d) : d \in 0 .. nBusySend - 1}
(* How many of them have been given to the NIC.                            *)
Mapped == nBusySend - (IF mapping THEN 1 ELSE 0)

(* The steps of MPInitialize, NICAllocAdapterMemory and NICInitRecv, most  *)
(* named for what they take.                                               *)
InitSteps ==
  <<"block", "find", "ports", "csr", "info", "dma", "tcbs", "sglist",
    "txbufs", "mdls", "sendmem", "miscmem", "lookaside", "nblpool",
    "hwrbds", "recvbufs", "rbds", "interrupt", "selftest", "configure">>

(* The order in which MpFreeAdapter gives them back.                       *)
FreeSteps ==
  <<"interrupt", "csr", "ports", "rbds", "recvbufs", "hwrbds", "nblpool",
    "lookaside", "mdls", "txbufs", "sendmem", "miscmem", "dma", "sglist",
    "tcbs", "block">>

Resources == {FreeSteps[i] : i \in 1 .. Len(FreeSteps)}

(* What must still be there while a resource is: the ISR and the DPC use   *)
(* the registers, an MP_RBD the pool, the lookaside list and the shared    *)
(* memory it was made from, a transmit buffer's MDL is found in the memory *)
(* of the TCBs, and shared memory is freed "before" the DMA handle is      *)
(* (mp_init.c:591).                                                        *)
Needs(r) ==
  CASE r = "block" -> {}
    [] r = "interrupt" -> {"block", "ports", "csr", "rbds", "tcbs"}
    [] r = "rbds" -> {"block", "dma", "lookaside", "nblpool", "recvbufs",
                      "hwrbds"}
    [] r = "mdls" -> {"block", "tcbs", "txbufs"}
    [] r \in {"txbufs", "sendmem", "miscmem", "recvbufs", "hwrbds"} ->
         {"block", "dma"}
    [] OTHER -> {"block"}

(* NICInitSend after the TCBs were zeroed.                                 *)
SendIsEmpty ==
  /\ head' = 0 /\ nBusySend' = 0 /\ sent' = 0 /\ mapping' = FALSE
  /\ Count' = [t \in Tcbs |-> 0]
  /\ seen' = [t \in Tcbs |-> 0] /\ spent' = [t \in Tcbs |-> 0]

Init ==
  /\ pnp = "absent" /\ step = 1 /\ AdapterState = "NicPaused"
  /\ res = {} /\ recorded = {}
  /\ RefCount = 0 /\ ExitEvent = FALSE
  /\ alloc = "none" /\ CurrNumRecvBuffer = 0
  /\ masked = TRUE /\ irq = FALSE /\ receiving = FALSE
  /\ queued = FALSE /\ dpc = "idle"
  /\ head = 0 /\ nBusySend = 0 /\ sent = 0 /\ mapping = FALSE
  /\ Count = [t \in Tcbs |-> 0]
  /\ seen = [t \in Tcbs |-> 0] /\ spent = [t \in Tcbs |-> 0]
  /\ hang = FALSE /\ reset = "none"

---------------------------------------------------------------------------
(* MPInitialize.  A resource is recorded in a pointer or a flag of the     *)
(* block when it is taken, and MpFreeAdapter goes by the record.           *)
Record(s) == recorded' = recorded \cup ({s} \cap Resources)

MPInitialize ==
  /\ pnp = "absent" /\ alloc = "none"
  /\ pnp' = "init" /\ step' = 1
  /\ UNCHANGED <<AdapterState, resVars, refVars, recvVars, nicVars, dpcVars,
                 sendVars, resetVars>>

InitAt(steps) == pnp = "init" /\ InitSteps[step] \in steps
InitNext == step' = step + 1 /\ UNCHANGED <<pnp, AdapterState>>

(* MpAllocAdapterBlock zeroes the block and takes the first reference.     *)
MpAllocAdapterBlock ==
  /\ InitAt({"block"})
  /\ InitNext
  /\ res' = res \cup {"block"} /\ Record("block")
  /\ RefCount' = 1 /\ ExitEvent' = FALSE
  /\ CurrNumRecvBuffer' = 0
  /\ SendIsEmpty
  /\ UNCHANGED <<alloc, nicVars, dpcVars, resetVars>>

(* The steps that only take a resource.                                    *)
InitTake ==
  /\ InitAt(Resources \ {"block", "rbds", "interrupt"})
  /\ InitNext
  /\ res' = res \cup {InitSteps[step]} /\ Record(InitSteps[step])
  /\ UNCHANGED <<refVars, recvVars, nicVars, dpcVars, sendVars, resetVars>>

(* A missing MDL or NET_BUFFER_LIST pool ends its loop with Status as it   *)
(* was, NDIS_STATUS_SUCCESS, and the initialisation goes on.               *)
InitTakeNothing ==
  /\ InitAt({"mdls", "nblpool"})
  /\ InitNext
  /\ UNCHANGED <<resVars, refVars, recvVars, nicVars, dpcVars, sendVars,
                 resetVars>>

(* NICInitRecv makes as many MP_RBDs as it can.                            *)
NICInitRecv ==
  /\ InitAt({"rbds"})
  /\ \E n \in 0 .. MaxNumRecvBuffer :
       /\ n > 0 => "nblpool" \in res
       /\ CurrNumRecvBuffer' = n
       /\ res' = res \cup (IF n > 0 THEN {"rbds"} ELSE {})
       /\ recorded' = recorded \cup (IF n > 0 THEN {"rbds"} ELSE {})
       /\ IF n > NIC_MIN_RECV_BUFFERS
            THEN step' = step + 1 /\ UNCHANGED <<pnp, RefCount>>
            ELSE pnp' = "free" /\ RefCount' = RefCount - 1 /\ UNCHANGED step
  /\ UNCHANGED <<AdapterState, ExitEvent, alloc, nicVars, dpcVars, sendVars,
                 resetVars>>

(* NICDisableInterrupt and NdisMRegisterInterruptEx.                       *)
InitInterrupt ==
  /\ InitAt({"interrupt"})
  /\ InitNext
  /\ res' = res \cup {"interrupt"} /\ Record("interrupt")
  /\ masked' = TRUE
  /\ UNCHANGED <<irq, receiving, refVars, recvVars, dpcVars, sendVars,
                 resetVars>>

(* MpFindAdapter, NICReadAdapterInfo and NICSelfTest, which resets the     *)
(* chip.                                                                   *)
InitTest ==
  /\ InitAt({"find", "info", "selftest"})
  /\ InitNext
  /\ Record(InitSteps[step])
  /\ IF InitSteps[step] = "selftest"
       THEN irq' = FALSE /\ receiving' = FALSE
       ELSE UNCHANGED <<irq, receiving>>
  /\ UNCHANGED <<res, masked, refVars, recvVars, dpcVars, sendVars, resetVars>>

(* NICconfigureAndInitializeAdapter starts the receiver; the adapter is    *)
(* paused and its interrupts are enabled.                                  *)
InitConfigure ==
  /\ InitAt({"configure"})
  /\ pnp' = "up" /\ AdapterState' = "NicPaused"
  /\ receiving' = TRUE /\ masked' = FALSE
  /\ UNCHANGED <<step, irq, resVars, refVars, recvVars, dpcVars, sendVars,
                 resetVars>>

(* Any other step may fail; what was taken is given back if there is a     *)
(* block (mp_main.c:495-502).                                              *)
InitFail ==
  /\ pnp = "init"
  /\ InitSteps[step] \notin {"lookaside", "mdls", "nblpool", "rbds"}
  /\ IF "block" \in res
       THEN pnp' = "free" /\ RefCount' = RefCount - 1
       ELSE pnp' = "absent" /\ UNCHANGED RefCount
  /\ UNCHANGED <<step, AdapterState, resVars, ExitEvent, recvVars, nicVars,
                 dpcVars, sendVars, resetVars>>

---------------------------------------------------------------------------
(* MpFreeAdapter gives one resource back.                                  *)
(* Mutant: the memory of the scatter-gather lists is forgotten.            *)
FreeForgets == SelectSeq(FreeSteps, LAMBDA r : r # "sglist")
FreeOrder == FreeSteps

MpFreeAdapter ==
  /\ pnp = "free" /\ recorded # {}
  /\ \E i \in 1 .. Len(FreeOrder) :
       /\ FreeOrder[i] \in recorded
       /\ \A j \in 1 .. i - 1 : FreeOrder[j] \notin recorded
       /\ res' = res \ {FreeOrder[i]}
       /\ recorded' = recorded \ {FreeOrder[i]}
       /\ FreeOrder[i] = "interrupt" => ~ queued /\ dpc = "idle"
       /\ CurrNumRecvBuffer' =
            IF FreeOrder[i] = "rbds" THEN 0 ELSE CurrNumRecvBuffer
       /\ pnp' = IF FreeOrder[i] = "block" THEN "absent" ELSE "free"
  /\ UNCHANGED <<step, AdapterState, refVars, alloc, nicVars, dpcVars,
                 sendVars, resetVars>>

(* MPHalt with MPShutdown: interrupts off and a full reset of the chip.    *)
MPHalt ==
  /\ pnp = "up" /\ AdapterState = "NicPaused" /\ reset = "none"
  /\ pnp' = "shutdown"
  /\ masked' = TRUE /\ irq' = FALSE /\ receiving' = FALSE
  /\ sent' = 0
  /\ hang' = FALSE
  /\ UNCHANGED <<step, AdapterState, resVars, refVars, recvVars, dpcVars, head,
                 nBusySend, mapping, Count, seen, spent, reset>>

(* NdisMDeregisterInterruptEx disconnects the ISR and returns when no DPC  *)
(* is left.  A mapping is over by then: it is the DPC's, or of a send that *)
(* NDIS waits for before it halts the adapter.                             *)
MPHaltDeregister ==
  /\ pnp = "shutdown" /\ pnp' = "deregister"
  /\ UNCHANGED <<step, AdapterState, resVars, refVars, recvVars, nicVars,
                 dpcVars, sendVars, resetVars>>

MPHaltDeregistered ==
  /\ pnp = "deregister"
  /\ ~ queued /\ dpc = "idle" /\ ~ mapping
  /\ pnp' = "deregistered"
  /\ res' = res \ {"interrupt"} /\ recorded' = recorded \ {"interrupt"}
  /\ UNCHANGED <<step, AdapterState, refVars, recvVars, nicVars, dpcVars,
                 sendVars, resetVars>>

MPHaltDecRef ==
  /\ pnp = "deregistered"
  /\ RefCount' = RefCount - 1
  /\ pnp' = IF RefCount' = 0 THEN "free" ELSE "wait"
  /\ UNCHANGED <<step, AdapterState, resVars, ExitEvent, recvVars, nicVars,
                 dpcVars, sendVars, resetVars>>

(* Mutant: the wait gives up after its two seconds.                        *)
HaltGivesUp == TRUE
(* The wait for ExitEvent, without end, and ResetPhy.                      *)
HaltMayGoOn == ExitEvent
MPHaltWait ==
  /\ pnp = "wait" /\ HaltMayGoOn
  /\ pnp' = "free"
  /\ UNCHANGED <<step, AdapterState, resVars, refVars, recvVars, nicVars,
                 dpcVars, sendVars, resetVars>>

(* It says "rewaiting" every two seconds.                                  *)
MPHaltRewait ==
  /\ pnp = "wait" /\ ~ HaltMayGoOn
  /\ UNCHANGED vars

(* MPPause leaves the frames at the NIC alone; it returns, or completes,   *)
(* when NDIS holds no receive buffer, which is in RecvPath.                *)
MPPause ==
  /\ pnp = "up" /\ AdapterState = "NicRunning" /\ reset = "none"
  /\ AdapterState' = "NicPaused"
  /\ UNCHANGED <<pnp, step, resVars, refVars, recvVars, nicVars, dpcVars,
                 sendVars, resetVars>>

MPRestart ==
  /\ pnp = "up" /\ AdapterState = "NicPaused" /\ reset = "none"
  /\ AdapterState' = "NicRunning"
  /\ UNCHANGED <<pnp, step, resVars, refVars, recvVars, nicVars, dpcVars,
                 sendVars, resetVars>>

---------------------------------------------------------------------------
(* The NIC, the ISR and the DPC.                                           *)
NicEvent ==
  /\ receiving /\ ~ irq
  /\ irq' = TRUE
  /\ UNCHANGED <<pnpVars, resVars, refVars, recvVars, masked, receiving,
                 dpcVars, sendVars, resetVars>>

(* The NIC is done with the oldest frame; nothing says it ever is.         *)
NicSends ==
  /\ pnp = "up" /\ reset = "none" /\ sent < Mapped
  /\ sent' = sent + 1 /\ irq' = TRUE
  /\ UNCHANGED <<pnpVars, resVars, refVars, recvVars, masked, receiving,
                 dpcVars, head, nBusySend, mapping, Count, seen, spent,
                 resetVars>>

MPIsr ==
  /\ "interrupt" \in res /\ pnp # "deregister" /\ ~ masked /\ irq
  /\ masked' = TRUE /\ queued' = TRUE
  /\ UNCHANGED <<pnpVars, resVars, refVars, recvVars, irq, receiving, dpc,
                 sendVars, resetVars>>

(* NIC_ACK_INTERRUPT.                                                      *)
DpcAck ==
  /\ queued /\ dpc = "idle"
  /\ queued' = FALSE /\ dpc' = "recv" /\ irq' = FALSE
  /\ UNCHANGED <<pnpVars, resVars, refVars, recvVars, masked, receiving,
                 sendVars, resetVars>>

(* Mutant: one receive buffer too many.                                    *)
MayGrowOneMore == alloc = "none" /\ CurrNumRecvBuffer <= MaxNumRecvBuffer
(* bAllocNewRecvBuffer is clear and the pool may grow.                     *)
MayGrow == alloc = "none" /\ CurrNumRecvBuffer < MaxNumRecvBuffer

(* MpHandleRecvInterrupt, which may ask for one more receive buffer.       *)
DpcRecv ==
  /\ dpc = "recv" /\ dpc' = "send"
  /\ \/ UNCHANGED <<alloc, RefCount>>
     \/ /\ AdapterState = "NicRunning"
        /\ MayGrow
        /\ alloc' = "pending" /\ RefCount' = RefCount + 1
  /\ UNCHANGED <<pnpVars, resVars, ExitEvent, CurrNumRecvBuffer, nicVars,
                 queued, sendVars, resetVars>>

(* Mutant: the count stays.                                                *)
CountKept(c) == c
(* What MP_FREE_SEND_NET_BUFFER leaves in Count.                           *)
FreedCount(c) == 0

(* MpHandleSendInterrupt frees what was sent.                              *)
DpcSend ==
  /\ dpc = "send" /\ dpc' = "start"
  /\ LET done == {NthTcb(head, d) : d \in 0 .. sent - 1}
     IN  /\ Count' = [t \in Tcbs |->
                        IF t \in done THEN FreedCount(Count[t]) ELSE Count[t]]
         /\ spent' = [t \in Tcbs |-> IF t \in done THEN 0 ELSE spent[t]]
  /\ head' = NthTcb(head, sent)
  /\ nBusySend' = nBusySend - sent /\ sent' = 0
  /\ UNCHANGED <<pnpVars, resVars, refVars, recvVars, nicVars, queued,
                 mapping, seen, resetVars>>

(* The receiver is restarted if it stopped.                                *)
DpcStart ==
  /\ dpc = "start" /\ dpc' = "enable"
  /\ receiving' = TRUE
  /\ UNCHANGED <<pnpVars, resVars, refVars, recvVars, masked, irq, queued,
                 sendVars, resetVars>>

DpcEnable ==
  /\ dpc = "enable" /\ dpc' = "idle"
  /\ masked' = FALSE
  /\ UNCHANGED <<pnpVars, resVars, refVars, recvVars, irq, receiving, queued,
                 sendVars, resetVars>>

---------------------------------------------------------------------------
(* MPAllocateComplete under RcvLock: what it got becomes an MP_RBD, or it  *)
(* got nothing, and the reference of the allocation is dropped.            *)
MPAllocateComplete ==
  /\ alloc = "pending" /\ alloc' = "dropped"
  /\ \E fault \in GrowthFaults \cup {"none"} :
       /\ CurrNumRecvBuffer' =
            CurrNumRecvBuffer + (IF fault = "none" THEN 1 ELSE 0)
       /\ res' = res \cup (IF fault = "rbd" THEN {"buffer"} ELSE {})
  /\ RefCount' = RefCount - 1
  /\ UNCHANGED <<pnpVars, recorded, ExitEvent, nicVars, dpcVars, sendVars,
                 resetVars>>

(* Mutant: the count is compared as before the decrement.                  *)
TestedTooEarly == RefCount + 1 = 0
(* It then reads the count again, MPHalt having had time to drop its own.  *)
LastUserGone == RefCount = 0
MPAllocateCompleteEnd ==
  /\ alloc = "dropped" /\ alloc' = "none"
  /\ ExitEvent' = (ExitEvent \/ ("block" \in res /\ LastUserGone))
  /\ UNCHANGED <<pnpVars, resVars, RefCount, CurrNumRecvBuffer, nicVars,
                 dpcVars, sendVars, resetVars>>

(* A frame takes the next MP_TCB, and the lock is released to map it; one  *)
(* list is sent at a time (SendingNetBufferList).                          *)
Send ==
  /\ pnp = "up" /\ AdapterState = "NicRunning" /\ reset = "none"
  /\ ~ mapping /\ nBusySend < NumTcb
  /\ nBusySend' = nBusySend + 1 /\ mapping' = TRUE
  /\ seen' = [seen EXCEPT ![NthTcb(head, nBusySend)] = 0]
  /\ UNCHANGED <<pnpVars, resVars, refVars, recvVars, nicVars, dpcVars, head,
                 sent, Count, spent, resetVars>>

(* MpProcessSGList gives it to the NIC,                                    *)
SendMapped ==
  /\ mapping /\ mapping' = FALSE
  /\ UNCHANGED <<pnpVars, resVars, refVars, recvVars, nicVars, dpcVars, head,
                 nBusySend, sent, Count, seen, spent, resetVars>>

(* or NDIS could not map it: the MP_TCB is taken back with its Count.      *)
SendNotMapped ==
  /\ mapping /\ mapping' = FALSE
  /\ nBusySend' = nBusySend - 1
  /\ LET t == NthTcb(head, nBusySend - 1)
     IN  spent' = [spent EXCEPT ![t] = @ + seen[t]]
  /\ UNCHANGED <<pnpVars, resVars, refVars, recvVars, nicVars, dpcVars, head,
                 sent, Count, seen, resetVars>>

(* Mutant: it does not look while the adapter is paused.                   *)
MayHangRunning == AdapterState = "NicRunning"
(* When MPCheckForHang looks at the sends: always.                         *)
MayHang == TRUE

MPCheckForHang ==
  /\ pnp = "up" /\ reset = "none" /\ ~ hang
  /\ nBusySend > 0 /\ MayHang
  /\ Count' = [Count EXCEPT ![head] = @ + 1]
  /\ seen' = [seen EXCEPT ![head] = @ + 1]
  /\ hang' = (Count'[head] > NIC_SEND_HANG_THRESHOLD)
  /\ UNCHANGED <<pnpVars, resVars, refVars, recvVars, nicVars, dpcVars, head,
                 nBusySend, sent, mapping, spent, reset>>

(* MPReset, asked for by MPCheckForHang or by a protocol: interrupts off   *)
(* and a reset of the chip under the three locks ...                       *)
MPReset ==
  /\ pnp = "up" /\ reset = "none"
  /\ reset' = "sends" /\ hang' = FALSE
  /\ masked' = TRUE /\ irq' = FALSE /\ receiving' = FALSE
  /\ UNCHANGED <<pnpVars, resVars, refVars, recvVars, dpcVars, sendVars>>

(* ... the sends aborted and the TCBs zeroed under SendLock (what becomes  *)
(* of a mapping that is still under way is in SendPath) ...                *)
MPResetSends ==
  /\ reset = "sends" /\ reset' = "recv" /\ ~ mapping
  /\ SendIsEmpty
  /\ UNCHANGED <<pnpVars, resVars, refVars, recvVars, nicVars, dpcVars, hang>>

(* Mutant: NICEnableInterrupt is left to the DPC.                          *)
MaskAsItWas == masked
(* ... and, with the three locks again, the receiver started and           *)
(* interrupts enabled.                                                     *)
MaskAfterReset == FALSE
MPResetEnd ==
  /\ reset = "recv" /\ reset' = "none"
  /\ receiving' = TRUE /\ masked' = MaskAfterReset
  /\ UNCHANGED <<pnpVars, resVars, refVars, recvVars, irq, dpcVars, sendVars,
                 hang>>

---------------------------------------------------------------------------
InitStep ==
  \/ MpAllocAdapterBlock \/ InitTake \/ InitTakeNothing \/ NICInitRecv
  \/ InitInterrupt \/ InitTest \/ InitConfigure \/ InitFail
Halt ==
  \/ MPHaltDeregister \/ MPHaltDeregistered \/ MPHaltDecRef \/ MPHaltWait
  \/ MPHaltRewait \/ MpFreeAdapter
Dpc == DpcAck \/ DpcRecv \/ DpcSend \/ DpcStart \/ DpcEnable
Allocation == MPAllocateComplete \/ MPAllocateCompleteEnd
ResetStep == MPResetSends \/ MPResetEnd
MappingEnds == SendMapped \/ SendNotMapped

Next ==
  \/ MPInitialize \/ InitStep
  \/ MPPause \/ MPRestart \/ MPHalt \/ Halt
  \/ NicEvent \/ NicSends \/ MPIsr \/ Dpc
  \/ Allocation
  \/ Send \/ MappingEnds \/ MPCheckForHang \/ MPReset \/ ResetStep

Spec == Init /\ [][Next]_vars

(* NDIS runs a handler it has called to its end, delivers interrupts, maps *)
(* a frame or says that it cannot, completes allocations, calls            *)
(* MPCheckForHang every two seconds (CheckForHangTimeInSeconds) and        *)
(* MPReset when that asks for it.  The NIC owes nothing.                   *)
FairSpec ==
  /\ Spec
  /\ WF_vars(Halt) /\ WF_vars(MPIsr \/ Dpc) /\ WF_vars(Allocation)
  /\ WF_vars(ResetStep) /\ WF_vars(MappingEnds)
  /\ WF_vars(MPCheckForHang) /\ WF_vars(hang /\ MPReset)

---------------------------------------------------------------------------
LifecycleTypeOK ==
  /\ pnp \in {"absent", "init", "up", "shutdown", "deregister",
              "deregistered", "wait", "free"}
  /\ step \in 1 .. Len(InitSteps)
  /\ AdapterState \in {"NicPaused", "NicRunning"}
  /\ res \subseteq Resources \cup {"buffer"}
  /\ recorded \subseteq Resources
  /\ RefCount \in 0 .. 2 /\ ExitEvent \in BOOLEAN
  /\ alloc \in {"none", "pending", "dropped"}
  /\ CurrNumRecvBuffer \in 0 .. MaxNumRecvBuffer
  /\ masked \in BOOLEAN /\ irq \in BOOLEAN /\ receiving \in BOOLEAN
  /\ queued \in BOOLEAN
  /\ dpc \in {"idle", "recv", "send", "start", "enable"}
  /\ head \in Tcbs /\ nBusySend \in 0 .. NumTcb /\ sent \in 0 .. nBusySend
  /\ mapping \in BOOLEAN /\ Count \in [Tcbs -> Nat]
  /\ seen \in [Tcbs -> Nat] /\ spent \in [Tcbs -> Nat]
  /\ hang \in BOOLEAN /\ reset \in {"none", "sends", "recv"}

(* Whatever step of MPInitialize failed, and whatever ran when the adapter *)
(* was halted, all that was taken is given back (MpFreeAdapter goes by     *)
(* pointers and flags, not by how far MPInitialize came).                  *)
EverythingReturned == pnp = "absent" => res = {}

(* What a resource, a DPC, a reset and the asynchronous allocation need is *)
(* there as long as they are; after its MP_DEC_REF MPAllocateComplete is   *)
(* not counted any more and does use the block.                            *)
UsedWhileThere ==
  /\ \A r \in res \ {"buffer"} : Needs(r) \subseteq res
  /\ queued \/ dpc # "idle" => "interrupt" \in res
  /\ reset # "none" => {"interrupt", "tcbs", "sendmem"} \subseteq res
  /\ alloc = "pending" =>
       {"block", "rbds", "lookaside", "nblpool", "dma"} \subseteq res

(* The hang check blames a frame only for the time it was itself the       *)
(* oldest, or frames were that had its MP_TCB before it and could not be   *)
(* mapped (mp_nic.c:386-394): it inherits no Count of a frame that was     *)
(* sent or aborted.                                                        *)
CountIsOfThisFrame == \A t \in Busy : Count[t] = seen[t] + spent[t]

(* mp_nic.c:385 "Revert the State": a frame that could not be mapped       *)
(* leaves its MP_TCB as it was, with no Count for the next.                *)
CountIsReverted == \A t \in Busy : Count[t] = seen[t]

(* Interrupts stay disabled only as long as somebody is going to enable    *)
(* them, though ISR, DPC and reset write the mask without a common lock.   *)
NeverLeftMasked ==
  pnp = "up" /\ reset = "none" /\ masked => queued \/ dpc # "idle"

(* A halt comes to its end, with a DPC or an allocation in flight too.     *)
HaltEnds == pnp = "shutdown" ~> pnp = "absent"

(* A frame the NIC never finishes does not block the ring for ever: it is  *)
(* sent, or the hang check has the adapter reset, paused or not.           *)
StuckIsReset ==
  \A t \in Tcbs :
    LET oldest == pnp = "up" /\ reset = "none" /\ nBusySend > 0 /\ head = t
    IN  oldest ~> ~ oldest
=============================================================================
