------------------------------ MODULE Requests ------------------------------
(***************************************************************************)
(* OID requests, power management and link state of the miniport           *)
(* (mp_req.c, the link part of mp_nic.c, MPReset's abort, MPCheckForHang). *)
(*                                                                         *)
(* A request to go to low power is the only one that is ever pended: it    *)
(* waits in Adapter->PendingRequest until NDIS has returned all received   *)
(* frames.  Five threads may take it from there and complete it: the DPC,  *)
(* MPReturnNetBufferLists, a reset, a cancellation and a link-up.          *)
(*                                                                         *)
(* A step goes from one acquisition or release of a lock to the next.      *)
(* Adapter->Lock is never kept between steps; RcvLock is.                  *)
(***************************************************************************)
EXTENDS Integers, FiniteSets

CONSTANTS
  Reqs,              (* requests of NDIS                                   *)
  Filters,           (* packet filters that NDIS sets                      *)
  Lengths,           (* buffer lengths of requests                         *)
  MaxLookAhead, NIC_MAX_MCAST_LIST, CUSTOM_DRIVER_SET_MAX,
  Envs,              (* what the environment may do, and the receive       *)
                     (* buffers (a bound): a behaviour has one of these    *)
  NULL

(* The bits of NIC_SUPPORTED_FILTERS.                                      *)
SupportedFilters ==
  {"DIRECTED", "MULTICAST", "BROADCAST", "PROMISCUOUS", "ALL_MULTICAST"}

ASSUME RequestsAssumption ==
  /\ NULL \notin Reqs
  /\ Lengths \subseteq Nat
  /\ {MaxLookAhead, NIC_MAX_MCAST_LIST, CUSTOM_DRIVER_SET_MAX} \subseteq Nat
  /\ Envs \subseteq
       [may : SUBSET {"power", "filter", "media", "receive", "link",
                      "reset", "cancel", "data"},
        buffers : Nat]

(* The threads that hold a request: NDIS's own call, and the five that may *)
(* complete a pended one (a link-up runs in the DPC).                      *)
Actors == {"oid", "dpc", "ret", "reset", "cancel"}

VARIABLES
  env,               (* the environment of this behaviour, from Envs       *)
  reply,             (* the last answer to a request that only reads or    *)
                     (* sets data                                          *)
  PendingRequest,    (* Adapter->PendingRequest                            *)
  resetting,         (* fMP_ADAPTER_RESET_IN_PROGRESS                      *)
  RcvLock,           (* "free" or the thread that keeps it                 *)
  pc,                (* where each thread is                               *)
  cont,              (* where MpHandleRecvInterrupt returns to             *)
  taken,             (* the request each thread has in its hands           *)
  owed,              (* answers that NDIS is owed for each request         *)
  OutstandingRecv,   (* Adapter->PoMgmt.OutstandingRecv                    *)
  ndisHas,           (* frames NDIS has to return                          *)
  filled,            (* frames in the ring, not yet taken by the driver    *)
  resources,         (* frames of a batch indicated with RESOURCES         *)
  left,              (* frames MPReturnNetBufferLists has still to do      *)
  receiving,         (* CmdRxEnb                                           *)
  IntrMask,          (* the interrupt is enabled                           *)
  LinkChg,           (* the LinkChg bit of IntrStatus                      *)
  cable,             (* the link, as PHYstatus shows it                    *)
  MediaState,        (* Adapter->MediaState                                *)
  NoCable,           (* fMP_ADAPTER_NO_CABLE                               *)
  seen,              (* CurrMediaState of each thread                      *)
  told,              (* what NDIS was told of the link last                *)
  PacketFilter,      (* the filter NDIS asked for                          *)
  OldParameterField, (* the filter the chip was programmed for             *)
  rxMode             (* the receive mode register                          *)

same     == <<env, reply>>
reqVars  == <<PendingRequest, taken, owed>>
ctlVars  == <<pc, cont, RcvLock, resetting>>
recvVars == <<OutstandingRecv, ndisHas, filled, resources, left>>
hwVars   == <<receiving, IntrMask>>
linkVars == <<LinkChg, cable, MediaState, NoCable, seen, told>>
setVars  == <<PacketFilter, OldParameterField, rxMode>>
requestVars == <<same, reqVars, ctlVars, recvVars, hwVars, linkVars, setVars>>

States == {"Connected", "Disconnected"}

(* The receive mode register that r1000_set_rx_mode writes for a filter.   *)
RxMode(f) ==
  CASE "PROMISCUOUS" \in f ->
         {"AcceptBroadcast", "AcceptMulticast", "AcceptMyPhys", "AcceptAllPhys"}
    [] "PROMISCUOUS" \notin f /\ f \cap {"MULTICAST", "ALL_MULTICAST"} # {} ->
         {"AcceptMulticast", "AcceptMyPhys"}
    [] f \cap {"PROMISCUOUS", "MULTICAST", "ALL_MULTICAST"} = {} /\ "DIRECTED" \in f ->
         {"AcceptMyPhys"}
    [] OTHER -> {"AcceptBroadcast", "AcceptMyPhys"}

(* The mode bits of that register after a reset of the chip: it accepts    *)
(* nothing.                                                                *)
ResetMode == {}

(* HwConfigure saves the filter before any is set, and nothing saves it    *)
(* later: MPSetPowerD0 finds no filter to restore.                         *)
OldPacketFilter == {}

Init ==
  /\ env \in Envs
  /\ reply = NULL
  /\ PendingRequest = NULL
  /\ resetting = FALSE
  /\ RcvLock = "free"
  /\ pc = [a \in Actors \cup {"hang"} |-> "idle"]
  /\ cont = [a \in {"dpc", "oid"} |-> "none"]
  /\ taken = [a \in Actors |-> NULL]
  /\ owed = [r \in Reqs |-> 0]
  /\ OutstandingRecv = 0 /\ ndisHas = 0 /\ filled = 0 /\ left = 0
  /\ resources = [a \in {"dpc", "oid"} |-> 0]
  /\ receiving = TRUE /\ IntrMask = TRUE
  /\ LinkChg = FALSE
  /\ cable \in States
  /\ MediaState = "Unknown" /\ told = "Unknown" /\ NoCable = FALSE
  /\ seen = [a \in {"dpc", "oid", "hang"} |-> NULL]
  /\ PacketFilter = OldPacketFilter /\ OldParameterField = {}
  /\ rxMode = RxMode({})

-----------------------------------------------------------------------------
(* Helpers.                                                                *)

Goto(a, s) == pc' = [pc EXCEPT ![a] = s]
At(a, s)   == pc[a] = s

(* NdisMOidRequestComplete, or the return of a status other than PENDING.  *)
Answer(a) ==
  /\ owed' = [owed EXCEPT ![taken[a]] = @ - 1]
  /\ taken' = [taken EXCEPT ![a] = NULL]

(* Mutant: the taker forgets to clear PendingRequest.                      *)
TakeKeepsPending(a) ==
  /\ taken' = [taken EXCEPT ![a] = PendingRequest]
  /\ UNCHANGED PendingRequest

(* Taking the pended request, under Lock.                                  *)
TakePending(a) ==
  /\ taken' = [taken EXCEPT ![a] = PendingRequest]
  /\ PendingRequest' = NULL

(* NICSetPacketFilter: the chip is programmed only if a bit changes.       *)
NICSetPacketFilter(f) ==
  IF f = OldParameterField
    THEN UNCHANGED <<OldParameterField, rxMode>>
    ELSE /\ OldParameterField' = f
         /\ rxMode' = RxMode(f)

-----------------------------------------------------------------------------
(* The receive routine, run by the DPC (for itself or for a link-up) and   *)
(* by a request to go to D0 that finds the receiver off.                   *)

(* NICStartRecv, with RcvLock in hand: goes to s when done, after the      *)
(* frames that are already in the ring.                                    *)
NICStartRecv(a, s) ==
  /\ RcvLock' = a
  /\ IF ~ receiving /\ filled > 0
       THEN Goto(a, "recv") /\ cont' = [cont EXCEPT ![a] = s]
       ELSE Goto(a, s) /\ UNCHANGED cont

(* Mutant: the RESOURCES frames are not counted as outstanding.            *)
CountPended(a) ==
  /\ At(a, "recv")
  /\ \E p, f \in 0 .. filled :
       /\ p + f \in 1 .. filled
       /\ OutstandingRecv' = OutstandingRecv + p
       /\ ndisHas' = ndisHas + p
       /\ filled' = filled - (p + f)
       /\ resources' = [resources EXCEPT ![a] = f]
  /\ RcvLock' = "free"
  /\ Goto(a, "indicated")
  /\ UNCHANGED <<same, cont, resetting, left, reqVars, hwVars, linkVars,
                 setVars>>

(* One batch: p frames to be pended, f with RESOURCES; the lock is         *)
(* released for the indication.                                            *)
RecvBatch(a) ==
  /\ At(a, "recv")
  /\ \E p, f \in 0 .. filled :
       /\ p + f \in 1 .. filled
       /\ OutstandingRecv' = OutstandingRecv + p + f
       /\ ndisHas' = ndisHas + p
       /\ filled' = filled - (p + f)
       /\ resources' = [resources EXCEPT ![a] = f]
  /\ RcvLock' = "free"
  /\ Goto(a, "indicated")
  /\ UNCHANGED <<same, cont, resetting, left, reqVars, hwVars, linkVars,
                 setVars>>

(* Nothing in the ring, enough batches, or the adapter is paused.          *)
RecvEnd(a) ==
  /\ At(a, "recv")
  /\ Goto(a, cont[a])
  /\ cont' = [cont EXCEPT ![a] = "none"]
  /\ UNCHANGED <<same, RcvLock, resetting, reqVars, recvVars, hwVars,
                 linkVars, setVars>>

(* Whether the low-power request can be completed: read under RcvLock      *)
(* only.  A pended request is always a set-power one.                      *)
LowPowerDone == PendingRequest # NULL /\ OutstandingRecv' = 0

(* Back from the indication: the RESOURCES frames are the driver's again,  *)
(* and a pended request is completed if they were the last.  (A request to *)
(* go to D0 finds none: NDIS sends no request while another is pended.)    *)
RecvIndicated(a) ==
  /\ At(a, "indicated")
  /\ RcvLock = "free"
  /\ OutstandingRecv' = OutstandingRecv - resources[a]
  /\ resources' = [resources EXCEPT ![a] = 0]
  /\ IF LowPowerDone
       THEN Goto(a, "lowDisable") /\ UNCHANGED RcvLock
       ELSE Goto(a, "recv") /\ RcvLock' = a
  /\ UNCHANGED <<same, cont, resetting, ndisHas, filled, left, reqVars,
                 hwVars, linkVars, setVars>>

(* MpSetPowerLowComplete, RcvLock released: the interrupt is disabled and  *)
(* everything in IntrStatus acknowledged,                                  *)
LowDisable(a) ==
  /\ At(a, "lowDisable")
  /\ IntrMask' = FALSE
  /\ LinkChg' = FALSE
  /\ Goto(a, "lowTake")
  /\ UNCHANGED <<same, cont, RcvLock, resetting, reqVars, recvVars, receiving,
                 cable, MediaState, NoCable, seen, told, setVars>>

(* the request taken under Lock, if somebody else has not,                 *)
LowTake(a) ==
  /\ At(a, "lowTake")
  /\ TakePending(a)
  /\ Goto(a, IF PendingRequest = NULL THEN "lowRelock" ELSE "lowComplete")
  /\ UNCHANGED <<same, cont, RcvLock, resetting, owed, recvVars, hwVars,
                 linkVars, setVars>>

(* completed,                                                              *)
LowComplete(a) ==
  /\ At(a, "lowComplete")
  /\ Answer(a)
  /\ Goto(a, "lowRelock")
  /\ UNCHANGED <<same, PendingRequest, cont, RcvLock, resetting, recvVars,
                 hwVars, linkVars, setVars>>

(* and RcvLock acquired again.                                             *)
LowRelock(a) ==
  /\ At(a, "lowRelock")
  /\ RcvLock = "free"
  /\ RcvLock' = a
  /\ Goto(a, IF a = "ret" THEN "return" ELSE "recv")
  /\ UNCHANGED <<same, cont, resetting, reqVars, recvVars, hwVars, linkVars,
                 setVars>>

Receive(a) == RecvBatch(a) \/ RecvEnd(a) \/ RecvIndicated(a)
CompleteLow(a) == LowDisable(a) \/ LowTake(a) \/ LowComplete(a) \/ LowRelock(a)

-----------------------------------------------------------------------------
(* MPReturnNetBufferLists.                                                 *)

ReturnBegin ==
  /\ At("ret", "idle") /\ RcvLock = "free"
  /\ \E n \in 1 .. ndisHas : left' = n /\ ndisHas' = ndisHas - n
  /\ RcvLock' = "ret"
  /\ Goto("ret", "return")
  /\ UNCHANGED <<same, cont, resetting, OutstandingRecv, filled, resources,
                 reqVars, hwVars, linkVars, setVars>>

ReturnOne ==
  /\ At("ret", "return") /\ left > 0
  /\ left' = left - 1
  /\ OutstandingRecv' = OutstandingRecv - 1
  /\ IF LowPowerDone
       THEN Goto("ret", "lowDisable") /\ RcvLock' = "free"
       ELSE UNCHANGED <<pc, RcvLock>>
  /\ UNCHANGED <<same, cont, resetting, ndisHas, filled, resources, reqVars,
                 hwVars, linkVars, setVars>>

ReturnEnd ==
  /\ At("ret", "return") /\ left = 0
  /\ RcvLock' = "free"
  /\ Goto("ret", "idle")
  /\ UNCHANGED <<same, cont, resetting, reqVars, recvVars, hwVars, linkVars,
                 setVars>>

-----------------------------------------------------------------------------
(* Link state.  MPIndicateLinkState builds the indication under Lock and   *)
(* makes it with the lock released.                                        *)

SetMediaState(a, s) ==
  /\ MediaState' = s
  /\ NoCable' = (s # "Connected")
  /\ seen' = [seen EXCEPT ![a] = s]

Indicate(a) ==
  /\ told' = seen[a]
  /\ seen' = [seen EXCEPT ![a] = NULL]
  /\ UNCHANGED <<LinkChg, cable, MediaState, NoCable>>

(* Mutant: the new state is indicated and not stored.                      *)
CheckMediaOnlyTells ==
  /\ At("hang", "idle")
  /\ cable # MediaState
  /\ seen' = [seen EXCEPT !["hang"] = cable]
  /\ Goto("hang", "tell")
  /\ UNCHANGED <<same, LinkChg, cable, told, MediaState, NoCable, cont,
                 RcvLock, resetting, reqVars, recvVars, hwVars, setVars>>

(* MPCheckForHang, run by a timer of NDIS: the link is read under Lock.    *)
CheckMedia ==
  /\ At("hang", "idle")
  /\ cable # MediaState
  /\ SetMediaState("hang", cable)
  /\ Goto("hang", "tell")
  /\ UNCHANGED <<same, LinkChg, cable, told, cont, RcvLock, resetting,
                 reqVars, recvVars, hwVars, setVars>>

CheckMediaTell ==
  /\ At("hang", "tell")
  /\ Indicate("hang")
  /\ Goto("hang", "idle")
  /\ UNCHANGED <<same, cont, RcvLock, resetting, reqVars, recvVars, hwVars,
                 setVars>>

-----------------------------------------------------------------------------
(* The DPC.                                                                *)

(* MPIsr and the acknowledgement at the start of MPHandleInterrupt; the    *)
(* interrupt may also be one of the send side.                             *)
DpcBegin ==
  /\ At("dpc", "idle")
  /\ IntrMask /\ IntrMask' = FALSE
  /\ LinkChg' = FALSE
  /\ Goto("dpc", IF LinkChg THEN "readMedia" ELSE "main")
  /\ UNCHANGED <<same, cont, RcvLock, resetting, reqVars, recvVars, receiving,
                 cable, MediaState, NoCable, seen, told, setVars>>

(* MpHandleLinkChangeInterrupt reads the link before it takes Lock,        *)
DpcReadMedia ==
  /\ At("dpc", "readMedia")
  /\ seen' = [seen EXCEPT !["dpc"] = cable]
  /\ Goto("dpc", "storeMedia")
  /\ UNCHANGED <<same, LinkChg, cable, MediaState, NoCable, told, cont,
                 RcvLock, resetting, reqVars, recvVars, hwVars, setVars>>

(* stores it and indicates it even if nothing changed,                     *)
DpcStoreMedia ==
  /\ At("dpc", "storeMedia")
  /\ SetMediaState("dpc", seen["dpc"])
  /\ Goto("dpc", "tellMedia")
  /\ UNCHANGED <<same, LinkChg, cable, told, cont, RcvLock, resetting,
                 reqVars, recvVars, hwVars, setVars>>

DpcTellMedia ==
  /\ At("dpc", "tellMedia")
  /\ Indicate("dpc")
  /\ Goto("dpc", IF seen["dpc"] = "Connected" THEN "linkUp" ELSE "main")
  /\ UNCHANGED <<same, cont, RcvLock, resetting, reqVars, recvVars, hwVars,
                 setVars>>

(* MpHandleLinkUp takes whatever request is pended,                        *)
LinkUpTake ==
  /\ At("dpc", "linkUp")
  /\ TakePending("dpc")
  /\ Goto("dpc", IF PendingRequest = NULL THEN "upRecv" ELSE "upComplete")
  /\ UNCHANGED <<same, owed, cont, RcvLock, resetting, recvVars, hwVars,
                 linkVars, setVars>>

(* completes it with NDIS_STATUS_SUCCESS                                   *)
LinkUpComplete ==
  /\ At("dpc", "upComplete")
  /\ Answer("dpc")
  /\ Goto("dpc", "upRecv")
  /\ UNCHANGED <<same, PendingRequest, cont, RcvLock, resetting, recvVars,
                 hwVars, linkVars, setVars>>

(* and restarts the receiver.                                              *)
LinkUpRecv ==
  /\ At("dpc", "upRecv") /\ RcvLock = "free"
  /\ NICStartRecv("dpc", "upStart")
  /\ UNCHANGED <<same, resetting, reqVars, recvVars, hwVars, linkVars,
                 setVars>>

LinkUpStart ==
  /\ At("dpc", "upStart")
  /\ receiving' = TRUE
  /\ RcvLock' = "free"
  /\ Goto("dpc", "main")
  /\ UNCHANGED <<same, cont, resetting, reqVars, recvVars, IntrMask, linkVars,
                 setVars>>

DpcRecv ==
  /\ At("dpc", "main") /\ RcvLock = "free"
  /\ RcvLock' = "dpc"
  /\ cont' = [cont EXCEPT !["dpc"] = "done"]
  /\ Goto("dpc", "recv")
  /\ UNCHANGED <<same, resetting, reqVars, recvVars, hwVars, linkVars,
                 setVars>>

(* RcvLock is released for the sends and taken again to start the receiver *)
(* if it is off, whoever turned it off.                                    *)
DpcRecvDone ==
  /\ At("dpc", "done")
  /\ RcvLock' = "free"
  /\ Goto("dpc", "restart")
  /\ UNCHANGED <<same, cont, resetting, reqVars, recvVars, hwVars, linkVars,
                 setVars>>

DpcRestart ==
  /\ At("dpc", "restart") /\ RcvLock = "free"
  /\ receiving' = TRUE
  /\ Goto("dpc", "enable")
  /\ UNCHANGED <<same, cont, RcvLock, resetting, reqVars, recvVars, IntrMask,
                 linkVars, setVars>>

DpcEnable ==
  /\ At("dpc", "enable")
  /\ IntrMask' = TRUE
  /\ Goto("dpc", "idle")
  /\ UNCHANGED <<same, cont, RcvLock, resetting, reqVars, recvVars, receiving,
                 linkVars, setVars>>

LinkChangeInterrupt ==
  DpcReadMedia \/ DpcStoreMedia \/ DpcTellMedia \/ LinkUpTake \/ LinkUpComplete
    \/ LinkUpRecv \/ LinkUpStart
Dpc ==
  \/ DpcBegin \/ LinkChangeInterrupt \/ DpcRecv \/ DpcRecvDone \/ DpcRestart \/ DpcEnable
  \/ Receive("dpc") \/ CompleteLow("dpc")

-----------------------------------------------------------------------------
(* MPOidRequest.  NDIS sends the next request when the last is answered.   *)

(* What a query returns: its length decides between the answer and         *)
(* NDIS_STATUS_BUFFER_TOO_SHORT with the length to try again with.  The    *)
(* lengths stand for those of the OIDs of each kind.                       *)
QueryLength ==
  [OID_GEN_MAXIMUM_FRAME_SIZE |-> 4, OID_GEN_DRIVER_VERSION |-> 2,
   OID_802_3_CURRENT_ADDRESS |-> 6, OID_GEN_VENDOR_DESCRIPTION |-> 8,
   OID_GEN_LINK_SPEED |-> 4, OID_GEN_MEDIA_CONNECT_STATUS |-> 4,
   OID_PNP_QUERY_POWER |-> 4, OID_GEN_INTERRUPT_MODERATION |-> 12,
   OID_CUSTOM_DRIVER_QUERY |-> 4, OID_CUSTOM_DRIVER_SET |-> 4,
   OID_GEN_STATISTICS |-> 18]

TooShort(needed) == [status |-> "BUFFER_TOO_SHORT", written |-> 0, needed |-> needed]
Success(written, needed) ==
  [status |-> "SUCCESS", written |-> written, needed |-> needed]
Refused(status) == [status |-> status, written |-> 0, needed |-> 0]

(* Mutant: the length asked for forgets the prefix.                        *)
PrefixForgotten(oid, n) ==
  LET CustomLength == [OID_CUSTOM_ARRAY |-> 8, OID_CUSTOM_STRING |-> 18]
  IN  IF n < CustomLength[oid] THEN TooShort(CustomLength[oid] - 2)
                               ELSE Success(CustomLength[oid], 0)

(* The array and the string of the WMI example fill the buffer themselves. *)
CustomLength == [OID_CUSTOM_ARRAY |-> 8, OID_CUSTOM_STRING |-> 18]
CustomReply(oid, n) ==
  IF n < CustomLength[oid] THEN TooShort(CustomLength[oid])
                           ELSE Success(CustomLength[oid], 0)

(* What NICGetStatsCounters answers; the values are left out.              *)
CounterOids ==
  {"OID_GEN_XMIT_OK", "OID_GEN_RCV_OK", "OID_GEN_XMIT_ERROR",
   "OID_GEN_RCV_ERROR", "OID_GEN_RCV_NO_BUFFER", "OID_GEN_RCV_CRC_ERROR",
   "OID_GEN_TRANSMIT_QUEUE_LENGTH", "OID_802_3_XMIT_MAX_COLLISIONS",
   "OID_802_3_RCV_OVERRUN", "OID_802_3_XMIT_HEARTBEAT_FAILURE",
   "OID_GEN_RCV_DISCARDS", "OID_GEN_DIRECTED_BYTES_RCV",
   "OID_GEN_MULTICAST_BYTES_RCV", "OID_GEN_BROADCAST_BYTES_RCV",
   "OID_GEN_DIRECTED_FRAMES_RCV", "OID_GEN_MULTICAST_FRAMES_RCV",
   "OID_GEN_BROADCAST_FRAMES_RCV"}

(* A 64-bit counter may be read in part.  Counters of bytes in both        *)
(* directions are listed by MpQueryInformation and then not found.         *)
CounterReply(oid, n) ==
  IF oid \notin CounterOids THEN Refused("NOT_SUPPORTED")
  ELSE IF n < 4 THEN TooShort(8) ELSE Success(IF n < 8 THEN n ELSE 8, 8)

MpQueryInformation(oid, n) ==
  CASE oid \in DOMAIN QueryLength ->
         IF n < QueryLength[oid] THEN TooShort(QueryLength[oid])
                                 ELSE Success(QueryLength[oid], QueryLength[oid])
    [] oid \in DOMAIN CustomLength -> CustomReply(oid, n)
    [] oid \in CounterOids \cup {"OID_GEN_BYTES_RCV"} -> CounterReply(oid, n)
    [] OTHER -> Refused("NOT_SUPPORTED")

(* The status of a set.  Wake-up is never supported; the lookahead is the  *)
(* only one that says INVALID_LENGTH with the length that it needs.        *)
SetWakeUp == Refused("NOT_SUPPORTED")

SetCustom(oid, n, value) ==
  CASE oid = "OID_GEN_INTERRUPT_MODERATION" -> Refused("INVALID_DATA")
    [] oid = "OID_CUSTOM_DRIVER_SET" /\ n < 4 -> TooShort(4)
    [] oid = "OID_CUSTOM_DRIVER_SET" /\ n >= 4 ->
         IF value \in 1 .. CUSTOM_DRIVER_SET_MAX THEN Success(0, 0)
                                                 ELSE Refused("INVALID_DATA")
    [] OTHER -> Refused("NOT_SUPPORTED")

SetMulticast(n) ==
  IF n % 6 # 0 THEN Refused("INVALID_LENGTH")
  ELSE IF n \div 6 > NIC_MAX_MCAST_LIST THEN Refused("INVALID_DATA")
  ELSE Success(0, 0)

MpSetInformation(oid, n, value) ==
  CASE oid = "OID_802_3_MULTICAST_LIST" -> SetMulticast(n)
    [] oid = "OID_GEN_CURRENT_PACKET_FILTER" ->
         IF n # 4 THEN Refused("INVALID_LENGTH")
         ELSE IF ~ (value \subseteq SupportedFilters) THEN Refused("NOT_SUPPORTED")
         ELSE Success(0, 0)
    [] oid = "OID_GEN_CURRENT_LOOKAHEAD" ->
         IF n < 4 THEN [Refused("INVALID_LENGTH") EXCEPT !.needed = 4]
         ELSE IF value > MaxLookAhead THEN Refused("INVALID_DATA") ELSE Success(0, 0)
    [] oid = "OID_PNP_SET_POWER" ->
         IF n # 4 THEN Refused("INVALID_LENGTH") ELSE Success(0, 0)
    [] oid \in {"OID_PNP_ADD_WAKE_UP_PATTERN", "OID_PNP_REMOVE_WAKE_UP_PATTERN",
               "OID_PNP_ENABLE_WAKE_UP"} -> SetWakeUp
    [] OTHER -> SetCustom(oid, n, value)

(* The WMI methods, on two integers.                                       *)
MpMethodRequest(method, in, out, first, second) ==
  CASE method \notin {"ADD_TWO_INTEGERS", "MINUS_TWO_INTEGERS"} -> Refused("NOT_SUPPORTED")
    [] in < 8 -> Refused("INVALID_DATA")
    [] in >= 8 /\ out < 4 -> TooShort(4)
    [] in >= 8 /\ out >= 4 /\ method = "MINUS_TWO_INTEGERS" /\ first < second ->
         [Refused("INVALID_DATA") EXCEPT !.needed = 4]
    [] OTHER -> Success(4, 0)

CanSubmit == At("oid", "idle") /\ \A r \in Reqs : owed[r] = 0

(* Requests for data are answered at once; NDIS may try again with the     *)
(* length it was told.                                                     *)
DataReply(q, n) ==
  CASE q[1] = "query"  -> MpQueryInformation(q[2], n)
    [] q[1] = "set"    -> MpSetInformation(q[2], n, 1)
    [] q[1] = "method" -> MpMethodRequest(q[2], 8, n, 3, 2)

DataRequests ==
  ({"query"} \X (DOMAIN QueryLength \cup DOMAIN CustomLength \cup CounterOids))
    \cup ({"set"} \X {"OID_GEN_CURRENT_LOOKAHEAD", "OID_CUSTOM_DRIVER_SET",
                     "OID_GEN_INTERRUPT_MODERATION", "OID_PNP_ENABLE_WAKE_UP"})
    \cup ({"method"} \X {"ADD_TWO_INTEGERS", "MINUS_TWO_INTEGERS"})

OidData ==
  /\ "data" \in env.may
  /\ CanSubmit
  /\ \E q \in DataRequests, n \in Lengths :
       reply' = [request |-> q, retried |-> FALSE, answer |-> DataReply(q, n)]
  /\ UNCHANGED <<env, reqVars, ctlVars, recvVars, hwVars, linkVars, setVars>>

OidRetry ==
  /\ reply # NULL /\ ~ reply.retried
  /\ reply.answer.status # "SUCCESS" /\ reply.answer.needed > 0
  /\ reply' = [reply EXCEPT !.retried = TRUE,
                            !.answer = DataReply(reply.request, reply.answer.needed)]
  /\ UNCHANGED <<env, reqVars, ctlVars, recvVars, hwVars, linkVars, setVars>>

(* The flags are looked at under Lock, which is then released.  During a   *)
(* reset a request is answered NDIS_STATUS_REQUEST_ABORTED; that one, like *)
(* a request that is refused or only reads, is answered at once and is no  *)
(* step of this specification.                                             *)
Submit(r, s, kind) ==
  /\ kind \in env.may
  /\ CanSubmit
  /\ ~ resetting
  /\ owed' = [owed EXCEPT ![r] = 1]
  /\ taken' = [taken EXCEPT !["oid"] = r]
  /\ Goto("oid", s)
  /\ UNCHANGED <<same, PendingRequest, cont, RcvLock, resetting, recvVars,
                 hwVars, setVars>>

(* OID_GEN_MEDIA_CONNECT_STATUS: the link is read before Lock is taken,    *)
QueryMedia(r) ==
  /\ Submit(r, "storeMedia", "media")
  /\ seen' = [seen EXCEPT !["oid"] = cable]
  /\ UNCHANGED <<LinkChg, cable, MediaState, NoCable, told>>

QueryMediaStore ==
  /\ At("oid", "storeMedia")
  /\ IF MediaState = seen["oid"]
       THEN /\ seen' = [seen EXCEPT !["oid"] = NULL]
            /\ UNCHANGED <<MediaState, NoCable>>
            /\ Goto("oid", "answer")
       ELSE SetMediaState("oid", seen["oid"]) /\ Goto("oid", "tellMedia")
  /\ UNCHANGED <<same, LinkChg, cable, told, cont, RcvLock, resetting,
                 reqVars, recvVars, hwVars, setVars>>

QueryMediaTell ==
  /\ At("oid", "tellMedia")
  /\ Indicate("oid")
  /\ Goto("oid", "answer")
  /\ UNCHANGED <<same, cont, RcvLock, resetting, reqVars, recvVars, hwVars,
                 setVars>>

OidAnswer ==
  /\ At("oid", "answer")
  /\ Answer("oid")
  /\ Goto("oid", "idle")
  /\ UNCHANGED <<same, PendingRequest, cont, RcvLock, resetting, recvVars,
                 hwVars, linkVars, setVars>>

(* OID_GEN_CURRENT_PACKET_FILTER: nothing is done, and no lock taken, for  *)
(* the filter that is set already.                                         *)
KeepPacketFilter(f) ==
  /\ At("oid", "setting")
  /\ MpSetInformation("OID_GEN_CURRENT_PACKET_FILTER", 4, f).status = "SUCCESS"
  /\ PacketFilter = f
  /\ Answer("oid")
  /\ Goto("oid", "idle")
  /\ UNCHANGED <<same, PendingRequest, cont, RcvLock, resetting, recvVars,
                 hwVars, linkVars, setVars>>

(* Another one, and OID_802_3_MULTICAST_LIST, are set under Lock and       *)
(* RcvLock.  The hash table of the chip is not modelled.                   *)
SetPacketFilter(f) ==
  /\ At("oid", "setting") /\ RcvLock = "free"
  /\ MpSetInformation("OID_GEN_CURRENT_PACKET_FILTER", 4, f).status = "SUCCESS"
  /\ PacketFilter # f
  /\ NICSetPacketFilter(f)
  /\ PacketFilter' = f
  /\ Answer("oid")
  /\ Goto("oid", "idle")
  /\ UNCHANGED <<same, PendingRequest, cont, RcvLock, resetting, recvVars,
                 hwVars, linkVars>>

SetMulticastList(n) ==
  /\ At("oid", "setting") /\ RcvLock = "free"
  /\ MpSetInformation("OID_802_3_MULTICAST_LIST", n, {}).status = "SUCCESS"
  /\ Answer("oid")
  /\ Goto("oid", "idle")
  /\ UNCHANGED <<same, PendingRequest, cont, RcvLock, resetting, recvVars,
                 hwVars, linkVars, setVars>>

(* Mutant: MPSetPowerD0 programs the chip and keeps PacketFilter.          *)
D0KeepsFilter ==
  /\ At("oid", "d0")
  /\ NICSetPacketFilter(OldPacketFilter)
  /\ Goto("oid", "d0Recv")
  /\ UNCHANGED <<same, PacketFilter, cont, RcvLock, resetting, reqVars,
                 recvVars, hwVars, linkVars>>

(* MPSetPowerD0: the filter is set under Lock,                             *)
PowerD0Filter ==
  /\ At("oid", "d0")
  /\ NICSetPacketFilter(OldPacketFilter)
  /\ PacketFilter' = OldPacketFilter
  /\ Goto("oid", "d0Recv")
  /\ UNCHANGED <<same, cont, RcvLock, resetting, reqVars, recvVars, hwVars,
                 linkVars>>

(* the receiver started under RcvLock,                                     *)
PowerD0Recv ==
  /\ At("oid", "d0Recv") /\ RcvLock = "free"
  /\ NICStartRecv("oid", "d0Start")
  /\ UNCHANGED <<same, resetting, reqVars, recvVars, hwVars, linkVars,
                 setVars>>

PowerD0Start ==
  /\ At("oid", "d0Start")
  /\ receiving' = TRUE
  /\ RcvLock' = "free"
  /\ Goto("oid", "d0Enable")
  /\ UNCHANGED <<same, cont, resetting, reqVars, recvVars, IntrMask, linkVars,
                 setVars>>

(* and the interrupt last.                                                 *)
PowerD0Enable ==
  /\ At("oid", "d0Enable")
  /\ IntrMask' = TRUE
  /\ Goto("oid", "answer")
  /\ UNCHANGED <<same, cont, RcvLock, resetting, reqVars, recvVars, receiving,
                 linkVars, setVars>>

(* MPSetPowerLow stops the receiver without a lock,                        *)
PowerLowAbort ==
  /\ At("oid", "low")
  /\ receiving' = FALSE
  /\ Goto("oid", "lowTest")
  /\ UNCHANGED <<same, cont, RcvLock, resetting, reqVars, recvVars, IntrMask,
                 linkVars, setVars>>

(* and looks at OutstandingRecv without one.                               *)
PowerLowTest ==
  /\ At("oid", "lowTest")
  /\ Goto("oid", IF OutstandingRecv # 0 THEN "pend" ELSE "lowQuiet")
  /\ UNCHANGED <<same, cont, RcvLock, resetting, reqVars, recvVars, hwVars,
                 linkVars, setVars>>

PowerLowQuiet ==
  /\ At("oid", "lowQuiet")
  /\ IntrMask' = FALSE /\ LinkChg' = FALSE
  /\ Goto("oid", "answer")
  /\ UNCHANGED <<same, cont, RcvLock, resetting, reqVars, recvVars, receiving,
                 cable, MediaState, NoCable, seen, told, setVars>>

(* MpSetInformation stores the request when NDIS_STATUS_PENDING has come   *)
(* back, again without a lock.                                             *)
PowerLowPend ==
  /\ At("oid", "pend")
  /\ PendingRequest' = taken["oid"]
  /\ taken' = [taken EXCEPT !["oid"] = NULL]
  /\ Goto("oid", "idle")
  /\ UNCHANGED <<same, owed, cont, RcvLock, resetting, recvVars, hwVars,
                 linkVars, setVars>>

OidRequest ==
  \/ \E r \in Reqs : QueryMedia(r)
  \/ \E r \in Reqs :
       /\ \/ Submit(r, "setting", "filter")
          \/ Submit(r, "d0", "power") \/ Submit(r, "low", "power")
       /\ UNCHANGED linkVars
  \/ QueryMediaStore \/ QueryMediaTell \/ OidAnswer
  \/ \E f \in Filters : SetPacketFilter(f) \/ KeepPacketFilter(f)
  \/ \E n \in Lengths : SetMulticastList(n)
  \/ PowerD0Filter \/ PowerD0Recv \/ PowerD0Start \/ PowerD0Enable
  \/ PowerLowAbort \/ PowerLowTest \/ PowerLowQuiet \/ PowerLowPend
  \/ Receive("oid")

-----------------------------------------------------------------------------
(* MPCancelOidRequest.                                                     *)

CancelTake ==
  /\ "cancel" \in env.may
  /\ At("cancel", "idle") /\ PendingRequest # NULL
  /\ TakePending("cancel")
  /\ Goto("cancel", "complete")
  /\ UNCHANGED <<same, owed, cont, RcvLock, resetting, recvVars, hwVars,
                 linkVars, setVars>>

CancelComplete ==
  /\ At("cancel", "complete")
  /\ Answer("cancel")
  /\ Goto("cancel", "idle")
  /\ UNCHANGED <<same, PendingRequest, cont, RcvLock, resetting, recvVars,
                 hwVars, linkVars, setVars>>

(* MPReset, as far as requests, receiver and interrupt are concerned.  It  *)
(* takes a pended request and releases its locks to complete it.  The chip *)
(* reset stops the receiver, disables the interrupt and clears the receive *)
(* mode, which nobody writes again: NDIS is told to (AddressingReset).     *)
ResetChip ==
  /\ receiving' = FALSE /\ IntrMask' = FALSE
  /\ rxMode' = ResetMode
  /\ UNCHANGED <<PacketFilter, OldParameterField>>
  /\ Goto("reset", "rings")

ResetBegin ==
  /\ "reset" \in env.may
  /\ At("reset", "idle") /\ RcvLock = "free"
  /\ resetting' = TRUE
  /\ TakePending("reset")
  /\ IF PendingRequest = NULL
       THEN ResetChip
       ELSE Goto("reset", "complete") /\ UNCHANGED <<hwVars, setVars>>
  /\ UNCHANGED <<same, owed, cont, RcvLock, recvVars, linkVars>>

ResetComplete ==
  /\ At("reset", "complete")
  /\ Answer("reset")
  /\ Goto("reset", "chip")
  /\ UNCHANGED <<same, PendingRequest, cont, RcvLock, resetting, recvVars,
                 hwVars, linkVars, setVars>>

ResetContinue ==
  /\ At("reset", "chip") /\ RcvLock = "free"
  /\ ResetChip
  /\ UNCHANGED <<same, cont, RcvLock, resetting, reqVars, recvVars, linkVars>>

(* The sends are cleaned up with RcvLock released; then the ring is reset, *)
(* the receiver started and the interrupt enabled.                         *)
ResetRings ==
  /\ At("reset", "rings") /\ RcvLock = "free"
  /\ filled' = 0
  /\ receiving' = TRUE /\ IntrMask' = TRUE
  /\ resetting' = FALSE
  /\ Goto("reset", "idle")
  /\ UNCHANGED <<same, cont, RcvLock, OutstandingRecv, ndisHas, resources,
                 left, reqVars, linkVars, setVars>>

Others ==
  \/ ReturnBegin \/ ReturnOne \/ ReturnEnd \/ CompleteLow("ret")
  \/ CheckMedia \/ CheckMediaTell
  \/ CancelTake \/ CancelComplete
  \/ ResetBegin \/ ResetComplete \/ ResetContinue \/ ResetRings

-----------------------------------------------------------------------------
(* The NIC and the cable.                                                  *)

NicReceive ==
  /\ "receive" \in env.may
  /\ receiving /\ filled + OutstandingRecv < env.buffers
  /\ filled' = filled + 1
  /\ UNCHANGED <<same, OutstandingRecv, ndisHas, resources, left, ctlVars,
                 reqVars, hwVars, linkVars, setVars>>

CableChange ==
  /\ "link" \in env.may
  /\ cable' \in States \ {cable}
  /\ LinkChg' = TRUE
  /\ UNCHANGED <<same, MediaState, NoCable, seen, told, ctlVars, reqVars,
                 recvVars, hwVars, setVars>>

Next ==
  \/ OidRequest \/ OidData \/ OidRetry \/ Dpc \/ Others
  \/ NicReceive \/ CableChange

Spec == Init /\ [][Next]_requestVars

(* NDIS calls MPCheckForHang every two seconds.                            *)
FairSpec ==
  /\ Spec
  /\ WF_requestVars(CheckMedia)
  /\ WF_requestVars(CheckMediaTell)

-----------------------------------------------------------------------------
(* Properties.                                                             *)

(* The type invariant.                                                     *)
RequestsTypeOK ==
  /\ PendingRequest \in Reqs \cup {NULL}
  /\ taken \in [Actors -> Reqs \cup {NULL}]
  /\ owed \in [Reqs -> -1 .. 1]
  /\ RcvLock \in {"free", "dpc", "ret", "oid"}
  /\ {OutstandingRecv, ndisHas, filled, left} \subseteq 0 .. env.buffers
  /\ {resetting, receiving, IntrMask, LinkChg, NoCable} \subseteq BOOLEAN
  /\ {MediaState, told} \subseteq States \cup {"Unknown"}

(* Every request that NDIS is owed an answer for is in one place: with the *)
(* thread that handles it, in PendingRequest, or with the thread that took *)
(* it from there; and nobody holds a request that has been answered.  So a *)
(* request is completed once, whoever comes first (mp_req.c:1579-1590).    *)
HeldOnce ==
  \A r \in Reqs :
    LET holders == {a \in Actors : taken[a] = r}
    IN  /\ owed[r] \in {0, 1}
        /\ Cardinality(holders) + (IF PendingRequest = r THEN 1 ELSE 0) = owed[r]

(* Between requests, filter and chip agree: the receive mode is that of    *)
(* PacketFilter, never of a filter set earlier, although a set is skipped  *)
(* when no bit changes (mp_req.c:997, 1178), power management sets the     *)
(* filter too, and a reset of the chip may come between any two of these.  *)
(* What the reset leaves is the one exception.                             *)
FilterInStep ==
  At("oid", "idle") =>
    OldParameterField = PacketFilter /\ rxMode \in {RxMode(PacketFilter), ResetMode}

(* A request refused for its length is granted when NDIS tries again with  *)
(* the length it was told: for queries, sets and methods alike, whichever  *)
(* way of reporting the length the code takes (mp_req.c:685-706, 560,      *)
(* 1205).                                                                  *)
RetrySucceeds ==
  reply # NULL => (reply.retried => reply.answer.status = "SUCCESS")

(* Once the cable is left alone, MediaState becomes and stays right,       *)
(* although three threads store what they read before they had the lock    *)
(* and a completed low-power request acknowledges a link change unseen.    *)
MediaSettles ==
  \A s \in States : <>[](cable = s) => <>[](MediaState = s)

(* mp_req.c:926-927: "This routine will set up the adapter so that it      *)
(* accepts packets that match the specified packet filter."  So it is when *)
(* NDIS, told that a reset needs its help, sets the filter again.          *)
FilterIsSet ==
  [][\A f \in Filters :
       At("reset", "idle") /\ (SetPacketFilter(f) \/ KeepPacketFilter(f)) =>
         rxMode' = RxMode(f)]_requestVars

(* mp_req.c:1497-1498: "When all the packets are returned later, the       *)
(* driver will complete the request."                                      *)
PendingIsCompleted ==
  PendingRequest # NULL /\ OutstandingRecv = 0 =>
    \E a \in {"dpc", "ret", "oid"} : ~ At(a, "idle")

=============================================================================
