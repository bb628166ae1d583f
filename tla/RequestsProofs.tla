--------------------------- MODULE RequestsProofs ---------------------------
(***************************************************************************)
(* Proofs about pended requests and the packet filter.  The inductive      *)
(* invariant ReqInv adds to HeldOnce where a thread has a request in its   *)
(* hands, that there is one request at a time, and where the receive       *)
(* routine returns to; CountInv, which rests on it, where the frames are   *)
(* that OutstandingRecv counts.                                            *)
(***************************************************************************)
EXTENDS Requests, FiniteSetTheorems, TLAPS

(* Where a thread has a request in its hands.                              *)
HasRequest(a) ==
  \/ a = "oid" /\ pc[a] # "idle"
  \/ a = "dpc" /\ pc[a] \in {"upComplete", "lowComplete"}
  \/ a = "ret" /\ pc[a] = "lowComplete"
  \/ a \in {"reset", "cancel"} /\ pc[a] = "complete"

(* pc and cont are functions on their threads.                             *)
Shape ==
  /\ pc = [a \in Actors \cup {"hang"} |-> pc[a]]
  /\ cont = [a \in {"dpc", "oid"} |-> cont[a]]

ReqTypes ==
  /\ PendingRequest \in Reqs \cup {NULL}
  /\ taken \in [Actors -> Reqs \cup {NULL}]
  /\ owed \in [Reqs -> {0, 1}]
  /\ Shape

InHands == \A a \in Actors : taken[a] # NULL <=> HasRequest(a)

(* NDIS sends no request while another is owed an answer, and whoever      *)
(* takes the pended one clears PendingRequest under the same lock.         *)
OneRequest ==
  /\ \A a, b \in Actors : taken[a] # NULL /\ taken[b] # NULL => a = b
  /\ \A a \in Actors : taken[a] # NULL => PendingRequest = NULL

OwedIsSomewhere ==
  \A r \in Reqs :
    owed[r] = 1 <=> PendingRequest = r \/ \E a \in Actors : taken[a] = r

(* The receive routine returns to a place that waits for it.               *)
ReturnsTo ==
  /\ pc["oid"] \in {"recv", "indicated"} => cont["oid"] = "d0Start"
  /\ pc["dpc"] \in {"recv", "indicated", "lowDisable", "lowTake",
                    "lowComplete", "lowRelock"} =>
       cont["dpc"] \in {"upStart", "done"}

ReqInv == ReqTypes /\ InHands /\ OneRequest /\ OwedIsSomewhere /\ ReturnsTo

---------------------------------------------------------------------------
(* The invariant holds before any request came.                            *)
LEMMA ReqInvInit == Init => ReqInv
<1>. SUFFICES ASSUME Init PROVE ReqInv
  OBVIOUS
<1>. USE RequestsAssumption
<1>1. ReqTypes BY DEF Init, ReqTypes, Shape, Actors
<1>2. InHands BY DEF Init, InHands, HasRequest, Actors
<1>3. OneRequest BY DEF Init, OneRequest
<1>4. OwedIsSomewhere BY DEF Init, OwedIsSomewhere
<1>5. ReturnsTo BY DEF Init, ReturnsTo, Actors
<1>. QED BY <1>1, <1>2, <1>3, <1>4, <1>5 DEF ReqInv

(* A step that leaves the requests and where they are in hand alone.       *)
LEMMA QuietKeeps ==
  ASSUME ReqInv, UNCHANGED reqVars, Shape', ReturnsTo',
         \A b \in Actors : HasRequest(b)' <=> HasRequest(b)
  PROVE  ReqInv'
<1>1. ReqTypes' BY DEF ReqInv, ReqTypes, reqVars
<1>2. InHands' BY DEF ReqInv, InHands, reqVars
<1>3. OneRequest' BY DEF ReqInv, OneRequest, reqVars
<1>4. OwedIsSomewhere' BY DEF ReqInv, OwedIsSomewhere, reqVars
<1>. QED BY <1>1, <1>2, <1>3, <1>4 DEF ReqInv

(* A thread with empty hands takes the pended request, if there is one.    *)
LEMMA TakeKeeps ==
  ASSUME ReqInv, NEW a \in Actors, TakePending(a), UNCHANGED owed,
         ~ HasRequest(a), HasRequest(a)' <=> PendingRequest # NULL,
         \A b \in Actors \ {a} : HasRequest(b)' <=> HasRequest(b),
         Shape', ReturnsTo'
  PROVE  ReqInv'
<1>. USE RequestsAssumption
<1>1. taken[a] = NULL
  BY DEF ReqInv, InHands
<1>2. /\ taken'[a] = PendingRequest
      /\ \A b \in Actors \ {a} : taken'[b] = taken[b]
  BY DEF ReqInv, ReqTypes, TakePending
<1>3. ReqTypes' BY DEF ReqInv, ReqTypes, TakePending
<1>4. InHands' BY <1>2 DEF ReqInv, InHands
<1>5. OneRequest' BY <1>2 DEF ReqInv, OneRequest, TakePending
<1>6. OwedIsSomewhere' BY <1>1, <1>2 DEF ReqInv, OwedIsSomewhere, TakePending
<1>. QED BY <1>3, <1>4, <1>5, <1>6 DEF ReqInv

(* A thread answers the request it has in its hands.                       *)
LEMMA AnswerKeeps ==
  ASSUME ReqInv, NEW a \in Actors, Answer(a), UNCHANGED PendingRequest,
         HasRequest(a), ~ HasRequest(a)',
         \A b \in Actors \ {a} : HasRequest(b)' <=> HasRequest(b),
         Shape', ReturnsTo'
  PROVE  ReqInv'
<1>. USE RequestsAssumption
<1>1. taken[a] # NULL /\ taken[a] \in Reqs /\ PendingRequest = NULL
  BY DEF ReqInv, InHands, ReqTypes, OneRequest
<1>2. owed[taken[a]] = 1
  BY <1>1 DEF ReqInv, OwedIsSomewhere
<1>3. /\ taken'[a] = NULL
      /\ \A b \in Actors \ {a} : taken'[b] = NULL
  BY <1>1 DEF ReqInv, ReqTypes, OneRequest, Answer
<1>4. owed' = [owed EXCEPT ![taken[a]] = 0]
  BY <1>1, <1>2 DEF ReqInv, ReqTypes, Answer
<1>5. ReqTypes'
  BY <1>1, <1>4 DEF ReqInv, ReqTypes, Answer
<1>6. InHands'
  BY <1>1, <1>3 DEF ReqInv, InHands, OneRequest
<1>7. OneRequest' BY <1>1, <1>3 DEF OneRequest
<1>8. OwedIsSomewhere'
  <2>1. \A r \in Reqs : r # taken[a] => owed[r] # 1
    BY <1>1 DEF ReqInv, OwedIsSomewhere, OneRequest
  <2>2. \A r \in Reqs : owed'[r] # 1
    BY <1>1, <1>4, <2>1 DEF ReqInv, ReqTypes
  <2>. QED BY <1>1, <1>3, <2>2 DEF OwedIsSomewhere
<1>. QED BY <1>5, <1>6, <1>7, <1>8 DEF ReqInv

(* The steps of the receive routine of the DPC and of a request to go to   *)
(* D0.                                                                     *)
LEMMA ReceiveKeeps ==
  ASSUME ReqInv, NEW a \in {"dpc", "oid"}, Receive(a)
  PROVE  ReqInv'
<1>. USE DEF ReqInv, ReqTypes, Shape, ReturnsTo, HasRequest, Actors, Goto, At
<1>1. CASE RecvBatch(a)
  BY <1>1, QuietKeeps DEF RecvBatch, reqVars
<1>2. CASE RecvEnd(a)
  BY <1>2, QuietKeeps DEF RecvEnd, reqVars
<1>3. CASE RecvIndicated(a)
  <2>1. a = "oid" => PendingRequest = NULL
    BY <1>3 DEF RecvIndicated, InHands, OneRequest
  <2>. QED BY <1>3, <2>1, QuietKeeps DEF RecvIndicated, LowPowerDone, reqVars
<1>. QED BY <1>1, <1>2, <1>3 DEF Receive

(* The steps that complete a low-power request.                            *)
LEMMA CompleteLowKeeps ==
  ASSUME ReqInv, NEW a \in {"dpc", "ret"}, CompleteLow(a)
  PROVE  ReqInv'
<1>. USE DEF ReqInv, ReqTypes, Shape, ReturnsTo, HasRequest, Actors, Goto, At
<1>1. CASE LowDisable(a)
  BY <1>1, QuietKeeps DEF LowDisable, reqVars
<1>2. CASE LowTake(a)
  BY <1>2, TakeKeeps DEF LowTake, TakePending
<1>3. CASE LowComplete(a)
  BY <1>3, AnswerKeeps DEF LowComplete, Answer
<1>4. CASE LowRelock(a)
  BY <1>4, QuietKeeps DEF LowRelock, reqVars
<1>. QED BY <1>1, <1>2, <1>3, <1>4 DEF CompleteLow

(* The steps of the DPC.                                                   *)
LEMMA DpcKeeps == ReqInv /\ Dpc => ReqInv'
<1>. SUFFICES ASSUME ReqInv, Dpc PROVE ReqInv'
  OBVIOUS
<1>. USE DEF ReqInv, ReqTypes, Shape, ReturnsTo, HasRequest, Actors, Goto, At
<1>1. CASE DpcBegin
  BY <1>1, QuietKeeps DEF DpcBegin, reqVars
<1>2. CASE DpcReadMedia
  BY <1>2, QuietKeeps DEF DpcReadMedia, reqVars
<1>3. CASE DpcStoreMedia
  BY <1>3, QuietKeeps DEF DpcStoreMedia, reqVars
<1>4. CASE DpcTellMedia
  BY <1>4, QuietKeeps DEF DpcTellMedia, reqVars
<1>5. CASE LinkUpTake
  BY <1>5, TakeKeeps DEF LinkUpTake, TakePending
<1>6. CASE LinkUpComplete
  BY <1>6, AnswerKeeps DEF LinkUpComplete, Answer
<1>7. CASE LinkUpRecv
  BY <1>7, QuietKeeps DEF LinkUpRecv, reqVars, NICStartRecv
<1>8. CASE LinkUpStart
  BY <1>8, QuietKeeps DEF LinkUpStart, reqVars
<1>9. CASE DpcRecv
  BY <1>9, QuietKeeps DEF DpcRecv, reqVars
<1>10. CASE DpcRecvDone
  BY <1>10, QuietKeeps DEF DpcRecvDone, reqVars
<1>11. CASE DpcRestart
  BY <1>11, QuietKeeps DEF DpcRestart, reqVars
<1>12. CASE DpcEnable
  BY <1>12, QuietKeeps DEF DpcEnable, reqVars
<1>13. CASE Receive("dpc")
  BY <1>13, ReceiveKeeps
<1>14. CASE CompleteLow("dpc")
  BY <1>14, CompleteLowKeeps
<1>. QED
  BY <1>1, <1>2, <1>3, <1>4, <1>5, <1>6, <1>7, <1>8, <1>9, <1>10, <1>11, <1>12,
     <1>13, <1>14
  DEF Dpc, LinkChangeInterrupt

(* The other threads: the return of frames, the hang check, cancellation   *)
(* and reset.                                                              *)
LEMMA OthersKeep == ReqInv /\ Others => ReqInv'
<1>. SUFFICES ASSUME ReqInv, Others PROVE ReqInv'
  OBVIOUS
<1>. USE DEF ReqInv, ReqTypes, Shape, ReturnsTo, HasRequest, Actors, Goto, At
<1>1. CASE ReturnBegin
  BY <1>1, QuietKeeps DEF ReturnBegin, reqVars
<1>2. CASE ReturnOne
  BY <1>2, QuietKeeps DEF ReturnOne, reqVars
<1>3. CASE ReturnEnd
  BY <1>3, QuietKeeps DEF ReturnEnd, reqVars
<1>4. CASE CheckMedia
  BY <1>4, QuietKeeps DEF CheckMedia, reqVars
<1>5. CASE CheckMediaTell
  BY <1>5, QuietKeeps DEF CheckMediaTell, reqVars
<1>6. CASE CancelTake
  BY <1>6, TakeKeeps DEF CancelTake, TakePending
<1>7. CASE CancelComplete
  BY <1>7, AnswerKeeps DEF CancelComplete, Answer
<1>8. CASE ResetBegin
  BY <1>8, TakeKeeps DEF ResetBegin, TakePending, ResetChip
<1>9. CASE ResetComplete
  BY <1>9, AnswerKeeps DEF ResetComplete, Answer
<1>10. CASE ResetContinue
  BY <1>10, QuietKeeps DEF ResetContinue, reqVars, ResetChip
<1>11. CASE ResetRings
  BY <1>11, QuietKeeps DEF ResetRings, reqVars
<1>12. CASE CompleteLow("ret")
  BY <1>12, CompleteLowKeeps
<1>. QED
  BY <1>1, <1>2, <1>3, <1>4, <1>5, <1>6, <1>7, <1>8, <1>9, <1>10, <1>11, <1>12
  DEF Others

(* NDIS sends a request when none is owed an answer.                       *)
LEMMA SubmitKeeps ==
  ASSUME ReqInv, NEW r \in Reqs,
         NEW s \in {"storeMedia", "setting", "d0", "low"}, NEW kind,
         Submit(r, s, kind)
  PROVE  ReqInv'
<1>. USE RequestsAssumption
<1>. USE DEF Actors, Goto, At
<1>1. /\ owed = [q \in Reqs |-> 0] /\ taken = [a \in Actors |-> NULL]
      /\ PendingRequest = NULL
  BY DEF Submit, CanSubmit, ReqInv, ReqTypes, OwedIsSomewhere
<1>2. /\ owed' = [owed EXCEPT ![r] = 1]
      /\ taken' = [taken EXCEPT !["oid"] = r]
      /\ PendingRequest' = NULL
      /\ pc["oid"] = "idle" /\ pc' = [pc EXCEPT !["oid"] = s] /\ cont' = cont
  BY <1>1 DEF Submit, CanSubmit
<1>3. ReqTypes' BY <1>1, <1>2 DEF ReqInv, ReqTypes, Shape
<1>4. InHands' BY <1>1, <1>2 DEF ReqInv, ReqTypes, Shape, InHands, HasRequest
<1>5. OneRequest' BY <1>1, <1>2 DEF OneRequest
<1>6. OwedIsSomewhere' BY <1>1, <1>2 DEF OwedIsSomewhere
<1>7. ReturnsTo' BY <1>2 DEF ReqInv, ReqTypes, Shape, ReturnsTo
<1>. QED BY <1>3, <1>4, <1>5, <1>6, <1>7 DEF ReqInv

(* The request is stored in PendingRequest when its own thread leaves it.  *)
LEMMA PendKeeps == ReqInv /\ PowerLowPend => ReqInv'
<1>. SUFFICES ASSUME ReqInv, PowerLowPend PROVE ReqInv'
  OBVIOUS
<1>. USE RequestsAssumption
<1>. USE DEF Actors, Goto, At, PowerLowPend
<1>1. /\ taken["oid"] \in Reqs /\ PendingRequest = NULL
      /\ \A a \in Actors \ {"oid"} : taken[a] = NULL
  BY DEF ReqInv, InHands, HasRequest, ReqTypes, OneRequest
<1>2. taken' = [a \in Actors |-> NULL]
  BY <1>1 DEF ReqInv, ReqTypes
<1>3. ReqTypes' BY <1>1, <1>2 DEF ReqInv, ReqTypes, Shape
<1>4. InHands'
  BY <1>1, <1>2 DEF ReqInv, ReqTypes, Shape, InHands, HasRequest
<1>5. OneRequest' BY <1>2 DEF OneRequest
<1>6. OwedIsSomewhere' BY <1>1, <1>2 DEF ReqInv, OwedIsSomewhere
<1>7. ReturnsTo' BY DEF ReqInv, ReqTypes, Shape, ReturnsTo
<1>. QED BY <1>3, <1>4, <1>5, <1>6, <1>7 DEF ReqInv

(* The steps of MPOidRequest.                                              *)
LEMMA OidRequestKeeps == ReqInv /\ OidRequest => ReqInv'
<1>. SUFFICES ASSUME ReqInv, OidRequest PROVE ReqInv'
  OBVIOUS
<1>. USE DEF ReqInv, ReqTypes, Shape, ReturnsTo, HasRequest, Actors, Goto, At
<1>1. CASE QueryMediaStore
  BY <1>1, QuietKeeps DEF QueryMediaStore, reqVars
<1>2. CASE QueryMediaTell
  BY <1>2, QuietKeeps DEF QueryMediaTell, reqVars
<1>3. CASE OidAnswer
  BY <1>3, AnswerKeeps DEF OidAnswer, Answer
<1>4. CASE PowerD0Filter
  BY <1>4, QuietKeeps DEF PowerD0Filter, reqVars
<1>5. CASE PowerD0Recv
  BY <1>5, QuietKeeps DEF PowerD0Recv, reqVars, NICStartRecv
<1>6. CASE PowerD0Start
  BY <1>6, QuietKeeps DEF PowerD0Start, reqVars
<1>7. CASE PowerD0Enable
  BY <1>7, QuietKeeps DEF PowerD0Enable, reqVars
<1>8. CASE PowerLowAbort
  BY <1>8, QuietKeeps DEF PowerLowAbort, reqVars
<1>9. CASE PowerLowTest
  BY <1>9, QuietKeeps DEF PowerLowTest, reqVars
<1>10. CASE PowerLowQuiet
  BY <1>10, QuietKeeps DEF PowerLowQuiet, reqVars
<1>11. CASE PowerLowPend
  BY <1>11, PendKeeps
<1>12. CASE Receive("oid")
  BY <1>12, ReceiveKeeps
<1>13. ASSUME NEW f \in Filters, SetPacketFilter(f) \/ KeepPacketFilter(f)
       PROVE  ReqInv'
  BY <1>13, AnswerKeeps DEF SetPacketFilter, KeepPacketFilter, Answer
<1>14. ASSUME NEW m \in Lengths, SetMulticastList(m) PROVE ReqInv'
  BY <1>14, AnswerKeeps DEF SetMulticastList, Answer
<1>15. ASSUME NEW r \in Reqs,
             \/ QueryMedia(r) \/ Submit(r, "setting", "filter")
             \/ Submit(r, "d0", "power") \/ Submit(r, "low", "power")
      PROVE  ReqInv'
  BY <1>15, SubmitKeeps DEF QueryMedia
<1>. QED
  BY <1>1, <1>2, <1>3, <1>4, <1>5, <1>6, <1>7, <1>8, <1>9, <1>10, <1>11, <1>12,
     <1>13, <1>14, <1>15
  DEF OidRequest

(* Every request that NDIS is owed an answer for is in one place, in every *)
(* reachable state.                                                        *)
THEOREM RequestsInvariant == Spec => []ReqInv
<1>1. ReqInv /\ [Next]_requestVars => ReqInv'
  <2>. SUFFICES ASSUME ReqInv, [Next]_requestVars PROVE ReqInv'
    OBVIOUS
  <2>1. CASE OidRequest BY <2>1, OidRequestKeeps
  <2>2. CASE Dpc BY <2>2, DpcKeeps
  <2>3. CASE Others BY <2>3, OthersKeep
  <2>4. CASE OidData \/ OidRetry \/ NicReceive \/ CableChange
    BY <2>4, QuietKeeps
    DEF OidData, OidRetry, NicReceive, CableChange, reqVars, ctlVars, ReqInv,
        ReqTypes, Shape, ReturnsTo, HasRequest
  <2>5. CASE UNCHANGED requestVars
    BY <2>5, QuietKeeps
    DEF requestVars, reqVars, ctlVars, ReqInv, ReqTypes, Shape, ReturnsTo,
        HasRequest
  <2>. QED BY <2>1, <2>2, <2>3, <2>4, <2>5 DEF Next
<1>. QED BY ReqInvInit, <1>1, PTL DEF Spec

(* HeldOnce: a request is with one thread or pended, and is completed once *)
(* (mp_req.c:1579-1590).                                                   *)
THEOREM HeldOnceHolds == Spec => []HeldOnce
<1>1. ReqInv => HeldOnce
  <2>. SUFFICES ASSUME ReqInv, NEW r \in Reqs
       PROVE  /\ owed[r] \in {0, 1}
              /\ Cardinality({a \in Actors : taken[a] = r})
                   + (IF PendingRequest = r THEN 1 ELSE 0) = owed[r]
    BY DEF HeldOnce
  <2>. DEFINE holders == {a \in Actors : taken[a] = r}
  <2>. USE RequestsAssumption
  <2>1. owed[r] \in {0, 1}
    BY DEF ReqInv, ReqTypes
  <2>2. CASE holders = {}
    <3>1. Cardinality(holders) = 0
      BY <2>2, FS_EmptySet
    <3>2. owed[r] = 1 <=> PendingRequest = r
      BY <2>2 DEF ReqInv, OwedIsSomewhere
    <3>. QED BY <2>1, <3>1, <3>2
  <2>3. ASSUME NEW a \in holders
        PROVE  Cardinality(holders)
                 + (IF PendingRequest = r THEN 1 ELSE 0) = owed[r]
    <3>1. holders = {a}
      BY DEF ReqInv, OneRequest
    <3>2. Cardinality(holders) = 1
      BY <3>1, FS_Singleton
    <3>3. PendingRequest # r /\ owed[r] = 1
      BY DEF ReqInv, OneRequest, OwedIsSomewhere
    <3>. QED BY <3>2, <3>3
  <2>. QED BY <2>1, <2>2, <2>3
<1>. QED BY RequestsInvariant, <1>1, PTL

---------------------------------------------------------------------------
(* The register follows the filter, between requests and within them; a    *)
(* reset of the chip only clears it.                                       *)
FilterInv ==
  OldParameterField = PacketFilter /\ rxMode \in {RxMode(PacketFilter), ResetMode}

(* NICSetPacketFilter leaves the chip programmed for the filter it is      *)
(* called with, or as the reset left it, when it finds nothing to change   *)
(* (mp_req.c:997).                                                         *)
LEMMA SetFilterKeeps ==
  ASSUME FilterInv, NEW f, NICSetPacketFilter(f), PacketFilter' = f
  PROVE  FilterInv'
<1>1. CASE f = OldParameterField
  BY <1>1 DEF FilterInv, NICSetPacketFilter
<1>2. CASE f # OldParameterField
  BY <1>2 DEF FilterInv, NICSetPacketFilter, RxMode
<1>. QED BY <1>1, <1>2

(* FilterInStep: between requests the register is that of the filter, or   *)
(* what a reset of the chip left, whatever filters, power requests and     *)
(* resets came in what order.                                              *)
THEOREM FilterInStepHolds == Spec => []FilterInStep
<1>1. Init => FilterInv
  BY DEF Init, FilterInv, OldPacketFilter
<1>2. FilterInv /\ [Next]_requestVars => FilterInv'
  <2>. SUFFICES ASSUME FilterInv, [Next]_requestVars PROVE FilterInv'
    OBVIOUS
  <2>1. ASSUME UNCHANGED setVars PROVE FilterInv'
    BY <2>1 DEF setVars, FilterInv, RxMode
  <2>2. ASSUME NEW f \in Filters, SetPacketFilter(f) PROVE FilterInv'
    BY <2>2, SetFilterKeeps DEF SetPacketFilter
  <2>3. CASE PowerD0Filter
    BY <2>3, SetFilterKeeps DEF PowerD0Filter
  <2>9. ASSUME ResetChip PROVE FilterInv'
    BY <2>9 DEF FilterInv, ResetChip
  <2>4. CASE OidRequest
    BY <2>1, <2>2, <2>3, <2>4
    DEF OidRequest, KeepPacketFilter, QueryMedia, Submit, QueryMediaStore, QueryMediaTell,
        OidAnswer, SetMulticastList, PowerD0Recv, PowerD0Start, PowerD0Enable,
        PowerLowAbort, PowerLowTest, PowerLowQuiet, PowerLowPend, Receive,
        RecvBatch, RecvEnd, RecvIndicated
  <2>5. CASE Dpc
    BY <2>1, <2>5
    DEF Dpc, DpcBegin, LinkChangeInterrupt, DpcReadMedia, DpcStoreMedia,
        DpcTellMedia, LinkUpTake, LinkUpComplete, LinkUpRecv, LinkUpStart,
        DpcRecv, DpcRecvDone, DpcRestart, DpcEnable, Receive, RecvBatch,
        RecvEnd, RecvIndicated, CompleteLow, LowDisable, LowTake, LowComplete,
        LowRelock
  <2>6. CASE Others
    BY <2>1, <2>6, <2>9
    DEF Others, ReturnBegin, ReturnOne, ReturnEnd, CompleteLow, LowDisable,
        LowTake, LowComplete, LowRelock, CheckMedia, CheckMediaTell,
        CancelTake, CancelComplete, ResetBegin, ResetComplete, ResetContinue,
        ResetRings
  <2>7. CASE OidData \/ OidRetry \/ NicReceive \/ CableChange
    BY <2>1, <2>7 DEF OidData, OidRetry, NicReceive, CableChange
  <2>8. CASE UNCHANGED requestVars
    BY <2>1, <2>8 DEF requestVars
  <2>. QED BY <2>4, <2>5, <2>6, <2>7, <2>8 DEF Next
<1>3. FilterInv => FilterInStep
  BY DEF FilterInv, FilterInStep
<1>. QED BY <1>1, <1>2, <1>3, PTL DEF Spec

---------------------------------------------------------------------------
(* A received frame is with NDIS, in the hands of MPReturnNetBufferLists,  *)
(* or indicated with RESOURCES in a batch that has not come back; the rest *)
(* of the buffers are the ring's.                                          *)
FramesCounted ==
  /\ OutstandingRecv = ndisHas + left + resources["dpc"] + resources["oid"]
  /\ OutstandingRecv \in Nat /\ ndisHas \in Nat /\ left \in Nat
  /\ filled \in Nat /\ env.buffers \in Nat
  /\ filled + OutstandingRecv <= env.buffers
  /\ resources \in [{"dpc", "oid"} -> Nat]
  /\ \A a \in {"dpc", "oid"} : resources[a] # 0 => pc[a] = "indicated"
  /\ pc["ret"] = "idle" => left = 0

(* The flags, and what a thread read of the link before it had the lock.   *)
LinkTypes ==
  /\ resetting \in BOOLEAN /\ receiving \in BOOLEAN /\ IntrMask \in BOOLEAN
  /\ LinkChg \in BOOLEAN /\ NoCable \in BOOLEAN
  /\ MediaState \in States \cup {"Unknown"}
  /\ told \in States \cup {"Unknown"} /\ cable \in States
  /\ seen = [a \in {"dpc", "oid", "hang"} |-> seen[a]]
  /\ \A a \in {"dpc", "oid"} :
       pc[a] \in {"storeMedia", "tellMedia"} => seen[a] \in States
  /\ pc["hang"] = "tell" => seen["hang"] \in States
  /\ RcvLock \in {"free", "dpc", "ret", "oid"}

CountInv == ReqInv /\ FramesCounted /\ LinkTypes

LEMMA CountInvInit == Init => FramesCounted /\ LinkTypes
<1>. SUFFICES ASSUME Init PROVE FramesCounted /\ LinkTypes
  OBVIOUS
<1>1. FramesCounted
  BY RequestsAssumption DEF Init, FramesCounted
<1>2. LinkTypes
  BY DEF Init, LinkTypes, Actors
<1>. QED BY <1>1, <1>2

(* A step that moves no frame and indicates none.                          *)
LEMMA FramesAlone ==
  ASSUME FramesCounted, UNCHANGED recvVars, UNCHANGED env,
         \A a \in {"dpc", "oid"} :
           pc[a] = "indicated" => pc'[a] = "indicated",
         pc'["ret"] = "idle" => pc["ret"] = "idle"
  PROVE  FramesCounted'
BY DEF FramesCounted, recvVars

(* A step that touches neither link nor flags.                             *)
LEMMA LinkAlone ==
  ASSUME LinkTypes, UNCHANGED linkVars,
         resetting' \in BOOLEAN, receiving' \in BOOLEAN, IntrMask' \in BOOLEAN,
         RcvLock' \in {"free", "dpc", "ret", "oid"},
         \A a \in {"dpc", "oid"} :
           pc'[a] \in {"storeMedia", "tellMedia"} => pc'[a] = pc[a],
         pc'["hang"] = pc["hang"]
  PROVE  LinkTypes'
BY DEF LinkTypes, linkVars

(* The receive routine and the return of frames.                           *)
LEMMA ReceiveCounts ==
  ASSUME CountInv, NEW a \in {"dpc", "oid"}, Receive(a)
  PROVE  FramesCounted' /\ LinkTypes'
<1>. USE DEF Goto, At, same
<1>0. /\ pc = [b \in Actors \cup {"hang"} |-> pc[b]]
      /\ \/ cont[a] \notin {"storeMedia", "tellMedia", "indicated"}
         \/ pc[a] # "recv"
  BY DEF CountInv, ReqInv, ReqTypes, Shape, ReturnsTo
<1>1. CASE RecvBatch(a)
  <2>1. PICK p \in 0 .. filled, f \in 0 .. filled :
          /\ p + f \in 1 .. filled
          /\ OutstandingRecv' = OutstandingRecv + p + f
          /\ ndisHas' = ndisHas + p
          /\ filled' = filled - (p + f)
          /\ resources' = [resources EXCEPT ![a] = f]
    BY <1>1 DEF RecvBatch
  <2>2. /\ pc[a] = "recv" /\ pc' = [pc EXCEPT ![a] = "indicated"]
        /\ left' = left /\ env' = env /\ RcvLock' = "free"
        /\ UNCHANGED <<resetting, hwVars, linkVars>>
    BY <1>1 DEF RecvBatch
  <2>3. /\ pc'[a] = "indicated"
        /\ \A b \in {"dpc", "oid", "ret", "hang"} \ {a} : pc'[b] = pc[b]
    BY <1>0, <2>2 DEF Actors
  <2>4. resources[a] = 0
    BY <2>2 DEF CountInv, FramesCounted
  <2>5. FramesCounted'
    <3>1. CASE a = "dpc"
      <4>1. resources'["dpc"] = f /\ resources'["oid"] = resources["oid"]
        BY <2>1, <3>1 DEF CountInv, FramesCounted
      <4>2. p \in Nat /\ f \in Nat /\ p + f <= filled
        BY <2>1 DEF CountInv, FramesCounted
      <4>. QED BY <2>1, <2>2, <2>3, <2>4, <3>1, <4>1, <4>2
           DEF CountInv, FramesCounted
    <3>2. CASE a = "oid"
      <4>1. resources'["oid"] = f /\ resources'["dpc"] = resources["dpc"]
        BY <2>1, <3>2 DEF CountInv, FramesCounted
      <4>2. p \in Nat /\ f \in Nat /\ p + f <= filled
        BY <2>1 DEF CountInv, FramesCounted
      <4>. QED BY <2>1, <2>2, <2>3, <2>4, <3>2, <4>1, <4>2
           DEF CountInv, FramesCounted
    <3>. QED BY <3>1, <3>2
  <2>6. LinkTypes'
    BY <1>0, <2>2, <2>3, LinkAlone DEF CountInv, LinkTypes, hwVars, Actors
  <2>. QED BY <2>5, <2>6
<1>2. CASE RecvEnd(a)
  <2>1. /\ pc[a] = "recv" /\ pc' = [pc EXCEPT ![a] = cont[a]]
        /\ env' = env /\ UNCHANGED <<RcvLock, resetting, hwVars>>
        /\ UNCHANGED recvVars /\ UNCHANGED linkVars
    BY <1>2 DEF RecvEnd
  <2>2. /\ pc'[a] = cont[a]
        /\ \A b \in {"dpc", "oid", "ret", "hang"} \ {a} : pc'[b] = pc[b]
    BY <1>0, <2>1 DEF Actors
  <2>. QED BY <1>0, <2>1, <2>2, FramesAlone, LinkAlone
       DEF CountInv, LinkTypes, hwVars
<1>3. CASE RecvIndicated(a)
  <2>1. /\ pc[a] = "indicated" /\ env' = env
        /\ OutstandingRecv' = OutstandingRecv - resources[a]
        /\ resources' = [resources EXCEPT ![a] = 0]
        /\ UNCHANGED <<ndisHas, filled, left, resetting, hwVars>>
        /\ UNCHANGED linkVars
        /\ \/ pc' = [pc EXCEPT ![a] = "lowDisable"] /\ RcvLock' = RcvLock
           \/ pc' = [pc EXCEPT ![a] = "recv"] /\ RcvLock' = a
    BY <1>3 DEF RecvIndicated
  <2>2. /\ pc'[a] \in {"lowDisable", "recv"}
        /\ \A b \in {"dpc", "oid", "ret", "hang"} \ {a} : pc'[b] = pc[b]
    BY <1>0, <2>1 DEF Actors
  <2>3. FramesCounted'
    <3>1. CASE a = "dpc"
      <4>1. resources'["dpc"] = 0 /\ resources'["oid"] = resources["oid"]
        BY <2>1, <3>1 DEF CountInv, FramesCounted
      <4>. QED BY <2>1, <2>2, <3>1, <4>1 DEF CountInv, FramesCounted
    <3>2. CASE a = "oid"
      <4>1. resources'["oid"] = 0 /\ resources'["dpc"] = resources["dpc"]
        BY <2>1, <3>2 DEF CountInv, FramesCounted
      <4>. QED BY <2>1, <2>2, <3>2, <4>1 DEF CountInv, FramesCounted
    <3>. QED BY <3>1, <3>2
  <2>4. LinkTypes'
    BY <2>1, <2>2, LinkAlone DEF CountInv, LinkTypes, hwVars
  <2>. QED BY <2>3, <2>4
<1>. QED BY <1>1, <1>2, <1>3 DEF Receive

(* The steps that complete a low-power request.                            *)
LEMMA CompleteLowCounts ==
  ASSUME CountInv, NEW a \in {"dpc", "ret"}, CompleteLow(a)
  PROVE  FramesCounted' /\ LinkTypes'
<1>. USE DEF Goto, At, same
<1>0. pc = [b \in Actors \cup {"hang"} |-> pc[b]]
  BY DEF CountInv, ReqInv, ReqTypes, Shape
<1>1. /\ env' = env /\ UNCHANGED recvVars
      /\ RcvLock' \in {RcvLock, a}
      /\ UNCHANGED <<resetting, receiving, cable, MediaState, NoCable, seen,
                     told>>
      /\ IntrMask' \in BOOLEAN /\ LinkChg' \in BOOLEAN
  BY DEF CompleteLow, LowDisable, LowTake, LowComplete, LowRelock, hwVars,
         linkVars, CountInv, LinkTypes
<1>2. \E s \in {"lowTake", "lowRelock", "lowComplete", "return", "recv"} :
        pc' = [pc EXCEPT ![a] = s] /\ pc[a] # "indicated"
  BY DEF CompleteLow, LowDisable, LowTake, LowComplete, LowRelock
<1>3. /\ \A b \in {"dpc", "oid", "ret", "hang"} \ {a} : pc'[b] = pc[b]
      /\ pc'[a] \notin {"storeMedia", "tellMedia", "idle"}
      /\ pc[a] # "indicated"
  BY <1>0, <1>2 DEF Actors
<1>4. FramesCounted'
  BY <1>1, <1>3, FramesAlone DEF CountInv
<1>5. LinkTypes'
  BY <1>1, <1>3 DEF CountInv, LinkTypes
<1>. QED BY <1>4, <1>5

(* The rest of the DPC.                                                    *)
LEMMA DpcCounts ==
  ASSUME CountInv, Dpc
  PROVE  FramesCounted' /\ LinkTypes'
<1>. USE DEF Goto, At, same
<1>0. pc = [b \in Actors \cup {"hang"} |-> pc[b]]
  BY DEF CountInv, ReqInv, ReqTypes, Shape
<1>1. CASE DpcBegin
  BY <1>0, <1>1, FramesAlone DEF DpcBegin, CountInv, LinkTypes, Actors
<1>2. CASE DpcReadMedia
  BY <1>0, <1>2, FramesAlone
  DEF DpcReadMedia, CountInv, LinkTypes, Actors, hwVars
<1>3. CASE DpcStoreMedia
  BY <1>0, <1>3, FramesAlone
  DEF DpcStoreMedia, SetMediaState, CountInv, LinkTypes, Actors, hwVars
<1>4. CASE DpcTellMedia
  BY <1>0, <1>4, FramesAlone
  DEF DpcTellMedia, Indicate, CountInv, LinkTypes, Actors, hwVars
<1>5. CASE LinkUpTake \/ LinkUpComplete \/ LinkUpRecv \/ LinkUpStart
  <2>1. /\ env' = env /\ UNCHANGED recvVars /\ UNCHANGED linkVars
        /\ UNCHANGED <<resetting, IntrMask>>
        /\ receiving' \in BOOLEAN
        /\ RcvLock' \in {"free", "dpc", "ret", "oid"}
    BY <1>5
    DEF LinkUpTake, LinkUpComplete, LinkUpRecv, LinkUpStart, NICStartRecv,
        CountInv, LinkTypes, hwVars
  <2>2. \E s \in {"upRecv", "upComplete", "recv", "upStart", "main"} :
          pc' = [pc EXCEPT !["dpc"] = s] /\ pc["dpc"] # "indicated"
    BY <1>5
    DEF LinkUpTake, LinkUpComplete, LinkUpRecv, LinkUpStart, NICStartRecv
  <2>3. /\ \A b \in {"oid", "ret", "hang"} : pc'[b] = pc[b]
        /\ pc'["dpc"] \notin {"storeMedia", "tellMedia"}
        /\ pc["dpc"] # "indicated"
    BY <1>0, <2>2 DEF Actors
  <2>. QED BY <2>1, <2>3, FramesAlone, LinkAlone DEF CountInv, LinkTypes
<1>6. CASE DpcRecv \/ DpcRecvDone \/ DpcRestart \/ DpcEnable
  <2>1. /\ env' = env /\ UNCHANGED recvVars /\ UNCHANGED linkVars
        /\ resetting' = resetting
        /\ receiving' \in BOOLEAN /\ IntrMask' \in BOOLEAN
        /\ RcvLock' \in {"free", "dpc", "ret", "oid"}
    BY <1>6
    DEF DpcRecv, DpcRecvDone, DpcRestart, DpcEnable, CountInv, LinkTypes,
        hwVars
  <2>2. \E s \in {"recv", "restart", "enable", "idle"} :
          pc' = [pc EXCEPT !["dpc"] = s] /\ pc["dpc"] # "indicated"
    BY <1>6 DEF DpcRecv, DpcRecvDone, DpcRestart, DpcEnable
  <2>3. /\ \A b \in {"oid", "ret", "hang"} : pc'[b] = pc[b]
        /\ pc'["dpc"] \notin {"storeMedia", "tellMedia"}
        /\ pc["dpc"] # "indicated"
    BY <1>0, <2>2 DEF Actors
  <2>. QED BY <2>1, <2>3, FramesAlone, LinkAlone DEF CountInv, LinkTypes
<1>7. CASE Receive("dpc")
  BY <1>7, ReceiveCounts
<1>8. CASE CompleteLow("dpc")
  BY <1>8, CompleteLowCounts
<1>. QED BY <1>1, <1>2, <1>3, <1>4, <1>5, <1>6, <1>7, <1>8
     DEF Dpc, LinkChangeInterrupt

(* The return of frames, the hang check, cancellation and reset.           *)
LEMMA OthersCount ==
  ASSUME CountInv, Others
  PROVE  FramesCounted' /\ LinkTypes'
<1>. USE DEF Goto, At, same
<1>0. pc = [b \in Actors \cup {"hang"} |-> pc[b]]
  BY DEF CountInv, ReqInv, ReqTypes, Shape
<1>1. CASE ReturnBegin
  <2>1. PICK n \in 1 .. ndisHas : left' = n /\ ndisHas' = ndisHas - n
    BY <1>1 DEF ReturnBegin
  <2>2. /\ env' = env /\ UNCHANGED <<OutstandingRecv, filled, resources>>
        /\ pc' = [pc EXCEPT !["ret"] = "return"] /\ pc["ret"] = "idle"
        /\ RcvLock' = "ret" /\ UNCHANGED <<resetting, hwVars>>
        /\ UNCHANGED linkVars
    BY <1>1 DEF ReturnBegin
  <2>3. left = 0 /\ n \in Nat /\ n <= ndisHas
    BY <2>1, <2>2 DEF CountInv, FramesCounted
  <2>4. /\ pc'["ret"] = "return"
        /\ \A b \in {"dpc", "oid", "hang"} : pc'[b] = pc[b]
    BY <1>0, <2>2 DEF Actors
  <2>5. FramesCounted'
    BY <2>1, <2>2, <2>3, <2>4 DEF CountInv, FramesCounted
  <2>6. LinkTypes'
    BY <2>2, <2>4, LinkAlone DEF CountInv, LinkTypes, hwVars
  <2>. QED BY <2>5, <2>6
<1>2. CASE ReturnOne
  <2>1. /\ env' = env /\ UNCHANGED <<ndisHas, filled, resources>>
        /\ left > 0 /\ left' = left - 1 /\ pc["ret"] = "return"
        /\ OutstandingRecv' = OutstandingRecv - 1
        /\ UNCHANGED <<resetting, hwVars>> /\ UNCHANGED linkVars
        /\ RcvLock' \in {RcvLock, "free"}
        /\ pc' = pc \/ pc' = [pc EXCEPT !["ret"] = "lowDisable"]
    BY <1>2 DEF ReturnOne
  <2>2. /\ pc'["ret"] \in {"return", "lowDisable"}
        /\ \A b \in {"dpc", "oid", "hang"} : pc'[b] = pc[b]
    BY <1>0, <2>1 DEF Actors
  <2>3. FramesCounted'
    BY <2>1, <2>2 DEF CountInv, FramesCounted
  <2>4. LinkTypes'
    BY <2>1, <2>2, LinkAlone DEF CountInv, LinkTypes, hwVars
  <2>. QED BY <2>3, <2>4
<1>3. CASE ReturnEnd
  <2>1. /\ env' = env /\ UNCHANGED recvVars /\ UNCHANGED linkVars
        /\ left = 0 /\ RcvLock' = "free"
        /\ pc' = [pc EXCEPT !["ret"] = "idle"]
        /\ UNCHANGED <<resetting, hwVars>>
    BY <1>3 DEF ReturnEnd
  <2>2. \A b \in {"dpc", "oid", "hang"} : pc'[b] = pc[b]
    BY <1>0, <2>1 DEF Actors
  <2>3. FramesCounted'
    BY <2>1, <2>2 DEF CountInv, FramesCounted, recvVars
  <2>4. LinkTypes'
    BY <2>1, <2>2, LinkAlone DEF CountInv, LinkTypes, hwVars
  <2>. QED BY <2>3, <2>4
<1>4. CASE CheckMedia
  BY <1>0, <1>4, FramesAlone
  DEF CheckMedia, SetMediaState, CountInv, LinkTypes, Actors, hwVars
<1>5. CASE CheckMediaTell
  BY <1>0, <1>5, FramesAlone
  DEF CheckMediaTell, Indicate, CountInv, LinkTypes, Actors, hwVars
<1>6. CASE CancelTake \/ CancelComplete \/ ResetBegin \/ ResetComplete
           \/ ResetContinue
  <2>1. /\ env' = env /\ UNCHANGED recvVars /\ UNCHANGED linkVars
        /\ RcvLock' = RcvLock
        /\ resetting' \in BOOLEAN
        /\ receiving' \in BOOLEAN /\ IntrMask' \in BOOLEAN
    BY <1>6
    DEF CancelTake, CancelComplete, ResetBegin, ResetComplete, ResetContinue,
        ResetChip, CountInv, LinkTypes, hwVars
  <2>2. \E b \in {"cancel", "reset"} :
          \E s \in {"complete", "idle", "chip", "rings"} :
          pc' = [pc EXCEPT ![b] = s]
    BY <1>6
    DEF CancelTake, CancelComplete, ResetBegin, ResetComplete, ResetContinue,
        ResetChip
  <2>3. \A b \in {"dpc", "oid", "ret", "hang"} : pc'[b] = pc[b]
    BY <1>0, <2>2 DEF Actors
  <2>. QED BY <2>1, <2>3, FramesAlone, LinkAlone DEF CountInv, LinkTypes
<1>7. CASE ResetRings
  <2>1. /\ env' = env /\ filled' = 0
        /\ UNCHANGED <<OutstandingRecv, ndisHas, resources, left, RcvLock>>
        /\ UNCHANGED linkVars
        /\ resetting' = FALSE /\ receiving' = TRUE /\ IntrMask' = TRUE
        /\ pc' = [pc EXCEPT !["reset"] = "idle"]
    BY <1>7 DEF ResetRings
  <2>2. \A b \in {"dpc", "oid", "ret", "hang"} : pc'[b] = pc[b]
    BY <1>0, <2>1 DEF Actors
  <2>3. FramesCounted'
    BY <2>1, <2>2 DEF CountInv, FramesCounted
  <2>4. LinkTypes'
    BY <2>1, <2>2, LinkAlone DEF CountInv, LinkTypes
  <2>. QED BY <2>3, <2>4
<1>8. CASE CompleteLow("ret")
  BY <1>8, CompleteLowCounts
<1>. QED BY <1>1, <1>2, <1>3, <1>4, <1>5, <1>6, <1>7, <1>8 DEF Others

(* MPOidRequest.                                                           *)
LEMMA OidCounts ==
  ASSUME CountInv, OidRequest
  PROVE  FramesCounted' /\ LinkTypes'
<1>. USE DEF Goto, At, same
<1>0. pc = [b \in Actors \cup {"hang"} |-> pc[b]]
  BY DEF CountInv, ReqInv, ReqTypes, Shape
<1>1. ASSUME NEW r \in Reqs, QueryMedia(r)
      PROVE  FramesCounted' /\ LinkTypes'
  BY <1>0, <1>1, FramesAlone
  DEF QueryMedia, Submit, CanSubmit, CountInv, LinkTypes, Actors, hwVars
<1>2. ASSUME NEW r \in Reqs, UNCHANGED linkVars,
             \/ Submit(r, "setting", "filter")
             \/ Submit(r, "d0", "power") \/ Submit(r, "low", "power")
      PROVE  FramesCounted' /\ LinkTypes'
  BY <1>0, <1>2, FramesAlone, LinkAlone
  DEF Submit, CanSubmit, CountInv, LinkTypes, Actors, hwVars
<1>3. CASE QueryMediaStore
  BY ZenonT(30), <1>0, <1>3, FramesAlone
  DEF QueryMediaStore, SetMediaState, CountInv, LinkTypes, Actors, hwVars
<1>4. CASE QueryMediaTell
  BY <1>0, <1>4, FramesAlone
  DEF QueryMediaTell, Indicate, CountInv, LinkTypes, Actors, hwVars
<1>5. CASE \/ OidAnswer \/ PowerD0Filter \/ PowerD0Recv \/ PowerD0Start
           \/ PowerD0Enable \/ PowerLowAbort \/ PowerLowTest \/ PowerLowPend
           \/ \E f \in Filters : SetPacketFilter(f) \/ KeepPacketFilter(f)
           \/ \E n \in Lengths : SetMulticastList(n)
  <2>1. /\ env' = env /\ UNCHANGED recvVars /\ UNCHANGED linkVars
        /\ resetting' = resetting
        /\ receiving' \in BOOLEAN /\ IntrMask' \in BOOLEAN
        /\ RcvLock' \in {"free", "dpc", "ret", "oid"}
    BY <1>5
    DEF OidAnswer, PowerD0Filter, PowerD0Recv, PowerD0Start, PowerD0Enable,
        PowerLowAbort, PowerLowTest, PowerLowPend, SetPacketFilter,
        KeepPacketFilter, SetMulticastList, NICStartRecv, CountInv, LinkTypes, hwVars
  <2>2. \E s \in {"idle", "d0Recv", "recv", "d0Start", "d0Enable", "answer",
                  "lowTest", "pend", "lowQuiet"} :
          pc' = [pc EXCEPT !["oid"] = s] /\ pc["oid"] # "indicated"
    BY <1>5
    DEF OidAnswer, PowerD0Filter, PowerD0Recv, PowerD0Start, PowerD0Enable,
        PowerLowAbort, PowerLowTest, PowerLowPend, SetPacketFilter,
        KeepPacketFilter, SetMulticastList, NICStartRecv
  <2>3. /\ \A b \in {"dpc", "ret", "hang"} : pc'[b] = pc[b]
        /\ pc'["oid"] \notin {"storeMedia", "tellMedia"}
        /\ pc["oid"] # "indicated"
    BY <1>0, <2>2 DEF Actors
  <2>. QED BY <2>1, <2>3, FramesAlone, LinkAlone DEF CountInv, LinkTypes
<1>6. CASE PowerLowQuiet
  BY <1>0, <1>6, FramesAlone
  DEF PowerLowQuiet, CountInv, LinkTypes, Actors, hwVars
<1>7. CASE Receive("oid")
  BY <1>7, ReceiveCounts
<1>. QED BY <1>1, <1>2, <1>3, <1>4, <1>5, <1>6, <1>7 DEF OidRequest

(* The driver counts the frames it does not have as its own, and no count  *)
(* falls below zero, whatever threads the steps of return, receive, reset  *)
(* and power requests come from.                                           *)
THEOREM FramesInvariant == Spec => []CountInv
<1>1. CountInv /\ [Next]_requestVars => FramesCounted' /\ LinkTypes'
  <2>. SUFFICES ASSUME CountInv, [Next]_requestVars
                PROVE  FramesCounted' /\ LinkTypes'
    OBVIOUS
  <2>1. CASE OidRequest BY <2>1, OidCounts
  <2>2. CASE Dpc BY <2>2, DpcCounts
  <2>3. CASE Others BY <2>3, OthersCount
  <2>4. CASE OidData \/ OidRetry \/ UNCHANGED requestVars
    BY <2>4, FramesAlone, LinkAlone
    DEF OidData, OidRetry, requestVars, ctlVars, hwVars, same, CountInv,
        LinkTypes
  <2>5. CASE NicReceive
    <3>1. /\ filled + OutstandingRecv < env.buffers /\ filled' = filled + 1
          /\ UNCHANGED <<env, OutstandingRecv, ndisHas, resources, left,
                         ctlVars, hwVars>>
          /\ UNCHANGED linkVars
      BY <2>5 DEF NicReceive, same
    <3>2. FramesCounted'
      BY <3>1 DEF CountInv, FramesCounted, ctlVars
    <3>. QED BY <3>1, <3>2, LinkAlone DEF CountInv, LinkTypes, ctlVars, hwVars
  <2>6. CASE CableChange
    BY <2>6, FramesAlone
    DEF CableChange, same, ctlVars, hwVars, CountInv, LinkTypes
  <2>. QED BY <2>1, <2>2, <2>3, <2>4, <2>5, <2>6 DEF Next
<1>. QED BY RequestsInvariant, CountInvInit, <1>1, PTL DEF Spec, CountInv

(* Every variable keeps its type: no thread lets OutstandingRecv fall      *)
(* below zero or count more frames than there are buffers.                 *)
THEOREM RequestTypesHold == Spec => []RequestsTypeOK
<1>1. CountInv => RequestsTypeOK
  <2>. SUFFICES ASSUME CountInv PROVE RequestsTypeOK
    OBVIOUS
  <2>1. /\ PendingRequest \in Reqs \cup {NULL}
        /\ taken \in [Actors -> Reqs \cup {NULL}]
        /\ owed \in [Reqs -> -1 .. 1]
    BY DEF CountInv, ReqInv, ReqTypes
  <2>2. /\ OutstandingRecv \in 0 .. env.buffers /\ ndisHas \in 0 .. env.buffers
        /\ filled \in 0 .. env.buffers /\ left \in 0 .. env.buffers
    BY DEF CountInv, FramesCounted
  <2>. QED BY <2>1, <2>2 DEF RequestsTypeOK, CountInv, LinkTypes
<1>. QED BY FramesInvariant, <1>1, PTL

---------------------------------------------------------------------------
(* A request that was refused for its length, sent again with the length   *)
(* it was told.                                                            *)
LEMMA SecondTry ==
  ASSUME NEW q \in DataRequests, NEW n \in Nat,
         MaxLookAhead > 0, CUSTOM_DRIVER_SET_MAX > 0,
         DataReply(q, n).status # "SUCCESS", DataReply(q, n).needed > 0
  PROVE  DataReply(q, DataReply(q, n).needed).status = "SUCCESS"
<1>. USE RequestsAssumption
<1>1. CASE q \in {"method"} \X {"ADD_TWO_INTEGERS", "MINUS_TWO_INTEGERS"}
  BY <1>1 DEF DataReply, MpMethodRequest, Refused, TooShort, Success
<1>2. CASE q \in {"set"} \X {"OID_GEN_CURRENT_LOOKAHEAD",
                             "OID_CUSTOM_DRIVER_SET",
                             "OID_GEN_INTERRUPT_MODERATION",
                             "OID_PNP_ENABLE_WAKE_UP"}
  BY <1>2
  DEF DataReply, MpSetInformation, SetCustom, SetWakeUp, Refused, TooShort,
      Success
<1>3. \A oid \in DOMAIN QueryLength : QueryLength[oid] \in Nat
  BY DEF QueryLength
<1>4. \A oid \in DOMAIN CustomLength : CustomLength[oid] \in Nat
  BY DEF CustomLength
<1>5. CASE q \in {"query"} \X DOMAIN QueryLength
  <2>1. q[1] = "query" /\ q[2] \in DOMAIN QueryLength
    BY <1>5
  <2>2. \A m \in Nat :
          DataReply(q, m) =
            IF m < QueryLength[q[2]] THEN TooShort(QueryLength[q[2]])
              ELSE Success(QueryLength[q[2]], QueryLength[q[2]])
    <3>1. /\ q[2] \notin DOMAIN CustomLength
          /\ q[2] \notin CounterOids \cup {"OID_GEN_BYTES_RCV"}
      BY <2>1 DEF QueryLength, CustomLength, CounterOids
    <3>. QED BY <2>1, <3>1, Zenon DEF DataReply, MpQueryInformation
  <2>. QED BY <1>3, <2>1, <2>2 DEF TooShort, Success
<1>6. CASE q \in {"query"} \X DOMAIN CustomLength
  <2>1. q[1] = "query" /\ q[2] \in DOMAIN CustomLength
    BY <1>6
  <2>2. \A m \in Nat : DataReply(q, m) = CustomReply(q[2], m)
    <3>1. /\ q[2] \notin DOMAIN QueryLength
          /\ q[2] \notin CounterOids \cup {"OID_GEN_BYTES_RCV"}
      BY <2>1 DEF QueryLength, CustomLength, CounterOids
    <3>. QED BY <2>1, <3>1, Zenon DEF DataReply, MpQueryInformation
  <2>. QED BY <1>4, <2>1, <2>2 DEF CustomReply, TooShort, Success
<1>7. CASE q \in {"query"} \X CounterOids
  <2>1. q[1] = "query" /\ q[2] \in CounterOids
    BY <1>7
  <2>2. \A m \in Nat : DataReply(q, m) = CounterReply(q[2], m)
    <3>1. /\ q[2] \notin DOMAIN QueryLength
          /\ q[2] \notin DOMAIN CustomLength
      BY <2>1 DEF QueryLength, CustomLength, CounterOids
    <3>. QED BY <2>1, <3>1, Zenon DEF DataReply, MpQueryInformation
  <2>. QED BY <2>1, <2>2 DEF CounterReply, TooShort, Success, Refused
<1>. QED BY <1>1, <1>2, <1>5, <1>6, <1>7 DEF DataRequests

(* The last answer is one the code gives, and after a retry it is a grant. *)
ReplyIs ==
  \/ reply = NULL
  \/ \E q \in DataRequests, n \in Lengths :
       reply = [request |-> q, retried |-> FALSE, answer |-> DataReply(q, n)]
  \/ reply.retried /\ reply.answer.status = "SUCCESS"

(* A request refused for its length is granted when NDIS tries again with  *)
(* the length it was told, whatever length it tried first.  The driver's   *)
(* limits for the two values that are set are not zero (mp_def.h:113,      *)
(* mp_req.c:121).                                                          *)
THEOREM RetryIsGranted ==
  MaxLookAhead > 0 /\ CUSTOM_DRIVER_SET_MAX > 0 => (Spec => []RetrySucceeds)
<1>. SUFFICES ASSUME MaxLookAhead > 0, CUSTOM_DRIVER_SET_MAX > 0
              PROVE  Spec => []RetrySucceeds
  OBVIOUS
<1>1. Init => ReplyIs
  BY DEF Init, ReplyIs
<1>2. ReplyIs /\ [Next]_requestVars => ReplyIs'
  <2>. SUFFICES ASSUME ReplyIs, [Next]_requestVars PROVE ReplyIs'
    OBVIOUS
  <2>1. CASE UNCHANGED reply
    BY <2>1 DEF ReplyIs
  <2>2. CASE OidData
    BY <2>2 DEF OidData, ReplyIs
  <2>3. CASE OidRetry
    <3>1. /\ reply # NULL /\ ~ reply.retried
          /\ reply.answer.status # "SUCCESS" /\ reply.answer.needed > 0
          /\ reply' = [reply EXCEPT !.retried = TRUE,
                                    !.answer = DataReply(reply.request,
                                                         reply.answer.needed)]
      BY <2>3 DEF OidRetry
    <3>2. PICK q \in DataRequests, n \in Lengths :
            reply = [request |-> q, retried |-> FALSE,
                     answer |-> DataReply(q, n)]
      BY <3>1 DEF ReplyIs
    <3>3. /\ reply'.retried
          /\ reply'.answer = DataReply(q, DataReply(q, n).needed)
      BY <3>1, <3>2
    <3>4. n \in Nat /\ DataReply(q, n).status # "SUCCESS"
          /\ DataReply(q, n).needed > 0
      BY <3>1, <3>2, RequestsAssumption
    <3>5. DataReply(q, DataReply(q, n).needed).status = "SUCCESS"
      BY <3>4, SecondTry
    <3>. QED BY <3>3, <3>5 DEF ReplyIs
  <2>4. CASE NicReceive \/ CableChange \/ UNCHANGED requestVars
    BY <2>1, <2>4 DEF NicReceive, CableChange, requestVars, same
  <2>5. CASE OidRequest
    BY <2>1, <2>5
    DEF OidRequest, QueryMedia, Submit, QueryMediaStore, QueryMediaTell,
        OidAnswer, SetPacketFilter, KeepPacketFilter, SetMulticastList, PowerD0Filter,
        PowerD0Recv, PowerD0Start, PowerD0Enable, PowerLowAbort, PowerLowTest,
        PowerLowQuiet, PowerLowPend, Receive, RecvBatch, RecvEnd,
        RecvIndicated, same
  <2>6. CASE Dpc
    BY <2>1, <2>6
    DEF Dpc, DpcBegin, LinkChangeInterrupt, DpcReadMedia, DpcStoreMedia,
        DpcTellMedia, LinkUpTake, LinkUpComplete, LinkUpRecv, LinkUpStart,
        DpcRecv, DpcRecvDone, DpcRestart, DpcEnable, Receive, RecvBatch,
        RecvEnd, RecvIndicated, CompleteLow, LowDisable, LowTake,
        LowComplete, LowRelock, same
  <2>7. CASE Others
    BY <2>1, <2>7
    DEF Others, ReturnBegin, ReturnOne, ReturnEnd, CompleteLow, LowDisable,
        LowTake, LowComplete, LowRelock, CheckMedia, CheckMediaTell,
        CancelTake, CancelComplete, ResetBegin, ResetComplete, ResetContinue,
        ResetRings, same
  <2>. QED BY <2>2, <2>3, <2>4, <2>5, <2>6, <2>7 DEF Next
<1>3. ReplyIs => RetrySucceeds
  BY DEF ReplyIs, RetrySucceeds
<1>. QED BY <1>1, <1>2, <1>3, PTL DEF Spec
=============================================================================
