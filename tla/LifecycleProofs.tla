--------------------------- MODULE LifecycleProofs ---------------------------
(***************************************************************************)
(* Proofs about the life of the adapter.  The inductive invariant LInv     *)
(* adds to the properties who holds the references of the adapter block,   *)
(* when a DPC may exist, and that the Count of an idle MP_TCB is that of   *)
(* frames that could not be mapped;                                        *)
(* ResourcesKept, which rests on it, what is held at each step of the      *)
(* initialisation and of the halt.                                         *)
(***************************************************************************)
EXTENDS Lifecycle, TLAPS

(* The adapter counts for itself from MpAllocAdapterBlock to the MP_DEC_REF*)
(* of MPHalt or of a failed MPInitialize.                                  *)
Counted ==
  \/ pnp \in {"up", "shutdown", "deregister", "deregistered"}
  \/ pnp = "init" /\ "block" \in res

RefIsUsers ==
  /\ RefCount = (IF Counted THEN 1 ELSE 0)
                + (IF alloc = "pending" THEN 1 ELSE 0)
  /\ ExitEvent => RefCount = 0

(* Nobody works for an adapter that is not up or on its way down.          *)
NobodyAtWork ==
  /\ pnp \in {"absent", "init", "free"} => alloc # "pending"
  /\ pnp \in {"absent", "init", "free", "deregistered", "wait"} =>
       ~ queued /\ dpc = "idle"
  /\ pnp \in {"absent", "deregistered", "wait"} => "interrupt" \notin res
  /\ pnp \in {"init", "free"} /\ "interrupt" \in res => masked
  /\ reset # "none" => pnp = "up"
  /\ alloc = "pending" => CurrNumRecvBuffer < MaxNumRecvBuffer

BlockHeld ==
  /\ "interrupt" \in res => "interrupt" \in recorded /\ "block" \in res
  /\ pnp = "init" /\ step > 1 => "block" \in res
  /\ pnp = "absent" => "block" \notin res

CountsAreFresh ==
  /\ CountIsOfThisFrame
  /\ \A t \in Tcbs \ Busy : Count[t] = spent[t]
  /\ mapping => sent < nBusySend

LInv ==
  /\ LifecycleTypeOK /\ RefIsUsers /\ NobodyAtWork /\ BlockHeld
  /\ NeverLeftMasked /\ CountsAreFresh

---------------------------------------------------------------------------
(* The facts about the two sequences of steps that the proofs need.        *)
LEMMA StepsFacts ==
  /\ Len(InitSteps) = 20
  /\ InitSteps[1] = "block" /\ InitSteps[20] = "configure"
  /\ \A i \in 2 .. 20 : InitSteps[i] # "block"
  /\ FreeOrder[1] = "interrupt" /\ Len(FreeOrder) = 16
  BY DEF InitSteps, FreeOrder, FreeSteps

(* The names of the resources that MpFreeAdapter knows.                    *)
LEMMA ResourceFacts ==
  /\ {"block", "rbds", "interrupt"} \subseteq Resources
  /\ "configure" \notin Resources
  <1>1. FreeSteps[1] = "interrupt" /\ FreeSteps[4] = "rbds"
        /\ FreeSteps[16] = "block" /\ Len(FreeSteps) = 16
    BY DEF FreeSteps
  <1>2. \A i \in 1 .. 16 : FreeSteps[i] # "configure"
    BY DEF FreeSteps
  <1> QED BY <1>1, <1>2 DEF Resources

(* The ring of the MP_TCBs is closed under stepping at most once around.   *)
LEMMA NthTcbInRing ==
  ASSUME NEW i \in Tcbs, NEW d \in 0 .. NumTcb
  PROVE  NthTcb(i, d) \in Tcbs
  BY LifecycleAssumption DEF Tcbs, NthTcb

(* The initial state satisfies the invariant.                              *)
LEMMA LInvInit == Init => LInv
<1>. SUFFICES ASSUME Init PROVE LInv
  OBVIOUS
<1>1. LifecycleTypeOK
  <2>1. /\ 0 \in 0 .. NumTcb /\ 0 \in Tcbs /\ 0 \in 0 .. MaxNumRecvBuffer
        /\ 1 \in 1 .. Len(InitSteps)
    BY LifecycleAssumption, StepsFacts DEF Tcbs
  <2>2. /\ Count \in [Tcbs -> Nat] /\ seen \in [Tcbs -> Nat]
        /\ spent \in [Tcbs -> Nat]
    BY DEF Init
  <2>3. 0 \in 0 .. 0 /\ 0 \in 0 .. 2 OBVIOUS
  <2>. QED BY <2>1, <2>2, <2>3, Zenon DEF Init, LifecycleTypeOK
<1>2. RefIsUsers /\ NobodyAtWork /\ BlockHeld /\ NeverLeftMasked
  BY DEF Init, RefIsUsers, Counted, NobodyAtWork, BlockHeld, NeverLeftMasked
<1>3. CountsAreFresh
  BY LifecycleAssumption
  DEF Init, CountsAreFresh, CountIsOfThisFrame, Busy, Tcbs
<1>. QED BY <1>1, <1>2, <1>3 DEF LInv

(* The sends do not notice a step that leaves them alone.                  *)
LEMMA SendsAlone ==
  ASSUME CountsAreFresh, UNCHANGED sendVars
  PROVE  CountsAreFresh'
BY DEF CountsAreFresh, CountIsOfThisFrame, Busy, sendVars

(* Every step but those that touch the sends preserves it.                 *)
LEMMA LInvQuiet ==
  ASSUME LInv,
         \/ MPInitialize \/ (InitStep /\ ~ MpAllocAdapterBlock)
         \/ MPPause \/ MPRestart \/ Halt \/ NicEvent \/ MPIsr
         \/ (Dpc /\ ~ DpcSend) \/ Allocation \/ MPReset \/ MPResetEnd
  PROVE  LInv'
<1>. USE LifecycleAssumption DEF pnpVars, resVars, refVars, recvVars, nicVars,
         dpcVars, resetVars
<1>1. CASE MPInitialize
  <2>1. CountsAreFresh'
    BY <1>1, SendsAlone DEF MPInitialize, LInv
  <2>2. LifecycleTypeOK'
    BY <1>1, StepsFacts, ResourceFacts
    DEF MPInitialize, LInv, LifecycleTypeOK, RefIsUsers, Counted, NobodyAtWork,
        BlockHeld, NeverLeftMasked, sendVars
  <2>3. RefIsUsers' /\ NobodyAtWork' /\ BlockHeld' /\ NeverLeftMasked'
    BY <1>1, StepsFacts, ResourceFacts
    DEF MPInitialize, LInv, LifecycleTypeOK, RefIsUsers, Counted, NobodyAtWork,
        BlockHeld, NeverLeftMasked
  <2>. QED BY <2>1, <2>2, <2>3 DEF LInv
<1>2. CASE InitTake
  <2>1. CountsAreFresh'
    BY <1>2, SendsAlone DEF InitTake, LInv
  <2>2. LifecycleTypeOK'
    BY <1>2, StepsFacts, ResourceFacts
    DEF InitTake, InitAt, InitNext, Record, LInv, LifecycleTypeOK, RefIsUsers,
        Counted, NobodyAtWork, BlockHeld, NeverLeftMasked, sendVars
  <2>3. RefIsUsers' /\ NobodyAtWork' /\ BlockHeld' /\ NeverLeftMasked'
    BY <1>2, StepsFacts, ResourceFacts
    DEF InitTake, InitAt, InitNext, Record, LInv, LifecycleTypeOK, RefIsUsers,
        Counted, NobodyAtWork, BlockHeld, NeverLeftMasked
  <2>. QED BY <2>1, <2>2, <2>3 DEF LInv
<1>3. CASE InitTakeNothing
  <2>1. CountsAreFresh'
    BY <1>3, SendsAlone DEF InitTakeNothing, LInv
  <2>2. LifecycleTypeOK'
    BY <1>3, StepsFacts, ResourceFacts
    DEF InitTakeNothing, InitAt, InitNext, Record, LInv, LifecycleTypeOK,
        RefIsUsers, Counted, NobodyAtWork, BlockHeld, NeverLeftMasked, sendVars
  <2>3. RefIsUsers' /\ NobodyAtWork' /\ BlockHeld' /\ NeverLeftMasked'
    BY <1>3, StepsFacts, ResourceFacts
    DEF InitTakeNothing, InitAt, InitNext, Record, LInv, LifecycleTypeOK,
        RefIsUsers, Counted, NobodyAtWork, BlockHeld, NeverLeftMasked
  <2>. QED BY <2>1, <2>2, <2>3 DEF LInv
<1>4. CASE NICInitRecv
  <2>1. CountsAreFresh'
    BY <1>4, SendsAlone DEF NICInitRecv, LInv
  <2>2. LifecycleTypeOK'
    BY <1>4, StepsFacts, ResourceFacts
    DEF NICInitRecv, InitAt, InitNext, Record, LInv, LifecycleTypeOK,
        RefIsUsers, Counted, NobodyAtWork, BlockHeld, NeverLeftMasked, sendVars
  <2>3. RefIsUsers' /\ NobodyAtWork' /\ BlockHeld' /\ NeverLeftMasked'
    BY <1>4, StepsFacts, ResourceFacts
    DEF NICInitRecv, InitAt, InitNext, Record, LInv, LifecycleTypeOK,
        RefIsUsers, Counted, NobodyAtWork, BlockHeld, NeverLeftMasked
  <2>. QED BY <2>1, <2>2, <2>3 DEF LInv
<1>5. CASE InitInterrupt
  <2>1. CountsAreFresh'
    BY <1>5, SendsAlone DEF InitInterrupt, LInv
  <2>2. LifecycleTypeOK'
    BY <1>5, StepsFacts, ResourceFacts
    DEF InitInterrupt, InitAt, InitNext, Record, LInv, LifecycleTypeOK,
        RefIsUsers, Counted, NobodyAtWork, BlockHeld, NeverLeftMasked, sendVars
  <2>3. RefIsUsers' /\ NobodyAtWork' /\ BlockHeld' /\ NeverLeftMasked'
    BY <1>5, StepsFacts, ResourceFacts
    DEF InitInterrupt, InitAt, InitNext, Record, LInv, LifecycleTypeOK,
        RefIsUsers, Counted, NobodyAtWork, BlockHeld, NeverLeftMasked
  <2>. QED BY <2>1, <2>2, <2>3 DEF LInv
<1>6. CASE InitTest
  <2>1. CountsAreFresh'
    BY <1>6, SendsAlone DEF InitTest, LInv
  <2>4. step' \in 1 .. Len(InitSteps) /\ step' > 1
    BY <1>6, StepsFacts
    DEF InitTest, InitAt, InitNext, LInv, LifecycleTypeOK
  <2>5. irq' \in BOOLEAN /\ receiving' \in BOOLEAN
    BY <1>6 DEF InitTest, LInv, LifecycleTypeOK
  <2>6. recorded' \subseteq Resources
    BY <1>6 DEF InitTest, Record, LInv, LifecycleTypeOK
  <2>2. LifecycleTypeOK'
    BY <1>6, <2>4, <2>5, <2>6
    DEF InitTest, InitNext, LInv, LifecycleTypeOK, sendVars
  <2>3. RefIsUsers' /\ NobodyAtWork' /\ BlockHeld' /\ NeverLeftMasked'
    BY <1>6, StepsFacts, ResourceFacts
    DEF InitTest, InitAt, InitNext, Record, LInv, LifecycleTypeOK, RefIsUsers,
        Counted, NobodyAtWork, BlockHeld, NeverLeftMasked
  <2>. QED BY <2>1, <2>2, <2>3 DEF LInv
<1>7. CASE InitConfigure
  <2>1. CountsAreFresh'
    BY <1>7, SendsAlone DEF InitConfigure, LInv
  <2>2. LifecycleTypeOK'
    BY <1>7, StepsFacts, ResourceFacts
    DEF InitConfigure, InitAt, InitNext, Record, LInv, LifecycleTypeOK,
        RefIsUsers, Counted, NobodyAtWork, BlockHeld, NeverLeftMasked, sendVars
  <2>3. RefIsUsers' /\ NobodyAtWork' /\ BlockHeld' /\ NeverLeftMasked'
    BY <1>7, StepsFacts, ResourceFacts
    DEF InitConfigure, InitAt, InitNext, Record, LInv, LifecycleTypeOK,
        RefIsUsers, Counted, NobodyAtWork, BlockHeld, NeverLeftMasked
  <2>. QED BY <2>1, <2>2, <2>3 DEF LInv
<1>8. CASE InitFail
  <2>1. CountsAreFresh'
    BY <1>8, SendsAlone DEF InitFail, LInv
  <2>2. LifecycleTypeOK'
    BY <1>8, StepsFacts, ResourceFacts
    DEF InitFail, InitAt, InitNext, Record, LInv, LifecycleTypeOK, RefIsUsers,
        Counted, NobodyAtWork, BlockHeld, NeverLeftMasked, sendVars
  <2>3. RefIsUsers' /\ NobodyAtWork' /\ BlockHeld' /\ NeverLeftMasked'
    BY <1>8, StepsFacts, ResourceFacts
    DEF InitFail, InitAt, InitNext, Record, LInv, LifecycleTypeOK, RefIsUsers,
        Counted, NobodyAtWork, BlockHeld, NeverLeftMasked
  <2>. QED BY <2>1, <2>2, <2>3 DEF LInv
<1>9. CASE MpFreeAdapter
  <2>1. CountsAreFresh'
    BY <1>9, SendsAlone DEF MpFreeAdapter, LInv
  <2>2. LifecycleTypeOK'
    BY <1>9, StepsFacts, ResourceFacts
    DEF MpFreeAdapter, LInv, LifecycleTypeOK, RefIsUsers, Counted, NobodyAtWork,
        BlockHeld, NeverLeftMasked, sendVars
  <2>3. RefIsUsers' /\ NobodyAtWork' /\ BlockHeld' /\ NeverLeftMasked'
    BY <1>9, StepsFacts, ResourceFacts
    DEF MpFreeAdapter, LInv, LifecycleTypeOK, RefIsUsers, Counted, NobodyAtWork,
        BlockHeld, NeverLeftMasked
  <2>. QED BY <2>1, <2>2, <2>3 DEF LInv
<1>10. CASE MPHaltDeregister
  <2>1. CountsAreFresh'
    BY <1>10, SendsAlone DEF MPHaltDeregister, LInv
  <2>2. LifecycleTypeOK'
    BY <1>10
    DEF MPHaltDeregister, LInv, LifecycleTypeOK, RefIsUsers, Counted,
        NobodyAtWork, BlockHeld, NeverLeftMasked, sendVars
  <2>3. RefIsUsers' /\ NobodyAtWork' /\ BlockHeld' /\ NeverLeftMasked'
    BY <1>10
    DEF MPHaltDeregister, LInv, LifecycleTypeOK, RefIsUsers, Counted,
        NobodyAtWork, BlockHeld, NeverLeftMasked
  <2>. QED BY <2>1, <2>2, <2>3 DEF LInv
<1>11. CASE MPHaltDeregistered
  <2>1. CountsAreFresh'
    BY <1>11, SendsAlone DEF MPHaltDeregistered, LInv
  <2>2. LifecycleTypeOK'
    BY <1>11
    DEF MPHaltDeregistered, LInv, LifecycleTypeOK, RefIsUsers, Counted,
        NobodyAtWork, BlockHeld, NeverLeftMasked, sendVars
  <2>3. RefIsUsers' /\ NobodyAtWork' /\ BlockHeld' /\ NeverLeftMasked'
    BY <1>11
    DEF MPHaltDeregistered, LInv, LifecycleTypeOK, RefIsUsers, Counted,
        NobodyAtWork, BlockHeld, NeverLeftMasked
  <2>. QED BY <2>1, <2>2, <2>3 DEF LInv
<1>12. CASE MPHaltDecRef
  <2>1. CountsAreFresh'
    BY <1>12, SendsAlone DEF MPHaltDecRef, LInv
  <2>2. LifecycleTypeOK'
    BY <1>12
    DEF MPHaltDecRef, LInv, LifecycleTypeOK, RefIsUsers, Counted, NobodyAtWork,
        BlockHeld, NeverLeftMasked, sendVars
  <2>3. RefIsUsers' /\ NobodyAtWork' /\ BlockHeld' /\ NeverLeftMasked'
    BY <1>12
    DEF MPHaltDecRef, LInv, LifecycleTypeOK, RefIsUsers, Counted, NobodyAtWork,
        BlockHeld, NeverLeftMasked
  <2>. QED BY <2>1, <2>2, <2>3 DEF LInv
<1>13. CASE MPHaltWait
  <2>1. CountsAreFresh'
    BY <1>13, SendsAlone DEF MPHaltWait, LInv
  <2>2. LifecycleTypeOK'
    BY <1>13
    DEF MPHaltWait, HaltMayGoOn, LInv, LifecycleTypeOK, RefIsUsers, Counted,
        NobodyAtWork, BlockHeld, NeverLeftMasked, sendVars
  <2>3. RefIsUsers' /\ NobodyAtWork' /\ BlockHeld' /\ NeverLeftMasked'
    BY <1>13
    DEF MPHaltWait, HaltMayGoOn, LInv, LifecycleTypeOK, RefIsUsers, Counted,
        NobodyAtWork, BlockHeld, NeverLeftMasked
  <2>. QED BY <2>1, <2>2, <2>3 DEF LInv
<1>14. CASE MPHaltRewait
  <2>1. CountsAreFresh'
    BY <1>14, SendsAlone DEF MPHaltRewait, LInv, vars
  <2>2. LifecycleTypeOK'
    BY <1>14
    DEF MPHaltRewait, vars, LInv, LifecycleTypeOK, RefIsUsers, Counted,
        NobodyAtWork, BlockHeld, NeverLeftMasked, sendVars
  <2>3. RefIsUsers' /\ NobodyAtWork' /\ BlockHeld' /\ NeverLeftMasked'
    BY <1>14
    DEF MPHaltRewait, vars, LInv, LifecycleTypeOK, RefIsUsers, Counted,
        NobodyAtWork, BlockHeld, NeverLeftMasked
  <2>. QED BY <2>1, <2>2, <2>3 DEF LInv
<1>15. CASE MPPause
  <2>1. CountsAreFresh'
    BY <1>15, SendsAlone DEF MPPause, LInv
  <2>2. LifecycleTypeOK'
    BY <1>15
    DEF MPPause, LInv, LifecycleTypeOK, RefIsUsers, Counted, NobodyAtWork,
        BlockHeld, NeverLeftMasked, sendVars
  <2>3. RefIsUsers' /\ NobodyAtWork' /\ BlockHeld' /\ NeverLeftMasked'
    BY <1>15
    DEF MPPause, LInv, LifecycleTypeOK, RefIsUsers, Counted, NobodyAtWork,
        BlockHeld, NeverLeftMasked
  <2>. QED BY <2>1, <2>2, <2>3 DEF LInv
<1>16. CASE MPRestart
  <2>1. CountsAreFresh'
    BY <1>16, SendsAlone DEF MPRestart, LInv
  <2>2. LifecycleTypeOK'
    BY <1>16
    DEF MPRestart, LInv, LifecycleTypeOK, RefIsUsers, Counted, NobodyAtWork,
        BlockHeld, NeverLeftMasked, sendVars
  <2>3. RefIsUsers' /\ NobodyAtWork' /\ BlockHeld' /\ NeverLeftMasked'
    BY <1>16
    DEF MPRestart, LInv, LifecycleTypeOK, RefIsUsers, Counted, NobodyAtWork,
        BlockHeld, NeverLeftMasked
  <2>. QED BY <2>1, <2>2, <2>3 DEF LInv
<1>17. CASE NicEvent
  <2>1. CountsAreFresh'
    BY <1>17, SendsAlone DEF NicEvent, LInv
  <2>2. LifecycleTypeOK'
    BY <1>17
    DEF NicEvent, LInv, LifecycleTypeOK, RefIsUsers, Counted, NobodyAtWork,
        BlockHeld, NeverLeftMasked, sendVars
  <2>3. RefIsUsers' /\ NobodyAtWork' /\ BlockHeld' /\ NeverLeftMasked'
    BY <1>17
    DEF NicEvent, LInv, LifecycleTypeOK, RefIsUsers, Counted, NobodyAtWork,
        BlockHeld, NeverLeftMasked
  <2>. QED BY <2>1, <2>2, <2>3 DEF LInv
<1>18. CASE MPIsr
  <2>1. CountsAreFresh'
    BY <1>18, SendsAlone DEF MPIsr, LInv
  <2>2. LifecycleTypeOK'
    BY <1>18
    DEF MPIsr, LInv, LifecycleTypeOK, RefIsUsers, Counted, NobodyAtWork,
        BlockHeld, NeverLeftMasked, sendVars
  <2>3. RefIsUsers' /\ NobodyAtWork' /\ BlockHeld' /\ NeverLeftMasked'
    BY <1>18
    DEF MPIsr, LInv, LifecycleTypeOK, RefIsUsers, Counted, NobodyAtWork,
        BlockHeld, NeverLeftMasked
  <2>. QED BY <2>1, <2>2, <2>3 DEF LInv
<1>19. CASE DpcAck
  <2>1. CountsAreFresh'
    BY <1>19, SendsAlone DEF DpcAck, LInv
  <2>2. LifecycleTypeOK'
    BY <1>19
    DEF DpcAck, LInv, LifecycleTypeOK, RefIsUsers, Counted, NobodyAtWork,
        BlockHeld, NeverLeftMasked, sendVars
  <2>3. RefIsUsers' /\ NobodyAtWork' /\ BlockHeld' /\ NeverLeftMasked'
    BY <1>19
    DEF DpcAck, LInv, LifecycleTypeOK, RefIsUsers, Counted, NobodyAtWork,
        BlockHeld, NeverLeftMasked
  <2>. QED BY <2>1, <2>2, <2>3 DEF LInv
<1>20. CASE DpcRecv
  <2>1. CountsAreFresh'
    BY <1>20, SendsAlone DEF DpcRecv, LInv
  <2>2. LifecycleTypeOK'
    BY <1>20 DEF DpcRecv, MayGrow, LInv, LifecycleTypeOK, RefIsUsers, Counted,
         NobodyAtWork, BlockHeld, NeverLeftMasked, sendVars
  <2>3. RefIsUsers' /\ NobodyAtWork' /\ BlockHeld' /\ NeverLeftMasked'
    BY <1>20 DEF DpcRecv, MayGrow, LInv, LifecycleTypeOK, RefIsUsers, Counted,
         NobodyAtWork, BlockHeld, NeverLeftMasked
  <2>. QED BY <2>1, <2>2, <2>3 DEF LInv
<1>21. CASE DpcStart
  <2>1. CountsAreFresh'
    BY <1>21, SendsAlone DEF DpcStart, LInv
  <2>2. LifecycleTypeOK'
    BY <1>21
    DEF DpcStart, LInv, LifecycleTypeOK, RefIsUsers, Counted, NobodyAtWork,
        BlockHeld, NeverLeftMasked, sendVars
  <2>3. RefIsUsers' /\ NobodyAtWork' /\ BlockHeld' /\ NeverLeftMasked'
    BY <1>21
    DEF DpcStart, LInv, LifecycleTypeOK, RefIsUsers, Counted, NobodyAtWork,
        BlockHeld, NeverLeftMasked
  <2>. QED BY <2>1, <2>2, <2>3 DEF LInv
<1>22. CASE DpcEnable
  <2>1. CountsAreFresh'
    BY <1>22, SendsAlone DEF DpcEnable, LInv
  <2>2. LifecycleTypeOK'
    BY ZenonT(30), <1>22
    DEF DpcEnable, LInv, LifecycleTypeOK, RefIsUsers, Counted, NobodyAtWork,
        BlockHeld, NeverLeftMasked, sendVars
  <2>3. RefIsUsers' /\ NobodyAtWork' /\ BlockHeld' /\ NeverLeftMasked'
    BY <1>22
    DEF DpcEnable, LInv, LifecycleTypeOK, RefIsUsers, Counted, NobodyAtWork,
        BlockHeld, NeverLeftMasked
  <2>. QED BY <2>1, <2>2, <2>3 DEF LInv
<1>23. CASE MPAllocateComplete
  <2>1. CountsAreFresh'
    BY <1>23, SendsAlone DEF MPAllocateComplete, LInv
  <2>2. LifecycleTypeOK'
    BY <1>23
    DEF MPAllocateComplete, LInv, LifecycleTypeOK, RefIsUsers, Counted,
        NobodyAtWork, BlockHeld, NeverLeftMasked, sendVars
  <2>3. RefIsUsers' /\ NobodyAtWork' /\ BlockHeld' /\ NeverLeftMasked'
    BY <1>23
    DEF MPAllocateComplete, LInv, LifecycleTypeOK, RefIsUsers, Counted,
        NobodyAtWork, BlockHeld, NeverLeftMasked
  <2>. QED BY <2>1, <2>2, <2>3 DEF LInv
<1>24. CASE MPAllocateCompleteEnd
  <2>1. CountsAreFresh'
    BY <1>24, SendsAlone DEF MPAllocateCompleteEnd, LInv
  <2>2. LifecycleTypeOK'
    BY <1>24
    DEF MPAllocateCompleteEnd, LastUserGone, LInv, LifecycleTypeOK, RefIsUsers,
        Counted, NobodyAtWork, BlockHeld, NeverLeftMasked, sendVars
  <2>3. RefIsUsers' /\ NobodyAtWork' /\ BlockHeld' /\ NeverLeftMasked'
    BY <1>24
    DEF MPAllocateCompleteEnd, LastUserGone, LInv, LifecycleTypeOK, RefIsUsers,
        Counted, NobodyAtWork, BlockHeld, NeverLeftMasked
  <2>. QED BY <2>1, <2>2, <2>3 DEF LInv
<1>25. CASE MPReset
  <2>1. CountsAreFresh'
    BY <1>25, SendsAlone DEF MPReset, LInv
  <2>2. LifecycleTypeOK'
    BY <1>25
    DEF MPReset, LInv, LifecycleTypeOK, RefIsUsers, Counted, NobodyAtWork,
        BlockHeld, NeverLeftMasked, sendVars
  <2>3. RefIsUsers' /\ NobodyAtWork' /\ BlockHeld' /\ NeverLeftMasked'
    BY <1>25
    DEF MPReset, LInv, LifecycleTypeOK, RefIsUsers, Counted, NobodyAtWork,
        BlockHeld, NeverLeftMasked
  <2>. QED BY <2>1, <2>2, <2>3 DEF LInv
<1>26. CASE MPResetEnd
  <2>1. CountsAreFresh'
    BY <1>26, SendsAlone DEF MPResetEnd, LInv
  <2>2. LifecycleTypeOK'
    BY ZenonT(30), <1>26
    DEF MPResetEnd, MaskAfterReset, LInv, LifecycleTypeOK, RefIsUsers, Counted,
        NobodyAtWork, BlockHeld, NeverLeftMasked, sendVars
  <2>3. RefIsUsers' /\ NobodyAtWork' /\ BlockHeld' /\ NeverLeftMasked'
    BY <1>26
    DEF MPResetEnd, MaskAfterReset, LInv, LifecycleTypeOK, RefIsUsers, Counted,
        NobodyAtWork, BlockHeld, NeverLeftMasked
  <2>. QED BY <2>1, <2>2, <2>3 DEF LInv
<1>. QED BY <1>1, <1>2, <1>3, <1>4, <1>5, <1>6, <1>7, <1>8, <1>9, <1>10, <1>11,
            <1>12, <1>13, <1>14, <1>15, <1>16, <1>17, <1>18, <1>19, <1>20,
            <1>21, <1>22, <1>23, <1>24, <1>25, <1>26
         DEF InitStep, Halt, Dpc, Allocation

(* An empty ring has fresh counts.                                         *)
LEMMA EmptyIsFresh ==
  ASSUME SendIsEmpty
  PROVE  /\ head' \in Tcbs /\ nBusySend' \in 0 .. NumTcb
         /\ sent' \in 0 .. nBusySend' /\ mapping' \in BOOLEAN
         /\ Count' \in [Tcbs -> Nat] /\ seen' \in [Tcbs -> Nat]
         /\ spent' \in [Tcbs -> Nat]
         /\ CountsAreFresh'
<1>1. /\ head' \in Tcbs /\ nBusySend' \in 0 .. NumTcb
      /\ sent' \in 0 .. nBusySend' /\ mapping' = FALSE
  BY LifecycleAssumption DEF SendIsEmpty, Tcbs
<1>2. /\ Count' \in [Tcbs -> Nat] /\ seen' \in [Tcbs -> Nat]
      /\ spent' \in [Tcbs -> Nat]
  BY DEF SendIsEmpty
<1>3. Busy' = {}
  BY DEF SendIsEmpty, Busy
<1>4. \A t \in Tcbs : Count'[t] = spent'[t]
  BY DEF SendIsEmpty
<1>. QED BY <1>1, <1>2, <1>3, <1>4 DEF CountsAreFresh, CountIsOfThisFrame

(* A frame gets an idle MP_TCB, whose Count is of no frame that was sent.  *)
LEMMA SendIsFresh ==
  ASSUME LInv, Send
  PROVE  /\ CountsAreFresh' /\ nBusySend' \in 0 .. NumTcb
         /\ sent' \in 0 .. nBusySend' /\ seen' \in [Tcbs -> Nat]
<1>. DEFINE new == NthTcb(head, nBusySend)
<1>1. /\ head \in Tcbs /\ nBusySend \in 0 .. NumTcb /\ sent \in 0 .. nBusySend
      /\ nBusySend < NumTcb /\ seen \in [Tcbs -> Nat] /\ NumTcb \in Nat
      /\ spent \in [Tcbs -> Nat]
      /\ nBusySend' = nBusySend + 1 /\ head' = head /\ Count' = Count
      /\ sent' = sent /\ seen' = [seen EXCEPT ![new] = 0] /\ spent' = spent
  BY LifecycleAssumption DEF LInv, LifecycleTypeOK, Send, sendVars
<1>2. new \in Tcbs /\ new \notin Busy
  BY <1>1 DEF Tcbs, Busy, NthTcb
<1>3. Busy' = Busy \cup {new}
  <2>1. Busy' = {NthTcb(head, d) : d \in 0 .. nBusySend}
    BY <1>1 DEF Busy
  <2>2. 0 .. nBusySend = (0 .. nBusySend - 1) \cup {nBusySend}
    BY <1>1
  <2>. QED BY <2>1, <2>2 DEF Busy
<1>4. Count[new] = spent[new] /\ spent[new] \in Nat
  BY <1>1, <1>2 DEF LInv, CountsAreFresh
<1>5. \A t \in Busy : t \in Tcbs
  BY <1>1 DEF Busy, NthTcb, Tcbs
<1>6. \A t \in Busy' : Count'[t] = seen'[t] + spent'[t]
  BY <1>1, <1>2, <1>3, <1>4, <1>5 DEF LInv, CountsAreFresh, CountIsOfThisFrame
<1>7. \A t \in Tcbs \ Busy' : Count'[t] = spent'[t]
  BY <1>1, <1>3 DEF LInv, CountsAreFresh
<1>8. /\ nBusySend' \in 0 .. NumTcb /\ sent' \in 0 .. nBusySend'
      /\ sent' < nBusySend'
  BY <1>1
<1>. QED BY <1>1, <1>2, <1>6, <1>7, <1>8 DEF CountsAreFresh, CountIsOfThisFrame

(* A frame that could not be mapped leaves its MP_TCB idle, and its checks *)
(* in Count.                                                               *)
LEMMA NotMappedIsFresh ==
  ASSUME LInv, SendNotMapped
  PROVE  /\ CountsAreFresh' /\ nBusySend' \in 0 .. NumTcb
         /\ sent' \in 0 .. nBusySend' /\ spent' \in [Tcbs -> Nat]
<1>. DEFINE last == NthTcb(head, nBusySend - 1)
<1>1. /\ head \in Tcbs /\ nBusySend \in 0 .. NumTcb /\ sent \in 0 .. nBusySend
      /\ sent < nBusySend /\ NumTcb \in Nat
      /\ Count \in [Tcbs -> Nat] /\ seen \in [Tcbs -> Nat]
      /\ spent \in [Tcbs -> Nat]
      /\ nBusySend' = nBusySend - 1 /\ head' = head /\ Count' = Count
      /\ sent' = sent /\ seen' = seen /\ mapping' = FALSE
      /\ spent' = [spent EXCEPT ![last] = @ + seen[last]]
  BY LifecycleAssumption
  DEF LInv, LifecycleTypeOK, CountsAreFresh, SendNotMapped, sendVars
<1>2. last \in Tcbs /\ last \in Busy
  <2>1. nBusySend - 1 \in 0 .. NumTcb /\ nBusySend - 1 \in 0 .. nBusySend - 1
    BY <1>1
  <2>. QED BY <1>1, <2>1, NthTcbInRing DEF Busy
<1>3. Busy' = Busy \ {last}
  <2>1. Busy' = {NthTcb(head, d) : d \in 0 .. nBusySend - 2}
    BY <1>1 DEF Busy
  <2>2. 0 .. nBusySend - 1 = (0 .. nBusySend - 2) \cup {nBusySend - 1}
    BY <1>1
  <2>3. \A d \in 0 .. nBusySend - 2 : NthTcb(head, d) # last
    BY <1>1 DEF NthTcb, Tcbs
  <2>. QED BY <2>1, <2>2, <2>3 DEF Busy
<1>4. \A t \in Busy : t \in Tcbs
  BY <1>1 DEF Busy, NthTcb, Tcbs
<1>5. Count[last] = seen[last] + spent[last]
  BY <1>2 DEF LInv, CountsAreFresh, CountIsOfThisFrame
<1>6. \A t \in Busy' : Count'[t] = seen'[t] + spent'[t]
  BY <1>1, <1>3, <1>4 DEF LInv, CountsAreFresh, CountIsOfThisFrame
<1>7. \A t \in Tcbs \ Busy' : Count'[t] = spent'[t]
  BY <1>1, <1>2, <1>3, <1>5 DEF LInv, CountsAreFresh
<1>8. /\ nBusySend' \in 0 .. NumTcb /\ sent' \in 0 .. nBusySend'
      /\ spent' \in [Tcbs -> Nat]
  BY <1>1, <1>2
<1>. QED BY <1>1, <1>6, <1>7, <1>8 DEF CountsAreFresh, CountIsOfThisFrame

(* The DPC frees the oldest frames and clears their counts.                *)
LEMMA DpcSendIsFresh ==
  ASSUME LInv, DpcSend
  PROVE  /\ CountsAreFresh' /\ head' \in Tcbs /\ nBusySend' \in 0 .. NumTcb
         /\ sent' \in 0 .. nBusySend' /\ Count' \in [Tcbs -> Nat]
         /\ spent' \in [Tcbs -> Nat]
<1>. DEFINE done == {NthTcb(head, d) : d \in 0 .. sent - 1}
<1>1. /\ head \in Tcbs /\ nBusySend \in 0 .. NumTcb /\ sent \in 0 .. nBusySend
      /\ NumTcb \in Nat \ {0} /\ Count \in [Tcbs -> Nat] /\ seen' = seen
      /\ seen \in [Tcbs -> Nat] /\ spent \in [Tcbs -> Nat]
      /\ mapping' = mapping /\ (mapping => sent < nBusySend)
      /\ head' = NthTcb(head, sent)
      /\ nBusySend' = nBusySend - sent /\ sent' = 0
      /\ Count' = [t \in Tcbs |-> IF t \in done THEN 0 ELSE Count[t]]
      /\ spent' = [t \in Tcbs |-> IF t \in done THEN 0 ELSE spent[t]]
  BY LifecycleAssumption
  DEF LInv, LifecycleTypeOK, CountsAreFresh, DpcSend, FreedCount
<1>2. head' \in Tcbs
  BY <1>1, NthTcbInRing
<1>3. \A t \in Busy' : t \in Busy /\ t \in Tcbs /\ t \notin done
  <2>. SUFFICES ASSUME NEW e \in 0 .. nBusySend' - 1
                PROVE  /\ NthTcb(head', e) \in Busy
                       /\ NthTcb(head', e) \in Tcbs
                       /\ NthTcb(head', e) \notin done
    BY DEF Busy
  <2>1. sent + e \in 0 .. nBusySend - 1 /\ e \in 0 .. NumTcb
    BY <1>1
  <2>2. NthTcb(head', e) = NthTcb(head, sent + e)
    BY <1>1, <2>1 DEF NthTcb, Tcbs
  <2>3. NthTcb(head', e) \in Tcbs
    BY <1>2, <2>1, NthTcbInRing
  <2>4. \A d \in 0 .. sent - 1 : NthTcb(head, d) # NthTcb(head, sent + e)
    BY <1>1, <2>1 DEF NthTcb, Tcbs
  <2>. QED BY <2>1, <2>2, <2>3, <2>4 DEF Busy
<1>4. \A t \in Busy : t \in Busy' \/ t \in done
  <2>. SUFFICES ASSUME NEW d \in 0 .. nBusySend - 1, d \notin 0 .. sent - 1
                PROVE  NthTcb(head, d) \in Busy'
    BY DEF Busy
  <2>1. d - sent \in 0 .. nBusySend' - 1
    BY <1>1
  <2>2. NthTcb(head, d) = NthTcb(head', d - sent)
    BY <1>1, <2>1 DEF NthTcb, Tcbs
  <2>. QED BY <2>1, <2>2 DEF Busy
<1>5. \A t \in Busy' : Count'[t] = seen'[t] + spent'[t]
  BY <1>1, <1>3 DEF LInv, CountsAreFresh, CountIsOfThisFrame
<1>6. \A t \in Tcbs \ Busy' : Count'[t] = spent'[t]
  BY <1>1, <1>4 DEF LInv, CountsAreFresh
<1>7. /\ nBusySend' \in 0 .. NumTcb /\ sent' \in 0 .. nBusySend'
      /\ Count' \in [Tcbs -> Nat] /\ spent' \in [Tcbs -> Nat]
      /\ (mapping' => sent' < nBusySend')
  BY <1>1
<1>. QED BY <1>2, <1>5, <1>6, <1>7 DEF CountsAreFresh, CountIsOfThisFrame

(* The hang check counts in the MP_TCB and in the history alike.           *)
LEMMA HangCheckIsFresh ==
  ASSUME LInv, MPCheckForHang
  PROVE  /\ CountsAreFresh' /\ Count' \in [Tcbs -> Nat]
         /\ seen' \in [Tcbs -> Nat] /\ hang' \in BOOLEAN
<1>1. /\ head \in Tcbs /\ nBusySend \in 0 .. NumTcb /\ nBusySend > 0
      /\ NumTcb \in Nat \ {0}
      /\ Count \in [Tcbs -> Nat] /\ seen \in [Tcbs -> Nat]
      /\ Count' = [Count EXCEPT ![head] = @ + 1]
      /\ seen' = [seen EXCEPT ![head] = @ + 1]
      /\ spent \in [Tcbs -> Nat]
      /\ UNCHANGED <<spent, mapping, sent>>
      /\ hang' \in BOOLEAN /\ head' = head /\ nBusySend' = nBusySend
  BY LifecycleAssumption DEF LInv, LifecycleTypeOK, MPCheckForHang
<1>2. Busy' = Busy
  BY <1>1 DEF Busy
<1>3. head \in Busy
  <2>1. 0 \in 0 .. nBusySend - 1 /\ NthTcb(head, 0) = head
    BY <1>1 DEF NthTcb, Tcbs
  <2>. QED BY <2>1 DEF Busy
<1>4. \A t \in Busy : t \in Tcbs
  BY SMTT(30), <1>1 DEF Busy, NthTcb, Tcbs
<1>5. \A t \in Busy : Count'[t] = seen'[t] + spent'[t]
  BY <1>1, <1>4 DEF LInv, CountsAreFresh, CountIsOfThisFrame
<1>6. \A t \in Tcbs \ Busy : Count'[t] = spent'[t]
  BY <1>1, <1>3 DEF LInv, CountsAreFresh
<1>7. mapping' => sent' < nBusySend'
  BY <1>1 DEF LInv, CountsAreFresh
<1>. QED BY <1>1, <1>2, <1>5, <1>6, <1>7 DEF CountsAreFresh, CountIsOfThisFrame

(* The steps that touch the sends preserve the invariant.                  *)
LEMMA LInvBusy ==
  ASSUME LInv,
         \/ MpAllocAdapterBlock \/ MPHalt \/ NicSends \/ DpcSend \/ Send
         \/ MPCheckForHang \/ MPResetSends \/ MappingEnds
  PROVE  LInv'
<1>. USE LifecycleAssumption DEF pnpVars, resVars, refVars, recvVars, nicVars,
         dpcVars, resetVars
<1>1. CASE MpAllocAdapterBlock
  <2>1. step' \in 1 .. Len(InitSteps) /\ step' > 1
    BY <1>1, StepsFacts
    DEF MpAllocAdapterBlock, InitAt, InitNext, LInv, LifecycleTypeOK
  <2>5. /\ res' \subseteq Resources \cup {"buffer"}
        /\ recorded' \subseteq Resources
    <3>1. /\ res' = res \cup {"block"}
          /\ recorded' \subseteq recorded \cup {"block"}
      BY <1>1 DEF MpAllocAdapterBlock, Record
    <3>. QED BY <3>1, ResourceFacts DEF LInv, LifecycleTypeOK
  <2>6. /\ RefCount' \in 0 .. 2 /\ ExitEvent' \in BOOLEAN
        /\ CurrNumRecvBuffer' \in 0 .. MaxNumRecvBuffer
    <3>1. RefCount' = 1 /\ ExitEvent' = FALSE /\ CurrNumRecvBuffer' = 0
      BY <1>1 DEF MpAllocAdapterBlock
    <3>2. 0 \in 0 .. MaxNumRecvBuffer
      BY LifecycleAssumption
    <3>3. 1 \in 0 .. 2 /\ FALSE \in BOOLEAN
      OBVIOUS
    <3>. QED BY <3>1, <3>2, <3>3, Zenon
  <2>2. LifecycleTypeOK'
    <3>1. /\ pnp' = pnp /\ AdapterState' = AdapterState
          /\ UNCHANGED <<alloc, masked, irq, receiving, queued, dpc, hang,
                         reset>>
      BY <1>1 DEF MpAllocAdapterBlock, InitNext
    <3>2. /\ head' \in Tcbs /\ nBusySend' \in 0 .. NumTcb
          /\ sent' \in 0 .. nBusySend' /\ mapping' \in BOOLEAN
          /\ Count' \in [Tcbs -> Nat] /\ seen' \in [Tcbs -> Nat]
          /\ spent' \in [Tcbs -> Nat]
      BY <1>1, EmptyIsFresh DEF MpAllocAdapterBlock
    <3>. QED BY SMTT(30), <2>1, <2>5, <2>6, <3>1, <3>2 DEF LInv, LifecycleTypeOK
  <2>3. RefIsUsers' /\ NobodyAtWork' /\ BlockHeld' /\ NeverLeftMasked'
    BY <1>1, <2>1, ResourceFacts
    DEF MpAllocAdapterBlock, InitAt, InitNext, Record, LInv, LifecycleTypeOK,
        RefIsUsers, Counted, NobodyAtWork, BlockHeld, NeverLeftMasked
  <2>4. CountsAreFresh'
    BY <1>1, EmptyIsFresh DEF MpAllocAdapterBlock
  <2>. QED BY <2>2, <2>3, <2>4 DEF LInv
<1>2. CASE MPHalt
  <2>1. CountsAreFresh'
    BY <1>2
    DEF MPHalt, LInv, LifecycleTypeOK, CountsAreFresh, CountIsOfThisFrame, Busy
  <2>4. sent' \in 0 .. nBusySend' /\ nBusySend' \in 0 .. NumTcb
    BY <1>2 DEF MPHalt, LInv, LifecycleTypeOK
  <2>2. LifecycleTypeOK'
    BY <1>2, <2>4 DEF MPHalt, LInv, LifecycleTypeOK
  <2>3. RefIsUsers' /\ NobodyAtWork' /\ BlockHeld' /\ NeverLeftMasked'
    BY <1>2
    DEF MPHalt, LInv, LifecycleTypeOK, RefIsUsers, Counted,
        NobodyAtWork, BlockHeld, NeverLeftMasked
  <2>. QED BY <2>1, <2>2, <2>3 DEF LInv
<1>3. CASE NicSends
  <2>1. CountsAreFresh'
    BY <1>3
    DEF NicSends, Mapped, LInv, LifecycleTypeOK, CountsAreFresh,
        CountIsOfThisFrame, Busy
  <2>2. LifecycleTypeOK'
    BY <1>3 DEF NicSends, Mapped, LInv, LifecycleTypeOK
  <2>3. RefIsUsers' /\ NobodyAtWork' /\ BlockHeld' /\ NeverLeftMasked'
    BY <1>3
    DEF NicSends, LInv, LifecycleTypeOK, RefIsUsers, Counted,
        NobodyAtWork, BlockHeld, NeverLeftMasked
  <2>. QED BY <2>1, <2>2, <2>3 DEF LInv
<1>4. CASE DpcSend
  <2>1. CountsAreFresh'
    BY <1>4, DpcSendIsFresh DEF DpcSend
  <2>4. /\ dpc' = "start"
        /\ UNCHANGED <<pnp, step, AdapterState, res, recorded, RefCount,
                       ExitEvent, alloc, CurrNumRecvBuffer, masked, irq,
                       receiving, queued, seen, mapping, hang, reset>>
    BY <1>4 DEF DpcSend, pnpVars, resVars, refVars, recvVars, nicVars, resetVars
  <2>5. /\ head' \in Tcbs /\ nBusySend' \in 0 .. NumTcb
        /\ sent' \in 0 .. nBusySend' /\ Count' \in [Tcbs -> Nat]
        /\ spent' \in [Tcbs -> Nat]
    BY <1>4, DpcSendIsFresh
  <2>2. LifecycleTypeOK'
    BY SMTT(30), <2>4, <2>5 DEF LInv, LifecycleTypeOK
  <2>3. RefIsUsers' /\ NobodyAtWork' /\ BlockHeld' /\ NeverLeftMasked'
    BY <1>4
    DEF DpcSend, LInv, LifecycleTypeOK, RefIsUsers, Counted,
        NobodyAtWork, BlockHeld, NeverLeftMasked
  <2>. QED BY <2>1, <2>2, <2>3 DEF LInv
<1>5. CASE Send
  <2>1. CountsAreFresh'
    BY <1>5, SendIsFresh DEF Send
  <2>2. LifecycleTypeOK'
    <3>1. /\ UNCHANGED <<pnp, step, AdapterState, res, recorded, RefCount,
                         ExitEvent, alloc, CurrNumRecvBuffer, masked, irq,
                         receiving, queued, dpc, head, Count, spent, hang,
                         reset>>
          /\ mapping' = TRUE
      BY <1>5 DEF Send, pnpVars, resVars, refVars, recvVars, nicVars, dpcVars,
                  resetVars
    <3>2. /\ nBusySend' \in 0 .. NumTcb /\ sent' \in 0 .. nBusySend'
          /\ seen' \in [Tcbs -> Nat]
      BY <1>5, SendIsFresh
    <3>. QED BY SMTT(30), <3>1, <3>2 DEF LInv, LifecycleTypeOK
  <2>3. RefIsUsers' /\ NobodyAtWork' /\ BlockHeld' /\ NeverLeftMasked'
    BY <1>5
    DEF Send, LInv, LifecycleTypeOK, RefIsUsers, Counted,
        NobodyAtWork, BlockHeld, NeverLeftMasked
  <2>. QED BY <2>1, <2>2, <2>3 DEF LInv
<1>6. CASE MPCheckForHang
  <2>1. CountsAreFresh'
    BY <1>6, HangCheckIsFresh DEF MPCheckForHang
  <2>2. LifecycleTypeOK'
    <3>1. UNCHANGED <<pnp, step, AdapterState, res, recorded, RefCount,
                      ExitEvent, alloc, CurrNumRecvBuffer, masked, irq,
                      receiving, queued, dpc, head, nBusySend, sent, mapping,
                      spent, reset>>
      BY <1>6 DEF MPCheckForHang, pnpVars, resVars, refVars, recvVars, nicVars,
                  dpcVars
    <3>2. /\ Count' \in [Tcbs -> Nat] /\ seen' \in [Tcbs -> Nat]
          /\ hang' \in BOOLEAN
      BY <1>6, HangCheckIsFresh
    <3>. QED BY SMTT(30), <3>1, <3>2 DEF LInv, LifecycleTypeOK
  <2>3. RefIsUsers' /\ NobodyAtWork' /\ BlockHeld' /\ NeverLeftMasked'
    BY <1>6
    DEF MPCheckForHang, LInv, LifecycleTypeOK, RefIsUsers, Counted,
        NobodyAtWork, BlockHeld, NeverLeftMasked
  <2>. QED BY <2>1, <2>2, <2>3 DEF LInv
<1>7. CASE MPResetSends
  <2>1. CountsAreFresh'
    BY <1>7, EmptyIsFresh DEF MPResetSends
  <2>2. LifecycleTypeOK'
    <3>1. /\ UNCHANGED <<pnp, step, AdapterState, res, recorded, RefCount,
                         ExitEvent, alloc, CurrNumRecvBuffer, masked, irq,
                         receiving, queued, dpc, hang>>
          /\ reset' = "recv"
      BY <1>7 DEF MPResetSends, pnpVars, resVars, refVars, recvVars, nicVars,
                  dpcVars
    <3>2. /\ head' \in Tcbs /\ nBusySend' \in 0 .. NumTcb
          /\ sent' \in 0 .. nBusySend' /\ mapping' \in BOOLEAN
          /\ Count' \in [Tcbs -> Nat] /\ seen' \in [Tcbs -> Nat]
          /\ spent' \in [Tcbs -> Nat]
      BY <1>7, EmptyIsFresh DEF MPResetSends
    <3>. QED BY SMTT(30), <3>1, <3>2 DEF LInv, LifecycleTypeOK
  <2>3. RefIsUsers' /\ NobodyAtWork' /\ BlockHeld' /\ NeverLeftMasked'
    BY <1>7
    DEF MPResetSends, LInv, LifecycleTypeOK, RefIsUsers, Counted,
        NobodyAtWork, BlockHeld, NeverLeftMasked
  <2>. QED BY <2>1, <2>2, <2>3 DEF LInv
<1>8. CASE SendMapped
  <2>1. CountsAreFresh'
    BY <1>8 DEF SendMapped, LInv, CountsAreFresh, CountIsOfThisFrame, Busy
  <2>2. LifecycleTypeOK'
    <3>1. /\ UNCHANGED <<pnp, step, AdapterState, res, recorded, RefCount,
                         ExitEvent, alloc, CurrNumRecvBuffer, masked, irq,
                         receiving, queued, dpc, head, nBusySend, sent, Count,
                         seen, spent, hang, reset>>
          /\ mapping' \in BOOLEAN
      BY <1>8 DEF SendMapped
    <3>. QED BY SMTT(30), <3>1 DEF LInv, LifecycleTypeOK
  <2>3. RefIsUsers' /\ NobodyAtWork' /\ BlockHeld' /\ NeverLeftMasked'
    BY <1>8
    DEF SendMapped, LInv, RefIsUsers, Counted, NobodyAtWork, BlockHeld,
        NeverLeftMasked
  <2>. QED BY <2>1, <2>2, <2>3 DEF LInv
<1>9. CASE SendNotMapped
  <2>1. CountsAreFresh'
    BY <1>9, NotMappedIsFresh
  <2>2. LifecycleTypeOK'
    <3>1. /\ UNCHANGED <<pnp, step, AdapterState, res, recorded, RefCount,
                         ExitEvent, alloc, CurrNumRecvBuffer, masked, irq,
                         receiving, queued, dpc, head, Count, seen, hang,
                         reset>>
          /\ mapping' \in BOOLEAN
      BY <1>9 DEF SendNotMapped
    <3>2. /\ nBusySend' \in 0 .. NumTcb /\ sent' \in 0 .. nBusySend'
          /\ spent' \in [Tcbs -> Nat]
      BY <1>9, NotMappedIsFresh
    <3>. QED BY SMTT(30), <3>1, <3>2 DEF LInv, LifecycleTypeOK
  <2>3. RefIsUsers' /\ NobodyAtWork' /\ BlockHeld' /\ NeverLeftMasked'
    BY <1>9
    DEF SendNotMapped, LInv, RefIsUsers, Counted, NobodyAtWork, BlockHeld,
        NeverLeftMasked
  <2>. QED BY <2>1, <2>2, <2>3 DEF LInv
<1>. QED BY <1>1, <1>2, <1>3, <1>4, <1>5, <1>6, <1>7, <1>8, <1>9
         DEF MappingEnds

(* A stuttering step preserves the invariant.                              *)
LEMMA LInvStutter ==
  ASSUME LInv, UNCHANGED vars
  PROVE  LInv'
BY DEF LInv, vars, pnpVars, resVars, refVars, recvVars, nicVars, dpcVars,
       sendVars, resetVars, LifecycleTypeOK, RefIsUsers, Counted,
       NobodyAtWork, BlockHeld, NeverLeftMasked, CountsAreFresh,
       CountIsOfThisFrame, Busy

(* The life of the adapter satisfies the inductive invariant.              *)
THEOREM LifecycleInvariant == Spec => []LInv
<1>1. LInv /\ [Next]_vars => LInv'
  BY LInvQuiet, LInvBusy, LInvStutter DEF Next, InitStep, Dpc, ResetStep
<1>. QED BY LInvInit, <1>1, PTL DEF Spec

(* Every variable keeps its type: the reference count is 0, 1 or 2.        *)
THEOREM LifecycleTypeCorrect == Spec => []LifecycleTypeOK
<1>1. LInv => LifecycleTypeOK
  BY DEF LInv
<1>. QED BY LifecycleInvariant, <1>1, PTL

(* The hang check never blames a frame for the time of one that was sent   *)
(* or aborted before it, only for its own and that of frames that could    *)
(* not be mapped, for any number of MP_TCBs and any threshold              *)
(* (mp_nic.c:156, 386-394, mp_main.c:707).                                 *)
THEOREM HangCheckIsFair == Spec => []CountIsOfThisFrame
<1>1. LInv => CountIsOfThisFrame
  BY DEF LInv, CountsAreFresh
<1>. QED BY LifecycleInvariant, <1>1, PTL

(* Interrupts are not left disabled by ISR, DPC and reset together.        *)
THEOREM InterruptsComeBack == Spec => []NeverLeftMasked
<1>1. LInv => NeverLeftMasked
  BY DEF LInv
<1>. QED BY LifecycleInvariant, <1>1, PTL

(* MpFreeAdapter runs when no DPC is left and no allocation is pending:    *)
(* the ASSERTs of mp_init.c:433-434, bAllocNewRecvBuffer and MP_GET_REF.   *)
FreedUnused ==
  pnp = "free" =>
    alloc # "pending" /\ RefCount = 0 /\ ~ queued /\ dpc = "idle"

(* The reference count makes MpFreeAdapter wait for whoever is counted.    *)
THEOREM NobodyUsesWhatIsFreed == Spec => []FreedUnused
<1>1. LInv => FreedUnused
  BY DEF LInv, FreedUnused, RefIsUsers, Counted, NobodyAtWork
<1>. QED BY LifecycleInvariant, <1>1, PTL

---------------------------------------------------------------------------
(* What is held, and what was made from it.  The MDLs and the pool of the  *)
(* NET_BUFFER_LISTs may be missing after MPInitialize passed their steps.  *)
Optional == {"mdls", "nblpool"}

(* What the block records is what is held, but for a receive buffer that   *)
(* was lost; what a resource needs is there with it; and what MPInitialize *)
(* has passed stays until MpFreeAdapter.                                   *)
ResourcesKept ==
  /\ recorded = res \ {"buffer"} /\ recorded \subseteq Resources
  /\ "rbd" \notin GrowthFaults => "buffer" \notin res
  /\ \A r \in recorded : Needs(r) \subseteq recorded
  /\ pnp = "absent" => recorded = {}
  /\ pnp = "init" =>
       /\ step = 1 => recorded = {}
       /\ \A i \in 1 .. step - 1 :
            InitSteps[i] \in Resources \ Optional => InitSteps[i] \in recorded
  /\ pnp \notin {"absent", "init", "free"} =>
       {"rbds", "tcbs", "sendmem"} \subseteq recorded
  /\ pnp \in {"up", "shutdown", "deregister"} => "interrupt" \in recorded

LEMMA ResourcesAre ==
  Resources = {"interrupt", "csr", "ports", "rbds", "recvbufs", "hwrbds",
               "nblpool", "lookaside", "mdls", "txbufs", "sendmem", "miscmem",
               "dma", "sglist", "tcbs", "block"}
<1>1. 1 .. Len(FreeSteps) = {1, 2, 3, 4, 5, 6, 7, 8, 9, 10, 11, 12, 13, 14,
                             15, 16}
  BY DEF FreeSteps
<1>2. /\ FreeSteps[1] = "interrupt" /\ FreeSteps[2] = "csr"
      /\ FreeSteps[3] = "ports" /\ FreeSteps[4] = "rbds"
      /\ FreeSteps[5] = "recvbufs" /\ FreeSteps[6] = "hwrbds"
      /\ FreeSteps[7] = "nblpool" /\ FreeSteps[8] = "lookaside"
      /\ FreeSteps[9] = "mdls" /\ FreeSteps[10] = "txbufs"
      /\ FreeSteps[11] = "sendmem" /\ FreeSteps[12] = "miscmem"
      /\ FreeSteps[13] = "dma" /\ FreeSteps[14] = "sglist"
      /\ FreeSteps[15] = "tcbs" /\ FreeSteps[16] = "block"
  BY DEF FreeSteps
<1>3. ASSUME NEW i \in 1 .. Len(FreeSteps)
      PROVE  FreeSteps[i] \in
               {"interrupt", "csr", "ports", "rbds", "recvbufs", "hwrbds",
                "nblpool", "lookaside", "mdls", "txbufs", "sendmem",
                "miscmem", "dma", "sglist", "tcbs", "block"}
  BY ZenonT(30), <1>1, <1>2
<1>4. \A i \in {1, 2, 3, 4, 5, 6, 7, 8, 9, 10, 11, 12, 13, 14, 15, 16} :
        FreeSteps[i] \in Resources
  BY <1>1 DEF Resources
<1>5. \A x \in Resources : \E i \in 1 .. Len(FreeSteps) : x = FreeSteps[i]
  BY DEF Resources
<1>6. /\ FreeSteps[1] \in Resources /\ FreeSteps[2] \in Resources
      /\ FreeSteps[3] \in Resources /\ FreeSteps[4] \in Resources
      /\ FreeSteps[5] \in Resources /\ FreeSteps[6] \in Resources
      /\ FreeSteps[7] \in Resources /\ FreeSteps[8] \in Resources
      /\ FreeSteps[9] \in Resources /\ FreeSteps[10] \in Resources
      /\ FreeSteps[11] \in Resources /\ FreeSteps[12] \in Resources
      /\ FreeSteps[13] \in Resources /\ FreeSteps[14] \in Resources
      /\ FreeSteps[15] \in Resources /\ FreeSteps[16] \in Resources
  BY <1>4
<1>. DEFINE S == {"interrupt", "csr", "ports", "rbds", "recvbufs", "hwrbds",
                  "nblpool", "lookaside", "mdls", "txbufs", "sendmem",
                  "miscmem", "dma", "sglist", "tcbs", "block"}
<1>7. \A x \in Resources : x \in S
  BY <1>3, <1>5, Zenon
<1>8. \A x \in S : x \in Resources
  <2>. HIDE DEF Resources
  <2>. QED BY <1>2, <1>6
<1>. QED BY <1>7, <1>8, Zenon

(* MpFreeAdapter frees nothing that what it frees later was made from.     *)
LEMMA FreedBackwards ==
  ASSUME NEW i \in 1 .. Len(FreeOrder), NEW r \in Resources,
         FreeOrder[i] \in Needs(r)
  PROVE  \E j \in 1 .. i - 1 : FreeOrder[j] = r
<1>. USE DEF FreeOrder
<1>1. i \in {1, 2, 3, 4, 5, 6, 7, 8, 9, 10, 11, 12, 13, 14, 15, 16}
  BY DEF FreeSteps
<1>2. /\ FreeSteps[1] = "interrupt" /\ FreeSteps[2] = "csr"
      /\ FreeSteps[3] = "ports" /\ FreeSteps[4] = "rbds"
      /\ FreeSteps[5] = "recvbufs" /\ FreeSteps[6] = "hwrbds"
      /\ FreeSteps[7] = "nblpool" /\ FreeSteps[8] = "lookaside"
      /\ FreeSteps[9] = "mdls" /\ FreeSteps[10] = "txbufs"
      /\ FreeSteps[11] = "sendmem" /\ FreeSteps[12] = "miscmem"
      /\ FreeSteps[13] = "dma" /\ FreeSteps[14] = "sglist"
      /\ FreeSteps[15] = "tcbs" /\ FreeSteps[16] = "block"
  BY DEF FreeSteps
<1>3. CASE r = "block"
  BY <1>3 DEF Needs
<1>4. CASE r = "interrupt"
  <2>1. i > 1
    BY <1>1, <1>2, <1>4 DEF Needs
  <2>. QED BY SMTT(30), <1>1, <1>2, <1>4, <2>1
<1>5. CASE r = "rbds"
  <2>1. FreeSteps[i] \in {"block", "dma", "lookaside", "nblpool", "recvbufs",
                          "hwrbds"}
    BY <1>5 DEF Needs
  <2>2. i \notin {1, 2, 3, 4}
    BY <1>2, <2>1
  <2>. QED BY <1>1, <1>2, <1>5, <2>2
<1>6. CASE r = "mdls"
  <2>1. FreeSteps[i] \in {"block", "tcbs", "txbufs"}
    BY <1>6 DEF Needs
  <2>2. i \notin {1, 2, 3, 4, 5, 6, 7, 8, 9}
    BY <1>2, <2>1
  <2>. QED BY <1>1, <1>2, <1>6, <2>2
<1>7. CASE r \in {"txbufs", "sendmem", "miscmem", "recvbufs", "hwrbds"}
  <2>1. FreeSteps[i] \in {"block", "dma"}
    BY <1>7 DEF Needs
  <2>2. i \notin {1, 2, 3, 4, 5, 6, 7, 8, 9, 10, 11, 12}
    BY <1>2, <2>1
  <2>3. i > 12
    BY <1>1, <2>2
  <2>4. r \in {FreeSteps[5], FreeSteps[6], FreeSteps[10], FreeSteps[11],
               FreeSteps[12]}
    BY <1>2, <1>7
  <2>. QED BY <1>1, <2>3, <2>4
<1>8. CASE r \in {"csr", "ports", "nblpool", "lookaside", "dma", "sglist",
                  "tcbs"}
  <2>1. FreeSteps[i] = "block"
    BY <1>8 DEF Needs
  <2>2. i = 16
    BY <1>1, <1>2, <2>1
  <2>3. r \in {FreeSteps[2], FreeSteps[3], FreeSteps[7], FreeSteps[8],
               FreeSteps[13], FreeSteps[14], FreeSteps[15]}
    BY <1>2, <1>8
  <2>. QED BY SMTT(30), <2>2, <2>3
<1>. QED BY <1>3, <1>4, <1>5, <1>6, <1>7, <1>8, ResourcesAre

(* MPInitialize takes everything after what it is made from.               *)
LEMMA TakenInOrder ==
  ASSUME NEW i \in 1 .. Len(InitSteps), NEW r \in Needs(InitSteps[i]),
         InitSteps[i] \in Resources
  PROVE  /\ r \in Resources
         /\ \/ \E j \in 1 .. i - 1 : InitSteps[j] = r /\ r \notin Optional
            \/ InitSteps[i] = "rbds" /\ r = "nblpool"
<1>1. i \in {1, 2, 3, 4, 5, 6, 7, 8, 9, 10, 11, 12, 13, 14, 15, 16, 17, 18,
             19, 20}
  BY DEF InitSteps
<1>2. /\ InitSteps[1] = "block" /\ InitSteps[2] = "find"
      /\ InitSteps[3] = "ports" /\ InitSteps[4] = "csr"
      /\ InitSteps[5] = "info" /\ InitSteps[6] = "dma"
      /\ InitSteps[7] = "tcbs" /\ InitSteps[8] = "sglist"
      /\ InitSteps[9] = "txbufs" /\ InitSteps[10] = "mdls"
      /\ InitSteps[11] = "sendmem" /\ InitSteps[12] = "miscmem"
      /\ InitSteps[13] = "lookaside" /\ InitSteps[14] = "nblpool"
      /\ InitSteps[15] = "hwrbds" /\ InitSteps[16] = "recvbufs"
      /\ InitSteps[17] = "rbds" /\ InitSteps[18] = "interrupt"
      /\ InitSteps[19] = "selftest" /\ InitSteps[20] = "configure"
  BY DEF InitSteps
<1>3. r \in Resources
  BY <1>1, <1>2, ResourcesAre DEF Needs
<1>4. CASE i = 1
  BY <1>2, <1>4 DEF Needs
<1>5. CASE i = 17
  <2>1. r \in {"block", "dma", "lookaside", "nblpool", "recvbufs", "hwrbds"}
    BY <1>2, <1>5 DEF Needs
  <2>2. r # "nblpool" => r \in {InitSteps[1], InitSteps[6], InitSteps[13],
                                InitSteps[15], InitSteps[16]}
    BY <1>2, <2>1
  <2>3. r # "mdls"
    BY <2>1
  <2>4. CASE r = "nblpool"
    BY <1>2, <1>3, <1>5, <2>4
  <2>5. CASE r # "nblpool"
    <3>1. r \notin Optional
      BY <2>3, <2>5 DEF Optional
    <3>. QED BY SMTT(30), <1>3, <1>5, <2>2, <2>5, <3>1
  <2>. QED BY <2>4, <2>5
<1>6. CASE i = 18
  <2>1. r \in {"block", "ports", "csr", "rbds", "tcbs"}
    BY <1>2, <1>6 DEF Needs
  <2>2. r \in {InitSteps[1], InitSteps[3], InitSteps[4], InitSteps[17],
               InitSteps[7]}
    BY <1>2, <2>1
  <2>3. r \notin Optional
    BY <2>1 DEF Optional
  <2>. QED BY SMTT(30), <1>3, <1>6, <2>2, <2>3
<1>7. CASE i = 10
  <2>1. r \in {"block", "tcbs", "txbufs"}
    BY <1>2, <1>7 DEF Needs
  <2>2. r \in {InitSteps[1], InitSteps[7], InitSteps[9]}
    BY <1>2, <2>1
  <2>3. r \notin Optional
    BY <2>1 DEF Optional
  <2>. QED BY <1>3, <1>7, <2>2, <2>3
<1>8. CASE i \in {9, 11, 12, 15, 16}
  <2>1. r \in {"block", "dma"}
    BY <1>2, <1>8 DEF Needs
  <2>. QED BY SMTT(30), <1>2, <1>3, <1>8, <2>1 DEF Optional
<1>9. CASE i \in {3, 4, 6, 7, 8, 13, 14}
  <2>1. r = "block"
    BY <1>2, <1>9 DEF Needs
  <2>. QED BY SMTT(30), <1>2, <1>3, <1>9, <2>1 DEF Optional
<1>10. CASE i \in {2, 5, 19, 20}
  BY <1>2, <1>10, ResourcesAre
<1>. QED BY <1>1, <1>4, <1>5, <1>6, <1>7, <1>8, <1>9, <1>10

(* Nothing is taken or given back, and MPInitialize is where it was.       *)
LEMMA ResourcesAlone ==
  ASSUME ResourcesKept, UNCHANGED <<res, recorded, step>>,
         \/ pnp' = pnp
         \/ pnp = "up" /\ pnp' = "shutdown"
         \/ pnp = "shutdown" /\ pnp' = "deregister"
         \/ pnp = "deregistered" /\ pnp' \in {"free", "wait"}
         \/ pnp = "wait" /\ pnp' = "free"
  PROVE  ResourcesKept'
BY DEF ResourcesKept, Needs

(* A step of MPInitialize that takes what it is for.                       *)
LEMMA ResourceTaken ==
  ASSUME LInv, ResourcesKept, pnp = "init", pnp' = "init",
         step' = step + 1, InitSteps[step] \in Resources,
         InitSteps[step] = "rbds" => "nblpool" \in res,
         res' = res \cup {InitSteps[step]},
         recorded' = recorded \cup {InitSteps[step]}
  PROVE  ResourcesKept'
<1>1. step \in 1 .. 20 /\ Len(InitSteps) = 20
  BY StepsFacts DEF LInv, LifecycleTypeOK
<1>2. "buffer" \notin Resources
  BY ResourcesAre
<1>3. /\ recorded' = res' \ {"buffer"} /\ recorded' \subseteq Resources
      /\ "rbd" \notin GrowthFaults => "buffer" \notin res'
  BY <1>2 DEF ResourcesKept
<1>4. Needs(InitSteps[step]) \subseteq recorded
  <2>. SUFFICES ASSUME NEW r \in Needs(InitSteps[step])
                PROVE  r \in recorded
    OBVIOUS
  <2>1. /\ r \in Resources
        /\ \/ \E j \in 1 .. step - 1 : InitSteps[j] = r /\ r \notin Optional
           \/ InitSteps[step] = "rbds" /\ r = "nblpool"
    BY <1>1, TakenInOrder
  <2>2. CASE InitSteps[step] = "rbds" /\ r = "nblpool"
    BY <2>2 DEF ResourcesKept
  <2>3. CASE \E j \in 1 .. step - 1 : InitSteps[j] = r /\ r \notin Optional
    BY <2>1, <2>3 DEF ResourcesKept
  <2>. QED BY <2>1, <2>2, <2>3
<1>5. \A r \in recorded' : Needs(r) \subseteq recorded'
  BY <1>4 DEF ResourcesKept
<1>6. \A i \in 1 .. step' - 1 :
        InitSteps[i] \in Resources \ Optional => InitSteps[i] \in recorded'
  <2>. SUFFICES ASSUME NEW i \in 1 .. step' - 1,
                       InitSteps[i] \in Resources \ Optional
                PROVE  InitSteps[i] \in recorded'
    OBVIOUS
  <2>1. i = step \/ i \in 1 .. step - 1
    BY <1>1
  <2>. QED BY <2>1 DEF ResourcesKept
<1>7. step' # 1
  BY <1>1
<1>. QED BY <1>3, <1>5, <1>6, <1>7 DEF ResourcesKept

(* A step of MPInitialize that is for no resource, or goes without it.     *)
LEMMA ResourceNotTaken ==
  ASSUME LInv, ResourcesKept, pnp = "init", pnp' = "init",
         step' = step + 1, InitSteps[step] \notin Resources \ Optional,
         UNCHANGED resVars
  PROVE  ResourcesKept'
<1>1. step \in 1 .. 20
  BY StepsFacts DEF LInv, LifecycleTypeOK
<1>2. \A i \in 1 .. step' - 1 :
        InitSteps[i] \in Resources \ Optional => InitSteps[i] \in recorded'
  <2>. SUFFICES ASSUME NEW i \in 1 .. step' - 1,
                       InitSteps[i] \in Resources \ Optional
                PROVE  InitSteps[i] \in recorded'
    OBVIOUS
  <2>1. i = step \/ i \in 1 .. step - 1
    BY <1>1
  <2>. QED BY <2>1 DEF ResourcesKept, resVars
<1>3. step' # 1
  BY <1>1
<1>. QED BY <1>2, <1>3 DEF ResourcesKept, resVars

(* MPInitialize keeps the block's record of what is held.                  *)
LEMMA InitKeepsResources ==
  ASSUME LInv, ResourcesKept, MPInitialize \/ InitStep
  PROVE  ResourcesKept'
<1>. USE DEF InitAt, InitNext, Record
<1>0. /\ step \in 1 .. 20 /\ "block" \in Resources
      /\ "rbds" \in Resources /\ "interrupt" \in Resources
      /\ "buffer" \notin Resources
  BY StepsFacts, ResourcesAre DEF LInv, LifecycleTypeOK
<1>1. CASE MPInitialize
  BY <1>1 DEF MPInitialize, ResourcesKept, resVars
<1>2. CASE MpAllocAdapterBlock
  <2>1. {"block"} \cap Resources = {"block"}
    BY <1>0
  <2>. QED BY <1>0, <1>2, <2>1, StepsFacts, ResourceTaken
       DEF MpAllocAdapterBlock
<1>3. CASE InitTake
  <2>1. /\ InitSteps[step] \in Resources /\ InitSteps[step] # "rbds"
        /\ pnp = "init" /\ pnp' = "init" /\ step' = step + 1
        /\ res' = res \cup {InitSteps[step]}
        /\ recorded' = recorded \cup {InitSteps[step]}
    BY <1>3 DEF InitTake
  <2>. QED BY <2>1, ResourceTaken
<1>4. CASE InitTakeNothing
  <2>1. InitSteps[step] \in Optional
    BY <1>4 DEF InitTakeNothing, Optional
  <2>. QED BY <1>4, <2>1, ResourceNotTaken DEF InitTakeNothing
<1>5. CASE NICInitRecv
  <2>1. PICK n \in 0 .. MaxNumRecvBuffer :
          /\ n > 0 => "nblpool" \in res
          /\ res' = res \cup (IF n > 0 THEN {"rbds"} ELSE {})
          /\ recorded' = recorded \cup (IF n > 0 THEN {"rbds"} ELSE {})
          /\ IF n > NIC_MIN_RECV_BUFFERS
               THEN step' = step + 1 /\ UNCHANGED <<pnp, RefCount>>
               ELSE pnp' = "free" /\ RefCount' = RefCount - 1
                    /\ UNCHANGED step
    BY <1>5 DEF NICInitRecv
  <2>2. pnp = "init" /\ InitSteps[step] = "rbds"
    BY <1>5 DEF NICInitRecv
  <2>3. CASE n > NIC_MIN_RECV_BUFFERS
    <3>1. n > 0
      BY <2>3, LifecycleAssumption
    <3>. QED BY <1>0, <2>1, <2>2, <2>3, <3>1, ResourceTaken
  <2>4. CASE ~ (n > NIC_MIN_RECV_BUFFERS) /\ n > 0
    <3>1. /\ pnp' = "free" /\ "nblpool" \in res
          /\ res' = res \cup {"rbds"} /\ recorded' = recorded \cup {"rbds"}
      BY <2>1, <2>4
    <3>2. Needs("rbds") \subseteq recorded
      <4>. SUFFICES ASSUME NEW r \in Needs(InitSteps[step])
                    PROVE  r \in recorded
        BY <2>2
      <4>1. /\ r \in Resources
            /\ \/ \E j \in 1 .. step - 1 :
                     InitSteps[j] = r /\ r \notin Optional
               \/ InitSteps[step] = "rbds" /\ r = "nblpool"
        BY <1>0, <2>2, StepsFacts, TakenInOrder
      <4>2. CASE r = "nblpool"
        BY <3>1, <4>2 DEF ResourcesKept
      <4>. QED BY <2>2, <4>1, <4>2 DEF ResourcesKept
    <3>3. \A r \in recorded' : Needs(r) \subseteq recorded'
      BY <3>1, <3>2 DEF ResourcesKept
    <3>. QED BY <1>0, <3>1, <3>3 DEF ResourcesKept
  <2>5. CASE ~ (n > NIC_MIN_RECV_BUFFERS) /\ ~ (n > 0)
    <3>1. pnp' = "free" /\ res' = res /\ recorded' = recorded
      BY <2>1, <2>5
    <3>. QED BY <3>1 DEF ResourcesKept
  <2>. QED BY <2>3, <2>4, <2>5
<1>6. CASE InitInterrupt
  <2>1. {"interrupt"} \cap Resources = {"interrupt"}
    BY <1>0
  <2>2. /\ InitSteps[step] = "interrupt"
        /\ pnp = "init" /\ pnp' = "init" /\ step' = step + 1
        /\ res' = res \cup {InitSteps[step]}
        /\ recorded' = recorded \cup {InitSteps[step]}
    BY <1>6, <2>1 DEF InitInterrupt
  <2>. QED BY <1>0, <2>2, ResourceTaken
<1>7. CASE InitTest
  <2>1. /\ InitSteps[step] \notin Resources
        /\ pnp = "init" /\ pnp' = "init" /\ step' = step + 1
        /\ res' = res
        /\ recorded' = recorded \cup ({InitSteps[step]} \cap Resources)
    BY <1>7, ResourcesAre DEF InitTest
  <2>2. UNCHANGED resVars
    BY <2>1 DEF resVars
  <2>. QED BY <2>1, <2>2, ResourceNotTaken
<1>8. CASE InitConfigure
  <2>1. /\ pnp = "init" /\ InitSteps[step] = "configure" /\ pnp' = "up"
        /\ UNCHANGED resVars
    BY <1>8 DEF InitConfigure
  <2>2. step = 20
    BY <1>0, <2>1 DEF InitSteps
  <2>3. /\ InitSteps[7] = "tcbs" /\ InitSteps[11] = "sendmem"
        /\ InitSteps[17] = "rbds" /\ InitSteps[18] = "interrupt"
    BY DEF InitSteps
  <2>4. {"tcbs", "sendmem", "rbds", "interrupt"} \subseteq Resources \ Optional
    BY ResourcesAre DEF Optional
  <2>5. {"tcbs", "sendmem", "rbds", "interrupt"} \subseteq recorded
    <3>1. \A i \in 1 .. 19 :
            InitSteps[i] \in Resources \ Optional => InitSteps[i] \in recorded
      BY <2>1, <2>2 DEF ResourcesKept
    <3>2. 7 \in 1 .. 19 /\ 11 \in 1 .. 19 /\ 17 \in 1 .. 19 /\ 18 \in 1 .. 19
      OBVIOUS
    <3>. QED BY <2>3, <2>4, <3>1, <3>2
  <2>. QED BY <2>1, <2>5 DEF ResourcesKept, resVars
<1>9. CASE InitFail
  <2>1. pnp = "init" /\ UNCHANGED resVars
    BY <1>9 DEF InitFail
  <2>2. CASE "block" \in res
    BY <1>9, <2>1, <2>2 DEF InitFail, ResourcesKept, resVars
  <2>3. CASE "block" \notin res
    <3>1. step = 1
      BY <1>0, <2>1, <2>3 DEF LInv, BlockHeld
    <3>2. recorded = {}
      BY <2>1, <3>1 DEF ResourcesKept
    <3>. QED BY <1>9, <2>1, <2>3, <3>2 DEF InitFail, ResourcesKept, resVars
  <2>. QED BY <2>2, <2>3
<1>. QED BY <1>1, <1>2, <1>3, <1>4, <1>5, <1>6, <1>7, <1>8, <1>9 DEF InitStep

(* MpFreeAdapter gives back last what the rest was made from, and the      *)
(* block after everything else.                                            *)
LEMMA FreeKeepsResources ==
  ASSUME LInv, ResourcesKept, MpFreeAdapter
  PROVE  ResourcesKept'
<1>1. PICK i \in 1 .. Len(FreeOrder) :
        /\ FreeOrder[i] \in recorded
        /\ \A j \in 1 .. i - 1 : FreeOrder[j] \notin recorded
        /\ res' = res \ {FreeOrder[i]}
        /\ recorded' = recorded \ {FreeOrder[i]}
        /\ pnp' = IF FreeOrder[i] = "block" THEN "absent" ELSE "free"
  BY DEF MpFreeAdapter
<1>2. recorded' = res' \ {"buffer"} /\ recorded' \subseteq Resources
      /\ ("rbd" \notin GrowthFaults => "buffer" \notin res')
  BY <1>1 DEF ResourcesKept
<1>3. \A r \in recorded : FreeOrder[i] \notin Needs(r)
  <2>. SUFFICES ASSUME NEW r \in recorded, FreeOrder[i] \in Needs(r)
                PROVE  FALSE
    OBVIOUS
  <2>1. r \in Resources
    BY DEF ResourcesKept
  <2>2. \E j \in 1 .. i - 1 : FreeOrder[j] = r
    BY <2>1, FreedBackwards
  <2>. QED BY <1>1, <2>2
<1>4. \A r \in recorded' : Needs(r) \subseteq recorded'
  BY <1>1, <1>3 DEF ResourcesKept
<1>5. ASSUME pnp' = "absent"
      PROVE  recorded' = {}
  <2>1. FreeOrder[i] = "block"
    BY <1>1, <1>5
  <2>2. \A r \in recorded : r = "block"
    <3>. SUFFICES ASSUME NEW r \in recorded, r # "block"
                  PROVE  FALSE
      OBVIOUS
    <3>1. "block" \in Needs(r)
      BY ResourcesAre DEF Needs, ResourcesKept
    <3>. QED BY <1>3, <2>1, <3>1
  <2>. QED BY <1>1, <2>1, <2>2
<1>6. pnp' \in {"absent", "free"}
  BY <1>1
<1>. QED BY <1>2, <1>4, <1>5, <1>6 DEF ResourcesKept

(* Every step keeps the record.                                            *)
LEMMA ResourcesKeptStep ==
  ASSUME LInv, ResourcesKept, [Next]_vars
  PROVE  ResourcesKept'
<1>. USE DEF pnpVars, resVars
<1>1. CASE MPInitialize \/ InitStep
  BY <1>1, InitKeepsResources
<1>2. CASE MpFreeAdapter
  BY <1>2, FreeKeepsResources
<1>3. CASE MPHaltDeregistered
  <2>1. \A r \in recorded : "interrupt" \notin Needs(r)
    BY DEF Needs
  <2>. QED BY <1>3, <2>1 DEF MPHaltDeregistered, ResourcesKept
<1>4. CASE MPAllocateComplete
  <2>1. PICK fault \in GrowthFaults \cup {"none"} :
          res' = res \cup (IF fault = "rbd" THEN {"buffer"} ELSE {})
    BY <1>4 DEF MPAllocateComplete
  <2>2. pnp' = pnp /\ step' = step /\ recorded' = recorded
    BY <1>4 DEF MPAllocateComplete
  <2>3. /\ recorded' = res' \ {"buffer"}
        /\ "rbd" \notin GrowthFaults => "buffer" \notin res'
    BY <2>1, <2>2 DEF ResourcesKept
  <2>. QED BY <2>2, <2>3 DEF ResourcesKept
<1>5. CASE MPHalt \/ MPHaltDeregister \/ MPHaltDecRef \/ MPHaltWait
  BY <1>5, ResourcesAlone
  DEF MPHalt, MPHaltDeregister, MPHaltDecRef, MPHaltWait
<1>6. CASE MPHaltRewait \/ MPPause \/ MPRestart \/ NicEvent \/ NicSends
           \/ MPIsr \/ Dpc
  BY <1>6, ResourcesAlone
  DEF MPHaltRewait, MPPause, MPRestart, NicEvent, NicSends, MPIsr, Dpc,
      DpcAck, DpcRecv, DpcSend, DpcStart, DpcEnable, vars
<1>7. CASE MPAllocateCompleteEnd \/ Send \/ MPCheckForHang \/ MPReset
           \/ ResetStep \/ MappingEnds \/ UNCHANGED vars
  BY <1>7, ResourcesAlone
  DEF MPAllocateCompleteEnd, Send, MPCheckForHang, MPReset, ResetStep,
      MPResetSends, MPResetEnd, MappingEnds, SendMapped, SendNotMapped, vars
<1>. QED BY <1>1, <1>2, <1>3, <1>4, <1>5, <1>6, <1>7
     DEF Next, Halt, Allocation

(* In every behaviour the block records what is held.                      *)
THEOREM ResourcesInvariant == Spec => [](LInv /\ ResourcesKept)
<1>1. Init => ResourcesKept
  BY DEF Init, ResourcesKept
<1>2. LInv /\ ResourcesKept /\ [Next]_vars => ResourcesKept'
  BY ResourcesKeptStep
<1>. QED BY LifecycleInvariant, <1>1, <1>2, PTL DEF Spec

(* Whatever step of MPInitialize failed, and whatever ran at the halt,     *)
(* MpFreeAdapter gives back all that was taken (mp_init.c:418-681), but    *)
(* for the shared memory of a buffer whose NICAllocRBD failed.             *)
THEOREM AllIsReturned ==
  "rbd" \notin GrowthFaults => (Spec => []EverythingReturned)
<1>. SUFFICES ASSUME "rbd" \notin GrowthFaults
              PROVE  Spec => []EverythingReturned
  OBVIOUS
<1>1. ResourcesKept => EverythingReturned
  BY DEF ResourcesKept, EverythingReturned
<1>. QED BY ResourcesInvariant, <1>1, PTL

(* Nothing is given back under a user: neither under what was made from it *)
(* nor under the DPC, the reset or the allocation of a receive buffer, for *)
(* any number of MP_TCBs and receive buffers and any failure.              *)
THEOREM NothingGoneInUse == Spec => []UsedWhileThere
<1>1. ASSUME LInv, ResourcesKept
      PROVE  UsedWhileThere
  <2>1. \A r \in res \ {"buffer"} : Needs(r) \subseteq res
    BY <1>1 DEF ResourcesKept
  <2>2. \A r \in recorded : r \in res
    BY <1>1 DEF ResourcesKept
  <2>3. queued \/ dpc # "idle" => "interrupt" \in res
    BY <1>1, <2>2 DEF LInv, LifecycleTypeOK, NobodyAtWork, ResourcesKept
  <2>4. reset # "none" => {"interrupt", "tcbs", "sendmem"} \subseteq res
    BY <1>1, <2>2 DEF LInv, NobodyAtWork, ResourcesKept
  <2>5. ASSUME alloc = "pending"
        PROVE  {"block", "rbds", "lookaside", "nblpool", "dma"} \subseteq res
    <3>1. "rbds" \in recorded
      BY <1>1, <2>5 DEF LInv, NobodyAtWork, ResourcesKept
    <3>2. Needs("rbds") \subseteq recorded
      BY <1>1, <3>1 DEF ResourcesKept
    <3>3. {"block", "lookaside", "nblpool", "dma"} \subseteq Needs("rbds")
      BY DEF Needs
    <3>. QED BY <2>2, <3>1, <3>2, <3>3
  <2>. QED BY <2>1, <2>3, <2>4, <2>5 DEF UsedWhileThere
<1>. QED BY ResourcesInvariant, <1>1, PTL
=============================================================================
