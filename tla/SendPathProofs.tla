---------------------------- MODULE SendPathProofs ----------------------------
(***************************************************************************)
(* Proofs about the send path, in two parts.                               *)
(*                                                                         *)
(* The two rings: the control blocks between CurrSendHead and CurrSendTail *)
(* are those in use, whoever takes and frees them, and their descriptors   *)
(* lie one after the other.                                                *)
(*                                                                         *)
(* The lists that are sent: the reference count of a list is the number of *)
(* its NET_BUFFERs that are somewhere, so no list is lost, completed twice,*)
(* or completed while the driver or the NIC uses it.  What each step does  *)
(* to the places where a list can be is stated for one list at a time: a   *)
(* step leaves most of them as they are (Untouched).                       *)
(***************************************************************************)
EXTENDS SendPath, FiniteSetTheorems, SequenceTheorems, TLAPS

(* The rings go wrong when a callback comes after a reset, which has freed *)
(* or zeroed its TCB.  Cancellation leaves them alone, but the provers     *)
(* know nothing of SelectSeq, with which it takes lists out of the queue.  *)
RingEnv == "cancel" \notin Env /\ ~ ({"async", "reset"} \subseteq Env)

(* A reset must not find a CPU in the send loop.                           *)
Sane == "reset" \in Env => orderly

Nbs == Nbls \X Nat

CtlTypes ==
  /\ SendLock \in {"free", "send", "dpc", "reset"}
  /\ reset \in {"none", "queue", "busy", "freeSG", "complete", "init",
                "receive"}
  /\ AdapterState \in {"NicRunning", "NicPausing", "NicPaused"}
  /\ pause \in {"none", "entered", "freed"}
  /\ cable \in BOOLEAN /\ MediaState \in BOOLEAN /\ NoCable \in BOOLEAN
  /\ IntrStatus \subseteq {"tx", "link", "other"}
  /\ dpc \in {"idle", "link", "linkflag", "linkrelock", "linkdequeue",
              "linksending", "send", "reap", "freeSG", "complete", "relock",
              "dequeue", "sending", "bugcheck"}
  /\ SendingNetBufferList \in Nbls \cup {NULL}

XmitTypes ==
  /\ xmit \in [pc : {"idle", "loop", "mapping", "failed"},
               by : {"send", "dpc"}, nbl : Nbls \cup {NULL}, nb : Nat,
               tcb : Tcbs]
  /\ maps \subseteq Tcbs \X Nbs

FreedTypes ==
  /\ freed \in [tcb : Tcbs, nbl : Nbls \cup {NULL}, nb : Nbs \cup {NULL}]
  /\ rfreed \in Nbls \cup {NULL}

MP_TCB ==
  [inUse : BOOLEAN, waiting : BOOLEAN, nbl : Nbls \cup {NULL},
   nb : Nbs \cup {NULL}, TbdStart : 0 .. nTbds - 1,
   nTbds : 0 .. NIC_MAX_PHYS_BUF_COUNT]
TcbTypes == tcb \in [Tcbs -> MP_TCB]

IndexTypes ==
  /\ CurrSendHead \in Tcbs /\ CurrSendTail \in Tcbs
  /\ nBusySend \in Int
  /\ NextFreeTbd \in 0 .. nTbds - 1 /\ txNext \in 0 .. nTbds - 1

TbdTypes ==
  tbd \in [0 .. nTbds - 1 -> [own : BOOLEAN, last : BOOLEAN,
                            frame : Nbs \cup {NULL}]]

ListTypes ==
  /\ SendWaitQueue \in Seq(Nbls)
  /\ CompleteNetBufferLists \in Seq(Nbls) /\ aborted \in Seq(Nbls)
  /\ RefCount \in [Nbls -> Int] /\ owed \in [Nbls -> Int]
  /\ NextSend \in [Nbls -> Nat] /\ entered \subseteq Nbls

SendTypes ==
  /\ CtlTypes /\ XmitTypes /\ FreedTypes /\ TcbTypes /\ IndexTypes
  /\ TbdTypes /\ ListTypes

DpcSends == dpc \in {"sending", "linksending"}

(* Who has the lock, and where the threads are.                            *)
Control ==
  /\ xmit.pc \in {"loop", "failed"} => SendLock = xmit.by
  /\ DpcSends => xmit.pc # "idle" /\ xmit.by = "dpc"
  /\ xmit.pc # "idle" /\ xmit.by = "dpc" => DpcSends \/ dpc = "bugcheck"
  /\ dpc \in {"reap", "dequeue", "linkdequeue"} => SendLock = "dpc"
  /\ SendingNetBufferList = xmit.nbl
  /\ xmit.nbl = NULL <=> xmit.pc = "idle"
  /\ SendLock = "reset" => reset \in {"busy", "init"}
  /\ freed.nbl # NULL <=> dpc = "freeSG"
  /\ rfreed # NULL <=> reset = "freeSG"
  /\ reset \notin {"none", "queue"} => xmit.pc = "idle"
  /\ "reset" \notin Env => reset = "none"

(* How far a TCB is behind the head.                                       *)
TcbDist(i) ==
  IF i >= CurrSendHead THEN i - CurrSendHead ELSE i - CurrSendHead + NumTcb

TcbRing ==
  /\ nBusySend \in 0 .. NumTcb
  /\ CurrSendTail = NthTcb(CurrSendHead, nBusySend)
  /\ \A i \in Tcbs : tcb[i].inUse <=> TcbDist(i) < nBusySend
  /\ \A i \in Tcbs :
       IF tcb[i].inUse
       THEN tcb[i].nbl # NULL /\ tcb[i].nb # NULL /\ tcb[i].nb[1] = tcb[i].nbl
       ELSE tcb[i].nb = NULL
  /\ reset \in {"complete", "init", "receive"} => nBusySend = 0

(* A TCB that waits for its callback is in use and has no descriptors yet; *)
(* when NDIS maps at once it is the last one.                              *)
Waiting ==
  /\ \A m \in maps :
       tcb[m[1]].inUse /\ tcb[m[1]].nb = m[2] /\ tcb[m[1]].nTbds = 0
  /\ xmit.pc = "mapping" => CurrSendTail = NextTcb(xmit.tcb)
  /\ "async" \notin Env =>
       \A m \in maps : xmit.pc = "mapping" /\ m[1] = xmit.tcb

RingState == SendTypes /\ Control /\ TcbRing /\ Waiting
RingInv == Sane => RingState

---------------------------------------------------------------------------
(* Positions in the two rings.                                             *)
LEMMA Sizes ==
  /\ NumTcb \in Nat \ {0} /\ NIC_MAX_PHYS_BUF_COUNT \in Nat \ {0}
  /\ nTbds \in Nat \ {0} /\ NULL \notin Nbls /\ NULL \notin Nbs
  /\ NbCount \in [Nbls -> Nat \ {0}]
<1>. USE SendAssumption
<1>1. nTbds \in Nat \ {0}
  <2>1. \A m, n \in Nat \ {0} : n * m \in Nat \ {0}
    OBVIOUS
  <2>. QED BY <2>1 DEF nTbds
<1>. QED BY <1>1 DEF Nbs

(* Counting descriptors round the ring stays in the ring.                  *)
LEMMA TbdStep ==
  ASSUME NEW t \in 0 .. nTbds - 1, NEW d \in 0 .. nTbds
  PROVE  NthTbd(t, d) \in 0 .. nTbds - 1
BY Sizes DEF NthTbd

(* The descriptors of a frame end within the ring.                         *)
LEMMA SglStep ==
  ASSUME TcbTypes, NEW i \in Tcbs, NEW n \in 0 .. NIC_MAX_PHYS_BUF_COUNT
  PROVE  NthTbd(tcb[i].TbdStart, n) \in 0 .. nTbds - 1
<1>1. NIC_MAX_PHYS_BUF_COUNT <= nTbds
  BY Sizes, SMT DEF nTbds
<1>2. tcb[i].TbdStart \in 0 .. nTbds - 1
  BY DEF TcbTypes, MP_TCB
<1>3. n \in 0 .. nTbds
  BY Sizes, <1>1
<1>. QED BY <1>2, <1>3, TbdStep

(* Two TCBs are not equally far behind the head.                           *)
LEMMA DistRange ==
  ASSUME IndexTypes
  PROVE  /\ \A i \in Tcbs : TcbDist(i) \in 0 .. NumTcb - 1
         /\ \A i, j \in Tcbs : TcbDist(i) = TcbDist(j) => i = j
BY Sizes DEF IndexTypes, TcbDist, Tcbs

(* A TCB is freed: it keeps its list, its descriptors and its place.       *)
LEMMA TcbFreed ==
  ASSUME TcbTypes, NEW i \in Tcbs,
         tcb' = [tcb EXCEPT ![i].inUse = FALSE, ![i].waiting = FALSE,
                             ![i].nb = NULL]
  PROVE  /\ TcbTypes'
         /\ \A j \in Tcbs : j # i => tcb'[j] = tcb[j]
         /\ tcb'[i].TbdStart = tcb[i].TbdStart
         /\ ~ tcb'[i].inUse /\ tcb'[i].nb = NULL
         /\ tcb'[i].nbl = tcb[i].nbl /\ tcb'[i].nTbds = tcb[i].nTbds
<1>. DEFINE r == [tcb[i] EXCEPT !.inUse = FALSE, !.waiting = FALSE,
                             !.nb = NULL]
<1>1. r \in MP_TCB
  BY DEF TcbTypes, MP_TCB
<1>2. tcb' = [tcb EXCEPT ![i] = r]
  BY Zenon DEF TcbTypes
<1>3. tcb'[i] = r
  BY <1>2 DEF TcbTypes
<1>4. tcb[i] \in MP_TCB
  BY DEF TcbTypes
<1>. QED BY <1>1, <1>2, <1>3, <1>4 DEF TcbTypes, MP_TCB

(* It is given back after a mapping failed.                                *)
LEMMA TcbUnmapped ==
  ASSUME TcbTypes, NEW i \in Tcbs,
         tcb' = [tcb EXCEPT ![i].inUse = FALSE, ![i].waiting = FALSE,
                             ![i].nb = NULL, ![i].nbl = NULL]
  PROVE  /\ TcbTypes'
         /\ \A j \in Tcbs : j # i => tcb'[j] = tcb[j]
         /\ tcb'[i].TbdStart = tcb[i].TbdStart
         /\ ~ tcb'[i].inUse /\ tcb'[i].nb = NULL
         /\ tcb'[i].nbl = NULL /\ tcb'[i].nTbds = tcb[i].nTbds
<1>. DEFINE r == [tcb[i] EXCEPT !.inUse = FALSE, !.waiting = FALSE,
                             !.nb = NULL, !.nbl = NULL]
<1>1. r \in MP_TCB
  BY DEF TcbTypes, MP_TCB
<1>2. tcb' = [tcb EXCEPT ![i] = r]
  BY Zenon DEF TcbTypes
<1>3. tcb'[i] = r
  BY <1>2 DEF TcbTypes
<1>4. tcb[i] \in MP_TCB
  BY DEF TcbTypes
<1>. QED BY <1>1, <1>2, <1>3, <1>4 DEF TcbTypes, MP_TCB

(* Its frame is given to the NIC.                                          *)
LEMMA TcbGiven ==
  ASSUME TcbTypes, NEW i \in Tcbs,
         NEW n \in 0 .. NIC_MAX_PHYS_BUF_COUNT,
         tcb' = [tcb EXCEPT ![i].waiting = FALSE, ![i].nTbds = n]
  PROVE  /\ TcbTypes'
         /\ \A j \in Tcbs : j # i => tcb'[j] = tcb[j]
         /\ tcb'[i].TbdStart = tcb[i].TbdStart
         /\ tcb'[i].inUse = tcb[i].inUse /\ tcb'[i].nb = tcb[i].nb
         /\ tcb'[i].nbl = tcb[i].nbl /\ tcb'[i].nTbds = n
         /\ ~ tcb'[i].waiting
<1>. DEFINE r == [tcb[i] EXCEPT !.waiting = FALSE, !.nTbds = n]
<1>1. r \in MP_TCB
  BY DEF TcbTypes, MP_TCB
<1>2. tcb' = [tcb EXCEPT ![i] = r]
  BY Zenon DEF TcbTypes
<1>3. tcb'[i] = r
  BY <1>2 DEF TcbTypes
<1>4. tcb[i] \in MP_TCB
  BY DEF TcbTypes
<1>. QED BY <1>1, <1>2, <1>3, <1>4 DEF TcbTypes, MP_TCB

(* A reference less, a list more to complete.                              *)
LEMMA ListSteps ==
  ASSUME ListTypes, NEW l \in Nbls
  PROVE  /\ [RefCount EXCEPT ![l] = @ - 1] \in [Nbls -> Int]
         /\ Append(CompleteNetBufferLists, l) \in Seq(Nbls)
         /\ Append(aborted, l) \in Seq(Nbls)
<1>1. [RefCount EXCEPT ![l] = @ - 1] \in [Nbls -> Int]
  BY DEF ListTypes
<1>2. /\ Append(CompleteNetBufferLists, l) \in Seq(Nbls)
      /\ Append(aborted, l) \in Seq(Nbls)
  BY DEF ListTypes
<1>. QED BY <1>1, <1>2

(* Aborting a list keeps the types of its count and of the aborted ones.   *)
LEMMA AbortTypes ==
  ASSUME ListTypes, NEW l \in Nbls, Abort(l)
  PROVE  RefCount' \in [Nbls -> Int] /\ aborted' \in Seq(Nbls)
<1>1. aborted \in Seq(Nbls)
  BY DEF ListTypes
<1>. QED BY <1>1, ListSteps DEF Abort

(* The TCB at the head is in use if any is.                                *)
LEMMA HeadInUse ==
  ASSUME IndexTypes, TcbTypes, TcbRing, nBusySend > 0
  PROVE  /\ CurrSendHead \in Tcbs /\ tcb[CurrSendHead].inUse
         /\ tcb[CurrSendHead].nbl \in Nbls /\ tcb[CurrSendHead].nb \in Nbs
<1>1. CurrSendHead \in Tcbs /\ TcbDist(CurrSendHead) = 0
  BY DEF IndexTypes, TcbDist, Tcbs
<1>2. tcb[CurrSendHead].inUse
  BY <1>1 DEF TcbRing
<1>. QED BY <1>1, <1>2 DEF TcbRing, TcbTypes, MP_TCB

(* Completing lists keeps the type of what is owed.                        *)
LEMMA CompletedTypes ==
  ASSUME ListTypes, NEW S PROVE Completed(S) \in [Nbls -> Int]
BY DEF Completed, ListTypes

(* The invariant that is proved is at least the type invariant.            *)
LEMMA TypesImply == SendTypes => TypeOK
BY DEF SendTypes, TypeOK, CtlTypes, XmitTypes, IndexTypes, ListTypes

(* The ring is empty before anything is sent.                              *)
LEMMA RingInvInit == Init => RingState
<1>. SUFFICES ASSUME Init PROVE RingState
  OBVIOUS
<1>. USE Sizes
<1>1. CtlTypes BY DEF Init, CtlTypes
<1>2. XmitTypes /\ FreedTypes
  BY DEF Init, XmitTypes, FreedTypes, Tcbs, NoXmit, NoFreed
<1>3. TcbTypes BY DEF Init, TcbTypes, MP_TCB, ZeroTcb
<1>4. IndexTypes BY DEF Init, IndexTypes, Tcbs
<1>5. TbdTypes BY DEF Init, TbdTypes, ZeroTbd
<1>6. ListTypes BY DEF Init, ListTypes
<1>7. Control BY DEF Init, Control, DpcSends, NoXmit, NoFreed
<1>8. TcbRing BY DEF Init, TcbRing, TcbDist, NthTcb, Tcbs, ZeroTcb
<1>9. Waiting BY DEF Init, Waiting, NoXmit
<1>. QED
  BY <1>1, <1>2, <1>3, <1>4, <1>5, <1>6, <1>7, <1>8, <1>9
  DEF RingState, SendTypes

(* A step that changes nothing keeps the ring.                             *)
LEMMA QuietKeepsRing == RingState /\ UNCHANGED sendVars => RingState'
BY DEF RingState, SendTypes, CtlTypes, XmitTypes, FreedTypes, TcbTypes,
       IndexTypes, TbdTypes, ListTypes, Control, DpcSends, TcbRing, TcbDist,
       Waiting, sendVars, stateVars, resetVars, linkVars, intrVars, tcbVars,
       tbdVars, nicVars, waitVars, nblVars, dpcVars

(* A step that empties the queue while a list is sent is never undone.     *)
LEMMA OrderlyEarlier == [Next]_sendVars /\ orderly' => orderly
<1>. SUFFICES ASSUME [Next]_sendVars, orderly' PROVE orderly
  OBVIOUS
<1>1. CASE Enter \/ SendLocked
  BY <1>1 DEF Enter, SendLocked, MPSendEnter, MPSendNoLink, MPSendQueue,
              MPSendStart, stateVars, resetVars
<1>2. CASE Xmit
  BY <1>2 DEF Xmit, XmitAllocateTcb, XmitMapped, XmitMapFailed, XmitNoTcb,
              XmitDone, XmitFailed, XmitBugCheck, stateVars, resetVars
<1>3. CASE ProcessSGList
  BY <1>3 DEF ProcessSGList, MpProcessSGList, MpProcessSGListCopyFailed,
              MpProcessSGListEmpty, MpProcessSGListLate,
              MpProcessSGListBugCheck, stateVars,
              resetVars
<1>4. CASE NicTransmit \/ CableChange \/ OtherInterrupt
  BY <1>4 DEF NicTransmit, CableChange, OtherInterrupt, stateVars, resetVars
<1>5. CASE Dpc
  BY <1>5 DEF Dpc, DpcAck, DpcLinkState, DpcLinkFlag, DpcRelock, DpcSendIdle,
              DpcSendEnter, DpcFreeTcb, DpcFreeSGList, DpcReapEnd, DpcComplete,
              DpcDequeue, DpcDequeueEnd, stateVars, resetVars
<1>6. CASE Ndis
  BY <1>6 DEF Ndis, MPPause, MPPauseQueue, MpFreeQueuedSendNetBufferLists,
              MPPauseReturn, MPRestart, MPCancelSendNetBufferLists, stateVars,
              resetVars
<1>7. CASE Reset
  BY <1>7 DEF Reset, MPReset, MPResetQueue, MpFreeQueuedSendNetBufferLists,
              MPResetFreeTcb, MPResetFreeSGList, MPResetFreed,
              MPResetComplete, MPResetInitSend, MPResetEnd
<1>8. CASE UNCHANGED sendVars
  BY <1>8 DEF sendVars, stateVars, resetVars
<1>. QED BY <1>1, <1>2, <1>3, <1>4, <1>5, <1>6, <1>7, <1>8 DEF Next

(* What made the state not orderly is never undone.                        *)
LEMMA SaneEarlier == [Next]_sendVars /\ Sane' => Sane
BY OrderlyEarlier DEF Sane

(* The steps of MiniportSendNetBufferList.                                 *)
LEMMA XmitKeepsRing ==
  ASSUME RingEnv, RingState, Sane', Xmit
  PROVE  RingState'
<1>. USE Sizes DEF RingState, SendTypes
<1>1. CASE XmitAllocateTcb
  <2>1. FreedTypes' /\ ListTypes'
    BY <1>1 DEF XmitAllocateTcb, dpcVars, nblVars, resetVars, stateVars,
                waitVars, FreedTypes, ListTypes
  <2>2. CtlTypes'
    BY <1>1 DEF XmitAllocateTcb, CtlTypes, XmitTypes, dpcVars, intrVars,
                linkVars, nblVars, resetVars, stateVars, waitVars
  <2>3. XmitTypes'
    <3>1. xmit' = [pc |-> "mapping", by |-> xmit.by, nbl |-> xmit.nbl,
                   nb |-> xmit.nb, tcb |-> CurrSendTail]
      BY <1>1 DEF XmitAllocateTcb, XmitTypes
    <3>2. maps' = maps \cup {<<CurrSendTail, <<xmit.nbl, xmit.nb>>>>}
      BY <1>1 DEF XmitAllocateTcb
    <3>3. xmit.nbl \in Nbls
      BY <1>1 DEF XmitAllocateTcb, XmitTypes, Control
    <3>. QED BY <3>1, <3>2, <3>3 DEF XmitTypes, IndexTypes, Nbs
  <2>4. TcbTypes'
    BY <1>1 DEF XmitAllocateTcb, TcbTypes, XmitTypes, IndexTypes, Control, Nbs,
                MP_TCB, dpcVars, nicVars, resetVars, stateVars, waitVars
  <2>5. IndexTypes'
    BY <1>1 DEF XmitAllocateTcb, IndexTypes, TcbRing, Tcbs, NextTcb, NthTcb,
                nicVars, resetVars, stateVars
  <2>6. TbdTypes'
    BY <1>1 DEF XmitAllocateTcb, TbdTypes, IndexTypes, ZeroTbd, nicVars
  <2>7. Control'
    BY <1>1 DEF XmitAllocateTcb, Control, DpcSends, CtlTypes, XmitTypes,
                FreedTypes, dpcVars, intrVars, linkVars, nblVars, resetVars,
                stateVars, waitVars
  <2>8. TcbRing'
    <3>1. /\ nBusySend < NumTcb /\ nBusySend' = nBusySend + 1
          /\ CurrSendHead' = CurrSendHead /\ reset' = reset
          /\ CurrSendTail' = NextTcb(CurrSendTail)
          /\ xmit.nbl \in Nbls /\ reset \in {"none", "queue"}
      BY <1>1 DEF XmitAllocateTcb, MP_TCB_RESOURCES_AVAIABLE, XmitTypes,
                  Control,
               stateVars, resetVars
    <3>2. /\ tcb'[CurrSendTail].inUse /\ tcb'[CurrSendTail].nbl = xmit.nbl
          /\ tcb'[CurrSendTail].nb = <<xmit.nbl, xmit.nb>>
          /\ \A i \in Tcbs : i # CurrSendTail => tcb'[i] = tcb[i]
      BY <1>1 DEF XmitAllocateTcb, TcbTypes, IndexTypes
    <3>3. <<xmit.nbl, xmit.nb>> \in Nbs
      BY <3>1 DEF XmitTypes, Nbs
    <3>4. \A i \in Tcbs : TcbDist(i)' = TcbDist(i)
      BY <3>1 DEF TcbDist
    <3>5. /\ TcbDist(CurrSendTail) = nBusySend
          /\ \A i \in Tcbs : TcbDist(i) = nBusySend => i = CurrSendTail
          /\ \A i \in Tcbs : TcbDist(i) \in Int
      BY <3>1 DEF TcbRing, TcbDist, NthTcb, Tcbs, IndexTypes
    <3>6. CurrSendTail' = NthTcb(CurrSendHead, nBusySend')
      BY <3>1 DEF TcbRing, NthTcb, NextTcb, Tcbs, IndexTypes
    <3>7. \A i \in Tcbs : tcb'[i].inUse <=> TcbDist(i) < nBusySend'
      BY <3>1, <3>2, <3>5 DEF TcbRing
    <3>8. ASSUME NEW i \in Tcbs
          PROVE  IF tcb'[i].inUse
                 THEN /\ tcb'[i].nbl # NULL /\ tcb'[i].nb # NULL
                      /\ tcb'[i].nb[1] = tcb'[i].nbl
                 ELSE tcb'[i].nb = NULL
      BY <3>1, <3>2, <3>3 DEF TcbRing
    <3>. QED BY <3>1, <3>4, <3>6, <3>7, <3>8 DEF TcbRing
  <2>9. Waiting'
    <3>1. /\ maps' = maps \cup {<<CurrSendTail, <<xmit.nbl, xmit.nb>>>>}
          /\ tcb' = [tcb EXCEPT ![CurrSendTail] =
                       [inUse |-> TRUE, waiting |-> TRUE, nbl |-> xmit.nbl,
                        nb |-> <<xmit.nbl, xmit.nb>>,
                        TbdStart |-> NextFreeTbd, nTbds |-> 0]]
          /\ xmit.pc = "loop" /\ xmit'.pc = "mapping"
          /\ xmit'.tcb = CurrSendTail
          /\ CurrSendTail' = NextTcb(CurrSendTail)
      BY <1>1 DEF XmitAllocateTcb, XmitTypes
    <3>2. \A m \in maps : m[1] \in Tcbs /\ m[1] # CurrSendTail
      <4>1. ~ tcb[CurrSendTail].inUse
        BY <1>1
        DEF XmitAllocateTcb, MP_TCB_RESOURCES_AVAIABLE, TcbRing, TcbDist,
            NthTcb, Tcbs, IndexTypes
      <4>. QED BY <4>1 DEF Waiting, XmitTypes
    <3>3. \A m \in maps' :
            tcb'[m[1]].inUse /\ tcb'[m[1]].nb = m[2] /\ tcb'[m[1]].nTbds = 0
      BY <3>1, <3>2 DEF Waiting, TcbTypes, IndexTypes
    <3>. QED BY <3>1, <3>3 DEF Waiting
  <2>. QED BY <2>1, <2>2, <2>3, <2>4, <2>5, <2>6, <2>7, <2>8, <2>9
<1>2. CASE XmitMapped
  <2>1. FreedTypes' /\ TcbTypes' /\ IndexTypes' /\ TbdTypes' /\ ListTypes'
        /\ TcbRing'
    BY <1>2 DEF XmitMapped, dpcVars, nblVars, nicVars, resetVars, stateVars,
                tbdVars, tcbVars, waitVars, FreedTypes, TcbTypes, IndexTypes,
                TbdTypes, ListTypes, TcbRing, TcbDist
  <2>2. CtlTypes'
    BY <1>2 DEF XmitMapped, CtlTypes, XmitTypes, dpcVars, intrVars, linkVars,
                nblVars, resetVars, stateVars, tcbVars, waitVars
  <2>3. XmitTypes'
    <3>1. xmit' = [pc |-> "loop", by |-> xmit.by, nbl |-> xmit.nbl,
                   nb |-> xmit.nb + 1, tcb |-> xmit.tcb]
      BY <1>2 DEF XmitMapped, XmitTypes
    <3>. QED BY <1>2, <3>1 DEF XmitMapped, XmitTypes
  <2>4. Control'
    BY <1>2 DEF XmitMapped, Control, DpcSends, CtlTypes, XmitTypes, FreedTypes,
                dpcVars, intrVars, linkVars, nblVars, resetVars, stateVars,
                tcbVars, waitVars
  <2>5. Waiting'
    BY <1>2 DEF XmitMapped, Waiting, NthTcb, NextTcb, Tcbs, TcbRing, TcbTypes,
                IndexTypes, XmitTypes, dpcVars, nicVars, resetVars, stateVars,
                tbdVars, tcbVars
  <2>. QED BY <2>1, <2>2, <2>3, <2>4, <2>5
<1>3. CASE XmitMapFailed
  <2>1. FreedTypes' /\ TbdTypes'
    BY <1>3 DEF XmitMapFailed, dpcVars, resetVars, stateVars, tbdVars,
                FreedTypes, TbdTypes
  <2>2. CtlTypes'
    BY <1>3 DEF XmitMapFailed, CtlTypes, XmitTypes, dpcVars, intrVars,
                linkVars, resetVars, stateVars, waitVars
  <2>3. XmitTypes'
    BY <1>3 DEF XmitMapFailed, XmitTypes, CtlTypes, IndexTypes, Control, Tcbs,
                Nbs, ListTypes, dpcVars, intrVars, linkVars, nicVars,
                resetVars, stateVars, tbdVars, waitVars
  <2>4. TcbTypes'
    BY <1>3, TcbUnmapped DEF XmitMapFailed, XmitTypes
  <2>5. IndexTypes'
    <3>1. xmit.tcb \in Tcbs /\ xmit.pc = "mapping"
      BY <1>3 DEF XmitMapFailed, XmitTypes
    <3>. QED BY <1>3, <3>1 DEF XmitMapFailed, IndexTypes, tbdVars, nicVars
  <2>6. ListTypes'
    BY SMTT(30), <1>3 DEF XmitMapFailed, ListTypes, XmitTypes, Control, dpcVars,
                resetVars, stateVars, waitVars
  <2>7. Control'
    BY <1>3 DEF XmitMapFailed, Control, DpcSends, CtlTypes, XmitTypes,
                FreedTypes, dpcVars, intrVars, linkVars, resetVars, stateVars,
                waitVars
  <2>8. TcbRing'
    <3>1. /\ xmit.tcb \in Tcbs /\ xmit.pc = "mapping"
          /\ tcb[xmit.tcb].inUse /\ CurrSendTail = NextTcb(xmit.tcb)
      BY <1>3 DEF XmitMapFailed, XmitTypes, Waiting
    <3>2. /\ nBusySend' = nBusySend - 1 /\ CurrSendTail' = xmit.tcb
          /\ CurrSendHead' = CurrSendHead /\ reset' = reset
          /\ reset \in {"none", "queue"}
      BY <1>3, <3>1 DEF XmitMapFailed, Control, stateVars, resetVars
    <3>3. /\ ~ tcb'[xmit.tcb].inUse /\ tcb'[xmit.tcb].nb = NULL
          /\ \A i \in Tcbs : i # xmit.tcb => tcb'[i] = tcb[i]
      BY <1>3, <3>1, TcbUnmapped DEF XmitMapFailed
    <3>4. \A i \in Tcbs : TcbDist(i)' = TcbDist(i)
      BY <3>2 DEF TcbDist
    <3>5. nBusySend > 0
      BY <3>1, DistRange DEF TcbRing
    <3>6. TcbDist(xmit.tcb) = nBusySend - 1
      BY <3>1, <3>5 DEF TcbRing, TcbDist, NthTcb, NextTcb, Tcbs, IndexTypes
    <3>7. xmit.tcb = NthTcb(CurrSendHead, nBusySend - 1)
      BY <3>1, <3>5 DEF TcbRing, NthTcb, NextTcb, Tcbs, IndexTypes
    <3>8. \A i \in Tcbs : tcb'[i].inUse <=> TcbDist(i) < nBusySend - 1
      BY <3>1, <3>3, <3>6, DistRange DEF TcbRing
    <3>9. \A i \in Tcbs : tcb'[i].inUse => tcb'[i] = tcb[i]
      BY <3>3
    <3>. QED BY <3>2, <3>3, <3>4, <3>5, <3>7, <3>8, <3>9 DEF TcbRing
  <2>9. Waiting'
    <3>1. /\ xmit.tcb \in Tcbs /\ xmit.pc = "mapping" /\ xmit'.pc = "failed"
          /\ <<xmit.tcb, <<xmit.nbl, xmit.nb>>>> \in maps
          /\ maps' = maps \ {<<xmit.tcb, <<xmit.nbl, xmit.nb>>>>}
      BY <1>3 DEF XmitMapFailed, XmitTypes
    <3>2. \A i \in Tcbs : i # xmit.tcb => tcb'[i] = tcb[i]
      BY <1>3, <3>1, TcbUnmapped DEF XmitMapFailed
    <3>3. tcb[xmit.tcb].nb = <<xmit.nbl, xmit.nb>>
      BY <3>1 DEF Waiting
    <3>4. \A m \in maps : m[1] = xmit.tcb => m \notin maps'
      BY <3>1, <3>3 DEF Waiting, XmitTypes
    <3>. QED BY <3>1, <3>2, <3>4 DEF Waiting, XmitTypes
  <2>. QED BY <2>1, <2>2, <2>3, <2>4, <2>5, <2>6, <2>7, <2>8, <2>9
<1>4. CASE XmitNoTcb
  <2>1. FreedTypes' /\ TcbTypes' /\ IndexTypes' /\ TbdTypes' /\ TcbRing'
    BY <1>4 DEF XmitNoTcb, PutBack, bFromQueue, AfterFull, NoXmit, nicVars,
                resetVars, stateVars, tbdVars, tcbVars, FreedTypes, TcbTypes,
                IndexTypes, TbdTypes, TcbRing, TcbDist
  <2>2. CtlTypes'
    BY <1>4 DEF XmitNoTcb, PutBack, bFromQueue, AfterFull, NoXmit, CtlTypes,
                XmitTypes, linkVars, resetVars, stateVars, tcbVars
  <2>3. XmitTypes'
    BY SMTT(30), <1>4
    DEF XmitNoTcb, PutBack, bFromQueue, AfterFull, NoXmit, XmitTypes, CtlTypes,
        IndexTypes, Control, Tcbs, Nbs, ListTypes, linkVars, nicVars,
        resetVars, stateVars, tbdVars, tcbVars
  <2>4. ListTypes'
    BY <1>4 DEF XmitNoTcb, PutBack, bFromQueue, AfterFull, NoXmit, ListTypes,
                XmitTypes, Control, resetVars, stateVars, tcbVars
  <2>5. Control'
    BY <1>4 DEF XmitNoTcb, PutBack, bFromQueue, AfterFull, NoXmit, Control,
                DpcSends, CtlTypes, XmitTypes, FreedTypes, linkVars, resetVars,
                stateVars, tcbVars
  <2>6. Waiting'
    BY <1>4 DEF XmitNoTcb, PutBack, bFromQueue, AfterFull, NoXmit, Waiting,
                NthTcb, NextTcb, Tcbs, TcbRing, TcbTypes, IndexTypes,
                XmitTypes, nicVars, resetVars, stateVars, tbdVars, tcbVars
  <2>. QED BY <2>1, <2>2, <2>3, <2>4, <2>5, <2>6
<1>5. CASE XmitDone
  <2>1. FreedTypes' /\ TcbTypes' /\ IndexTypes' /\ TbdTypes' /\ TcbRing'
    BY <1>5 DEF XmitDone, bFromQueue, AfterXmit, NoXmit, nicVars, resetVars,
                stateVars, tbdVars, tcbVars, FreedTypes, TcbTypes, IndexTypes,
                TbdTypes, TcbRing, TcbDist
  <2>2. CtlTypes'
    BY <1>5 DEF XmitDone, bFromQueue, AfterXmit, NoXmit, CtlTypes, XmitTypes,
                intrVars, linkVars, nblVars, resetVars, stateVars, tcbVars
  <2>3. XmitTypes'
    BY <1>5 DEF XmitDone, NoXmit, XmitTypes, Tcbs
  <2>4. ListTypes'
    BY SMTT(30), <1>5
    DEF XmitDone, bFromQueue, AfterXmit, NoXmit, ListTypes, XmitTypes, Control,
        nblVars, resetVars, stateVars, tcbVars
  <2>5. Control'
    BY <1>5 DEF XmitDone, bFromQueue, AfterXmit, NoXmit, Control, DpcSends,
                CtlTypes, XmitTypes, FreedTypes, intrVars, linkVars, nblVars,
                resetVars, stateVars, tcbVars
  <2>6. Waiting'
    BY <1>5 DEF XmitDone, bFromQueue, AfterXmit, NoXmit, Waiting, NthTcb,
                NextTcb, Tcbs, TcbRing, TcbTypes, IndexTypes, XmitTypes,
                nicVars, resetVars, stateVars, tbdVars, tcbVars
  <2>. QED BY <2>1, <2>2, <2>3, <2>4, <2>5, <2>6
<1>6. CASE XmitFailed
  <2>1. FreedTypes' /\ TcbTypes' /\ IndexTypes' /\ TbdTypes' /\ TcbRing'
    BY <1>6 DEF XmitFailed, bFromQueue, AfterXmit, AfterFailed, NoXmit,
                Completed, nicVars, resetVars, stateVars, tbdVars, tcbVars,
                FreedTypes, TcbTypes, IndexTypes, TbdTypes, TcbRing, TcbDist
  <2>2. CtlTypes'
    BY <1>6 DEF XmitFailed, bFromQueue, AfterXmit, AfterFailed, NoXmit,
                Completed, CtlTypes, XmitTypes, intrVars, linkVars, resetVars,
                stateVars, tcbVars
  <2>3. XmitTypes'
    BY <1>6 DEF XmitFailed, NoXmit, XmitTypes, Tcbs
  <2>4. ListTypes'
    <3>1. owed' \in [Nbls -> Int]
      BY <1>6, CompletedTypes DEF XmitFailed, ListTypes
    <3>2. SendWaitQueue' \in Seq(Nbls)
      BY <1>6 DEF XmitFailed, bFromQueue, ListTypes
    <3>. QED BY <1>6, <3>1, <3>2 DEF XmitFailed, ListTypes, stateVars, resetVars
  <2>5. Control'
    BY <1>6 DEF XmitFailed, bFromQueue, AfterXmit, AfterFailed, NoXmit,
                Completed, Control, DpcSends, CtlTypes, XmitTypes, FreedTypes,
                intrVars, linkVars, resetVars, stateVars, tcbVars
  <2>6. Waiting'
    BY <1>6 DEF XmitFailed, bFromQueue, AfterXmit, AfterFailed, NoXmit,
                Completed, Waiting, NthTcb, NextTcb, Tcbs, TcbRing, TcbTypes,
                IndexTypes, XmitTypes, nicVars, resetVars, stateVars, tbdVars,
                tcbVars
  <2>. QED BY <2>1, <2>2, <2>3, <2>4, <2>5, <2>6
<1>7. CASE XmitBugCheck
  <2>1. XmitTypes' /\ FreedTypes' /\ TcbTypes' /\ IndexTypes' /\ TbdTypes'
        /\ ListTypes' /\ TcbRing' /\ Waiting'
    BY <1>7 DEF XmitBugCheck, nblVars, nicVars, resetVars, stateVars, tbdVars,
                tcbVars, waitVars, XmitTypes, FreedTypes, TcbTypes, IndexTypes,
                TbdTypes, ListTypes, TcbRing, Waiting, TcbDist
  <2>2. CtlTypes'
    BY <1>7 DEF XmitBugCheck, CtlTypes, XmitTypes, intrVars, linkVars, nblVars,
                resetVars, stateVars, tcbVars, waitVars
  <2>3. Control'
    BY <1>7 DEF XmitBugCheck, Control, DpcSends, CtlTypes, XmitTypes,
                FreedTypes, intrVars, linkVars, nblVars, resetVars, stateVars,
                tcbVars, waitVars
  <2>. QED BY <2>1, <2>2, <2>3
<1>. QED BY <1>1, <1>2, <1>3, <1>4, <1>5, <1>6, <1>7
  DEF Xmit

(* The steps of MPSendNetBufferLists.                                      *)
LEMMA SendKeepsRing ==
  ASSUME RingEnv, RingState, Sane', Enter \/ SendLocked
  PROVE  RingState'
<1>. USE Sizes DEF RingState, SendTypes
<1>1. ASSUME NEW l \in Nbls, MPSendEnter(l)
      PROVE  RingState'
  <2>1. CtlTypes' /\ XmitTypes' /\ FreedTypes' /\ TcbTypes' /\ IndexTypes'
        /\ TbdTypes' /\ Control' /\ TcbRing' /\ Waiting'
    BY <1>1 DEF MPSendEnter, dpcVars, intrVars, linkVars, nicVars, resetVars,
                stateVars, tbdVars, tcbVars, waitVars, CtlTypes, XmitTypes,
                FreedTypes, TcbTypes, IndexTypes, TbdTypes, Control, TcbRing,
                Waiting, DpcSends, TcbDist
  <2>2. ListTypes'
    BY <1>1 DEF MPSendEnter, ListTypes, XmitTypes, Control, dpcVars, resetVars,
                stateVars, tcbVars, waitVars
  <2>. QED BY <2>1, <2>2
<1>2. ASSUME NEW l \in Nbls, MPSendNoLink(l)
      PROVE  RingState'
  <2>1. CtlTypes' /\ XmitTypes' /\ FreedTypes' /\ TcbTypes' /\ IndexTypes'
        /\ TbdTypes' /\ Control' /\ TcbRing' /\ Waiting'
    BY <1>2 DEF MPSendNoLink, dpcVars, intrVars, linkVars, nicVars, resetVars,
                stateVars, tbdVars, tcbVars, waitVars, CtlTypes, XmitTypes,
                FreedTypes, TcbTypes, IndexTypes, TbdTypes, Control, TcbRing,
                Waiting, DpcSends, TcbDist
  <2>2. ListTypes'
    BY <1>2, CompletedTypes DEF MPSendNoLink, ListTypes, stateVars, resetVars,
                                waitVars, dpcVars
  <2>. QED BY <2>1, <2>2
<1>3. ASSUME NEW l \in Nbls, MPSendQueue(l)
      PROVE  RingState'
  <2>1. CtlTypes' /\ XmitTypes' /\ FreedTypes' /\ TcbTypes' /\ IndexTypes'
        /\ TbdTypes' /\ Control' /\ TcbRing' /\ Waiting'
    BY <1>3 DEF MPSendQueue, dpcVars, intrVars, linkVars, nicVars, resetVars,
                stateVars, tbdVars, tcbVars, CtlTypes, XmitTypes, FreedTypes,
                TcbTypes, IndexTypes, TbdTypes, Control, TcbRing, Waiting,
                DpcSends, TcbDist
  <2>2. ListTypes'
    BY <1>3 DEF MPSendQueue, ListTypes, XmitTypes, Control, dpcVars, resetVars,
                stateVars, tcbVars
  <2>. QED BY <2>1, <2>2
<1>4. ASSUME NEW l \in Nbls, MPSendStart(l)
      PROVE  RingState'
  <2>1. FreedTypes' /\ TcbTypes' /\ IndexTypes' /\ TbdTypes' /\ TcbRing'
    BY <1>4 DEF MPSendStart, dpcVars, nicVars, resetVars, stateVars, tbdVars,
                tcbVars, FreedTypes, TcbTypes, IndexTypes, TbdTypes, TcbRing,
                TcbDist
  <2>2. CtlTypes'
    BY <1>4 DEF MPSendStart, CtlTypes, XmitTypes, dpcVars, intrVars, linkVars,
                resetVars, stateVars, tcbVars
  <2>3. XmitTypes'
    BY <1>4 DEF MPSendStart, XmitTypes, Tcbs
  <2>4. ListTypes'
    BY <1>4 DEF MPSendStart, ListTypes, XmitTypes, Control, dpcVars, resetVars,
                stateVars, tcbVars
  <2>5. Control'
    BY <1>4 DEF MPSendStart, MP_IS_READY, MustQueue, Control, DpcSends,
                CtlTypes, XmitTypes, FreedTypes, stateVars, resetVars, dpcVars
  <2>6. Waiting'
    BY <1>4 DEF MPSendStart, MustQueue, MP_IS_READY, Control, Waiting, tcbVars
  <2>. QED BY <2>1, <2>2, <2>3, <2>4, <2>5, <2>6
<1>. QED BY <1>1, <1>2, <1>3, <1>4
  DEF Enter, SendLocked

(* The steps of MpProcessSGList.                                           *)
LEMMA MappedKeepsRing ==
  ASSUME RingEnv, RingState, Sane', ProcessSGList
  PROVE  RingState'
<1>. USE Sizes DEF RingState, SendTypes
<1>0. \A m \in maps : m[1] \in Tcbs /\ m = <<m[1], m[2]>>
  BY DEF XmitTypes
<1>1. ASSUME NEW m \in maps, NEW n \in 1 .. NIC_MAX_PHYS_BUF_COUNT,
             MpProcessSGList(m[1], m[2], n)
      PROVE  RingState'
  <2>1. CtlTypes' /\ FreedTypes' /\ ListTypes' /\ Control'
    BY <1>1 DEF MpProcessSGList, dpcVars, intrVars, linkVars, nblVars,
                resetVars, stateVars, waitVars, CtlTypes, FreedTypes,
                ListTypes, Control, DpcSends
  <2>2. XmitTypes'
    BY <1>1 DEF MpProcessSGList, XmitTypes, CtlTypes, IndexTypes, Control,
                Tcbs, Nbs, ListTypes, dpcVars, intrVars, linkVars, nblVars,
                resetVars, stateVars, waitVars
  <2>3. TcbTypes'
    <3>1. n \in 0 .. NIC_MAX_PHYS_BUF_COUNT
      BY <1>1
    <3>. QED BY <1>1, <3>1, <1>0, TcbGiven DEF MpProcessSGList
  <2>4. IndexTypes'
    <3>1. NextFreeTbd' \in 0 .. nTbds - 1
      BY <1>1, <1>0, SglStep DEF MpProcessSGList, TbdAfter
    <3>. QED BY <1>1, <3>1 DEF MpProcessSGList, IndexTypes
  <2>5. TbdTypes'
    <3>1. tcb[m[1]].nb \in Nbs \cup {NULL}
      BY <1>0 DEF TcbTypes, MP_TCB
    <3>. QED BY <1>1, <3>1 DEF MpProcessSGList, TbdTypes
  <2>6. TcbRing'
    <3>0. n \in 0 .. NIC_MAX_PHYS_BUF_COUNT
      BY <1>1
    <3>1. \A i \in Tcbs : /\ tcb'[i].inUse = tcb[i].inUse
                          /\ tcb'[i].nb = tcb[i].nb
                          /\ tcb'[i].nbl = tcb[i].nbl
      BY <1>1, <1>0, <3>0, TcbGiven DEF MpProcessSGList
    <3>. QED
      BY ZenonT(30), <1>1, <3>1
      DEF MpProcessSGList, TcbRing, TcbDist, stateVars, resetVars
  <2>7. Waiting'
    <3>0. n \in 0 .. NIC_MAX_PHYS_BUF_COUNT
      BY <1>1
    <3>1. \A i \in Tcbs : tcb'[i].inUse = tcb[i].inUse /\ tcb'[i].nb = tcb[i].nb
      BY <1>1, <1>0, <3>0, TcbGiven DEF MpProcessSGList
    <3>2. \A i \in Tcbs : i # m[1] => tcb'[i] = tcb[i]
      BY <1>1, <1>0, <3>0, TcbGiven DEF MpProcessSGList
    <3>3. /\ maps' = maps \ {m} /\ xmit' = xmit /\ CurrSendTail' = CurrSendTail
      BY <1>1, <1>0 DEF MpProcessSGList
    <3>4. \A k \in maps' : k[1] \in Tcbs /\ k[1] # m[1]
      BY <1>0, <3>3 DEF Waiting, XmitTypes
    <3>. QED BY <3>1, <3>2, <3>3, <3>4 DEF Waiting
  <2>. QED BY <2>1, <2>2, <2>3, <2>4, <2>5, <2>6, <2>7
<1>2. ASSUME NEW m \in maps, MpProcessSGListCopyFailed(m[1], m[2])
      PROVE  RingState'
  <2>1. CtlTypes' /\ FreedTypes' /\ TcbTypes' /\ IndexTypes' /\ TbdTypes'
        /\ Control' /\ TcbRing'
    BY <1>2 DEF MpProcessSGListCopyFailed, dpcVars, intrVars, linkVars,
                nicVars, resetVars, stateVars, tbdVars, tcbVars, waitVars,
                CtlTypes, FreedTypes, TcbTypes, IndexTypes, TbdTypes, Control,
                TcbRing, DpcSends, TcbDist
  <2>2. XmitTypes'
    BY <1>2 DEF MpProcessSGListCopyFailed, XmitTypes
  <2>3. ListTypes'
    <3>0. tcb[m[1]].nbl \in Nbls
      BY <1>2, <1>0 DEF MpProcessSGListCopyFailed, TcbRing, TcbTypes, MP_TCB
    <3>1. RefCount' \in [Nbls -> Int]
      BY <1>2, <3>0 DEF MpProcessSGListCopyFailed, ListTypes
    <3>2. owed' \in [Nbls -> Int]
      BY <1>2, CompletedTypes DEF MpProcessSGListCopyFailed, ListTypes
    <3>. QED
      BY <1>2, <3>1, <3>2
      DEF MpProcessSGListCopyFailed, ListTypes, waitVars, stateVars, resetVars,
          dpcVars
  <2>4. Waiting'
    BY <1>2 DEF MpProcessSGListCopyFailed, Waiting, tcbVars
  <2>. QED BY <2>1, <2>2, <2>3, <2>4
<1>3. ASSUME NEW m \in maps, MpProcessSGListLate(m[1], m[2])
      PROVE  RingState'
  <2>1. CtlTypes' /\ FreedTypes' /\ TcbTypes' /\ IndexTypes' /\ TbdTypes'
        /\ ListTypes' /\ Control' /\ TcbRing'
    BY SMTT(30), <1>3
    DEF MpProcessSGListLate, dpcVars, intrVars, linkVars, nblVars, nicVars,
        resetVars, stateVars, tbdVars, tcbVars, waitVars, CtlTypes, FreedTypes,
        TcbTypes, IndexTypes, TbdTypes, ListTypes, Control, TcbRing, DpcSends,
        TcbDist
  <2>2. XmitTypes'
    BY <1>3 DEF MpProcessSGListLate, XmitTypes
  <2>3. Waiting'
    BY <1>3 DEF MpProcessSGListLate, Waiting, tcbVars
  <2>. QED BY <2>1, <2>2, <2>3
<1>4. ASSUME NEW m \in maps, MpProcessSGListBugCheck(m[1], m[2])
      PROVE  RingState'
  <2>1. XmitTypes' /\ FreedTypes' /\ TcbTypes' /\ IndexTypes' /\ TbdTypes'
        /\ ListTypes' /\ TcbRing' /\ Waiting'
    BY ZenonT(30), <1>4
    DEF MpProcessSGListBugCheck, nblVars, nicVars, resetVars, stateVars,
        tbdVars, tcbVars, waitVars, XmitTypes, FreedTypes, TcbTypes,
        IndexTypes, TbdTypes, ListTypes, TcbRing, Waiting, TcbDist
  <2>2. CtlTypes'
    BY <1>4 DEF MpProcessSGListBugCheck, CtlTypes, XmitTypes, intrVars,
                linkVars, nblVars, resetVars, stateVars, tcbVars, waitVars
  <2>3. Control'
    <3>1. FALSE
      BY <1>4, <1>0 DEF MpProcessSGListBugCheck, Waiting, ZeroTcb
    <3>. QED BY <3>1
  <2>. QED BY <2>1, <2>2, <2>3
<1>5. ASSUME NEW m \in maps, MpProcessSGListEmpty(m[1], m[2])
      PROVE  RingState'
  <2>1. CtlTypes' /\ FreedTypes' /\ TcbTypes' /\ IndexTypes' /\ TbdTypes'
        /\ ListTypes' /\ Control' /\ TcbRing'
    BY SMTT(30), <1>5
    DEF MpProcessSGListEmpty, dpcVars, intrVars, linkVars, nblVars, nicVars,
        resetVars, stateVars, tbdVars, tcbVars, waitVars, CtlTypes, FreedTypes,
        TcbTypes, IndexTypes, TbdTypes, ListTypes, Control, TcbRing, DpcSends,
        TcbDist
  <2>2. XmitTypes'
    BY <1>5 DEF MpProcessSGListEmpty, XmitTypes
  <2>3. Waiting'
    BY <1>5 DEF MpProcessSGListEmpty, Waiting, tcbVars
  <2>. QED BY <2>1, <2>2, <2>3
<1>. QED BY <1>1, <1>2, <1>3, <1>4, <1>5
  DEF ProcessSGList

(* The NIC, the cable and interrupts of other causes.                      *)
LEMMA OutsideKeepsRing ==
  ASSUME RingEnv, RingState, Sane', NicTransmit \/ CableChange \/ OtherInterrupt
  PROVE  RingState'
<1>. USE Sizes DEF RingState, SendTypes
<1>1. CASE NicTransmit
  <2>1. XmitTypes' /\ FreedTypes' /\ TcbTypes' /\ ListTypes' /\ Control'
        /\ TcbRing' /\ Waiting'
    BY <1>1 DEF NicTransmit, dpcVars, nblVars, resetVars, stateVars, tcbVars,
                waitVars, XmitTypes, FreedTypes, TcbTypes, ListTypes, Control,
                TcbRing, Waiting, DpcSends, TcbDist
  <2>2. CtlTypes'
    BY <1>1 DEF NicTransmit, CtlTypes, XmitTypes, dpcVars, linkVars, nblVars,
                resetVars, stateVars, tcbVars, waitVars
  <2>3. IndexTypes'
    <3>1. txNext' \in 0 .. nTbds - 1
      BY <1>1, TbdStep, Sizes DEF NicTransmit, INC_TBD, IndexTypes
    <3>. QED BY <1>1, <3>1 DEF NicTransmit, IndexTypes, tcbVars
  <2>4. TbdTypes'
    BY <1>1 DEF NicTransmit, TbdTypes, IndexTypes
  <2>. QED BY <2>1, <2>2, <2>3, <2>4
<1>2. CASE CableChange
  <2>1. XmitTypes' /\ FreedTypes' /\ TcbTypes' /\ IndexTypes' /\ TbdTypes'
        /\ ListTypes' /\ Control' /\ TcbRing' /\ Waiting'
    BY <1>2 DEF CableChange, dpcVars, nblVars, nicVars, resetVars, stateVars,
                tbdVars, tcbVars, waitVars, XmitTypes, FreedTypes, TcbTypes,
                IndexTypes, TbdTypes, ListTypes, Control, TcbRing, Waiting,
                DpcSends, TcbDist
  <2>2. CtlTypes'
    BY <1>2 DEF CableChange, CtlTypes, XmitTypes, dpcVars, nblVars, resetVars,
                stateVars, tcbVars, waitVars
  <2>. QED BY <2>1, <2>2
<1>3. CASE OtherInterrupt
  <2>1. XmitTypes' /\ FreedTypes' /\ TcbTypes' /\ IndexTypes' /\ TbdTypes'
        /\ ListTypes' /\ Control' /\ TcbRing' /\ Waiting'
    BY <1>3 DEF OtherInterrupt, dpcVars, nblVars, nicVars, resetVars,
                stateVars, tbdVars, tcbVars, waitVars, XmitTypes, FreedTypes,
                TcbTypes, IndexTypes, TbdTypes, ListTypes, Control, TcbRing,
                Waiting, DpcSends, TcbDist
  <2>2. CtlTypes'
    BY <1>3 DEF OtherInterrupt, CtlTypes, XmitTypes, dpcVars, linkVars,
                nblVars, resetVars, stateVars, tcbVars, waitVars
  <2>. QED BY <2>1, <2>2
<1>. QED BY <1>1, <1>2, <1>3
  DEF NicTransmit

(* The steps of the DPC.                                                   *)
LEMMA DpcKeepsRing ==
  ASSUME RingEnv, RingState, Sane', Dpc
  PROVE  RingState'
<1>. USE Sizes DEF RingState, SendTypes
<1>1. CASE DpcAck
  <2>1. XmitTypes' /\ FreedTypes' /\ TcbTypes' /\ IndexTypes' /\ TbdTypes'
        /\ ListTypes' /\ TcbRing' /\ Waiting'
    BY SMTT(60), <1>1
    DEF DpcAck, nblVars, nicVars, resetVars, stateVars, tbdVars, tcbVars,
        waitVars, XmitTypes, FreedTypes, TcbTypes, IndexTypes, TbdTypes,
        ListTypes, TcbRing, Waiting, TcbDist
  <2>2. CtlTypes'
    BY <1>1 DEF DpcAck, CtlTypes, XmitTypes, linkVars, nblVars, resetVars,
                stateVars, tcbVars, waitVars
  <2>3. Control'
    BY <1>1 DEF DpcAck, Control, DpcSends, CtlTypes, XmitTypes, FreedTypes,
                linkVars, nblVars, resetVars, stateVars, tcbVars, waitVars
  <2>. QED BY <2>1, <2>2, <2>3
<1>2. CASE DpcLinkState
  <2>1. XmitTypes' /\ FreedTypes' /\ TcbTypes' /\ IndexTypes' /\ TbdTypes'
        /\ ListTypes' /\ TcbRing' /\ Waiting'
    BY SMTT(30), <1>2
    DEF DpcLinkState, nblVars, nicVars, resetVars, stateVars, tbdVars, tcbVars,
        waitVars, XmitTypes, FreedTypes, TcbTypes, IndexTypes, TbdTypes,
        ListTypes, TcbRing, Waiting, TcbDist
  <2>2. CtlTypes'
    BY <1>2 DEF DpcLinkState, CtlTypes, XmitTypes, intrVars, nblVars,
                resetVars, stateVars, tcbVars, waitVars
  <2>3. Control'
    BY <1>2 DEF DpcLinkState, Control, DpcSends, CtlTypes, XmitTypes,
                FreedTypes, intrVars, nblVars, resetVars, stateVars, tcbVars,
                waitVars
  <2>. QED BY <2>1, <2>2, <2>3
<1>3. CASE DpcLinkFlag
  <2>1. XmitTypes' /\ FreedTypes' /\ TcbTypes' /\ IndexTypes' /\ TbdTypes'
        /\ ListTypes' /\ TcbRing' /\ Waiting'
    BY SMTT(30), <1>3
    DEF DpcLinkFlag, nblVars, nicVars, resetVars, stateVars, tbdVars, tcbVars,
        waitVars, XmitTypes, FreedTypes, TcbTypes, IndexTypes, TbdTypes,
        ListTypes, TcbRing, Waiting, TcbDist
  <2>2. CtlTypes'
    BY <1>3 DEF DpcLinkFlag, CtlTypes, XmitTypes, intrVars, nblVars, resetVars,
                stateVars, tcbVars, waitVars
  <2>3. Control'
    BY <1>3 DEF DpcLinkFlag, Control, DpcSends, CtlTypes, XmitTypes,
                FreedTypes, intrVars, nblVars, resetVars, stateVars, tcbVars,
                waitVars
  <2>. QED BY <2>1, <2>2, <2>3
<1>4. CASE DpcRelock
  <2>1. XmitTypes' /\ FreedTypes' /\ TcbTypes' /\ IndexTypes' /\ TbdTypes'
        /\ ListTypes' /\ TcbRing' /\ Waiting'
    BY SMTT(30), <1>4
    DEF DpcRelock, nblVars, nicVars, resetVars, stateVars, tbdVars, tcbVars,
        waitVars, XmitTypes, FreedTypes, TcbTypes, IndexTypes, TbdTypes,
        ListTypes, TcbRing, Waiting, TcbDist
  <2>2. CtlTypes'
    BY <1>4 DEF DpcRelock, CtlTypes, XmitTypes, intrVars, linkVars, nblVars,
                resetVars, stateVars, tcbVars, waitVars
  <2>3. Control'
    BY <1>4 DEF DpcRelock, Control, DpcSends, CtlTypes, XmitTypes, FreedTypes,
                intrVars, linkVars, nblVars, resetVars, stateVars, tcbVars,
                waitVars
  <2>. QED BY <2>1, <2>2, <2>3
<1>5. CASE DpcSendIdle
  <2>1. XmitTypes' /\ FreedTypes' /\ TcbTypes' /\ IndexTypes' /\ TbdTypes'
        /\ ListTypes' /\ TcbRing' /\ Waiting'
    BY SMTT(30), <1>5
    DEF DpcSendIdle, nblVars, nicVars, resetVars, stateVars, tbdVars, tcbVars,
        waitVars, XmitTypes, FreedTypes, TcbTypes, IndexTypes, TbdTypes,
        ListTypes, TcbRing, Waiting, TcbDist
  <2>2. CtlTypes'
    BY <1>5 DEF DpcSendIdle, CtlTypes, XmitTypes, linkVars, nblVars, resetVars,
                stateVars, tcbVars, waitVars
  <2>3. Control'
    BY <1>5 DEF DpcSendIdle, Control, DpcSends, CtlTypes, XmitTypes,
                FreedTypes, linkVars, nblVars, resetVars, stateVars, tcbVars,
                waitVars
  <2>. QED BY <2>1, <2>2, <2>3
<1>6. CASE DpcSendEnter
  <2>1. XmitTypes' /\ FreedTypes' /\ TcbTypes' /\ IndexTypes' /\ TbdTypes'
        /\ ListTypes' /\ TcbRing' /\ Waiting'
    BY ZenonT(30), <1>6
    DEF DpcSendEnter, nblVars, nicVars, resetVars, stateVars, tbdVars, tcbVars,
        waitVars, XmitTypes, FreedTypes, TcbTypes, IndexTypes, TbdTypes,
        ListTypes, TcbRing, Waiting, TcbDist
  <2>2. CtlTypes'
    BY <1>6 DEF DpcSendEnter, CtlTypes, XmitTypes, intrVars, linkVars, nblVars,
                resetVars, stateVars, tcbVars, waitVars
  <2>3. Control'
    BY <1>6 DEF DpcSendEnter, Control, DpcSends, CtlTypes, XmitTypes,
                FreedTypes, intrVars, linkVars, nblVars, resetVars, stateVars,
                tcbVars, waitVars
  <2>. QED BY <2>1, <2>2, <2>3
<1>7. CASE DpcFreeTcb
  <2>1. XmitTypes' /\ TbdTypes' /\ ListTypes'
    BY <1>7 DEF DpcFreeTcb, nblVars, resetVars, stateVars, tbdVars, waitVars,
                XmitTypes, TbdTypes, ListTypes
  <2>2. CtlTypes'
    BY <1>7 DEF DpcFreeTcb, CtlTypes, XmitTypes, intrVars, linkVars, nblVars,
                resetVars, stateVars, waitVars
  <2>3. FreedTypes'
    BY <1>7 DEF DpcFreeTcb, FreedTypes, TcbTypes, MP_TCB, IndexTypes,
                stateVars, resetVars
  <2>4. TcbTypes'
    BY <1>7, TcbFreed DEF DpcFreeTcb, IndexTypes
  <2>5. IndexTypes'
    BY <1>7 DEF DpcFreeTcb, IndexTypes, NextTcb, NthTcb, Tcbs, tbdVars, nicVars
  <2>6. Control'
    <3>1. tcb[CurrSendHead].nbl # NULL
      BY <1>7, HeadInUse, Sizes DEF DpcFreeTcb
    <3>. QED
      BY <1>7, <3>1
      DEF DpcFreeTcb, Control, DpcSends, waitVars, stateVars, resetVars
  <2>7. TcbRing'
    <3>1. nBusySend > 0 /\ CurrSendHead \in Tcbs /\ nBusySend \in 1 .. NumTcb
      BY <1>7 DEF DpcFreeTcb, IndexTypes, TcbRing
    <3>2. /\ nBusySend' = nBusySend - 1 /\ CurrSendTail' = CurrSendTail
          /\ CurrSendHead' = NextTcb(CurrSendHead)
          /\ reset' = reset
      BY <1>7 DEF DpcFreeTcb, stateVars, resetVars
    <3>3. /\ ~ tcb'[CurrSendHead].inUse /\ tcb'[CurrSendHead].nb = NULL
          /\ \A i \in Tcbs : i # CurrSendHead => tcb'[i] = tcb[i]
      BY <1>7, <3>1, TcbFreed DEF DpcFreeTcb
    <3>4. \A i \in Tcbs : TcbDist(i)' = IF i = CurrSendHead THEN NumTcb - 1
                                        ELSE TcbDist(i) - 1
      BY <3>1, <3>2 DEF TcbDist, NextTcb, NthTcb, Tcbs
    <3>5. \A i \in Tcbs : tcb'[i].inUse <=> TcbDist(i)' < nBusySend'
      BY <3>1, <3>2, <3>3, <3>4, DistRange DEF TcbRing
    <3>6. CurrSendTail' = NthTcb(CurrSendHead', nBusySend')
      BY <3>1, <3>2 DEF TcbRing, NthTcb, NextTcb, Tcbs
    <3>. QED BY <3>1, <3>2, <3>3, <3>5, <3>6 DEF TcbRing
  <2>8. Waiting'
    <3>1. CurrSendHead \in Tcbs /\ tcb[CurrSendHead].nTbds > 0
      BY <1>7 DEF DpcFreeTcb, Sent, IndexTypes
    <3>2. \A i \in Tcbs : i # CurrSendHead => tcb'[i] = tcb[i]
      BY <1>7, <3>1, TcbFreed DEF DpcFreeTcb
    <3>3. \A m \in maps : m[1] \in Tcbs /\ m[1] # CurrSendHead
      BY <3>1 DEF Waiting, XmitTypes
    <3>. QED BY <1>7, <3>2, <3>3 DEF DpcFreeTcb, Waiting
  <2>. QED BY <2>1, <2>2, <2>3, <2>4, <2>5, <2>6, <2>7, <2>8
<1>8. CASE DpcFreeSGList
  <2>1. XmitTypes' /\ TcbTypes' /\ IndexTypes' /\ TbdTypes' /\ TcbRing'
        /\ Waiting'
    BY <1>8 DEF DpcFreeSGList, nicVars, resetVars, stateVars, tbdVars, tcbVars,
                XmitTypes, TcbTypes, IndexTypes, TbdTypes, TcbRing, Waiting,
                TcbDist
  <2>2. CtlTypes'
    BY <1>8 DEF DpcFreeSGList, CtlTypes, XmitTypes, intrVars, linkVars,
                resetVars, stateVars, tcbVars, waitVars
  <2>3. FreedTypes'
    BY <1>8 DEF DpcFreeSGList, FreedTypes, NoFreed, Tcbs, stateVars, resetVars
  <2>4. ListTypes'
    <3>1. freed.nbl \in Nbls
      BY <1>8 DEF DpcFreeSGList, Control, FreedTypes
    <3>2. RefCount' \in [Nbls -> Int]
      BY <1>8, <3>1, ListSteps DEF DpcFreeSGList
    <3>3. CompleteNetBufferLists' \in Seq(Nbls)
      BY ZenonT(30), <1>8, <3>1, ListSteps DEF DpcFreeSGList, ListTypes
    <3>. QED
      BY <1>8, <3>2, <3>3 DEF DpcFreeSGList, ListTypes, waitVars, stateVars,
                              resetVars
  <2>5. Control'
    BY <1>8 DEF DpcFreeSGList, NoFreed, Control, DpcSends, XmitTypes, waitVars,
                stateVars, resetVars
  <2>. QED BY <2>1, <2>2, <2>3, <2>4, <2>5
<1>9. CASE DpcReapEnd
  <2>1. XmitTypes' /\ FreedTypes' /\ TcbTypes' /\ IndexTypes' /\ TbdTypes'
        /\ ListTypes' /\ TcbRing' /\ Waiting'
    BY ZenonT(30), <1>9
    DEF DpcReapEnd, nblVars, nicVars, resetVars, stateVars, tbdVars, tcbVars,
        waitVars, XmitTypes, FreedTypes, TcbTypes, IndexTypes, TbdTypes,
        ListTypes, TcbRing, Waiting, TcbDist
  <2>2. CtlTypes'
    BY <1>9 DEF DpcReapEnd, CtlTypes, XmitTypes, intrVars, linkVars, nblVars,
                resetVars, stateVars, tcbVars, waitVars
  <2>3. Control'
    BY <1>9 DEF DpcReapEnd, Control, DpcSends, CtlTypes, XmitTypes, FreedTypes,
                intrVars, linkVars, nblVars, resetVars, stateVars, tcbVars,
                waitVars
  <2>. QED BY <2>1, <2>2, <2>3
<1>10. CASE DpcComplete
  <2>1. XmitTypes' /\ FreedTypes' /\ TcbTypes' /\ IndexTypes' /\ TbdTypes'
        /\ TcbRing' /\ Waiting'
    BY <1>10 DEF DpcComplete, nicVars, resetVars, stateVars, tbdVars, tcbVars,
                 XmitTypes, FreedTypes, TcbTypes, IndexTypes, TbdTypes,
                 TcbRing, Waiting, TcbDist
  <2>2. CtlTypes'
    BY <1>10 DEF DpcComplete, CtlTypes, XmitTypes, intrVars, linkVars,
                 resetVars, stateVars, tcbVars, waitVars
  <2>3. ListTypes'
    <3>1. owed' \in [Nbls -> Int]
      BY <1>10, CompletedTypes DEF DpcComplete
    <3>2. CompleteNetBufferLists' \in Seq(Nbls)
      BY <1>10 DEF DpcComplete
    <3>. QED
      BY <1>10, <3>1, <3>2
      DEF DpcComplete, ListTypes, waitVars, stateVars, resetVars
  <2>4. Control'
    BY <1>10 DEF DpcComplete, Control, DpcSends, CtlTypes, XmitTypes,
                 FreedTypes, intrVars, linkVars, resetVars, stateVars, tcbVars,
                 waitVars
  <2>. QED BY <2>1, <2>2, <2>3, <2>4
<1>11. CASE DpcDequeue
  <2>1. FreedTypes' /\ TcbTypes' /\ IndexTypes' /\ TbdTypes' /\ TcbRing'
    BY <1>11 DEF DpcDequeue, nicVars, resetVars, stateVars, tbdVars, tcbVars,
                 FreedTypes, TcbTypes, IndexTypes, TbdTypes, TcbRing, TcbDist
  <2>2. CtlTypes'
    BY <1>11 DEF DpcDequeue, CanDequeue, CtlTypes, ListTypes, stateVars,
                 resetVars, linkVars, intrVars
  <2>3. XmitTypes'
    <3>1. Head(SendWaitQueue) \in Nbls
      BY <1>11 DEF DpcDequeue, CanDequeue, ListTypes
    <3>. QED BY <1>11, <3>1 DEF DpcDequeue, XmitTypes, ListTypes, Tcbs
  <2>4. ListTypes'
    BY <1>11 DEF DpcDequeue, ListTypes, stateVars, resetVars
  <2>5. Control'
    <3>1. Head(SendWaitQueue) \in Nbls
      BY <1>11 DEF DpcDequeue, CanDequeue, ListTypes
    <3>. QED
      BY <1>11, <3>1
      DEF DpcDequeue, CanDequeue, MP_IS_READY, Control, DpcSends, stateVars,
          resetVars
  <2>6. Waiting'
    BY <1>11 DEF DpcDequeue, CanDequeue, Control, Waiting, tcbVars
  <2>. QED BY <2>1, <2>2, <2>3, <2>4, <2>5, <2>6
<1>12. CASE DpcDequeueEnd
  <2>1. XmitTypes' /\ FreedTypes' /\ TcbTypes' /\ IndexTypes' /\ TbdTypes'
        /\ ListTypes' /\ TcbRing' /\ Waiting'
    BY ZenonT(30), <1>12
    DEF DpcDequeueEnd, nblVars, nicVars, resetVars, stateVars, tbdVars,
        tcbVars, waitVars, XmitTypes, FreedTypes, TcbTypes, IndexTypes,
        TbdTypes, ListTypes, TcbRing, Waiting, TcbDist
  <2>2. CtlTypes'
    BY <1>12 DEF DpcDequeueEnd, CtlTypes, XmitTypes, linkVars, nblVars,
                 resetVars, stateVars, tcbVars, waitVars
  <2>3. Control'
    BY <1>12 DEF DpcDequeueEnd, Control, DpcSends, CtlTypes, XmitTypes,
                 FreedTypes, linkVars, nblVars, resetVars, stateVars, tcbVars,
                 waitVars
  <2>. QED BY <2>1, <2>2, <2>3
<1>. QED BY <1>1, <1>2, <1>3, <1>4, <1>5, <1>6, <1>7, <1>8, <1>9, <1>10, <1>11,
            <1>12
  DEF Dpc

(* The steps of MPPause and MPRestart; nothing is cancelled.               *)
LEMMA NdisKeepsRing ==
  ASSUME RingEnv, RingState, Sane', Ndis
  PROVE  RingState'
<1>. USE Sizes DEF RingState, SendTypes
<1>1. CASE MPPause
  <2>1. XmitTypes' /\ FreedTypes' /\ TcbTypes' /\ IndexTypes' /\ TbdTypes'
        /\ ListTypes' /\ Control' /\ TcbRing' /\ Waiting'
    BY <1>1 DEF MPPause, dpcVars, nblVars, nicVars, resetVars, tbdVars,
                tcbVars, waitVars, XmitTypes, FreedTypes, TcbTypes, IndexTypes,
                TbdTypes, ListTypes, Control, TcbRing, Waiting, DpcSends,
                TcbDist
  <2>2. CtlTypes'
    BY <1>1 DEF MPPause, CtlTypes, XmitTypes, dpcVars, intrVars, linkVars,
                nblVars, resetVars, tcbVars, waitVars
  <2>. QED BY <2>1, <2>2
<1>2. CASE MPPauseQueue
  <2>1. XmitTypes' /\ FreedTypes' /\ TcbTypes' /\ IndexTypes' /\ TbdTypes'
        /\ Control' /\ TcbRing' /\ Waiting'
    BY <1>2 DEF MPPauseQueue, dpcVars, nicVars, tbdVars, tcbVars, XmitTypes,
                FreedTypes, TcbTypes, IndexTypes, TbdTypes, Control, TcbRing,
                Waiting, DpcSends, TcbDist
  <2>2. CtlTypes'
    BY <1>2 DEF MPPauseQueue, CtlTypes, XmitTypes, dpcVars, intrVars, linkVars,
                tcbVars
  <2>3. ListTypes'
    <3>1. RefCount' \in [Nbls -> Int]
      BY <1>2 DEF MPPauseQueue, MpFreeQueuedSendNetBufferLists, LeftOf,
                  ListTypes
    <3>2. owed' \in [Nbls -> Int]
      BY <1>2, CompletedTypes DEF MPPauseQueue, MpFreeQueuedSendNetBufferLists
    <3>3. SendWaitQueue' \in Seq(Nbls)
      BY <1>2 DEF MPPauseQueue, MpFreeQueuedSendNetBufferLists
    <3>. QED BY <1>2, <3>1, <3>2, <3>3 DEF MPPauseQueue, ListTypes, dpcVars
  <2>. QED BY <2>1, <2>2, <2>3
<1>3. CASE MPPauseReturn
  <2>1. XmitTypes' /\ FreedTypes' /\ TcbTypes' /\ IndexTypes' /\ TbdTypes'
        /\ ListTypes' /\ Control' /\ TcbRing' /\ Waiting'
    BY <1>3 DEF MPPauseReturn, dpcVars, nblVars, nicVars, resetVars, tbdVars,
                tcbVars, waitVars, XmitTypes, FreedTypes, TcbTypes, IndexTypes,
                TbdTypes, ListTypes, Control, TcbRing, Waiting, DpcSends,
                TcbDist
  <2>2. CtlTypes'
    BY <1>3 DEF MPPauseReturn, CtlTypes, XmitTypes, dpcVars, intrVars,
                linkVars, nblVars, resetVars, tcbVars, waitVars
  <2>. QED BY <2>1, <2>2
<1>4. CASE MPRestart
  <2>1. XmitTypes' /\ FreedTypes' /\ TcbTypes' /\ IndexTypes' /\ TbdTypes'
        /\ ListTypes' /\ Control' /\ TcbRing' /\ Waiting'
    BY <1>4 DEF MPRestart, dpcVars, nblVars, nicVars, resetVars, tbdVars,
                tcbVars, waitVars, XmitTypes, FreedTypes, TcbTypes, IndexTypes,
                TbdTypes, ListTypes, Control, TcbRing, Waiting, DpcSends,
                TcbDist
  <2>2. CtlTypes'
    BY <1>4 DEF MPRestart, CtlTypes, XmitTypes, dpcVars, intrVars, linkVars,
                nblVars, resetVars, tcbVars, waitVars
  <2>. QED BY <2>1, <2>2
<1>5. ASSUME NEW S \in SUBSET Nbls, MPCancelSendNetBufferLists(S)
      PROVE  RingState'
  BY <1>5 DEF MPCancelSendNetBufferLists, RingEnv
<1>. QED BY <1>1, <1>2, <1>3, <1>4, <1>5
  DEF Ndis

(* The steps of MPReset.                                                   *)
LEMMA ResetKeepsRing ==
  ASSUME RingEnv, RingState, Sane', Reset
  PROVE  RingState'
<1>. USE Sizes DEF RingState, SendTypes
<1>1. CASE MPReset
  <2>1. XmitTypes' /\ FreedTypes' /\ TcbTypes' /\ TbdTypes' /\ ListTypes'
        /\ Waiting'
    BY <1>1 DEF MPReset, dpcVars, nblVars, tbdVars, tcbVars, waitVars,
                XmitTypes, FreedTypes, TcbTypes, TbdTypes, ListTypes, Waiting
  <2>2. CtlTypes'
    BY <1>1 DEF MPReset, CtlTypes, XmitTypes, dpcVars, linkVars, nblVars,
                tcbVars, waitVars
  <2>3. IndexTypes'
    BY <1>1 DEF MPReset, IndexTypes, tcbVars, tbdVars
  <2>4. Control'
    BY <1>1 DEF MPReset, Control, DpcSends, CtlTypes, XmitTypes, FreedTypes,
                dpcVars, linkVars, nblVars, tcbVars, waitVars
  <2>5. TcbRing'
    BY <1>1 DEF MPReset, TcbRing, TcbDist, tcbVars
  <2>. QED BY <2>1, <2>2, <2>3, <2>4, <2>5
<1>2. CASE MPResetQueue
  <2>1. XmitTypes' /\ FreedTypes' /\ TcbTypes' /\ IndexTypes' /\ TbdTypes'
        /\ Waiting'
    BY <1>2 DEF MPResetQueue, dpcVars, nicVars, tbdVars, tcbVars, XmitTypes,
                FreedTypes, TcbTypes, IndexTypes, TbdTypes, Waiting
  <2>2. CtlTypes'
    BY <1>2 DEF MPResetQueue, CtlTypes, XmitTypes, dpcVars, intrVars, linkVars,
                tcbVars
  <2>3. ListTypes'
    <3>1. RefCount' \in [Nbls -> Int]
      BY <1>2 DEF MPResetQueue, MpFreeQueuedSendNetBufferLists, LeftOf,
                  ListTypes
    <3>2. owed' \in [Nbls -> Int]
      BY <1>2, CompletedTypes DEF MPResetQueue, MpFreeQueuedSendNetBufferLists
    <3>3. SendWaitQueue' \in Seq(Nbls)
      BY <1>2 DEF MPResetQueue, MpFreeQueuedSendNetBufferLists
    <3>. QED BY <1>2, <3>1, <3>2, <3>3 DEF MPResetQueue, ListTypes, dpcVars
  <2>4. Control'
    <3>1. "reset" \in Env
      BY <1>2 DEF MPResetQueue, Control
    <3>2. xmit.pc = "idle"
      BY <1>2, <3>1 DEF Sane, MPResetQueue, MpFreeQueuedSendNetBufferLists
    <3>. QED
      BY <1>2, <3>1, <3>2 DEF MPResetQueue, Control, DpcSends, dpcVars,
                              XmitTypes
  <2>5. TcbRing'
    BY <1>2 DEF MPResetQueue, TcbRing, TcbDist, tcbVars
  <2>. QED BY <2>1, <2>2, <2>3, <2>4, <2>5
<1>3. CASE MPResetFreeTcb
  <2>1. XmitTypes' /\ TbdTypes'
    BY <1>3 DEF MPResetFreeTcb, dpcVars, tbdVars, XmitTypes, TbdTypes
  <2>2. CtlTypes'
    BY <1>3 DEF MPResetFreeTcb, CtlTypes, XmitTypes, dpcVars, intrVars,
                linkVars, waitVars
  <2>3. FreedTypes'
    BY <1>3 DEF MPResetFreeTcb, FreedTypes, TcbTypes, MP_TCB, IndexTypes,
                dpcVars
  <2>4. TcbTypes'
    BY <1>3, TcbFreed DEF MPResetFreeTcb, IndexTypes
  <2>5. IndexTypes'
    BY <1>3 DEF MPResetFreeTcb, IndexTypes, NextTcb, NthTcb, Tcbs, tbdVars,
                nicVars
  <2>6. ListTypes'
    <3>1. tcb[CurrSendHead].nbl \in Nbls
      BY <1>3, HeadInUse, Sizes DEF MPResetFreeTcb, BusyIsLeft
    <3>0. Abort(tcb[CurrSendHead].nbl) \/ UNCHANGED <<RefCount, aborted>>
      BY <1>3 DEF MPResetFreeTcb
    <3>2. RefCount' \in [Nbls -> Int]
      BY <3>0, <3>1, AbortTypes DEF ListTypes
    <3>3. aborted' \in Seq(Nbls)
      BY <3>0, <3>1, AbortTypes DEF ListTypes
    <3>. QED BY <1>3, <3>2, <3>3 DEF MPResetFreeTcb, ListTypes, waitVars,
                                     dpcVars
  <2>7. Control'
    <3>1. tcb[CurrSendHead].nbl # NULL
      BY <1>3, HeadInUse, Sizes DEF MPResetFreeTcb, BusyIsLeft
    <3>. QED
      BY <1>3, <3>1
      DEF MPResetFreeTcb, ResetHolds, Control, DpcSends, waitVars, dpcVars
  <2>8. TcbRing'
    <3>1. nBusySend > 0 /\ CurrSendHead \in Tcbs /\ nBusySend \in 1 .. NumTcb
      BY <1>3 DEF MPResetFreeTcb, BusyIsLeft, IndexTypes, TcbRing
    <3>2. /\ nBusySend' = nBusySend - 1 /\ CurrSendTail' = CurrSendTail
          /\ CurrSendHead' = NextTcb(CurrSendHead)
          /\ reset' \notin {"complete", "init", "receive"}
      BY <1>3 DEF MPResetFreeTcb, stateVars, resetVars
    <3>3. /\ ~ tcb'[CurrSendHead].inUse /\ tcb'[CurrSendHead].nb = NULL
          /\ \A i \in Tcbs : i # CurrSendHead => tcb'[i] = tcb[i]
      BY <1>3, <3>1, TcbFreed DEF MPResetFreeTcb
    <3>4. \A i \in Tcbs : TcbDist(i)' = IF i = CurrSendHead THEN NumTcb - 1
                                        ELSE TcbDist(i) - 1
      BY <3>1, <3>2 DEF TcbDist, NextTcb, NthTcb, Tcbs
    <3>5. \A i \in Tcbs : tcb'[i].inUse <=> TcbDist(i)' < nBusySend'
      BY <3>1, <3>2, <3>3, <3>4, DistRange DEF TcbRing
    <3>6. CurrSendTail' = NthTcb(CurrSendHead', nBusySend')
      BY <3>1, <3>2 DEF TcbRing, NthTcb, NextTcb, Tcbs
    <3>. QED BY <3>1, <3>2, <3>3, <3>5, <3>6 DEF TcbRing
  <2>9. Waiting'
    <3>1. maps = {} /\ xmit.pc = "idle"
      BY <1>3 DEF MPResetFreeTcb, Control, Waiting, RingEnv
    <3>. QED BY <1>3, <3>1 DEF MPResetFreeTcb, Waiting
  <2>. QED BY <2>1, <2>2, <2>3, <2>4, <2>5, <2>6, <2>7, <2>8, <2>9
<1>4. CASE MPResetFreeSGList
  <2>1. XmitTypes' /\ TcbTypes' /\ IndexTypes' /\ TbdTypes' /\ Waiting'
    BY <1>4 DEF MPResetFreeSGList, dpcVars, nicVars, tbdVars, tcbVars,
                XmitTypes, TcbTypes, IndexTypes, TbdTypes, Waiting
  <2>2. CtlTypes'
    BY <1>4 DEF MPResetFreeSGList, CtlTypes, XmitTypes, dpcVars, intrVars,
                linkVars, tcbVars, waitVars
  <2>3. FreedTypes'
    BY <1>4 DEF MPResetFreeSGList, FreedTypes, dpcVars
  <2>4. ListTypes'
    <3>1. rfreed \in Nbls
      BY <1>4 DEF MPResetFreeSGList, Control, FreedTypes
    <3>2. RefCount' \in [Nbls -> Int]
      BY <1>4, <3>1, ListSteps DEF MPResetFreeSGList, Abort, ListTypes
    <3>3. aborted' \in Seq(Nbls)
      BY ZenonT(30), <1>4, <3>1, ListSteps
      DEF MPResetFreeSGList, Abort, ListTypes
    <3>. QED BY <1>4, <3>2, <3>3 DEF MPResetFreeSGList, ListTypes, waitVars,
                                     dpcVars
  <2>5. Control'
    BY <1>4 DEF MPResetFreeSGList, Control, DpcSends, CtlTypes, XmitTypes,
                FreedTypes, dpcVars, intrVars, linkVars, tcbVars, waitVars
  <2>6. TcbRing'
    BY <1>4 DEF MPResetFreeSGList, TcbRing, TcbDist, tcbVars
  <2>. QED BY <2>1, <2>2, <2>3, <2>4, <2>5, <2>6
<1>5. CASE MPResetFreed
  <2>1. XmitTypes' /\ FreedTypes' /\ TcbTypes' /\ IndexTypes' /\ TbdTypes'
        /\ ListTypes' /\ Waiting'
    BY <1>5 DEF MPResetFreed, ResetHolds, dpcVars, nblVars, nicVars, tbdVars,
                tcbVars, waitVars, XmitTypes, FreedTypes, TcbTypes, IndexTypes,
                TbdTypes, ListTypes, Waiting
  <2>2. CtlTypes'
    BY <1>5 DEF MPResetFreed, ResetHolds, CtlTypes, XmitTypes, dpcVars,
                intrVars, linkVars, nblVars, tcbVars, waitVars
  <2>3. Control'
    BY <1>5 DEF MPResetFreed, ResetHolds, Control, DpcSends, CtlTypes,
                XmitTypes, FreedTypes, dpcVars, intrVars, linkVars, nblVars,
                tcbVars, waitVars
  <2>4. TcbRing'
    BY <1>5 DEF MPResetFreed, BusyIsLeft, TcbRing, TcbDist, tcbVars
  <2>. QED BY <2>1, <2>2, <2>3, <2>4
<1>6. CASE MPResetComplete
  <2>1. XmitTypes' /\ FreedTypes' /\ TcbTypes' /\ IndexTypes' /\ TbdTypes'
        /\ Waiting'
    BY <1>6 DEF MPResetComplete, dpcVars, nicVars, tbdVars, tcbVars, XmitTypes,
                FreedTypes, TcbTypes, IndexTypes, TbdTypes, Waiting
  <2>2. CtlTypes'
    BY <1>6 DEF MPResetComplete, CtlTypes, XmitTypes, dpcVars, intrVars,
                linkVars, tcbVars, waitVars
  <2>3. ListTypes'
    <3>1. owed' \in [Nbls -> Int]
      BY <1>6, CompletedTypes DEF MPResetComplete
    <3>2. aborted' \in Seq(Nbls)
      BY <1>6 DEF MPResetComplete
    <3>. QED BY <1>6, <3>1, <3>2 DEF MPResetComplete, ListTypes, waitVars,
                                     dpcVars
  <2>4. Control'
    BY <1>6 DEF MPResetComplete, Control, DpcSends, CtlTypes, XmitTypes,
                FreedTypes, dpcVars, intrVars, linkVars, tcbVars, waitVars
  <2>5. TcbRing'
    BY <1>6 DEF MPResetComplete, TcbRing, TcbDist, tcbVars
  <2>. QED BY <2>1, <2>2, <2>3, <2>4, <2>5
<1>7. CASE MPResetInitSend
  <2>1. XmitTypes' /\ FreedTypes' /\ ListTypes'
    BY <1>7 DEF MPResetInitSend, ResetHolds, dpcVars, nblVars, waitVars,
                XmitTypes, FreedTypes, ListTypes
  <2>2. CtlTypes'
    BY <1>7 DEF MPResetInitSend, ResetHolds, CtlTypes, XmitTypes, dpcVars,
                intrVars, linkVars, nblVars, waitVars
  <2>3. TcbTypes'
    BY <1>7 DEF MPResetInitSend, ZeroTcb, TcbTypes, MP_TCB
  <2>4. IndexTypes'
    BY <1>7 DEF MPResetInitSend, IndexTypes, Tcbs, nicVars
  <2>5. TbdTypes'
    BY <1>7 DEF MPResetInitSend, ZeroTbd, TbdTypes
  <2>6. Control'
    BY <1>7 DEF MPResetInitSend, ResetHolds, Control, DpcSends, CtlTypes,
                XmitTypes, FreedTypes, dpcVars, intrVars, linkVars, nblVars,
                waitVars
  <2>7. TcbRing'
    <3>1. nBusySend = 0 /\ nBusySend' = 0
      BY <1>7 DEF MPResetInitSend, TcbRing
    <3>2. \A i \in Tcbs : ~ tcb'[i].inUse /\ tcb'[i].nb = NULL
      BY <1>7 DEF MPResetInitSend, ZeroTcb
    <3>3. \A i \in Tcbs : TcbDist(i)' >= 0
      BY <1>7 DEF MPResetInitSend, TcbDist, Tcbs
    <3>4. CurrSendTail' = NthTcb(CurrSendHead', nBusySend')
      BY <1>7, <3>1 DEF MPResetInitSend, NthTcb
    <3>5. \A i \in Tcbs : TcbDist(i)' \in Int
      BY <1>7 DEF MPResetInitSend, TcbDist, Tcbs
    <3>. QED BY <3>1, <3>2, <3>3, <3>4, <3>5 DEF TcbRing
  <2>8. Waiting'
    <3>1. maps = {} /\ xmit.pc = "idle"
      BY <1>7 DEF MPResetInitSend, Control, Waiting, RingEnv
    <3>. QED BY <1>7, <3>1 DEF MPResetInitSend, Waiting
  <2>. QED BY <2>1, <2>2, <2>3, <2>4, <2>5, <2>6, <2>7, <2>8
<1>8. CASE MPResetEnd
  <2>1. XmitTypes' /\ FreedTypes' /\ TcbTypes' /\ IndexTypes' /\ TbdTypes'
        /\ ListTypes' /\ Waiting'
    BY <1>8 DEF MPResetEnd, dpcVars, nblVars, nicVars, tbdVars, tcbVars,
                waitVars, XmitTypes, FreedTypes, TcbTypes, IndexTypes,
                TbdTypes, ListTypes, Waiting
  <2>2. CtlTypes'
    BY <1>8 DEF MPResetEnd, CtlTypes, XmitTypes, dpcVars, linkVars, nblVars,
                tcbVars, waitVars
  <2>3. Control'
    BY <1>8 DEF MPResetEnd, Control, DpcSends, CtlTypes, XmitTypes, FreedTypes,
                dpcVars, linkVars, nblVars, tcbVars, waitVars
  <2>4. TcbRing'
    BY <1>8 DEF MPResetEnd, TcbRing, TcbDist, tcbVars
  <2>. QED BY <2>1, <2>2, <2>3, <2>4
<1>. QED BY <1>1, <1>2, <1>3, <1>4, <1>5, <1>6, <1>7, <1>8
  DEF Reset

(* Types, the ring of TCBs, and where the threads are, in every state that *)
(* a reset did not make a mess of.                                         *)
THEOREM RingInvariant == RingEnv => (Spec => []RingInv)
<1>. SUFFICES ASSUME RingEnv PROVE Spec => []RingInv
  OBVIOUS
<1>1. Init => RingInv
  BY RingInvInit DEF RingInv
<1>2. RingInv /\ [Next]_sendVars => RingInv'
  <2>. SUFFICES ASSUME RingInv, [Next]_sendVars, Sane' PROVE RingState'
    BY DEF RingInv
  <2>0. RingState
    BY SaneEarlier DEF RingInv
  <2>1. CASE Enter \/ SendLocked BY <2>0, <2>1, SendKeepsRing
  <2>2. CASE Xmit BY <2>0, <2>2, XmitKeepsRing
  <2>3. CASE ProcessSGList BY <2>0, <2>3, MappedKeepsRing
  <2>4. CASE NicTransmit \/ CableChange \/ OtherInterrupt
    BY <2>0, <2>4, OutsideKeepsRing
  <2>5. CASE Dpc BY <2>0, <2>5, DpcKeepsRing
  <2>6. CASE Ndis BY <2>0, <2>6, NdisKeepsRing
  <2>7. CASE Reset BY <2>0, <2>7, ResetKeepsRing
  <2>8. CASE UNCHANGED sendVars
    BY <2>0, <2>8, QuietKeepsRing
  <2>. QED BY <2>1, <2>2, <2>3, <2>4, <2>5, <2>6, <2>7, <2>8 DEF Next
<1>. QED BY <1>1, <1>2, PTL DEF Spec

(* TypeOK.                                                                 *)
THEOREM SendTypesHold == RingEnv => (Spec => [](Sane => TypeOK))
<1>. SUFFICES ASSUME RingEnv PROVE Spec => [](Sane => TypeOK)
  OBVIOUS
<1>1. RingInv => (Sane => TypeOK)
  BY TypesImply DEF RingInv, RingState
<1>. QED BY RingInvariant, <1>1, PTL

---------------------------------------------------------------------------
(* The transmit descriptors: those of the busy TCBs lie one after the      *)
(* other in the ring, from the head to NextFreeTbd, and the NIC owns the   *)
(* last of them.                                                           *)

(* Late callbacks fill the descriptors in an order of their own, and may   *)
(* give two TCBs the same TbdStart.                                        *)
TbdEnv == RingEnv /\ "async" \notin Env
(* A reset frees frames that the NIC has not sent.                         *)
NicEnv == TbdEnv /\ "reset" \notin Env

Room(k) == NIC_MAX_PHYS_BUF_COUNT * k
(* The d-th busy TCB.                                                      *)
BusyAt(d) == NthTcb(CurrSendHead, d)

(* The first busy TCB has its TBDs from s on, the d-th off[d] after that.  *)
Offsets == {off \in [0 .. NumTcb -> 0 .. nTbds] : off[0] = 0}
Layout(s, off) ==
  /\ s \in 0 .. nTbds - 1 /\ off \in Offsets
  /\ NextFreeTbd = NthTbd(s, off[nBusySend])
  /\ \A d \in 0 .. nBusySend - 1 :
       /\ tcb[BusyAt(d)].TbdStart = NthTbd(s, off[d])
       /\ off[d + 1] = off[d] + tcb[BusyAt(d)].nTbds
  /\ \A d, e \in 0 .. nBusySend :
       d <= e => off[d] <= off[e] /\ off[e] - off[d] <= Room(e - d)

(* The NIC is k descriptors after s, and owns the others up to             *)
(* NextFreeTbd, which hold the frames of their TCBs.                       *)
Owned(s, off, k) ==
  /\ k \in 0 .. off[nBusySend] /\ txNext = NthTbd(s, k)
  /\ \A o \in 0 .. nTbds - 1 :
       tbd[NthTbd(s, o)].own <=> k <= o /\ o < off[nBusySend]
  /\ \A o \in k .. off[nBusySend] - 1 : \E d \in 0 .. nBusySend - 1 :
       /\ off[d] <= o /\ o < off[d + 1]
       /\ tbd[NthTbd(s, o)].frame = tcb[BusyAt(d)].nb

TbdInv == Sane => \E s, off : Layout(s, off)
NicInv == \E s, off, k : Layout(s, off) /\ Owned(s, off, k)

---------------------------------------------------------------------------
(* The room for the frames of k TCBs.                                      *)
LEMMA RoomSteps ==
  /\ Room(0) = 0 /\ Room(NumTcb) = nTbds
  /\ \A k \in Nat : /\ Room(k) \in Nat
                    /\ Room(k + 1) = Room(k) + NIC_MAX_PHYS_BUF_COUNT
  /\ \A j, k \in Nat : j <= k => Room(j) <= Room(k)
<1>. USE Sizes DEF Room
<1>1. Room(0) = 0 /\ Room(NumTcb) = nTbds
  BY DEF nTbds
<1>2. \A k \in Nat : /\ Room(k) \in Nat
                     /\ Room(k + 1) = Room(k) + NIC_MAX_PHYS_BUF_COUNT
  OBVIOUS
<1>3. ASSUME NEW j \in Nat, NEW k \in Nat, j <= k PROVE Room(j) <= Room(k)
  BY <1>3
<1>. QED BY <1>1, <1>2, <1>3

(* Steps along the ring of TBDs add up, and two different ones, shorter    *)
(* than the ring, do not meet.                                             *)
LEMMA TbdSteps ==
  ASSUME NEW s \in 0 .. nTbds - 1
  PROVE  /\ \A o, x \in 0 .. nTbds :
              o + x <= nTbds => NthTbd(NthTbd(s, o), x) = NthTbd(s, o + x)
         /\ \A o, x \in 0 .. nTbds - 1 : NthTbd(s, o) = NthTbd(s, x) => o = x
         /\ \A o \in 0 .. nTbds, x \in 0 .. nTbds - 1 :
              o + x >= nTbds =>
                NthTbd(NthTbd(s, o), x) = NthTbd(s, o + x - nTbds)
         /\ \A t \in 0 .. nTbds - 1 :
              \E o \in 0 .. nTbds - 1 : t = NthTbd(s, o)
         /\ NthTbd(s, 0) = s /\ NthTbd(s, nTbds) = s
<1>. USE Sizes DEF NthTbd
<1>1. \A o, x \in 0 .. nTbds :
        o + x <= nTbds => NthTbd(NthTbd(s, o), x) = NthTbd(s, o + x)
  OBVIOUS
<1>2. \A o, x \in 0 .. nTbds - 1 : NthTbd(s, o) = NthTbd(s, x) => o = x
  OBVIOUS
<1>3. \A o \in 0 .. nTbds, x \in 0 .. nTbds - 1 :
        o + x >= nTbds => NthTbd(NthTbd(s, o), x) = NthTbd(s, o + x - nTbds)
  OBVIOUS
<1>4. ASSUME NEW t \in 0 .. nTbds - 1
      PROVE  \E o \in 0 .. nTbds - 1 : t = NthTbd(s, o)
  <2>1. CASE t >= s
    <3>1. t - s \in 0 .. nTbds - 1 /\ t = NthTbd(s, t - s)
      BY <2>1
    <3>. QED BY <3>1
  <2>2. CASE t < s
    <3>1. t - s + nTbds \in 0 .. nTbds - 1 /\ t = NthTbd(s, t - s + nTbds)
      BY <2>2
    <3>. QED BY <3>1
  <2>. QED BY <2>1, <2>2
<1>. QED BY <1>1, <1>2, <1>3, <1>4

(* The busy TCBs are the nBusySend first ones from the head on.            *)
LEMMA BusySteps ==
  ASSUME IndexTypes, TcbRing
  PROVE  /\ \A d \in 0 .. nBusySend - 1 :
              BusyAt(d) \in Tcbs /\ tcb[BusyAt(d)].inUse
         /\ \A i \in Tcbs :
              tcb[i].inUse => /\ TcbDist(i) \in 0 .. nBusySend - 1
                              /\ BusyAt(TcbDist(i)) = i
         /\ \A d, e \in 0 .. nBusySend - 1 : BusyAt(d) = BusyAt(e) => d = e
<1>. USE Sizes DEF IndexTypes, Tcbs, BusyAt, NthTcb, TcbDist
<1>1. ASSUME NEW d \in 0 .. nBusySend - 1
      PROVE  BusyAt(d) \in Tcbs /\ tcb[BusyAt(d)].inUse
  <2>1. BusyAt(d) \in Tcbs /\ TcbDist(BusyAt(d)) = d
    BY DEF TcbRing
  <2>. QED BY <2>1 DEF TcbRing
<1>2. ASSUME NEW i \in Tcbs, tcb[i].inUse
      PROVE  TcbDist(i) \in 0 .. nBusySend - 1 /\ BusyAt(TcbDist(i)) = i
  BY <1>2 DEF TcbRing
<1>3. \A d, e \in 0 .. nBusySend - 1 : BusyAt(d) = BusyAt(e) => d = e
  BY DEF TcbRing
<1>. QED BY <1>1, <1>2, <1>3

---------------------------------------------------------------------------
(* How the layout changes.  All of the ring is free at first.              *)
NoOffsets == [d \in 0 .. NumTcb |-> 0]
(* An empty ring lies as it should from its first descriptor.              *)
LEMMA LayoutInit == Init => Layout(0, NoOffsets)
<1>. SUFFICES ASSUME Init PROVE Layout(0, NoOffsets)
  OBVIOUS
<1>. USE Sizes
<1>1. nBusySend = 0 /\ NextFreeTbd = 0
  BY DEF Init
<1>2. NoOffsets \in Offsets /\ NoOffsets[0] = 0
  BY DEF Offsets, NoOffsets
<1>3. NthTbd(0, 0) = 0
  BY DEF NthTbd
<1>4. \A d, e \in 0 .. 0 : NoOffsets[d] = 0 /\ NoOffsets[e] = 0 /\ e - d = 0
  BY <1>2
<1>5. Room(0) = 0
  BY RoomSteps
<1>6. \A d, e \in 0 .. 0 : NoOffsets[e] - NoOffsets[d] <= Room(e - d)
  BY <1>4, <1>5
<1>. QED BY <1>1, <1>2, <1>3, <1>4, <1>6 DEF Layout

(* The starts of the frames are numbers of descriptors.                    *)
LEMMA OffsetsAre ==
  ASSUME NEW s, NEW off, Layout(s, off)
  PROVE  /\ s \in 0 .. nTbds - 1 /\ off[0] = 0
         /\ off \in [0 .. NumTcb -> 0 .. nTbds]
         /\ \A d \in 0 .. NumTcb : off[d] \in 0 .. nTbds
<1>1. off \in [0 .. NumTcb -> 0 .. nTbds] /\ off[0] = 0
  BY DEF Layout, Offsets
<1>. QED BY <1>1 DEF Layout

(* More frames never have less room.                                       *)
LEMMA RoomGrows ==
  ASSUME NEW j \in Nat, NEW k \in Nat, j <= k
  PROVE  Room(j) \in Nat /\ Room(k) \in Nat /\ Room(j) <= Room(k)
BY RoomSteps

(* The layout looks only at the control blocks and the next free one.      *)
LEMMA LayoutSame ==
  ASSUME NEW s, NEW off, Layout(s, off), UNCHANGED <<tcbVars, NextFreeTbd>>
  PROVE  Layout(s, off)'
BY DEF Layout, BusyAt, tcbVars

(* A new TCB has no TBDs yet.                                              *)
LEMMA LayoutAllocate ==
  ASSUME RingState, NEW s, NEW off, Layout(s, off), XmitAllocateTcb,
         NEW n \in 0 .. NumTcb - 1, n = nBusySend
  PROVE  /\ Layout(s, [off EXCEPT ![n + 1] = off[n]])'
         /\ \A d \in 0 .. n - 1 :
              BusyAt(d)' = BusyAt(d) /\ tcb'[BusyAt(d)] = tcb[BusyAt(d)]
<1>. DEFINE off2 == [off EXCEPT ![n + 1] = off[n]]
<1>. USE Sizes
<1>1. IndexTypes /\ TcbTypes /\ TcbRing
  BY DEF RingState, SendTypes
<1>2. /\ nBusySend' = n + 1 /\ CurrSendHead' = CurrSendHead
      /\ NextFreeTbd' = NextFreeTbd
      /\ tcb' = [tcb EXCEPT ![CurrSendTail] =
                   [inUse |-> TRUE, waiting |-> TRUE, nbl |-> xmit.nbl,
                    nb |-> <<xmit.nbl, xmit.nb>>,
                    TbdStart |-> NextFreeTbd, nTbds |-> 0]]
  BY DEF XmitAllocateTcb
<1>3. CurrSendTail = BusyAt(n) /\ CurrSendTail \in Tcbs
  BY <1>1 DEF TcbRing, BusyAt, IndexTypes
<1>4. \A d \in 0 .. n - 1 : BusyAt(d) \in Tcbs /\ BusyAt(d) # CurrSendTail
  BY <1>1, <1>3 DEF BusyAt, NthTcb, Tcbs, IndexTypes
<1>5. /\ \A d \in 0 .. n - 1 : tcb'[BusyAt(d)] = tcb[BusyAt(d)]
      /\ tcb'[BusyAt(n)].TbdStart = NextFreeTbd
      /\ tcb'[BusyAt(n)].nTbds = 0
  BY <1>1, <1>2, <1>3, <1>4 DEF TcbTypes
<1>6. \A d \in 0 .. n : BusyAt(d)' = BusyAt(d)
  BY <1>2 DEF BusyAt
<1>7. /\ off2 \in Offsets /\ off2[n + 1] = off[n]
      /\ \A d \in 0 .. n : off2[d] = off[d]
  BY DEF Layout, Offsets
<1>8. ASSUME NEW d \in 0 .. n
      PROVE  /\ tcb'[BusyAt(d)].TbdStart = NthTbd(s, off2[d])
             /\ off2[d + 1] = off2[d] + tcb'[BusyAt(d)].nTbds
  <2>1. CASE d < n
    BY <1>5, <1>7, <2>1 DEF Layout
  <2>2. CASE d = n
    <3>1. off2[n + 1] = off2[n] + 0
      BY <1>7 DEF Layout, Offsets
    <3>. QED BY <1>5, <1>7, <2>2, <3>1 DEF Layout
  <2>. QED BY <2>1, <2>2
<1>9. ASSUME NEW d \in 0 .. n + 1, NEW e \in 0 .. n + 1, d <= e
      PROVE  off2[d] <= off2[e] /\ off2[e] - off2[d] <= Room(e - d)
  <2>1. CASE e <= n
    BY <1>7, <1>9, <2>1 DEF Layout
  <2>2. CASE e = n + 1 /\ d <= n
    <3>1. off[d] <= off[n] /\ off[n] - off[d] <= Room(n - d)
      BY <2>2 DEF Layout
    <3>2. n - d \in Nat /\ e - d \in Nat /\ n - d <= e - d
      BY <2>2
    <3>4. /\ Room(n - d) <= Room(e - d)
          /\ Room(n - d) \in Nat /\ Room(e - d) \in Nat
      BY <3>2, RoomGrows
    <3>3. off[d] \in Nat /\ off[n] \in Nat
      BY <2>2, OffsetsAre
    <3>. QED BY <1>7, <2>2, <3>1, <3>3, <3>4
  <2>3. CASE d = n + 1 /\ e = n + 1
    <3>1. off2[d] = off2[e] /\ off2[e] \in Nat /\ e - d = 0
      BY <1>7, <2>3 DEF Offsets
    <3>. QED BY <3>1, RoomSteps
  <2>. QED BY <2>1, <2>2, <2>3
<1>10. NextFreeTbd' = NthTbd(s, off2[n + 1])
  BY <1>2, <1>7 DEF Layout
<1>11. Layout(s, off2)'
  BY <1>2, <1>6, <1>7, <1>8, <1>9, <1>10 DEF Layout
<1>. QED BY <1>5, <1>6, <1>11

(* The last TCB, which waited for its mapping, gets n TBDs.                *)
LEMMA LayoutGive ==
  ASSUME RingState, "async" \notin Env, NEW s, NEW off, Layout(s, off),
         NEW m \in maps, NEW k \in 1 .. NIC_MAX_PHYS_BUF_COUNT,
         MpProcessSGList(m[1], m[2], k), NEW n, n = nBusySend
  PROVE  /\ n \in 1 .. NumTcb /\ m[1] = BusyAt(n - 1) /\ off[n] = off[n - 1]
         /\ off[n] + k \in 0 .. nTbds
         /\ Layout(s, [off EXCEPT ![n] = off[n] + k])'
         /\ \A d \in 0 .. n - 1 : /\ BusyAt(d)' = BusyAt(d)
                                  /\ tcb'[BusyAt(d)].nb = tcb[BusyAt(d)].nb
<1>. DEFINE off2 == [off EXCEPT ![n] = off[n] + k]
<1>. USE Sizes
<1>1. IndexTypes /\ TcbTypes /\ TcbRing
  BY DEF RingState, SendTypes
<1>2. /\ m[1] \in Tcbs /\ tcb[m[1]].inUse /\ tcb[m[1]].nTbds = 0
      /\ CurrSendTail = NextTcb(m[1])
  BY DEF RingState, SendTypes, XmitTypes, Waiting
<1>3. n \in 1 .. NumTcb
  <2>1. TcbDist(m[1]) \in Nat /\ TcbDist(m[1]) < n /\ n \in 0 .. NumTcb
    BY <1>1, <1>2, DistRange DEF TcbRing
  <2>. QED BY <2>1
<1>4. m[1] = BusyAt(n - 1)
  BY <1>1, <1>2, <1>3
  DEF TcbRing, BusyAt, NthTcb, NextTcb, Tcbs, IndexTypes
<1>5. off[n] = off[n - 1]
  <2>1. off[n] = off[n - 1] + 0
    BY <1>2, <1>3, <1>4 DEF Layout
  <2>. QED BY <1>3, <2>1 DEF Layout, Offsets
<1>6. /\ nBusySend' = n /\ CurrSendHead' = CurrSendHead
      /\ NextFreeTbd' = NthTbd(tcb[m[1]].TbdStart, k)
      /\ tcb' = [tcb EXCEPT ![m[1]].waiting = FALSE, ![m[1]].nTbds = k]
  BY DEF MpProcessSGList, TbdAfter
<1>7. k \in 0 .. NIC_MAX_PHYS_BUF_COUNT
  OBVIOUS
<1>8. /\ tcb'[m[1]].TbdStart = tcb[m[1]].TbdStart /\ tcb'[m[1]].nTbds = k
      /\ \A i \in Tcbs : i # m[1] => tcb'[i] = tcb[i]
  BY ZenonT(30), <1>1, <1>2, <1>6, <1>7, TcbGiven
<1>9. \A d \in 0 .. n : BusyAt(d)' = BusyAt(d)
  BY <1>6 DEF BusyAt
<1>10. \A d \in 0 .. n - 2 : BusyAt(d) \in Tcbs /\ BusyAt(d) # m[1]
  BY <1>1, <1>3, <1>4, BusySteps
<1>11. \A d \in 0 .. n : off[d] \in 0 .. nTbds
  BY <1>3, OffsetsAre
<1>12. ASSUME NEW d \in 0 .. n - 1
       PROVE  off[d] <= off[n] /\ off[n] + k - off[d] <= Room(n - d)
  <2>1. /\ off[d] <= off[n - 1] /\ off[n - 1] - off[d] <= Room(n - 1 - d)
    BY <1>3 DEF Layout
  <2>2. /\ n - 1 - d \in Nat /\ (n - 1 - d) + 1 = n - d
    BY <1>3
  <2>3. Room(n - d) = Room(n - 1 - d) + NIC_MAX_PHYS_BUF_COUNT
    BY <2>2, RoomSteps
  <2>4. Room(n - 1 - d) \in Nat
    BY <2>2, RoomSteps
  <2>. QED BY <1>3, <1>5, <1>11, <2>1, <2>3, <2>4
<1>13. off[n] + k \in 0 .. nTbds
  <2>1. off[n] + k - off[0] <= Room(n - 0)
    BY <1>3, <1>12
  <2>2. off[0] = 0 /\ off[n] \in 0 .. nTbds
    BY <1>3, OffsetsAre
  <2>3. n \in Nat /\ NumTcb \in Nat /\ n <= NumTcb /\ n - 0 = n
    BY <1>3
  <2>4. Room(n) \in Nat /\ Room(n) <= nTbds
    BY <2>3, RoomGrows, RoomSteps
  <2>. QED BY <2>1, <2>2, <2>3, <2>4
<1>14. /\ off2 \in Offsets /\ off2[n] = off[n] + k
       /\ \A d \in 0 .. n - 1 : off2[d] = off[d]
  <2>1. off \in [0 .. NumTcb -> 0 .. nTbds] /\ off[0] = 0
    BY OffsetsAre
  <2>2. off2 \in [0 .. NumTcb -> 0 .. nTbds] /\ off2[0] = 0
    BY <1>3, <1>13, <2>1
  <2>. QED BY <1>3, <2>1, <2>2 DEF Offsets
<1>15. ASSUME NEW d \in 0 .. n - 1
       PROVE  /\ tcb'[BusyAt(d)].TbdStart = NthTbd(s, off2[d])
              /\ off2[d + 1] = off2[d] + tcb'[BusyAt(d)].nTbds
  <2>1. /\ tcb[BusyAt(d)].TbdStart = NthTbd(s, off[d])
        /\ off[d + 1] = off[d] + tcb[BusyAt(d)].nTbds
    BY <1>3 DEF Layout
  <2>2. CASE d < n - 1
    <3>1. d \in 0 .. n - 2 /\ d + 1 \in 0 .. n - 1
      BY <1>3, <2>2
    <3>2. tcb'[BusyAt(d)] = tcb[BusyAt(d)]
      BY <1>8, <1>10, <3>1
    <3>. QED BY <1>14, <2>1, <3>1, <3>2
  <2>3. CASE d = n - 1
    <3>1. d + 1 = n
      BY <1>3, <2>3
    <3>. QED BY <1>4, <1>5, <1>8, <1>14, <2>1, <2>3, <3>1
  <2>. QED BY <1>3, <2>2, <2>3
<1>16. ASSUME NEW d \in 0 .. n, NEW e \in 0 .. n, d <= e
       PROVE  off2[d] <= off2[e] /\ off2[e] - off2[d] <= Room(e - d)
  <2>1. CASE e < n
    BY <1>14, <1>16, <2>1 DEF Layout
  <2>2. CASE e = n /\ d < n
    BY <1>7, <1>11, <1>12, <1>14, <2>2
  <2>3. CASE e = n /\ d = n
    <3>1. e - d = 0 /\ off2[d] = off2[e] /\ off2[e] \in Nat
      BY <1>13, <1>14, <2>3
    <3>2. Room(e - d) = 0
      BY <3>1, RoomSteps
    <3>. QED BY <3>1, <3>2
  <2>. QED BY <1>3, <1>16, <2>1, <2>2, <2>3
<1>17. NextFreeTbd' = NthTbd(s, off2[n])
  <2>1. tcb[m[1]].TbdStart = NthTbd(s, off[n])
    BY <1>3, <1>4, <1>5 DEF Layout
  <2>2. NthTbd(NthTbd(s, off[n]), k) = NthTbd(s, off[n] + k)
    <3>1. s \in 0 .. nTbds - 1 /\ off[n] \in 0 .. nTbds /\ k \in 0 .. nTbds
      BY <1>3, <1>11, <1>13, OffsetsAre
    <3>2. \A o, x \in 0 .. nTbds :
            o + x <= nTbds => NthTbd(NthTbd(s, o), x) = NthTbd(s, o + x)
      BY <3>1, TbdSteps
    <3>. QED BY <1>13, <3>1, <3>2
  <2>. QED BY <1>6, <1>14, <2>1, <2>2
<1>18. Layout(s, off2)'
  <2>. HIDE DEF off2
  <2>1. s \in 0 .. nTbds - 1
    BY OffsetsAre
  <2>2. NextFreeTbd' = NthTbd(s, off2[nBusySend'])
    BY <1>6, <1>17
  <2>3. \A d \in 0 .. nBusySend' - 1 :
          /\ tcb'[BusyAt(d)'].TbdStart = NthTbd(s, off2[d])
          /\ off2[d + 1] = off2[d] + tcb'[BusyAt(d)'].nTbds
    BY <1>6, <1>15 DEF BusyAt
  <2>4. \A d, e \in 0 .. nBusySend' :
          d <= e => off2[d] <= off2[e] /\ off2[e] - off2[d] <= Room(e - d)
    BY <1>6, <1>16
  <2>. QED BY <1>14, <2>1, <2>2, <2>3, <2>4 DEF Layout
<1>19. ASSUME NEW d \in 0 .. n - 1
       PROVE  tcb'[BusyAt(d)].nb = tcb[BusyAt(d)].nb
  <2>1. BusyAt(d) \in Tcbs
    BY <1>1, BusySteps
  <2>2. tcb'[m[1]].nb = tcb[m[1]].nb
    BY <1>1, <1>2, <1>6, <1>7, TcbGiven
  <2>. QED BY <1>8, <2>1, <2>2
<1>. QED BY <1>3, <1>4, <1>5, <1>9, <1>13, <1>18, <1>19

(* The last TCB is given back without having got any.                      *)
LEMMA LayoutUnmap ==
  ASSUME RingState, NEW s, NEW off, Layout(s, off), XmitMapFailed
  PROVE  /\ Layout(s, off)'
         /\ nBusySend \in 1 .. NumTcb /\ off[nBusySend] = off[nBusySend - 1]
         /\ \A d \in 0 .. nBusySend - 2 :
              BusyAt(d)' = BusyAt(d) /\ tcb'[BusyAt(d)] = tcb[BusyAt(d)]
<1>. USE Sizes
<1>1. IndexTypes /\ TcbTypes /\ TcbRing
  BY DEF RingState, SendTypes
<1>. DEFINE n == nBusySend
<1>2. /\ xmit.tcb \in Tcbs /\ tcb[xmit.tcb].inUse /\ tcb[xmit.tcb].nTbds = 0
      /\ CurrSendTail = NextTcb(xmit.tcb)
  BY DEF XmitMapFailed, RingState, SendTypes, XmitTypes, Waiting
<1>3. n \in 1 .. NumTcb
  <2>1. TcbDist(xmit.tcb) \in Nat /\ TcbDist(xmit.tcb) < n /\ n \in 0 .. NumTcb
    BY <1>1, <1>2, DistRange DEF TcbRing
  <2>. QED BY <2>1
<1>4. xmit.tcb = BusyAt(n - 1)
  BY <1>1, <1>2, <1>3
  DEF TcbRing, BusyAt, NthTcb, NextTcb, Tcbs, IndexTypes
<1>5. off[n] = off[n - 1]
  <2>1. off[n] = off[n - 1] + 0
    BY <1>2, <1>3, <1>4 DEF Layout
  <2>. QED BY <1>3, <2>1, OffsetsAre
<1>6. /\ nBusySend' = n - 1 /\ CurrSendHead' = CurrSendHead
      /\ NextFreeTbd' = NextFreeTbd
  BY DEF XmitMapFailed, tbdVars
<1>7. \A i \in Tcbs : i # xmit.tcb => tcb'[i] = tcb[i]
  BY <1>1, <1>2, TcbUnmapped DEF XmitMapFailed
<1>8. \A d \in 0 .. n - 2 : BusyAt(d) \in Tcbs /\ BusyAt(d) # xmit.tcb
  BY <1>1, <1>3, <1>4, BusySteps
<1>9. \A d \in 0 .. n - 2 : tcb'[BusyAt(d)] = tcb[BusyAt(d)]
  BY <1>7, <1>8
<1>. HIDE DEF n
<1>10. s \in 0 .. nTbds - 1 /\ off \in Offsets
  BY DEF Layout
<1>11. NextFreeTbd' = NthTbd(s, off[nBusySend'])
  BY <1>5, <1>6 DEF Layout, n
<1>12. \A d \in 0 .. nBusySend' - 1 :
         /\ tcb'[BusyAt(d)'].TbdStart = NthTbd(s, off[d])
         /\ off[d + 1] = off[d] + tcb'[BusyAt(d)'].nTbds
  <2>1. \A d \in 0 .. n - 2 :
          /\ tcb[BusyAt(d)].TbdStart = NthTbd(s, off[d])
          /\ off[d + 1] = off[d] + tcb[BusyAt(d)].nTbds
    BY <1>3 DEF Layout, n
  <2>. QED BY <1>3, <1>6, <1>9, <2>1 DEF BusyAt
<1>13. \A d, e \in 0 .. nBusySend' :
         d <= e => off[d] <= off[e] /\ off[e] - off[d] <= Room(e - d)
  <2>1. \A d, e \in 0 .. n :
          d <= e => off[d] <= off[e] /\ off[e] - off[d] <= Room(e - d)
    BY DEF Layout, n
  <2>. QED BY <1>3, <1>6, <2>1
<1>14. Layout(s, off)'
  BY <1>10, <1>11, <1>12, <1>13 DEF Layout
<1>15. \A d \in 0 .. n - 2 : BusyAt(d)' = BusyAt(d)
  BY <1>6 DEF BusyAt
<1>. QED BY <1>3, <1>5, <1>9, <1>14, <1>15 DEF n

(* The TCB at the head is freed.                                           *)
Shifted(off) ==
  [d \in 0 .. NumTcb |-> IF d < NumTcb /\ off[1] <= off[d + 1]
                         THEN off[d + 1] - off[1] ELSE 0]
(* Freeing the oldest control block moves the layout on by its frame.      *)
LEMMA LayoutFree ==
  ASSUME RingState, NEW s, NEW off, Layout(s, off), nBusySend > 0,
         nBusySend' = nBusySend - 1, CurrSendHead' = NextTcb(CurrSendHead),
         NextFreeTbd' = NextFreeTbd,
         \A i \in Tcbs : i # CurrSendHead => tcb'[i] = tcb[i]
  PROVE  /\ Layout(NthTbd(s, off[1]), Shifted(off))'
         /\ \A d \in 0 .. nBusySend - 1 :
              /\ Shifted(off)[d] = off[d + 1] - off[1]
              /\ off[1] <= off[d + 1]
         /\ \A d \in 0 .. nBusySend - 2 :
              tcb'[BusyAt(d)'] = tcb[BusyAt(d + 1)]
<1>. USE Sizes
<1>1. IndexTypes /\ TcbTypes /\ TcbRing
  BY DEF RingState, SendTypes
<1>. DEFINE n == nBusySend
            off2 == Shifted(off)
            s2 == NthTbd(s, off[1])
<1>2. n \in 1 .. NumTcb
  BY <1>1 DEF TcbRing
<1>3. /\ s \in 0 .. nTbds - 1
      /\ \A d \in 0 .. NumTcb : off[d] \in 0 .. nTbds
  BY OffsetsAre
<1>4. \A d, e \in 0 .. n :
        d <= e => off[d] <= off[e] /\ off[e] - off[d] <= Room(e - d)
  BY DEF Layout
<1>. HIDE DEF n
<1>5. \A d \in 0 .. n - 1 :
        off2[d] = off[d + 1] - off[1] /\ off[1] <= off[d + 1]
  <2>1. \A d \in 0 .. n - 1 : off[1] <= off[d + 1]
    BY <1>2, <1>4
  <2>. QED BY <1>2, <2>1 DEF Shifted
<1>6. off2 \in Offsets
  <2>1. off2 \in [0 .. NumTcb -> 0 .. nTbds]
    BY <1>2, <1>3 DEF Shifted
  <2>2. off2[0] = 0
    BY <1>2, <1>3, <1>5
  <2>. QED BY <2>1, <2>2 DEF Offsets
<1>7. s2 \in 0 .. nTbds - 1
  <2>1. off[1] \in 0 .. nTbds
    BY <1>2, <1>3
  <2>. QED BY <1>3, <2>1, TbdStep
<1>8. \A d \in 0 .. n - 1 : NthTbd(s2, off2[d]) = NthTbd(s, off[d + 1])
  <2>1. \A o, x \in 0 .. nTbds :
          o + x <= nTbds => NthTbd(NthTbd(s, o), x) = NthTbd(s, o + x)
    BY <1>3, TbdSteps
  <2>2. ASSUME NEW d \in 0 .. n - 1
        PROVE  NthTbd(s2, off2[d]) = NthTbd(s, off[d + 1])
    <3>1. off[1] \in 0 .. nTbds /\ off[d + 1] \in 0 .. nTbds
      BY <1>2, <1>3
    <3>2. /\ off2[d] \in 0 .. nTbds /\ off[1] + off2[d] = off[d + 1]
      BY <1>5, <3>1
    <3>. QED BY <2>1, <3>1, <3>2
  <2>. QED BY <2>2
<1>9. \A d \in 0 .. n - 2 :
        BusyAt(d)' = BusyAt(d + 1) /\ BusyAt(d + 1) # CurrSendHead
  BY <1>1, <1>2 DEF BusyAt, NextTcb, NthTcb, IndexTypes, Tcbs
<1>10. \A d \in 0 .. n - 2 : tcb'[BusyAt(d)'] = tcb[BusyAt(d + 1)]
  <2>1. \A d \in 0 .. n - 2 : BusyAt(d + 1) \in Tcbs
    BY <1>1, <1>2, BusySteps DEF n
  <2>2. \A d \in 0 .. n - 2 : tcb'[BusyAt(d + 1)] = tcb[BusyAt(d + 1)]
    BY <1>9, <2>1
  <2>. QED BY <1>9, <2>2 DEF BusyAt
<1>11. nBusySend' = n - 1
  BY DEF n
<1>. HIDE DEF off2, s2
<1>12. NextFreeTbd' = NthTbd(s2, off2[nBusySend'])
  BY <1>2, <1>8, <1>11 DEF Layout, n
<1>13. \A d \in 0 .. nBusySend' - 1 :
         /\ tcb'[BusyAt(d)'].TbdStart = NthTbd(s2, off2[d])
         /\ off2[d + 1] = off2[d] + tcb'[BusyAt(d)'].nTbds
  <2>1. \A d \in 0 .. n - 2 :
          /\ tcb[BusyAt(d + 1)].TbdStart = NthTbd(s, off[d + 1])
          /\ off[d + 2] = off[d + 1] + tcb[BusyAt(d + 1)].nTbds
    BY <1>2 DEF Layout, n
  <2>2. ASSUME NEW d \in 0 .. n - 2
        PROVE  /\ tcb'[BusyAt(d)'].TbdStart = NthTbd(s2, off2[d])
               /\ off2[d + 1] = off2[d] + tcb'[BusyAt(d)'].nTbds
    <3>1. /\ off2[d] = off[d + 1] - off[1]
          /\ off2[d + 1] = off[d + 2] - off[1]
      BY <1>2, <1>5
    <3>2. /\ off[d + 1] \in Int /\ off[1] \in Int
          /\ tcb[BusyAt(d + 1)].nTbds \in Int
      <4>1. BusyAt(d + 1) \in Tcbs
        BY <1>1, <1>2, BusySteps DEF n
      <4>. QED BY <1>1, <1>2, <1>3, <4>1 DEF TcbTypes, MP_TCB
    <3>3. tcb'[BusyAt(d)'] = tcb[BusyAt(d + 1)]
      BY <1>10
    <3>4. tcb[BusyAt(d + 1)].TbdStart = NthTbd(s2, off2[d])
      BY <1>2, <1>8, <2>1
    <3>5. off2[d + 1] = off2[d] + tcb[BusyAt(d + 1)].nTbds
      BY <2>1, <3>1, <3>2
    <3>. QED BY <3>3, <3>4, <3>5
  <2>. QED BY <1>2, <1>11, <2>2
<1>14. \A d, e \in 0 .. nBusySend' :
         d <= e => off2[d] <= off2[e] /\ off2[e] - off2[d] <= Room(e - d)
  <2>1. ASSUME NEW d \in 0 .. n - 1, NEW e \in 0 .. n - 1, d <= e
        PROVE  off2[d] <= off2[e] /\ off2[e] - off2[d] <= Room(e - d)
    <3>1. /\ off[d + 1] <= off[e + 1]
          /\ off[e + 1] - off[d + 1] <= Room((e + 1) - (d + 1))
      BY <1>2, <1>4, <2>1
    <3>2. /\ off[d + 1] \in Int /\ off[e + 1] \in Int /\ off[1] \in Int
          /\ (e + 1) - (d + 1) = e - d
      BY <1>2, <1>3
    <3>. QED BY <1>5, <3>1, <3>2
  <2>. QED BY <1>11, <2>1
<1>15. Layout(s2, off2)'
  BY <1>6, <1>7, <1>12, <1>13, <1>14 DEF Layout
<1>. QED BY <1>5, <1>10, <1>15 DEF n, off2, s2

(* NICInitSend.                                                            *)
LEMMA LayoutReset ==
  ASSUME RingState, MPResetInitSend
  PROVE  Layout(0, NoOffsets)'
<1>. USE Sizes
<1>1. nBusySend' = 0 /\ NextFreeTbd' = 0
  BY DEF MPResetInitSend, RingState, TcbRing
<1>2. NoOffsets \in Offsets /\ NoOffsets[0] = 0
  BY DEF Offsets, NoOffsets
<1>3. NthTbd(0, 0) = 0
  BY DEF NthTbd
<1>4. \A d, e \in 0 .. 0 : NoOffsets[d] = 0 /\ NoOffsets[e] = 0 /\ e - d = 0
  BY <1>2
<1>5. Room(0) = 0
  BY RoomSteps
<1>6. \A d, e \in 0 .. 0 : NoOffsets[e] - NoOffsets[d] <= Room(e - d)
  BY <1>4, <1>5
<1>. QED BY <1>1, <1>2, <1>3, <1>4, <1>6 DEF Layout

(* These are all the steps that change the layout or what the NIC owns.    *)
LEMMA TbdChanges ==
  ASSUME [Next]_sendVars
  PROVE  \/ UNCHANGED <<tcbVars, tbdVars, txNext>>
         \/ UNCHANGED <<tcbVars, NextFreeTbd>> /\ (NicTransmit \/ MPReset)
         \/ XmitAllocateTcb \/ XmitMapFailed
         \/ \E m \in maps, k \in 1 .. NIC_MAX_PHYS_BUF_COUNT :
              MpProcessSGList(m[1], m[2], k)
         \/ DpcFreeTcb \/ MPResetFreeTcb \/ MPResetInitSend
<1>1. CASE Enter \/ SendLocked
  BY <1>1 DEF Enter, SendLocked, MPSendEnter, MPSendNoLink, MPSendQueue,
              MPSendStart, nicVars
<1>2. CASE Xmit
  BY <1>2 DEF Xmit, XmitMapped, XmitNoTcb, XmitDone, XmitFailed, XmitBugCheck,
              nicVars
<1>3. CASE ProcessSGList
  BY <1>3 DEF ProcessSGList, MpProcessSGListCopyFailed,
              MpProcessSGListEmpty, MpProcessSGListLate,
              MpProcessSGListBugCheck, nicVars
<1>4. CASE NicTransmit
  BY <1>4 DEF NicTransmit
<1>5. CASE CableChange \/ OtherInterrupt
  BY <1>5 DEF CableChange, OtherInterrupt, nicVars
<1>6. CASE Dpc
  BY <1>6 DEF Dpc, DpcAck, DpcLinkState, DpcLinkFlag, DpcRelock, DpcSendIdle,
              DpcSendEnter, DpcFreeSGList, DpcReapEnd, DpcComplete, DpcDequeue,
              DpcDequeueEnd, nicVars
<1>7. CASE Ndis
  BY <1>7 DEF Ndis, MPPause, MPPauseQueue, MPPauseReturn, MPRestart,
              MPCancelSendNetBufferLists, nicVars
<1>8. CASE Reset
  BY <1>8 DEF Reset, MPReset, MPResetQueue, MPResetFreeSGList, MPResetFreed,
              MPResetComplete, MPResetEnd, nicVars, tbdVars
<1>9. CASE UNCHANGED sendVars
  BY <1>9 DEF sendVars, nicVars
<1>. QED BY <1>1, <1>2, <1>3, <1>4, <1>5, <1>6, <1>7, <1>8, <1>9 DEF Next

(* Every step leaves the frames laid out one after the other.              *)
LEMMA LayoutKeeps ==
  ASSUME TbdEnv, RingState, [Next]_sendVars, NEW s, NEW off, Layout(s, off)
  PROVE  (\E s2, off2 : Layout(s2, off2))'
<1>1. CASE UNCHANGED <<tcbVars, NextFreeTbd>>
  BY <1>1, LayoutSame
<1>2. CASE XmitAllocateTcb
  <2>1. nBusySend \in 0 .. NumTcb - 1
    BY <1>2, Sizes
    DEF XmitAllocateTcb, MP_TCB_RESOURCES_AVAIABLE, RingState, TcbRing
  <2>. QED BY <1>2, <2>1, LayoutAllocate
<1>3. CASE XmitMapFailed
  BY <1>3, LayoutUnmap
<1>4. ASSUME NEW m \in maps, NEW k \in 1 .. NIC_MAX_PHYS_BUF_COUNT,
             MpProcessSGList(m[1], m[2], k)
      PROVE  (\E s2, off2 : Layout(s2, off2))'
  <2>1. PICK n : n = nBusySend
    OBVIOUS
  <2>. QED BY <1>4, <2>1, LayoutGive DEF TbdEnv
<1>5. CASE DpcFreeTcb
  <2>1. /\ CurrSendHead \in Tcbs /\ nBusySend > 0
        /\ nBusySend' = nBusySend - 1 /\ NextFreeTbd' = NextFreeTbd
        /\ CurrSendHead' = NextTcb(CurrSendHead)
    BY <1>5 DEF DpcFreeTcb, tbdVars, RingState, SendTypes, IndexTypes
  <2>2. \A i \in Tcbs : i # CurrSendHead => tcb'[i] = tcb[i]
    BY <1>5, <2>1, TcbFreed DEF DpcFreeTcb, RingState, SendTypes
  <2>. QED BY <2>1, <2>2, LayoutFree
<1>6. CASE MPResetFreeTcb
  <2>1. /\ CurrSendHead \in Tcbs /\ nBusySend > 0
        /\ nBusySend' = nBusySend - 1 /\ NextFreeTbd' = NextFreeTbd
        /\ CurrSendHead' = NextTcb(CurrSendHead)
    BY <1>6
    DEF MPResetFreeTcb, BusyIsLeft, tbdVars, RingState, SendTypes, IndexTypes
  <2>2. \A i \in Tcbs : i # CurrSendHead => tcb'[i] = tcb[i]
    BY <1>6, <2>1, TcbFreed DEF MPResetFreeTcb, RingState, SendTypes
  <2>. QED BY <2>1, <2>2, LayoutFree
<1>7. CASE MPResetInitSend
  BY <1>7, LayoutReset
<1>. QED
  BY <1>1, <1>2, <1>3, <1>4, <1>5, <1>6, <1>7, TbdChanges DEF tbdVars

---------------------------------------------------------------------------
(* The TBDs of a busy TCB are those between its offset and the next one.   *)
LEMMA TbdsOfBusy ==
  ASSUME RingState, NEW s, NEW off, Layout(s, off),
         NEW d \in 0 .. nBusySend - 1
  PROVE  /\ off[d] \in 0 .. nTbds /\ off[d + 1] \in 0 .. nTbds
         /\ \A t \in TbdsOf(BusyAt(d)) :
              \E o \in off[d] .. off[d + 1] - 1 : t = NthTbd(s, o)
         /\ \A o \in off[d] .. off[d + 1] - 1 :
               NthTbd(s, o) \in TbdsOf(BusyAt(d))
<1>1. IndexTypes /\ TcbTypes /\ TcbRing /\ nBusySend \in 0 .. NumTcb
  BY DEF RingState, SendTypes, TcbRing
<1>2. off[d] \in 0 .. nTbds /\ off[d + 1] \in 0 .. nTbds
  BY <1>1, OffsetsAre, Sizes
<1>3. /\ tcb[BusyAt(d)].TbdStart = NthTbd(s, off[d])
      /\ off[d + 1] = off[d] + tcb[BusyAt(d)].nTbds
  BY DEF Layout
<1>4. \A x \in 0 .. nTbds :
        off[d] + x <= nTbds =>
          NthTbd(NthTbd(s, off[d]), x) = NthTbd(s, off[d] + x)
  <2>1. s \in 0 .. nTbds - 1
    BY OffsetsAre
  <2>2. \A o, x \in 0 .. nTbds :
          o + x <= nTbds => NthTbd(NthTbd(s, o), x) = NthTbd(s, o + x)
    BY <2>1, TbdSteps
  <2>. QED BY <1>2, <2>2
<1>5. tcb[BusyAt(d)].nTbds \in Nat
  BY <1>1, BusySteps, Sizes DEF TcbTypes, MP_TCB
<1>. DEFINE T == tcb[BusyAt(d)].nTbds
<1>8. T \in Nat /\ nTbds \in Nat /\ off[d + 1] = off[d] + T
  BY <1>3, <1>5, Sizes
<1>9. TbdsOf(BusyAt(d)) = {NthTbd(NthTbd(s, off[d]), x) : x \in 0 .. T - 1}
  BY <1>3 DEF TbdsOf
<1>. HIDE DEF T
<1>6. ASSUME NEW t \in TbdsOf(BusyAt(d))
      PROVE  \E o \in off[d] .. off[d + 1] - 1 : t = NthTbd(s, o)
  <2>1. PICK x \in 0 .. T - 1 : t = NthTbd(NthTbd(s, off[d]), x)
    BY <1>9
  <2>2. /\ x \in 0 .. nTbds /\ off[d] + x <= nTbds
        /\ off[d] + x \in off[d] .. off[d + 1] - 1
    BY <1>2, <1>8
  <2>. QED BY <1>4, <2>1, <2>2
<1>7. ASSUME NEW o \in off[d] .. off[d + 1] - 1
      PROVE  NthTbd(s, o) \in TbdsOf(BusyAt(d))
  <2>1. /\ o - off[d] \in 0 .. T - 1 /\ o - off[d] \in 0 .. nTbds
        /\ off[d] + (o - off[d]) = o /\ o <= nTbds
    BY <1>2, <1>8
  <2>2. NthTbd(s, o) = NthTbd(NthTbd(s, off[d]), o - off[d])
    BY <1>4, <2>1
  <2>. QED BY <1>9, <2>1, <2>2
<1>. QED BY <1>2, <1>6, <1>7

(* The TBDs where the next frame goes are free.                            *)
LEMMA RoomIsLeft ==
  ASSUME RingState, NEW s, NEW off, Layout(s, off), NEW d \in 0 .. NumTcb - 1,
         d <= nBusySend
  PROVE  off[d] \in 0 .. nTbds - 1
<1>1. /\ off[d] - off[0] <= Room(d - 0) /\ off[0] = 0
      /\ off[d] \in 0 .. nTbds
  <2>1. nBusySend \in 0 .. NumTcb /\ NumTcb \in Nat
    BY Sizes DEF RingState, TcbRing
  <2>2. d \in 0 .. nBusySend /\ 0 \in 0 .. nBusySend /\ 0 <= d
    BY <2>1
  <2>3. off[d] - off[0] <= Room(d - 0)
    BY <2>2 DEF Layout
  <2>4. d \in 0 .. NumTcb
    BY <2>1
  <2>. QED BY <2>3, <2>4, OffsetsAre
<1>2. /\ d \in Nat /\ NumTcb - 1 \in Nat /\ d <= NumTcb - 1
      /\ d - 0 = d /\ (NumTcb - 1) + 1 = NumTcb
  BY Sizes
<1>3. /\ Room(d) <= Room(NumTcb - 1) /\ Room(d) \in Nat
      /\ Room(NumTcb - 1) \in Nat
  BY <1>2, RoomGrows
<1>4. Room((NumTcb - 1) + 1) = Room(NumTcb - 1) + NIC_MAX_PHYS_BUF_COUNT
  BY <1>2, RoomSteps
<1>5. nTbds = Room(NumTcb - 1) + NIC_MAX_PHYS_BUF_COUNT
  BY <1>2, <1>4, RoomSteps
<1>. QED BY <1>1, <1>2, <1>3, <1>5, Sizes

(* When NDIS maps at once, the TCB that waits is the last one.             *)
LEMMA WaitsLast ==
  ASSUME RingState, "async" \notin Env, NEW m \in maps
  PROVE  /\ m[1] \in Tcbs /\ tcb[m[1]].inUse /\ tcb[m[1]].nTbds = 0
         /\ nBusySend \in 1 .. NumTcb /\ m[1] = BusyAt(nBusySend - 1)
<1>. USE Sizes
<1>1. IndexTypes /\ TcbTypes /\ TcbRing
  BY DEF RingState, SendTypes
<1>2. /\ m[1] \in Tcbs /\ tcb[m[1]].inUse /\ tcb[m[1]].nTbds = 0
      /\ CurrSendTail = NextTcb(m[1])
  BY DEF RingState, SendTypes, XmitTypes, Waiting
<1>3. nBusySend \in 1 .. NumTcb
  <2>1. /\ TcbDist(m[1]) \in Nat /\ TcbDist(m[1]) < nBusySend
        /\ nBusySend \in 0 .. NumTcb
    BY <1>1, <1>2, DistRange DEF TcbRing
  <2>. QED BY <2>1
<1>4. m[1] = BusyAt(nBusySend - 1)
  BY <1>1, <1>2, <1>3
  DEF TcbRing, BusyAt, NthTcb, NextTcb, Tcbs, IndexTypes
<1>. QED BY <1>2, <1>3, <1>4

(* Frames laid out one after the other share no descriptor.                *)
LEMMA LayoutApart ==
  ASSUME RingState, "async" \notin Env, NEW s, NEW off, Layout(s, off)
  PROVE  TbdsApart
<1>. SUFFICES ASSUME NEW i \in Busy, NEW j \in Busy, i # j
     PROVE  /\ TbdsOf(i) \cap TbdsOf(j) = {}
            /\ <<i, tcb[i].nb>> \in maps => tcb[i].TbdStart \notin TbdsOf(j)
  BY DEF TbdsApart
<1>1. IndexTypes /\ TcbTypes /\ TcbRing /\ nBusySend \in 0 .. NumTcb
  BY DEF RingState, SendTypes, TcbRing
<1>2. PICK d \in 0 .. nBusySend - 1 : i = BusyAt(d)
  BY <1>1, BusySteps DEF Busy
<1>3. PICK e \in 0 .. nBusySend - 1 : j = BusyAt(e)
  BY <1>1, BusySteps DEF Busy
<1>4. d # e
  BY <1>2, <1>3
<1>5. /\ d < e => off[d + 1] <= off[e]
      /\ e < d => off[e + 1] <= off[d]
  BY <1>1, <1>4 DEF Layout
<1>6. /\ off[d] \in 0 .. nTbds /\ off[d + 1] \in 0 .. nTbds
      /\ off[e] \in 0 .. nTbds /\ off[e + 1] \in 0 .. nTbds
  BY TbdsOfBusy
<1>7. s \in 0 .. nTbds - 1
  BY OffsetsAre
<1>8. \A o, x \in 0 .. nTbds - 1 : NthTbd(s, o) = NthTbd(s, x) => o = x
  BY <1>7, TbdSteps
<1>9. TbdsOf(i) \cap TbdsOf(j) = {}
  <2>. SUFFICES ASSUME NEW t \in TbdsOf(i), t \in TbdsOf(j) PROVE FALSE
    OBVIOUS
  <2>1. PICK o \in off[d] .. off[d + 1] - 1 : t = NthTbd(s, o)
    BY <1>2, TbdsOfBusy
  <2>2. PICK x \in off[e] .. off[e + 1] - 1 : t = NthTbd(s, x)
    BY <1>3, TbdsOfBusy
  <2>3. o \in 0 .. nTbds - 1 /\ x \in 0 .. nTbds - 1
    BY <1>6, Sizes
  <2>4. o = x
    BY <1>8, <2>1, <2>2, <2>3
  <2>. QED BY <1>4, <1>5, <1>6, <2>4
<1>10. ASSUME <<i, tcb[i].nb>> \in maps, tcb[i].TbdStart \in TbdsOf(j)
       PROVE  FALSE
  <2>1. /\ i = BusyAt(nBusySend - 1) /\ nBusySend \in 1 .. NumTcb
        /\ tcb[i].nTbds = 0
    BY <1>10, WaitsLast
  <2>2. d = nBusySend - 1
    <3>1. \A a, b \in 0 .. nBusySend - 1 : BusyAt(a) = BusyAt(b) => a = b
      BY <1>1, BusySteps
    <3>2. nBusySend - 1 \in 0 .. nBusySend - 1
      BY <2>1, Sizes
    <3>. QED BY <1>2, <2>1, <3>1, <3>2
  <2>3. tcb[i].TbdStart = NthTbd(s, off[d])
    BY <1>2 DEF Layout
  <2>4. off[d] \in 0 .. nTbds - 1
    BY <1>1, <2>1, <2>2, RoomIsLeft, Sizes
  <2>5. PICK x \in off[e] .. off[e + 1] - 1 : tcb[i].TbdStart = NthTbd(s, x)
    BY <1>3, <1>10, TbdsOfBusy
  <2>6. x \in 0 .. nTbds - 1
    BY <1>6, Sizes
  <2>7. off[d] = x
    BY <1>8, <2>3, <2>4, <2>5, <2>6
  <2>. QED BY <1>4, <1>5, <1>6, <2>1, <2>2, <2>7
<1>. QED BY <1>9, <1>10

(* TbdsApart, unless a reset found a CPU in the send loop.                 *)
THEOREM TbdsApartHolds == TbdEnv => (Spec => [](Sane => TbdsApart))
<1>. SUFFICES ASSUME TbdEnv PROVE Spec => [](Sane => TbdsApart)
  OBVIOUS
<1>1. Init => TbdInv
  BY LayoutInit DEF TbdInv
<1>2. RingInv /\ TbdInv /\ [Next]_sendVars => TbdInv'
  <2>. SUFFICES ASSUME RingInv, TbdInv, [Next]_sendVars, Sane'
       PROVE  (\E s, off : Layout(s, off))'
    BY DEF TbdInv
  <2>1. RingState /\ \E s, off : Layout(s, off)
    BY SaneEarlier DEF RingInv, TbdInv
  <2>. QED BY <2>1, LayoutKeeps
<1>3. RingInv /\ TbdInv => (Sane => TbdsApart)
  BY LayoutApart DEF TbdEnv, RingInv, TbdInv
<1>4. RingEnv
  BY DEF TbdEnv
<1>. QED BY RingInvariant, <1>1, <1>2, <1>3, <1>4, PTL DEF Spec

---------------------------------------------------------------------------
(* What the NIC owns follows the layout.                                   *)
OwnedPart(s, off, k) ==
  \A o \in 0 .. nTbds - 1 :
    tbd[NthTbd(s, o)].own <=> k <= o /\ o < off[nBusySend]
FramePart(s, off, k) ==
  \A o \in k .. off[nBusySend] - 1 : \E d \in 0 .. nBusySend - 1 :
    /\ off[d] <= o /\ o < off[d + 1]
    /\ tbd[NthTbd(s, o)].frame = tcb[BusyAt(d)].nb

(* Ownership, in the two parts that the proofs take up one by one.         *)
LEMMA OwnedParts ==
  ASSUME NEW s, NEW off, NEW k
  PROVE  Owned(s, off, k) <=> /\ k \in 0 .. off[nBusySend]
                              /\ txNext = NthTbd(s, k)
                              /\ OwnedPart(s, off, k) /\ FramePart(s, off, k)
BY Zenon DEF Owned, OwnedPart, FramePart

(* At the start the NIC owns nothing.                                      *)
LEMMA OwnedInit == Init => Owned(0, NoOffsets, 0)
<1>. SUFFICES ASSUME Init PROVE Owned(0, NoOffsets, 0)
  OBVIOUS
<1>. USE Sizes
<1>1. nBusySend = 0 /\ txNext = 0 /\ tbd = [t \in 0 .. nTbds - 1 |-> ZeroTbd]
  BY DEF Init
<1>2. NoOffsets[0] = 0
  BY DEF NoOffsets
<1>3. 0 = NthTbd(0, 0) /\ \A o \in 0 .. nTbds - 1 : NthTbd(0, o) = o
  BY DEF NthTbd
<1>4. OwnedPart(0, NoOffsets, 0)
  BY <1>1, <1>2, <1>3 DEF OwnedPart, ZeroTbd
<1>5. FramePart(0, NoOffsets, 0)
  BY <1>1, <1>2 DEF FramePart
<1>. QED BY <1>1, <1>2, <1>3, <1>4, <1>5, OwnedParts

(* Ownership looks only at the control blocks, the ring and txNext.        *)
LEMMA OwnedSame ==
  ASSUME NEW s, NEW off, NEW k, Owned(s, off, k),
         UNCHANGED <<tcbVars, tbdVars, txNext>>
  PROVE  Owned(s, off, k)'
BY DEF Owned, BusyAt, tcbVars, tbdVars

(* A control block just allocated brings the NIC no descriptors.           *)
LEMMA OwnedAllocate ==
  ASSUME RingState, NEW s, NEW off, Layout(s, off), XmitAllocateTcb,
         NEW k, Owned(s, off, k), NEW n \in 0 .. NumTcb - 1, n = nBusySend
  PROVE  Owned(s, [off EXCEPT ![n + 1] = off[n]], k)'
<1>. DEFINE off2 == [off EXCEPT ![n + 1] = off[n]]
<1>. USE Sizes
<1>1. /\ k \in 0 .. off[n] /\ txNext = NthTbd(s, k)
      /\ OwnedPart(s, off, k) /\ FramePart(s, off, k)
  BY OwnedParts
<1>2. /\ nBusySend' = n + 1 /\ txNext' = txNext
      /\ tbd' = [tbd EXCEPT ![NextFreeTbd] = ZeroTbd]
  BY DEF XmitAllocateTcb, nicVars
<1>9. NextFreeTbd = NthTbd(s, off[n]) /\ s \in 0 .. nTbds - 1
  BY DEF Layout
<1>10. off[n] \in 0 .. nTbds - 1
  BY RoomIsLeft
<1>11. \A o, x \in 0 .. nTbds - 1 : NthTbd(s, o) = NthTbd(s, x) => o = x
  BY <1>9, TbdSteps
<1>12. /\ DOMAIN tbd = 0 .. nTbds - 1
       /\ \A o \in 0 .. nTbds - 1 : NthTbd(s, o) \in 0 .. nTbds - 1
  <2>1. DOMAIN tbd = 0 .. nTbds - 1
    BY DEF RingState, SendTypes, TbdTypes
  <2>2. ASSUME NEW o \in 0 .. nTbds - 1
        PROVE  NthTbd(s, o) \in 0 .. nTbds - 1
    <3>1. o \in 0 .. nTbds
      OBVIOUS
    <3>. QED BY <1>9, <3>1, TbdStep
  <2>. QED BY <2>1, <2>2
<1>13. ~ tbd'[NthTbd(s, off[n])].own
  <2>1. tbd'[NthTbd(s, off[n])] = ZeroTbd
    BY <1>2, <1>9, <1>10, <1>12
  <2>. QED BY <2>1 DEF ZeroTbd
<1>14. \A o \in 0 .. nTbds - 1 :
         o # off[n] => tbd'[NthTbd(s, o)] = tbd[NthTbd(s, o)]
  BY <1>2, <1>9, <1>10, <1>11, <1>12
<1>3. \A d \in 0 .. n - 1 :
        BusyAt(d)' = BusyAt(d) /\ tcb'[BusyAt(d)] = tcb[BusyAt(d)]
  BY LayoutAllocate
<1>4. off2[n + 1] = off[n] /\ \A d \in 0 .. n : off2[d] = off[d]
  BY OffsetsAre
<1>. HIDE DEF off2
<1>5. OwnedPart(s, off2, k)'
  <2>1. ASSUME NEW o \in 0 .. nTbds - 1
        PROVE  tbd'[NthTbd(s, o)].own <=> k <= o /\ o < off[n]
    <3>1. tbd[NthTbd(s, o)].own <=> k <= o /\ o < off[n]
      BY <1>1 DEF OwnedPart
    <3>. QED BY <1>10, <1>13, <1>14, <3>1
  <2>. QED BY <1>2, <1>4, <2>1 DEF OwnedPart
<1>6. ASSUME NEW o \in k .. off[n] - 1
      PROVE  \E d \in 0 .. n : /\ off2[d] <= o /\ o < off2[d + 1]
                               /\ tbd'[NthTbd(s, o)].frame = tcb'[BusyAt(d)'].nb
  <2>1. PICK d \in 0 .. n - 1 : /\ off[d] <= o /\ o < off[d + 1]
                                /\ tbd[NthTbd(s, o)].frame = tcb[BusyAt(d)].nb
    BY <1>1 DEF FramePart
  <2>2. d \in 0 .. n /\ d + 1 \in 0 .. n
    OBVIOUS
  <2>3. tbd'[NthTbd(s, o)] = tbd[NthTbd(s, o)]
    <3>1. o \in 0 .. nTbds - 1 /\ o # off[n]
      BY <1>1, <1>10
    <3>. QED BY <1>14, <3>1
  <2>. QED BY <1>3, <1>4, <2>1, <2>2, <2>3
<1>7. FramePart(s, off2, k)'
  BY <1>2, <1>4, <1>6 DEF FramePart, BusyAt
<1>8. k \in 0 .. off2[nBusySend'] /\ txNext' = NthTbd(s, k)
  BY <1>1, <1>2, <1>4
<1>15. Owned(s, off2, k)'
  BY Zenon, <1>5, <1>7, <1>8 DEF Owned, OwnedPart, FramePart
<1>. QED BY Zenon, <1>15 DEF off2

(* Filling the descriptors of a frame hands exactly these to the NIC.      *)
LEMMA OwnedGive ==
  ASSUME RingState, "async" \notin Env, NEW s, NEW off, Layout(s, off),
         NEW m \in maps, NEW j \in 1 .. NIC_MAX_PHYS_BUF_COUNT,
         MpProcessSGList(m[1], m[2], j), NEW n, n = nBusySend,
         NEW k, Owned(s, off, k)
  PROVE  Owned(s, [off EXCEPT ![n] = off[n] + j], k)'
<1>. DEFINE off2 == [off EXCEPT ![n] = off[n] + j]
<1>. USE Sizes
<1>1. /\ k \in 0 .. off[n] /\ txNext = NthTbd(s, k)
      /\ OwnedPart(s, off, k) /\ FramePart(s, off, k)
  BY OwnedParts
<1>2. /\ n \in 1 .. NumTcb /\ m[1] = BusyAt(n - 1) /\ off[n] = off[n - 1]
      /\ off[n] + j \in 0 .. nTbds
      /\ \A d \in 0 .. n - 1 : /\ BusyAt(d)' = BusyAt(d)
                               /\ tcb'[BusyAt(d)].nb = tcb[BusyAt(d)].nb
  <2>1. n \in 1 .. NumTcb /\ m[1] = BusyAt(n - 1)
    BY LayoutGive
  <2>2. off[n] = off[n - 1]
    <3>1. tcb[BusyAt(n - 1)].nTbds = 0
      BY WaitsLast
    <3>2. n - 1 \in 0 .. nBusySend - 1 /\ (n - 1) + 1 = n
      BY <2>1
    <3>3. off[(n - 1) + 1] = off[n - 1] + 0
      BY <3>1, <3>2 DEF Layout
    <3>. QED BY <2>1, <3>2, <3>3, OffsetsAre
  <2>5. off[n] + j \in 0 .. nTbds
    BY Zenon, LayoutGive
  <2>3. \A d \in 0 .. n - 1 : BusyAt(d)' = BusyAt(d)
    BY DEF MpProcessSGList, BusyAt
  <2>4. \A d \in 0 .. n - 1 : tcb'[BusyAt(d)].nb = tcb[BusyAt(d)].nb
    BY LayoutGive
  <2>. QED BY <2>1, <2>2, <2>3, <2>4, <2>5
<1>3. /\ s \in 0 .. nTbds - 1 /\ \A d \in 0 .. n : off[d] \in 0 .. nTbds
  BY <1>2, OffsetsAre
<1>4. off2[n] = off[n] + j /\ \A d \in 0 .. n - 1 : off2[d] = off[d]
  <2>1. off \in [0 .. NumTcb -> 0 .. nTbds]
    BY OffsetsAre
  <2>. QED BY <1>2, <2>1
<1>. HIDE DEF off2
<1>5. nBusySend' = n /\ txNext' = txNext
  BY DEF MpProcessSGList
<1>. DEFINE t0 == tcb[m[1]].TbdStart
            given(t) == \E x \in 0 .. j - 1 : t = NthTbd(t0, x)
<1>6. t0 = NthTbd(s, off[n])
  BY <1>2 DEF Layout
<1>7. /\ DOMAIN tbd = 0 .. nTbds - 1
      /\ \A o \in 0 .. nTbds - 1 : NthTbd(s, o) \in 0 .. nTbds - 1
  <2>1. DOMAIN tbd = 0 .. nTbds - 1
    BY DEF RingState, SendTypes, TbdTypes
  <2>2. ASSUME NEW o \in 0 .. nTbds - 1
        PROVE  NthTbd(s, o) \in 0 .. nTbds - 1
    <3>1. o \in 0 .. nTbds
      OBVIOUS
    <3>. QED BY <1>3, <3>1, TbdStep
  <2>. QED BY <2>1, <2>2
<1>8. ASSUME NEW o \in 0 .. nTbds - 1
      PROVE  given(NthTbd(s, o)) <=> off[n] <= o /\ o < off[n] + j
  <2>1. \A x \in 0 .. j - 1 : NthTbd(t0, x) = NthTbd(s, off[n] + x)
    <3>1. \A a, b \in 0 .. nTbds :
            a + b <= nTbds => NthTbd(NthTbd(s, a), b) = NthTbd(s, a + b)
      BY <1>3, TbdSteps
    <3>2. ASSUME NEW x \in 0 .. j - 1
          PROVE  NthTbd(t0, x) = NthTbd(s, off[n] + x)
      <4>1. off[n] \in 0 .. nTbds /\ x \in 0 .. nTbds /\ off[n] + x <= nTbds
        BY <1>2, <1>3
      <4>. QED BY <1>6, <3>1, <4>1
    <3>. QED BY <3>2
  <2>2. ASSUME NEW x \in 0 .. j - 1, NthTbd(s, o) = NthTbd(s, off[n] + x)
        PROVE  o = off[n] + x
    <3>1. \A a, b \in 0 .. nTbds - 1 : NthTbd(s, a) = NthTbd(s, b) => a = b
      BY <1>3, TbdSteps
    <3>2. off[n] + x \in 0 .. nTbds - 1
      BY <1>2, <1>3
    <3>. QED BY <2>2, <3>1, <3>2
  <2>3. ASSUME off[n] <= o, o < off[n] + j
        PROVE  given(NthTbd(s, o))
    <3>1. o - off[n] \in 0 .. j - 1 /\ off[n] + (o - off[n]) = o
      BY <1>2, <1>3, <2>3
    <3>. QED BY <2>1, <3>1
  <2>4. ASSUME given(NthTbd(s, o))
        PROVE  off[n] <= o /\ o < off[n] + j
    <3>1. PICK x \in 0 .. j - 1 : NthTbd(s, o) = NthTbd(s, off[n] + x)
      BY <2>1, <2>4
    <3>2. o = off[n] + x
      BY <2>2, <3>1
    <3>. QED BY <1>2, <1>3, <3>2
  <2>. QED BY <2>3, <2>4
<1>9. \A t \in 0 .. nTbds - 1 :
        IF given(t) THEN tbd'[t].own /\ tbd'[t].frame = tcb[m[1]].nb
                    ELSE tbd'[t] = tbd[t]
  BY <1>7 DEF MpProcessSGList
<1>. HIDE DEF given, t0
<1>10. ASSUME NEW o \in 0 .. nTbds - 1
       PROVE  tbd'[NthTbd(s, o)].own <=> k <= o /\ o < off2[n]
  <2>1. tbd[NthTbd(s, o)].own <=> k <= o /\ o < off[n]
    BY <1>1 DEF OwnedPart
  <2>2. NthTbd(s, o) \in 0 .. nTbds - 1
    BY <1>7
  <2>3. CASE off[n] <= o /\ o < off[n] + j
    <3>1. tbd'[NthTbd(s, o)].own
      BY <1>8, <1>9, <2>2, <2>3
    <3>. QED BY <1>1, <1>2, <1>3, <1>4, <2>3, <3>1
  <2>4. CASE ~ (off[n] <= o /\ o < off[n] + j)
    <3>1. tbd'[NthTbd(s, o)] = tbd[NthTbd(s, o)]
      BY <1>8, <1>9, <2>2, <2>4
    <3>2. o < off2[n] <=> o < off[n]
      BY <1>2, <1>3, <1>4, <2>4
    <3>. QED BY <2>1, <3>1, <3>2
  <2>. QED BY <2>3, <2>4
<1>11. OwnedPart(s, off2, k)'
  BY <1>5, <1>10 DEF OwnedPart
<1>12. ASSUME NEW o \in k .. off2[n] - 1
       PROVE  \E d \in 0 .. n - 1 :
                /\ off2[d] <= o /\ o < off2[d + 1]
                /\ tbd'[NthTbd(s, o)].frame = tcb'[BusyAt(d)'].nb
  <2>1. /\ o \in 0 .. nTbds - 1 /\ k <= o /\ o < off[n] + j
        /\ off[n] \in 0 .. nTbds
    BY <1>1, <1>2, <1>3, <1>4
  <2>4. /\ NthTbd(s, o) \in 0 .. nTbds - 1
        /\ given(NthTbd(s, o)) <=> off[n] <= o
    BY <1>7, <1>8, <2>1
  <2>2. CASE off[n] <= o
    <3>1. tbd'[NthTbd(s, o)].frame = tcb[m[1]].nb
      BY <1>9, <2>2, <2>4
    <3>2. n - 1 \in 0 .. n - 1 /\ (n - 1) + 1 = n
      BY <1>2
    <3>3. off2[n - 1] <= o /\ o < off2[n]
      BY <1>2, <1>4, <2>2, <3>2
    <3>4. tcb'[BusyAt(n - 1)'].nb = tcb[m[1]].nb
      BY <1>2, <3>2
    <3>. QED BY <3>1, <3>2, <3>3, <3>4
  <2>3. CASE o < off[n]
    <3>1. tbd'[NthTbd(s, o)] = tbd[NthTbd(s, o)]
      <4>1. ~ (off[n] <= o)
        BY <2>1, <2>3
      <4>. QED BY <1>9, <2>4, <4>1
    <3>2. PICK d \in 0 .. n - 1 :
            /\ off[d] <= o /\ o < off[d + 1]
            /\ tbd[NthTbd(s, o)].frame = tcb[BusyAt(d)].nb
      <4>1. o \in k .. off[n] - 1
        BY <1>1, <2>1, <2>3
      <4>. QED BY <1>1, <4>1 DEF FramePart
    <3>3. d # n - 1
      BY <1>2, <1>3, <2>1, <3>2
    <3>4. d + 1 \in 0 .. n - 1
      BY <1>2, <3>3
    <3>5. off2[d] = off[d] /\ off2[d + 1] = off[d + 1]
      BY <1>4, <3>4
    <3>6. tcb'[BusyAt(d)'].nb = tcb[BusyAt(d)].nb
      BY <1>2
    <3>. QED BY <3>1, <3>2, <3>5, <3>6
  <2>. QED BY <1>2, <1>3, <2>1, <2>2, <2>3
<1>13. FramePart(s, off2, k)'
  BY <1>5, <1>12 DEF FramePart, BusyAt
<1>14. k \in 0 .. off2[nBusySend'] /\ txNext' = NthTbd(s, k)
  BY <1>1, <1>2, <1>3, <1>4, <1>5
<1>15. Owned(s, off2, k)'
  BY Zenon, <1>11, <1>13, <1>14 DEF Owned, OwnedPart, FramePart
<1>. QED BY Zenon, <1>15 DEF off2

(* Transmitting one descriptor hands exactly this one back.                *)
LEMMA OwnedTransmit ==
  ASSUME RingState, NEW s, NEW off, Layout(s, off), NicTransmit,
         UNCHANGED <<tcbVars, NextFreeTbd>>, NEW k, Owned(s, off, k)
  PROVE  Owned(s, off, k + 1)'
<1>. USE Sizes
<1>. DEFINE n == nBusySend
<1>1. /\ k \in 0 .. off[n] /\ txNext = NthTbd(s, k)
      /\ OwnedPart(s, off, k) /\ FramePart(s, off, k)
  BY OwnedParts
<1>2. n \in 0 .. NumTcb
  BY DEF RingState, TcbRing
<1>3. s \in 0 .. nTbds - 1 /\ off[n] \in 0 .. nTbds
  BY <1>2, OffsetsAre
<1>4. /\ tbd[NthTbd(s, k)].own
      /\ tbd' = [tbd EXCEPT ![NthTbd(s, k)].own = FALSE]
      /\ txNext' = NthTbd(NthTbd(s, k), 1)
      /\ nBusySend' = n /\ CurrSendHead' = CurrSendHead /\ tcb' = tcb
  BY <1>1 DEF NicTransmit, INC_TBD, tcbVars
<1>. HIDE DEF n
<1>5. k < off[n] /\ k \in 0 .. nTbds - 1
  <2>1. CASE k = nTbds
    <3>1. NthTbd(s, k) = NthTbd(s, 0)
      BY <1>3, <2>1, TbdSteps
    <3>2. 0 \in 0 .. nTbds - 1
      OBVIOUS
    <3>3. k <= 0
      BY <1>1, <1>4, <3>1, <3>2 DEF OwnedPart
    <3>. QED BY <2>1, <3>3
  <2>2. CASE k # nTbds
    <3>1. k \in 0 .. nTbds - 1
      BY <1>1, <1>3, <2>2
    <3>. QED BY <1>1, <1>4, <3>1 DEF OwnedPart, n
  <2>. QED BY <2>1, <2>2
<1>6. txNext' = NthTbd(s, k + 1)
  <2>1. \A o, x \in 0 .. nTbds :
          o + x <= nTbds => NthTbd(NthTbd(s, o), x) = NthTbd(s, o + x)
    BY <1>3, TbdSteps
  <2>2. k \in 0 .. nTbds /\ 1 \in 0 .. nTbds /\ k + 1 <= nTbds
    BY <1>5
  <2>. QED BY <1>4, <2>1, <2>2
<1>7. /\ tbd \in [0 .. nTbds - 1 -> [own : BOOLEAN, last : BOOLEAN,
                                    frame : Nbs \cup {NULL}]]
      /\ \A o \in 0 .. nTbds - 1 : NthTbd(s, o) \in 0 .. nTbds - 1
  <2>1. ASSUME NEW o \in 0 .. nTbds - 1
        PROVE  NthTbd(s, o) \in 0 .. nTbds - 1
    <3>1. o \in 0 .. nTbds
      OBVIOUS
    <3>. QED BY <1>3, <3>1, TbdStep
  <2>. QED BY <2>1 DEF RingState, SendTypes, TbdTypes
<1>8. ASSUME NEW t \in 0 .. nTbds - 1
      PROVE  /\ tbd'[t].frame = tbd[t].frame
             /\ tbd'[t].own <=> tbd[t].own /\ t # NthTbd(s, k)
  <2>1. NthTbd(s, k) \in 0 .. nTbds - 1
    BY <1>5, <1>7
  <2>2. tbd' = [tbd EXCEPT ![NthTbd(s, k)] = [@ EXCEPT !.own = FALSE]]
    BY Zenon, <1>4
  <2>3. CASE t # NthTbd(s, k)
    <3>1. tbd'[t] = tbd[t]
      BY <1>7, <2>1, <2>2, <2>3
    <3>. QED BY <2>3, <3>1
  <2>4. CASE t = NthTbd(s, k)
    <3>1. tbd'[t] = [tbd[t] EXCEPT !.own = FALSE]
      BY <1>7, <2>1, <2>2, <2>4
    <3>. QED BY <1>7, <2>4, <3>1
  <2>. QED BY <2>3, <2>4
<1>9. ASSUME NEW o \in 0 .. nTbds - 1
      PROVE  tbd'[NthTbd(s, o)].own <=> k + 1 <= o /\ o < off[n]
  <2>1. NthTbd(s, o) = NthTbd(s, k) <=> o = k
    <3>1. \A a, b \in 0 .. nTbds - 1 : NthTbd(s, a) = NthTbd(s, b) => a = b
      BY <1>3, TbdSteps
    <3>. QED BY <1>5, <3>1
  <2>2. tbd[NthTbd(s, o)].own <=> k <= o /\ o < off[n]
    BY <1>1 DEF OwnedPart, n
  <2>3. tbd'[NthTbd(s, o)].own <=>
          tbd[NthTbd(s, o)].own /\ NthTbd(s, o) # NthTbd(s, k)
    BY <1>7, <1>8
  <2>4. k <= o /\ o # k <=> k + 1 <= o
    BY <1>5
  <2>. QED BY <2>1, <2>2, <2>3, <2>4
<1>10. OwnedPart(s, off, k + 1)'
  BY <1>4, <1>9 DEF OwnedPart
<1>11. ASSUME NEW o \in k + 1 .. off[n] - 1
       PROVE  \E d \in 0 .. n - 1 :
                /\ off[d] <= o /\ o < off[d + 1]
                /\ tbd'[NthTbd(s, o)].frame = tcb[BusyAt(d)].nb
  <2>1. o \in k .. off[n] - 1 /\ o \in 0 .. nTbds - 1
    BY <1>3, <1>5
  <2>2. tbd'[NthTbd(s, o)].frame = tbd[NthTbd(s, o)].frame
    BY <1>7, <1>8, <2>1
  <2>. QED BY <1>1, <2>1, <2>2 DEF FramePart, n
<1>12. FramePart(s, off, k + 1)'
  BY <1>4, <1>11 DEF FramePart, BusyAt
<1>13. k + 1 \in 0 .. off[nBusySend']
  BY <1>3, <1>4, <1>5
<1>. QED BY Zenon, <1>6, <1>10, <1>12, <1>13 DEF Owned, OwnedPart, FramePart

(* Taking back a control block whose mapping failed moves no ownership.    *)
LEMMA OwnedUnmap ==
  ASSUME RingState, NEW s, NEW off, Layout(s, off), XmitMapFailed,
         NEW k, Owned(s, off, k)
  PROVE  Owned(s, off, k)'
<1>. USE Sizes
<1>. DEFINE n == nBusySend
<1>1. /\ k \in 0 .. off[n] /\ txNext = NthTbd(s, k)
      /\ OwnedPart(s, off, k) /\ FramePart(s, off, k)
  BY OwnedParts
<1>2. /\ n \in 1 .. NumTcb /\ off[n] = off[n - 1]
      /\ \A d \in 0 .. n - 2 :
           BusyAt(d)' = BusyAt(d) /\ tcb'[BusyAt(d)] = tcb[BusyAt(d)]
  BY Zenon, LayoutUnmap
<1>3. nBusySend' = n - 1 /\ tbd' = tbd /\ txNext' = txNext
  BY DEF XmitMapFailed, tbdVars, nicVars
<1>4. off[n] \in 0 .. nTbds
  BY <1>2, OffsetsAre
<1>. HIDE DEF n
<1>5. OwnedPart(s, off, k)'
  BY <1>1, <1>2, <1>3 DEF OwnedPart, n
<1>6. ASSUME NEW o \in k .. off[n - 1] - 1
      PROVE  \E d \in 0 .. n - 2 : /\ off[d] <= o /\ o < off[d + 1]
                                   /\ tbd[NthTbd(s, o)].frame
                                      = tcb'[BusyAt(d)'].nb
  <2>1. PICK d \in 0 .. n - 1 : /\ off[d] <= o /\ o < off[d + 1]
                                /\ tbd[NthTbd(s, o)].frame = tcb[BusyAt(d)].nb
    BY <1>1, <1>2 DEF FramePart, n
  <2>2. d # n - 1
    BY <1>1, <1>2, <1>4, <2>1
  <2>3. d \in 0 .. n - 2
    BY <1>2, <2>2
  <2>. QED BY <1>2, <2>1, <2>3
<1>7. FramePart(s, off, k)'
  <2>1. nBusySend' - 1 = n - 2
    BY <1>2, <1>3
  <2>. QED BY <1>3, <1>6, <2>1 DEF FramePart, BusyAt
<1>8. k \in 0 .. off[nBusySend'] /\ txNext' = NthTbd(s, k)
  BY <1>1, <1>2, <1>3
<1>. QED BY Zenon, <1>5, <1>7, <1>8 DEF Owned, OwnedPart, FramePart

(* Freeing the oldest frame leaves the ownership of the others.            *)
LEMMA OwnedFree ==
  ASSUME RingState, NEW s, NEW off, Layout(s, off), DpcFreeTcb,
         NEW k, Owned(s, off, k)
  PROVE  /\ Layout(NthTbd(s, off[1]), Shifted(off))'
         /\ Owned(NthTbd(s, off[1]), Shifted(off), k - off[1])'
<1>. USE Sizes
<1>. DEFINE n == nBusySend
            off2 == Shifted(off)
            s2 == NthTbd(s, off[1])
<1>1. /\ k \in 0 .. off[n] /\ txNext = NthTbd(s, k)
      /\ OwnedPart(s, off, k) /\ FramePart(s, off, k)
  BY OwnedParts
<1>2. /\ CurrSendHead \in Tcbs /\ n > 0 /\ Sent(CurrSendHead)
      /\ nBusySend' = n - 1 /\ NextFreeTbd' = NextFreeTbd
      /\ CurrSendHead' = NextTcb(CurrSendHead)
      /\ tbd' = tbd /\ txNext' = txNext
  BY DEF DpcFreeTcb, tbdVars, nicVars, RingState, SendTypes, IndexTypes
<1>3. \A i \in Tcbs : i # CurrSendHead => tcb'[i] = tcb[i]
  BY <1>2, TcbFreed DEF DpcFreeTcb, RingState, SendTypes
<1>4. /\ Layout(s2, off2)'
      /\ \A d \in 0 .. n - 1 :
           off2[d] = off[d + 1] - off[1] /\ off[1] <= off[d + 1]
      /\ \A d \in 0 .. n - 2 : tcb'[BusyAt(d)'] = tcb[BusyAt(d + 1)]
  BY <1>2, <1>3, LayoutFree
<1>5. n \in 1 .. NumTcb
  BY <1>2 DEF RingState, TcbRing
<1>6. /\ s \in 0 .. nTbds - 1 /\ off[0] = 0
      /\ \A d \in 0 .. NumTcb : off[d] \in 0 .. nTbds
  BY OffsetsAre
<1>7. off[1] \in 0 .. nTbds /\ off[n] \in 0 .. nTbds /\ off[1] <= off[n]
  <2>1. off[1] \in 0 .. nTbds /\ off[n] \in 0 .. nTbds
    BY <1>5, <1>6
  <2>2. n - 1 \in 0 .. n - 1 /\ (n - 1) + 1 = n
    BY <1>5
  <2>3. off[1] <= off[(n - 1) + 1]
    BY <1>4, <2>2
  <2>. QED BY <2>1, <2>2, <2>3
<1>. HIDE DEF n, off2, s2
<1>8. off2[n - 1] = off[n] - off[1]
  <2>1. n - 1 \in 0 .. n - 1 /\ (n - 1) + 1 = n
    BY <1>5
  <2>. QED BY <1>4, <2>1
<1>9. off[1] <= k
  <2>1. CurrSendHead = BusyAt(0)
    BY <1>2 DEF BusyAt, NthTcb, Tcbs
  <2>2. /\ tcb[CurrSendHead].TbdStart = NthTbd(s, 0)
        /\ off[1] = 0 + tcb[CurrSendHead].nTbds
    BY <1>5, <1>6, <2>1 DEF Layout, n
  <2>3. tcb[CurrSendHead].TbdStart = s
    BY <1>6, <2>2, TbdSteps
  <2>4. /\ tcb[CurrSendHead].nTbds = off[1] /\ off[1] > 0
        /\ ~ tbd[NthTbd(s, off[1] - 1)].own
    <3>1. tcb[CurrSendHead].nTbds \in Nat
      BY <1>2 DEF RingState, SendTypes, TcbTypes, MP_TCB
    <3>2. tcb[CurrSendHead].nTbds = off[1]
      BY <2>2, <3>1
    <3>. QED BY <1>2, <2>3, <3>2 DEF Sent, TbdEnd
  <2>5. off[1] - 1 \in 0 .. nTbds - 1 /\ off[1] - 1 < off[n]
    BY <1>7, <2>4
  <2>6. ~ (k <= off[1] - 1)
    BY <1>1, <2>4, <2>5 DEF OwnedPart, n
  <2>. QED BY <1>1, <1>7, <2>6
<1>. DEFINE k2 == k - off[1]
<1>10. k2 \in 0 .. off2[n - 1] /\ off[1] + k2 = k /\ k2 \in 0 .. nTbds
  BY <1>1, <1>7, <1>8, <1>9
<1>11. txNext' = NthTbd(s2, k2)
  <2>1. \A o, x \in 0 .. nTbds :
          o + x <= nTbds => NthTbd(NthTbd(s, o), x) = NthTbd(s, o + x)
    BY <1>6, TbdSteps
  <2>2. NthTbd(NthTbd(s, off[1]), k2) = NthTbd(s, off[1] + k2)
    BY <1>1, <1>7, <1>10, <2>1
  <2>. QED BY <1>1, <1>2, <1>10, <2>2 DEF s2
<1>. HIDE DEF k2
<1>12. ASSUME NEW o \in 0 .. nTbds - 1, off[1] + o < nTbds
       PROVE  NthTbd(s2, o) = NthTbd(s, off[1] + o)
  <2>1. \A a, x \in 0 .. nTbds :
          a + x <= nTbds => NthTbd(NthTbd(s, a), x) = NthTbd(s, a + x)
    BY <1>6, TbdSteps
  <2>. QED BY <1>7, <1>12, <2>1 DEF s2
<1>13. ASSUME NEW o \in 0 .. nTbds - 1
       PROVE  tbd[NthTbd(s2, o)].own <=> k2 <= o /\ o < off2[n - 1]
  <2>1. CASE off[1] + o < nTbds
    <3>1. off[1] + o \in 0 .. nTbds - 1
      BY <1>7, <2>1
    <3>2. tbd[NthTbd(s2, o)].own <=> k <= off[1] + o /\ off[1] + o < off[n]
      BY <1>1, <1>12, <2>1, <3>1 DEF OwnedPart, n
    <3>. QED BY <1>1, <1>7, <1>8, <1>10, <3>2
  <2>2. CASE off[1] + o >= nTbds
    <3>1. \A a \in 0 .. nTbds, x \in 0 .. nTbds - 1 :
            a + x >= nTbds => NthTbd(NthTbd(s, a), x) = NthTbd(s, a + x - nTbds)
      BY <1>6, TbdSteps
    <3>2. NthTbd(s2, o) = NthTbd(s, off[1] + o - nTbds)
      BY <1>7, <2>2, <3>1 DEF s2
    <3>3. off[1] + o - nTbds \in 0 .. nTbds - 1 /\ off[1] + o - nTbds < off[1]
      BY <1>7, <2>2
    <3>4. ~ (k <= off[1] + o - nTbds)
      BY <1>1, <1>7, <1>9, <3>3
    <3>5. ~ tbd[NthTbd(s2, o)].own
      BY <1>1, <3>2, <3>3, <3>4 DEF OwnedPart
    <3>6. ~ (o < off2[n - 1])
      BY <1>7, <1>8, <2>2
    <3>. QED BY <3>5, <3>6
  <2>. QED BY <1>7, <2>1, <2>2
<1>14. OwnedPart(s2, off2, k2)'
  BY <1>2, <1>13 DEF OwnedPart, n
<1>15. ASSUME NEW o \in k2 .. off2[n - 1] - 1
       PROVE  \E d \in 0 .. n - 2 :
                /\ off2[d] <= o /\ o < off2[d + 1]
                /\ tbd[NthTbd(s2, o)].frame = tcb'[BusyAt(d)'].nb
  <2>1. /\ o \in 0 .. nTbds - 1 /\ off[1] + o < nTbds
        /\ off[1] + o \in k .. off[n] - 1
    BY <1>1, <1>7, <1>8, <1>10
  <2>2. NthTbd(s2, o) = NthTbd(s, off[1] + o)
    BY <1>12, <2>1
  <2>3. PICK d \in 0 .. n - 1 :
          /\ off[d] <= off[1] + o /\ off[1] + o < off[d + 1]
          /\ tbd[NthTbd(s, off[1] + o)].frame = tcb[BusyAt(d)].nb
    BY <1>1, <2>1 DEF FramePart, n
  <2>4. d # 0
    BY <1>7, <2>1, <2>3
  <2>5. d - 1 \in 0 .. n - 2 /\ (d - 1) + 1 = d /\ d \in 0 .. n - 1
    BY <1>5, <2>4
  <2>6. off2[d - 1] = off[d] - off[1] /\ off2[d] = off[d + 1] - off[1]
    <3>1. d - 1 \in 0 .. n - 1
      BY <1>5, <2>5
    <3>. QED BY <1>4, <2>5, <3>1
  <2>7. tcb'[BusyAt(d - 1)'] = tcb[BusyAt(d)]
    BY <1>4, <2>5
  <2>8. off[d] \in Int /\ off[d + 1] \in Int
    BY <1>5, <1>6
  <2>9. off2[d - 1] <= o /\ o < off2[(d - 1) + 1]
    BY <1>7, <2>1, <2>3, <2>5, <2>6, <2>8
  <2>. QED BY <2>2, <2>3, <2>5, <2>7, <2>9
<1>16. FramePart(s2, off2, k2)'
  <2>1. nBusySend' - 1 = n - 2
    BY <1>2, <1>5
  <2>. QED BY <1>2, <1>15, <2>1 DEF FramePart, BusyAt, n
<1>17. Owned(s2, off2, k2)'
  <2>1. k2 \in 0 .. off2[nBusySend']
    BY <1>2, <1>10 DEF n
  <2>. QED BY Zenon, <1>11, <1>14, <1>16, <2>1 DEF Owned, OwnedPart, FramePart
<1>. QED BY <1>4, <1>17 DEF s2, off2, k2

(* What the NIC owns is in the TBDs of a busy TCB.                         *)
LEMMA OwnedBusy ==
  ASSUME RingState, NEW s, NEW off, NEW k, Layout(s, off), Owned(s, off, k)
  PROVE  NicOwnsBusyFrames
<1>. SUFFICES ASSUME NEW t \in 0 .. nTbds - 1, tbd[t].own
     PROVE  \E i \in Busy : t \in TbdsOf(i) /\ tbd[t].frame = tcb[i].nb
  BY DEF NicOwnsBusyFrames
<1>. USE Sizes
<1>1. /\ k \in 0 .. off[nBusySend]
      /\ OwnedPart(s, off, k) /\ FramePart(s, off, k)
  BY OwnedParts
<1>2. /\ nBusySend \in 0 .. NumTcb /\ s \in 0 .. nTbds - 1
      /\ off[nBusySend] \in 0 .. nTbds
  <2>1. nBusySend \in 0 .. NumTcb
    BY DEF RingState, TcbRing
  <2>. QED BY <2>1, OffsetsAre
<1>3. PICK o \in 0 .. nTbds - 1 : t = NthTbd(s, o)
  BY <1>2, TbdSteps
<1>4. k <= o /\ o < off[nBusySend]
  BY <1>1, <1>3 DEF OwnedPart
<1>5. o \in k .. off[nBusySend] - 1
  BY <1>1, <1>2, <1>4
<1>6. PICK d \in 0 .. nBusySend - 1 : /\ off[d] <= o /\ o < off[d + 1]
                                      /\ tbd[t].frame = tcb[BusyAt(d)].nb
  BY <1>1, <1>3, <1>5 DEF FramePart
<1>7. off[d] \in 0 .. nTbds /\ off[d + 1] \in 0 .. nTbds
  BY TbdsOfBusy
<1>8. o \in off[d] .. off[d + 1] - 1
  BY <1>6, <1>7
<1>9. t \in TbdsOf(BusyAt(d))
  BY <1>3, <1>8, TbdsOfBusy
<1>10. BusyAt(d) \in Busy
  BY BusySteps DEF RingState, SendTypes, Busy
<1>. QED BY <1>6, <1>9, <1>10

(* Every step leaves the descriptors laid out and owned as they should.    *)
LEMMA NicKeeps ==
  ASSUME NicEnv, RingState, [Next]_sendVars,
         NEW s, NEW off, NEW k, Layout(s, off), Owned(s, off, k)
  PROVE  (\E s2, off2, k2 : Layout(s2, off2) /\ Owned(s2, off2, k2))'
<1>. USE DEF NicEnv, TbdEnv
<1>1. CASE UNCHANGED <<tcbVars, tbdVars, txNext>>
  <2>1. Layout(s, off)' /\ Owned(s, off, k)'
    BY <1>1, LayoutSame, OwnedSame DEF tbdVars
  <2>. QED BY <2>1
<1>2. CASE UNCHANGED <<tcbVars, NextFreeTbd>> /\ NicTransmit
  <2>1. Layout(s, off)' /\ Owned(s, off, k + 1)'
    BY <1>2, LayoutSame, OwnedTransmit
  <2>. QED BY <2>1
<1>3. CASE XmitAllocateTcb
  <2>1. nBusySend \in 0 .. NumTcb - 1
    BY <1>3, Sizes
    DEF XmitAllocateTcb, MP_TCB_RESOURCES_AVAIABLE, RingState, TcbRing
  <2>2. PICK n \in 0 .. NumTcb - 1 : n = nBusySend
    BY <2>1
  <2>. DEFINE off2 == [off EXCEPT ![n + 1] = off[n]]
  <2>3. Layout(s, off2)' /\ Owned(s, off2, k)'
    BY <1>3, <2>2, LayoutAllocate, OwnedAllocate
  <2>. QED BY <2>3
<1>4. CASE XmitMapFailed
  <2>1. Layout(s, off)' /\ Owned(s, off, k)'
    BY <1>4, LayoutUnmap, OwnedUnmap
  <2>. QED BY <2>1
<1>5. ASSUME NEW m \in maps, NEW j \in 1 .. NIC_MAX_PHYS_BUF_COUNT,
             MpProcessSGList(m[1], m[2], j)
      PROVE  (\E s2, off2, k2 : Layout(s2, off2) /\ Owned(s2, off2, k2))'
  <2>1. PICK n : n = nBusySend
    OBVIOUS
  <2>. DEFINE off2 == [off EXCEPT ![n] = off[n] + j]
  <2>2. Layout(s, off2)'
    BY <1>5, <2>1, LayoutGive
  <2>3. Owned(s, off2, k)'
    BY <1>5, <2>1, OwnedGive
  <2>. QED BY <2>2, <2>3
<1>6. CASE DpcFreeTcb
  BY <1>6, OwnedFree
<1>7. reset = "none"
  BY DEF RingState, Control
<1>8. ~ (MPReset \/ MPResetFreeTcb \/ MPResetInitSend)
  BY <1>7 DEF MPReset, MPResetFreeTcb, MPResetInitSend
<1>. QED
  BY <1>1, <1>2, <1>3, <1>4, <1>5, <1>6, <1>8, TbdChanges

(* NicOwnsBusyFrames, when nothing is reset.                               *)
THEOREM NicOwnsHolds == NicEnv => (Spec => []NicOwnsBusyFrames)
<1>. SUFFICES ASSUME NicEnv PROVE Spec => []NicOwnsBusyFrames
  OBVIOUS
<1>1. Init => NicInv
  BY LayoutInit, OwnedInit DEF NicInv
<1>2. RingEnv /\ Sane
  BY DEF NicEnv, TbdEnv, Sane
<1>3. RingInv /\ NicInv /\ [Next]_sendVars => NicInv'
  <2>. SUFFICES ASSUME RingState, [Next]_sendVars, NicInv PROVE NicInv'
    BY <1>2 DEF RingInv
  <2>. QED BY NicKeeps DEF NicInv
<1>4. RingInv /\ NicInv => NicOwnsBusyFrames
  BY <1>2, OwnedBusy DEF RingInv, NicInv
<1>. QED BY RingInvariant, <1>1, <1>2, <1>3, <1>4, PTL DEF Spec

-----------------------------------------------------------------------------
(* The lists.                                                              *)

(* A copy that fails leaves a TCB in use that nothing counts.              *)
ListEnv == RingEnv /\ "copyfail" \notin Env

In(s, x) == \E k \in 1 .. Len(s) : s[k] = x
Distinct(s) == \A j, k \in 1 .. Len(s) : s[j] = s[k] => j = k
One(b) == IF b THEN 1 ELSE 0

(* Where l can be: with a TCB, in the send loop, in the queue, with the    *)
(* lists to be completed.                                                  *)
Held(l) == {i \in Tcbs : tcb[i].inUse /\ tcb[i].nbl = l}
Live(l) ==
  /\ xmit.nbl = l
  /\ \/ xmit.pc = "failed"
     \/ xmit.pc = "loop" /\ xmit.nb <= NbCount[l]
     \/ /\ xmit.pc = "mapping"
        /\ \/ xmit.nb < NbCount[l]
           \/ <<xmit.tcb, <<xmit.nbl, xmit.nb>>>> \in maps
Failed(l) == xmit.nbl = l /\ xmit.pc = "failed"
Done(l) == In(CompleteNetBufferLists, l) \/ In(aborted, l)
Placed(l) == \/ Held(l) # {} \/ freed.nbl = l \/ rfreed = l
             \/ Queued(l) \/ Done(l) \/ Live(l)

(* How many NET_BUFFERs of l are there.                                    *)
XmitShare(l) ==
  IF xmit.nbl = l /\ xmit.pc # "failed"
  THEN NbCount[l] - xmit.nb + (IF xmit.pc = "loop" THEN 1 ELSE 0) ELSE 0
QueueShare(l) ==
  IF Queued(l) /\ NextSend[l] # 0 THEN NbCount[l] - NextSend[l] + 1 ELSE 0
Shares(l) == Cardinality(Held(l)) + One(freed.nbl = l) + One(rfreed = l)
             + XmitShare(l) + QueueShare(l)

(* l was taken in and not completed.                                       *)
Owing(l) == owed[l] = 1 /\ l \notin entered

XmitNb ==
  /\ xmit.pc = "loop" => xmit.nb \in 1 .. NbCount[xmit.nbl] + 1
  /\ xmit.pc \in {"mapping", "failed"} => xmit.nb \in 1 .. NbCount[xmit.nbl]
QueueInv ==
  /\ Distinct(SendWaitQueue)
  /\ DpcSends => SendWaitQueue # <<>> /\ Head(SendWaitQueue) = xmit.nbl
  /\ \A l \in Nbls : Queued(l) =>
       IF DpcSends /\ xmit.nbl = l THEN NextSend[l] = 0
                                   ELSE NextSend[l] \in 1 .. NbCount[l]
ListInv(l) ==
  /\ owed[l] \in {0, 1} /\ (l \in entered => owed[l] = 1)
  /\ Owing(l) => RefCount[l] = Shares(l)
  /\ ~ Owing(l) => ~ Placed(l)
  /\ Done(l) => RefCount[l] = 0 /\ ~ Failed(l)
  /\ ~ (In(CompleteNetBufferLists, l) /\ In(aborted, l))
  /\ Owing(l) /\ RefCount[l] = 0 => Done(l) \/ Failed(l)
  /\ Live(l) /\ xmit.by = "send" => ~ Queued(l)

SendState == /\ dpc # "bugcheck" /\ XmitNb /\ QueueInv
             /\ \A l \in Nbls : ListInv(l)
SendInv == orderly => SendState

---------------------------------------------------------------------------
(* Sequences of lists.                                                     *)
LEMMA InAppend ==
  ASSUME NEW s \in Seq(Nbls), NEW x \in Nbls
  PROVE  /\ Append(s, x) \in Seq(Nbls) /\ In(Append(s, x), x)
         /\ \A y \in Nbls : In(Append(s, x), y) <=> In(s, y) \/ y = x
         /\ Distinct(s) /\ ~ In(s, x) => Distinct(Append(s, x))
         /\ Append(s, x) # <<>>
         /\ s # <<>> => Head(Append(s, x)) = Head(s)
<1>. DEFINE t == Append(s, x)
<1>1. /\ t \in Seq(Nbls) /\ Len(s) \in Nat /\ Len(t) = Len(s) + 1
      /\ t[Len(s) + 1] = x /\ \A k \in 1 .. Len(s) : t[k] = s[k]
  OBVIOUS
<1>. HIDE DEF t
<1>2. In(t, x) /\ \A y \in Nbls : In(t, y) <=> In(s, y) \/ y = x
  BY <1>1 DEF In
<1>3. Distinct(s) /\ ~ In(s, x) => Distinct(t)
  BY <1>1 DEF In, Distinct
<1>4. t # <<>>
  BY <1>1
<1>5. s # <<>> => Head(t) = Head(s)
  BY <1>1
<1>. QED BY <1>1, <1>2, <1>3, <1>4, <1>5 DEF t

(* What is in a queue is its head or is in its tail.                       *)
LEMMA InTail ==
  ASSUME NEW s \in Seq(Nbls), s # <<>>
  PROVE  /\ Tail(s) \in Seq(Nbls) /\ Head(s) \in Nbls /\ In(s, Head(s))
         /\ \A y \in Nbls : In(s, y) <=> y = Head(s) \/ In(Tail(s), y)
         /\ Distinct(s) => Distinct(Tail(s)) /\ ~ In(Tail(s), Head(s))
<1>. DEFINE t == Tail(s)
<1>1. /\ t \in Seq(Nbls) /\ Len(s) \in Nat \ {0} /\ Len(t) = Len(s) - 1
      /\ Head(s) = s[1] /\ s[1] \in Nbls
      /\ \A k \in 1 .. Len(t) : t[k] = s[k + 1]
  OBVIOUS
<1>. HIDE DEF t
<1>2. In(s, Head(s))
  BY <1>1 DEF In
<1>3. ASSUME NEW y \in Nbls
      PROVE  In(s, y) <=> y = Head(s) \/ In(t, y)
  <2>1. ASSUME NEW k \in 1 .. Len(s), s[k] = y, k # 1 PROVE In(t, y)
    <3>1. k - 1 \in 1 .. Len(t) /\ t[k - 1] = s[(k - 1) + 1]
      BY <1>1, <2>1
    <3>2. (k - 1) + 1 = k
      BY <1>1
    <3>. QED BY <2>1, <3>1, <3>2 DEF In
  <2>2. ASSUME NEW k \in 1 .. Len(t), t[k] = y PROVE In(s, y)
    <3>1. k + 1 \in 1 .. Len(s) /\ s[k + 1] = y
      BY <1>1, <2>2
    <3>. QED BY <3>1 DEF In
  <2>. QED BY <1>1, <1>2, <2>1, <2>2 DEF In
<1>4. ASSUME Distinct(s) PROVE Distinct(t) /\ ~ In(t, Head(s))
  <2>1. \A k \in 1 .. Len(t) : k + 1 \in 1 .. Len(s) /\ t[k] = s[k + 1]
    BY <1>1
  <2>2. Distinct(t)
    BY <1>1, <1>4, <2>1 DEF Distinct
  <2>3. ~ In(t, Head(s))
    <3>1. ASSUME NEW k \in 1 .. Len(t), t[k] = Head(s) PROVE FALSE
      <4>1. s[k + 1] = s[1] /\ k + 1 \in 1 .. Len(s) /\ 1 \in 1 .. Len(s)
        BY <1>1, <2>1, <3>1
      <4>2. k + 1 = 1
        BY <1>4, <4>1 DEF Distinct
      <4>. QED BY <4>2
    <3>. QED BY <3>1 DEF In
  <2>. QED BY <2>2, <2>3
<1>. QED BY <1>1, <1>2, <1>3, <1>4 DEF t

(* A list put in front of a queue is in it, with all that were there.      *)
LEMMA InCons ==
  ASSUME NEW s \in Seq(Nbls), NEW x \in Nbls
  PROVE  /\ <<x>> \o s \in Seq(Nbls) /\ In(<<x>> \o s, x)
         /\ \A y \in Nbls : In(<<x>> \o s, y) <=> In(s, y) \/ y = x
         /\ Distinct(s) /\ ~ In(s, x) => Distinct(<<x>> \o s)
<1>. DEFINE t == <<x>> \o s
<1>1. /\ t \in Seq(Nbls) /\ Len(s) \in Nat /\ Len(t) = Len(s) + 1
      /\ t[1] = x /\ \A k \in 2 .. Len(t) : t[k] = s[k - 1]
  OBVIOUS
<1>2. \A k \in 1 .. Len(s) : t[k + 1] = s[k]
  BY <1>1
<1>. HIDE DEF t
<1>3. ASSUME NEW y \in Nbls
      PROVE  In(t, y) <=> In(s, y) \/ y = x
  <2>1. ASSUME NEW k \in 1 .. Len(t), t[k] = y, k # 1 PROVE In(s, y)
    <3>1. k - 1 \in 1 .. Len(s) /\ s[k - 1] = y
      BY <1>1, <2>1
    <3>. QED BY <3>1 DEF In
  <2>2. ASSUME NEW k \in 1 .. Len(s), s[k] = y PROVE In(t, y)
    <3>1. k + 1 \in 1 .. Len(t) /\ t[k + 1] = y
      BY <1>1, <1>2, <2>2
    <3>. QED BY <3>1 DEF In
  <2>3. In(t, x)
    <3>1. 1 \in 1 .. Len(t)
      BY <1>1
    <3>. QED BY <1>1, <3>1 DEF In
  <2>. QED BY <1>1, <2>1, <2>2, <2>3 DEF In
<1>4. ASSUME Distinct(s), ~ In(s, x),
             NEW j \in 1 .. Len(t), NEW k \in 1 .. Len(t), t[j] = t[k]
      PROVE  j = k
  <2>1. \A m \in 1 .. Len(t) :
          m # 1 => m - 1 \in 1 .. Len(s) /\ t[m] = s[m - 1] /\ t[m] # x
    BY <1>1, <1>4 DEF In
  <2>2. CASE j = 1 \/ k = 1
    BY <1>1, <1>4, <2>1, <2>2
  <2>3. CASE j # 1 /\ k # 1
    <3>1. j - 1 = k - 1
      BY <1>4, <2>1, <2>3 DEF Distinct
    <3>. QED BY <1>1, <3>1
  <2>. QED BY <2>2, <2>3
<1>5. In(t, x)
  BY <1>3
<1>. QED BY <1>1, <1>3, <1>4, <1>5 DEF Distinct, t

---------------------------------------------------------------------------
(* The TCBs of a list.                                                     *)
LEMMA HeldCount ==
  ASSUME NEW l
  PROVE  /\ IsFiniteSet(Held(l)) /\ Cardinality(Held(l)) \in Nat
         /\ Cardinality(Held(l)) = 0 <=> Held(l) = {}
<1>1. IsFiniteSet(Tcbs)
  BY Sizes, FS_Interval DEF Tcbs
<1>2. IsFiniteSet(Held(l))
  BY <1>1, FS_Subset DEF Held
<1>. QED BY <1>2, FS_CardinalityType, FS_EmptySet

(* One more, or one fewer.                                                 *)
LEMMA HeldAdd ==
  ASSUME NEW l, NEW i, i \notin Held(l), Held(l)' = Held(l) \cup {i}
  PROVE  Cardinality(Held(l))' = Cardinality(Held(l)) + 1
<1>1. Cardinality(Held(l) \cup {i}) = Cardinality(Held(l)) + 1
  BY HeldCount, FS_AddElement
<1>. QED BY <1>1

(* Giving back one control block of a list lowers their number by one.     *)
LEMMA HeldRemove ==
  ASSUME NEW l, NEW i \in Held(l), Held(l)' = Held(l) \ {i}
  PROVE  Cardinality(Held(l))' = Cardinality(Held(l)) - 1
<1>1. Cardinality(Held(l) \ {i}) = Cardinality(Held(l)) - 1
  BY HeldCount, FS_RemoveElement
<1>. QED BY <1>1

(* The TCB of index i is freed.                                            *)
LEMMA HeldFreed ==
  ASSUME NEW i \in Tcbs, tcb[i].inUse, ~ tcb'[i].inUse,
         \A j \in Tcbs : j # i => tcb'[j] = tcb[j], NEW l
  PROVE  /\ Held(l)' = Held(l) \ {i}
         /\ tcb[i].nbl = l =>
              Cardinality(Held(l))' = Cardinality(Held(l)) - 1
         /\ tcb[i].nbl # l => Held(l)' = Held(l)
<1>1. Held(l)' = Held(l) \ {i}
  BY DEF Held
<1>2. ASSUME tcb[i].nbl = l
      PROVE  Cardinality(Held(l))' = Cardinality(Held(l)) - 1
  <2>1. i \in Held(l)
    BY <1>2 DEF Held
  <2>. QED BY <1>1, <2>1, HeldRemove
<1>3. ASSUME tcb[i].nbl # l PROVE Held(l)' = Held(l)
  BY <1>1, <1>3 DEF Held
<1>. QED BY <1>1, <1>2, <1>3

(* A list holds the same control blocks while none of them changes.        *)
LEMMA HeldSame == ASSUME NEW l, UNCHANGED tcb PROVE Held(l)' = Held(l)
BY DEF Held

---------------------------------------------------------------------------
(* No share is negative: a list of which nothing is left is nowhere but    *)
(* where it is completed.                                                  *)
LEMMA SharesAre ==
  ASSUME RingState, XmitNb, QueueInv, NEW l \in Nbls
  PROVE  /\ NbCount[l] \in Nat \ {0} /\ NextSend[l] \in Nat
         /\ RefCount[l] \in Int /\ owed[l] \in Int
         /\ Cardinality(Held(l)) \in Nat
         /\ XmitShare(l) \in Nat /\ QueueShare(l) \in Nat
         /\ One(freed.nbl = l) \in Nat /\ One(rfreed = l) \in Nat
         /\ Shares(l) \in Nat
<1>1. /\ NbCount[l] \in Nat \ {0} /\ NextSend[l] \in Nat
      /\ RefCount[l] \in Int /\ owed[l] \in Int
  BY Sizes DEF RingState, SendTypes, ListTypes
<1>2. XmitShare(l) \in Nat
  <2>1. xmit.pc \in {"idle", "loop", "mapping", "failed"} /\ xmit.nb \in Nat
    BY DEF RingState, SendTypes, XmitTypes
  <2>2. CASE xmit.nbl = l /\ xmit.pc = "loop"
    BY <1>1, <2>2 DEF XmitShare, XmitNb
  <2>3. CASE xmit.nbl = l /\ xmit.pc = "mapping"
    BY <1>1, <2>3 DEF XmitShare, XmitNb
  <2>4. xmit.nbl = l => xmit.pc # "idle"
    BY Sizes DEF RingState, Control
  <2>. QED BY <2>1, <2>2, <2>3, <2>4 DEF XmitShare
<1>3. QueueShare(l) \in Nat
  BY <1>1 DEF QueueShare, QueueInv
<1>4. One(freed.nbl = l) \in Nat /\ One(rfreed = l) \in Nat
  BY DEF One
<1>5. Cardinality(Held(l)) \in Nat
  BY HeldCount
<1>6. Shares(l) \in Nat
  BY <1>2, <1>3, <1>4, <1>5 DEF Shares
<1>. QED BY <1>1, <1>2, <1>3, <1>4, <1>5, <1>6

(* A list without shares is nowhere in the send path any more.             *)
LEMMA NothingLeft ==
  ASSUME RingState, XmitNb, QueueInv, NEW l \in Nbls, Shares(l) = 0
  PROVE  /\ Held(l) = {} /\ freed.nbl # l /\ rfreed # l
         /\ Queued(l) => DpcSends /\ xmit.nbl = l
         /\ Live(l) => Failed(l)
<1>1. /\ Cardinality(Held(l)) = 0 /\ XmitShare(l) = 0 /\ QueueShare(l) = 0
      /\ One(freed.nbl = l) = 0 /\ One(rfreed = l) = 0
  BY SharesAre DEF Shares
<1>2. Held(l) = {} /\ freed.nbl # l /\ rfreed # l
  BY <1>1, HeldCount DEF One
<1>3. ASSUME Queued(l) PROVE DpcSends /\ xmit.nbl = l
  BY <1>1, <1>3, SharesAre DEF QueueShare, QueueInv
<1>4. ASSUME Live(l), ~ Failed(l) PROVE FALSE
  <2>1. xmit.nb \in Nat /\ NbCount[l] \in Nat
    BY SharesAre DEF RingState, SendTypes, XmitTypes
  <2>2. xmit.pc = "mapping" /\ <<xmit.tcb, <<xmit.nbl, xmit.nb>>>> \in maps
    BY <1>1, <1>4, <2>1 DEF Live, Failed, XmitShare
  <2>3. /\ tcb[xmit.tcb].inUse /\ tcb[xmit.tcb].nb = <<xmit.nbl, xmit.nb>>
        /\ xmit.tcb \in Tcbs
    BY <2>2 DEF RingState, Waiting, SendTypes, XmitTypes
  <2>4. tcb[xmit.tcb].nbl = l
    BY <1>4, <2>3 DEF RingState, TcbRing, Live
  <2>. QED BY <1>2, <2>3, <2>4 DEF Held
<1>. QED BY <1>2, <1>3, <1>4

(* l stays as and where it is.                                             *)
Untouched(l) ==
  /\ owed'[l] = owed[l] /\ RefCount'[l] = RefCount[l]
  /\ NextSend'[l] = NextSend[l] /\ (l \in entered' <=> l \in entered)
  /\ Held(l)' = Held(l)
  /\ (freed'.nbl = l <=> freed.nbl = l) /\ (rfreed' = l <=> rfreed = l)
  /\ In(SendWaitQueue', l) <=> In(SendWaitQueue, l)
  /\ In(CompleteNetBufferLists', l) <=> In(CompleteNetBufferLists, l)
  /\ In(aborted', l) <=> In(aborted, l)
  /\ xmit'.nbl = l \/ xmit.nbl = l => xmit' = xmit /\ maps' \subseteq maps

(* A step that does not touch a list keeps what is owed for it.            *)
LEMMA UntouchedKeeps ==
  ASSUME NEW l, ListInv(l), Untouched(l)
  PROVE  ListInv(l)'
<1>1. Owing(l)' <=> Owing(l)
  BY DEF Owing, Untouched
<1>2. Queued(l)' <=> Queued(l)
  BY DEF Untouched, Queued, In
<1>3. Shares(l)' = Shares(l)
  <2>1. XmitShare(l)' = XmitShare(l)
    BY DEF Untouched, XmitShare
  <2>2. QueueShare(l)' = QueueShare(l)
    BY <1>2 DEF Untouched, QueueShare
  <2>. QED BY <2>1, <2>2 DEF Untouched, Shares, One
<1>4. Live(l)' => Live(l)
  BY DEF Untouched, Live
<1>5. Done(l)' <=> Done(l)
  BY DEF Untouched, Done
<1>6. Failed(l)' <=> Failed(l)
  BY DEF Untouched, Failed
<1>7. Placed(l)' => Placed(l)
  BY <1>2, <1>4, <1>5 DEF Untouched, Placed
<1>8. Live(l)' => xmit' = xmit
  BY DEF Untouched, Live
<1>. QED
  BY <1>1, <1>2, <1>3, <1>4, <1>5, <1>6, <1>7, <1>8 DEF ListInv, Untouched

---------------------------------------------------------------------------
(* l is in hand and stays so: its NET_BUFFERs go from one place to another *)
(* or stay where they are.                                                 *)
LEMMA MovedKeeps ==
  ASSUME NEW l, ListInv(l), Placed(l), owed'[l] = owed[l],
         l \in entered' <=> l \in entered, RefCount'[l] = RefCount[l],
         Shares(l)' = Shares(l),
         UNCHANGED <<CompleteNetBufferLists, aborted>>,
         Failed(l)' <=> Failed(l),
         Live(l)' /\ xmit'.by = "send" => ~ Queued(l)'
  PROVE  ListInv(l)'
<1>1. Owing(l) /\ Owing(l)'
  BY DEF ListInv, Owing
<1>2. Done(l)' <=> Done(l)
  BY DEF Done
<1>. QED BY <1>1, <1>2 DEF ListInv

(* A NET_BUFFER of l is freed; l is to be completed after its last one.    *)
LEMMA FreedKeeps ==
  ASSUME RingState, SendState, NEW l \in Nbls, Placed(l), ~ Failed(l),
         Shares(l) > 0,
         owed'[l] = owed[l], l \in entered' <=> l \in entered,
         RefCount'[l] = RefCount[l] - 1, Shares(l)' = Shares(l) - 1,
         ~ Failed(l)',
         IF RefCount[l] = 1
         THEN \/ /\ In(CompleteNetBufferLists', l)
                 /\ In(aborted', l) <=> In(aborted, l)
              \/ /\ In(aborted', l)
                 /\ In(CompleteNetBufferLists', l)
                    <=> In(CompleteNetBufferLists, l)
         ELSE UNCHANGED <<CompleteNetBufferLists, aborted>>,
         Live(l)' /\ xmit'.by = "send" => ~ Queued(l)'
  PROVE  ListInv(l)'
<1>1. ListInv(l) /\ RefCount[l] \in Int /\ Shares(l) \in Nat
  BY SharesAre DEF SendState
<1>2. Owing(l) /\ Owing(l)'
  BY <1>1 DEF ListInv, Owing
<1>3. RefCount[l] = Shares(l) /\ RefCount[l] > 0 /\ ~ Done(l)
  BY <1>1, <1>2 DEF ListInv
<1>4. CASE RefCount[l] = 1
  <2>1. RefCount'[l] = 0 /\ Done(l)'
    BY <1>1, <1>4 DEF Done
  <2>2. ~ (In(CompleteNetBufferLists, l) /\ In(aborted, l))'
    BY <1>3, <1>4 DEF Done
  <2>. QED BY <1>1, <1>2, <1>3, <2>1, <2>2 DEF ListInv
<1>5. CASE RefCount[l] # 1
  <2>1. RefCount'[l] # 0 /\ ~ Done(l)'
    BY <1>1, <1>3, <1>5 DEF Done
  <2>2. ~ (In(CompleteNetBufferLists, l) /\ In(aborted, l))'
    BY <2>1 DEF Done
  <2>. QED BY <1>1, <1>2, <1>3, <2>1, <2>2 DEF ListInv
<1>. QED BY <1>4, <1>5

(* l is completed, and nothing of it is left.                              *)
LEMMA CompletedKeeps ==
  ASSUME NEW l, owed'[l] = 0, l \notin entered', ~ Placed(l)'
  PROVE  ListInv(l)'
BY DEF ListInv, Owing, Placed, Done

(* A step that leaves the queue and the sender alone keeps both.           *)
LEMMA QueueSame ==
  ASSUME XmitNb, QueueInv, UNCHANGED <<SendWaitQueue, NextSend, xmit>>,
         DpcSends' <=> DpcSends
  PROVE  XmitNb' /\ QueueInv'
<1>1. XmitNb'
  BY DEF XmitNb
<1>2. \A l \in Nbls : Queued(l)' <=> Queued(l)
  BY DEF Queued
<1>. QED BY <1>1, <1>2 DEF QueueInv

(* Steps that do not move a list.                                          *)
LEMMA QuietKeepsLists ==
  ASSUME SendState, UNCHANGED <<waitVars, nblVars, xmit, freed, rfreed,
                                CompleteNetBufferLists, aborted>>,
         maps' \subseteq maps, DpcSends' <=> DpcSends, dpc' # "bugcheck",
         \A l \in Nbls : Held(l)' = Held(l)
  PROVE  SendState'
<1>1. XmitNb' /\ QueueInv'
  BY QueueSame DEF SendState, waitVars, nblVars
<1>2. ASSUME NEW l \in Nbls PROVE ListInv(l)'
  <2>1. Untouched(l)
    BY DEF Untouched, waitVars, nblVars
  <2>. QED BY <2>1, UntouchedKeeps DEF SendState
<1>. QED BY <1>1, <1>2 DEF SendState

---------------------------------------------------------------------------
(* MPSendNetBufferLists.                                                   *)
LEMMA EnterKeepsLists ==
  ASSUME RingState, SendState, NEW l \in Nbls, MPSendEnter(l)
  PROVE  SendState'
<1>. USE DEF stateVars, resetVars, dpcVars, tcbVars, waitVars
<1>1. XmitNb' /\ QueueInv' /\ dpc' # "bugcheck"
  BY QueueSame DEF SendState, MPSendEnter, DpcSends
<1>2. owed \in [Nbls -> Int]
  BY DEF RingState, SendTypes, ListTypes
<1>3. ASSUME NEW x \in Nbls, x # l PROVE ListInv(x)'
  <2>1. Untouched(x)
    BY <1>2, <1>3, HeldSame DEF Untouched, MPSendEnter
  <2>. QED BY <2>1, UntouchedKeeps DEF SendState
<1>4. ListInv(l)'
  <2>1. /\ owed[l] = 0 /\ owed'[l] = 1 /\ l \in entered'
        /\ RefCount' = RefCount /\ xmit' = xmit
    BY <1>2 DEF MPSendEnter
  <2>2. ~ Owing(l) /\ ~ Owing(l)'
    BY <2>1 DEF Owing
  <2>3. ~ Placed(l) /\ ~ Done(l)
    BY <2>2 DEF SendState, ListInv, Placed
  <2>4. Placed(l)' <=> Placed(l)
    BY HeldSame DEF MPSendEnter, Placed, Live, Done, Queued
  <2>5. ~ Placed(l)'
    BY <2>3, <2>4
  <2>. QED BY <2>1, <2>2, <2>5 DEF ListInv, Placed, Done
<1>. QED BY <1>1, <1>3, <1>4 DEF SendState

(* A send without a link completes the list it was called with.            *)
LEMMA NoLinkKeepsLists ==
  ASSUME RingState, SendState, NEW l \in Nbls, MPSendNoLink(l)
  PROVE  SendState'
<1>. USE DEF stateVars, resetVars, dpcVars, tcbVars, waitVars
<1>1. XmitNb' /\ QueueInv' /\ dpc' # "bugcheck"
  BY QueueSame DEF SendState, MPSendNoLink, DpcSends
<1>2. owed \in [Nbls -> Int]
  BY DEF RingState, SendTypes, ListTypes
<1>3. ASSUME NEW x \in Nbls, x # l PROVE ListInv(x)'
  <2>1. Untouched(x)
    BY <1>2, <1>3, HeldSame DEF Untouched, MPSendNoLink, Completed
  <2>. QED BY <2>1, UntouchedKeeps DEF SendState
<1>4. ListInv(l)'
  <2>1. l \in entered /\ owed[l] = 1
    BY DEF MPSendNoLink, SendState, ListInv
  <2>2. owed'[l] = 0 /\ l \notin entered'
    BY <1>2, <2>1 DEF MPSendNoLink, Completed
  <2>3. ~ Placed(l)
    BY <2>1 DEF SendState, ListInv, Owing
  <2>4. Placed(l)' <=> Placed(l)
    BY HeldSame DEF MPSendNoLink, Placed, Live, Done, Queued
  <2>. QED BY <2>2, <2>3, <2>4, CompletedKeeps
<1>. QED BY <1>1, <1>3, <1>4 DEF SendState

(* A list that has just been entered is nowhere.                           *)
LEMMA EnteredIsNowhere ==
  ASSUME RingState, SendState, NEW l \in Nbls, l \in entered
  PROVE  /\ owed[l] = 1 /\ ~ Placed(l) /\ ~ Queued(l) /\ ~ Done(l)
         /\ ~ Live(l) /\ ~ Failed(l)
         /\ Cardinality(Held(l)) = 0 /\ One(freed.nbl = l) = 0
         /\ One(rfreed = l) = 0 /\ XmitShare(l) = 0
<1>1. owed[l] = 1 /\ ~ Placed(l)
  BY DEF SendState, ListInv, Owing
<1>2. /\ Held(l) = {} /\ freed.nbl # l /\ rfreed # l
      /\ ~ Queued(l) /\ ~ Done(l) /\ ~ Live(l)
  BY <1>1 DEF Placed
<1>3. XmitShare(l) = 0
  <2>1. xmit.pc \in {"idle", "loop", "mapping", "failed"} /\ xmit.nb \in Nat
    BY DEF RingState, SendTypes, XmitTypes
  <2>2. xmit.nbl = l => xmit.pc # "idle"
    BY Sizes DEF RingState, Control
  <2>3. NbCount[l] \in Nat
    BY Sizes
  <2>. QED BY <1>2, <2>1, <2>2, <2>3 DEF Live, XmitShare, SendState, XmitNb
<1>4. Cardinality(Held(l)) = 0
  BY <1>2, HeldCount
<1>. QED BY <1>1, <1>2, <1>3, <1>4 DEF One, Failed, Live

(* A send that must queue appends its list with its full count.            *)
LEMMA SendQueueKeepsLists ==
  ASSUME RingState, SendState, NEW l \in Nbls, MPSendQueue(l)
  PROVE  SendState'
<1>. USE DEF stateVars, resetVars, dpcVars, tcbVars
<1>1. /\ RefCount \in [Nbls -> Int] /\ NextSend \in [Nbls -> Nat]
      /\ SendWaitQueue \in Seq(Nbls) /\ NbCount[l] \in Nat \ {0}
  BY Sizes DEF RingState, SendTypes, ListTypes
<1>2. l \in entered /\ ~ Queued(l) /\ owed[l] = 1
  BY EnteredIsNowhere DEF MPSendQueue
<1>3. /\ SendWaitQueue' = Append(SendWaitQueue, l)
      /\ NextSend'[l] = 1 /\ RefCount'[l] = NbCount[l] /\ l \notin entered'
      /\ UNCHANGED <<xmit, maps, dpc, freed, rfreed, aborted, owed, tcb,
                     CompleteNetBufferLists>>
      /\ \A x \in Nbls : x # l =>
           /\ NextSend'[x] = NextSend[x] /\ RefCount'[x] = RefCount[x]
           /\ x \in entered' <=> x \in entered
  BY <1>1 DEF MPSendQueue
<1>4. \A x \in Nbls : Queued(x)' <=> Queued(x) \/ x = l
  <2>1. \A x \in Nbls : In(SendWaitQueue', x) <=> In(SendWaitQueue, x) \/ x = l
    BY <1>1, <1>3, InAppend
  <2>. QED BY <2>1 DEF Queued, In
<1>5. XmitNb' /\ dpc' # "bugcheck"
  BY <1>3 DEF SendState, XmitNb
<1>6. QueueInv'
  <2>1. Distinct(SendWaitQueue')
    BY <1>1, <1>2, <1>3, InAppend DEF SendState, QueueInv, Queued, In
  <2>2. DpcSends' <=> DpcSends
    BY <1>3 DEF DpcSends
  <2>3. DpcSends => /\ SendWaitQueue' # <<>>
                    /\ Head(SendWaitQueue') = xmit.nbl
    BY <1>1, <1>3, InAppend DEF SendState, QueueInv
  <2>4. ASSUME DpcSends PROVE xmit.nbl # l
    <3>1. SendWaitQueue # <<>> /\ Head(SendWaitQueue) = xmit.nbl
      BY <2>4 DEF SendState, QueueInv
    <3>2. In(SendWaitQueue, xmit.nbl)
      BY <1>1, <3>1, InTail
    <3>. QED BY <1>2, <3>2 DEF Queued, In
  <2>5. ASSUME NEW x \in Nbls, Queued(x)'
        PROVE  IF DpcSends /\ xmit.nbl = x
               THEN NextSend'[x] = 0 ELSE NextSend'[x] \in 1 .. NbCount[x]
    BY <1>1, <1>3, <1>4, <2>4, <2>5 DEF SendState, QueueInv
  <2>. QED BY <1>3, <2>1, <2>2, <2>3, <2>5 DEF QueueInv
<1>7. ASSUME NEW x \in Nbls, x # l PROVE ListInv(x)'
  <2>1. Untouched(x)
    BY <1>3, <1>4, <1>7, HeldSame DEF Untouched, Queued, In
  <2>. QED BY <2>1, UntouchedKeeps DEF SendState
<1>8. ListInv(l)'
  <2>1. Owing(l)' /\ ~ Done(l)' /\ ~ Live(l)' /\ ~ Failed(l)'
    BY <1>2, <1>3, EnteredIsNowhere DEF Owing, Done, Live, Failed
  <2>2. Shares(l)' = NbCount[l]
    <3>1. QueueShare(l)' = NbCount[l]
      BY <1>1, <1>3, <1>4 DEF QueueShare
    <3>2. XmitShare(l)' = 0 /\ One(freed.nbl = l)' = 0 /\ One(rfreed = l)' = 0
      BY <1>2, <1>3, EnteredIsNowhere DEF XmitShare, One
    <3>3. Cardinality(Held(l))' = 0
      BY <1>2, <1>3, HeldSame, EnteredIsNowhere
    <3>. QED BY <1>1, <3>1, <3>2, <3>3 DEF Shares
  <2>3. ~ In(CompleteNetBufferLists', l)
    BY <2>1 DEF Done
  <2>. QED BY <1>1, <1>2, <1>3, <2>1, <2>2, <2>3 DEF ListInv
<1>. QED BY <1>5, <1>6, <1>7, <1>8 DEF SendState

(* A send that may start takes its list into the sender's hands.           *)
LEMMA SendStartKeepsLists ==
  ASSUME RingState, SendState, NEW l \in Nbls, MPSendStart(l)
  PROVE  SendState'
<1>. USE DEF stateVars, resetVars, dpcVars, tcbVars
<1>1. RefCount \in [Nbls -> Int] /\ NbCount[l] \in Nat \ {0}
  BY Sizes DEF RingState, SendTypes, ListTypes
<1>2. l \in entered /\ ~ Queued(l) /\ owed[l] = 1
  BY EnteredIsNowhere DEF MPSendStart
<1>3. SendWaitQueue = <<>> /\ xmit.nbl = NULL /\ ~ DpcSends
  BY DEF MPSendStart, MustQueue, RingState, Control
<1>4. /\ xmit' = [pc |-> "loop", by |-> "send", nbl |-> l, nb |-> 1, tcb |-> 0]
      /\ RefCount'[l] = NbCount[l] /\ l \notin entered'
      /\ UNCHANGED <<maps, dpc, freed, rfreed, aborted, owed, tcb, NextSend,
                     CompleteNetBufferLists, SendWaitQueue>>
      /\ \A x \in Nbls : x # l =>
           /\ RefCount'[x] = RefCount[x]
           /\ x \in entered' <=> x \in entered
  BY <1>1 DEF MPSendStart
<1>5. XmitNb' /\ dpc' # "bugcheck"
  BY <1>1, <1>4 DEF SendState, XmitNb
<1>6. QueueInv'
  <2>1. ~ DpcSends' /\ \A x \in Nbls : ~ Queued(x)'
    BY <1>3, <1>4 DEF DpcSends, Queued
  <2>. QED BY <1>3, <1>4, <2>1 DEF QueueInv, SendState
<1>7. ASSUME NEW x \in Nbls, x # l PROVE ListInv(x)'
  <2>1. xmit'.nbl # x /\ xmit.nbl # x
    BY <1>3, <1>4, <1>7, Sizes
  <2>2. Untouched(x)
    BY <1>4, <1>7, <2>1, HeldSame DEF Untouched
  <2>. QED BY <2>2, UntouchedKeeps DEF SendState
<1>8. ListInv(l)'
  <2>1. Owing(l)' /\ ~ Done(l)' /\ ~ Failed(l)' /\ ~ Queued(l)'
    BY <1>2, <1>4, EnteredIsNowhere DEF Owing, Done, Failed, Queued
  <2>2. Shares(l)' = NbCount[l]
    <3>1. XmitShare(l)' = NbCount[l]
      BY <1>1, <1>4 DEF XmitShare
    <3>2. QueueShare(l)' = 0 /\ One(freed.nbl = l)' = 0 /\ One(rfreed = l)' = 0
      BY <1>2, <1>4, <2>1, EnteredIsNowhere DEF QueueShare, One
    <3>3. Cardinality(Held(l))' = 0
      BY <1>2, <1>4, HeldSame, EnteredIsNowhere
    <3>. QED BY <1>1, <3>1, <3>2, <3>3 DEF Shares
  <2>3. ~ In(CompleteNetBufferLists', l)
    BY <2>1 DEF Done
  <2>. QED BY <1>1, <1>2, <1>4, <2>1, <2>2, <2>3 DEF ListInv
<1>. QED BY <1>5, <1>6, <1>7, <1>8 DEF SendState

---------------------------------------------------------------------------
(* MiniportSendNetBufferList.                                              *)

(* The list that is being sent, when NET_BUFFERs of it are left.           *)
LEMMA SentIsInHand ==
  ASSUME RingState, SendState, xmit.pc # "idle"
  PROVE  /\ xmit.nbl \in Nbls /\ xmit.nb \in Nat /\ NbCount[xmit.nbl] \in Nat
         /\ xmit.by = "dpc" <=> DpcSends
         /\ xmit.by # "dpc" => xmit.by = "send"
         /\ DpcSends => /\ Queued(xmit.nbl) /\ SendWaitQueue # <<>>
                        /\ Head(SendWaitQueue) = xmit.nbl
                        /\ NextSend[xmit.nbl] = 0
         /\ ~ DpcSends /\ Live(xmit.nbl) => ~ Queued(xmit.nbl)
         /\ QueueShare(xmit.nbl) = 0 \/ ~ Live(xmit.nbl)
<1>1. xmit.nbl \in Nbls /\ xmit.nb \in Nat /\ xmit.by \in {"send", "dpc"}
  BY DEF RingState, SendTypes, XmitTypes, Control
<1>2. xmit.by = "dpc" <=> DpcSends
  BY DEF RingState, Control, SendState
<1>3. ASSUME DpcSends
      PROVE  /\ Queued(xmit.nbl) /\ SendWaitQueue # <<>>
             /\ Head(SendWaitQueue) = xmit.nbl /\ NextSend[xmit.nbl] = 0
  <2>1. SendWaitQueue # <<>> /\ Head(SendWaitQueue) = xmit.nbl
    BY <1>3 DEF SendState, QueueInv
  <2>2. In(SendWaitQueue, xmit.nbl)
    BY <2>1, InTail DEF RingState, SendTypes, ListTypes
  <2>3. Queued(xmit.nbl)
    BY <2>2 DEF In, Queued
  <2>. QED BY <1>1, <1>3, <2>1, <2>3 DEF SendState, QueueInv
<1>4. ~ DpcSends /\ Live(xmit.nbl) => ~ Queued(xmit.nbl)
  BY <1>1, <1>2 DEF SendState, ListInv
<1>5. NbCount[xmit.nbl] \in Nat
  BY <1>1, Sizes
<1>. QED BY <1>1, <1>2, <1>3, <1>4, <1>5 DEF QueueShare

(* Allocating moves one frame from the sender to a control block.          *)
LEMMA AllocateKeepsLists ==
  ASSUME RingState, SendState, XmitAllocateTcb
  PROVE  SendState'
<1>0. PICK l, i : l = xmit.nbl /\ i = CurrSendTail
  OBVIOUS
<1>1. /\ l \in Nbls /\ xmit.nb \in 1 .. NbCount[l] /\ NbCount[l] \in Nat
      /\ xmit.pc = "loop" /\ xmit.nb \in Nat /\ Live(l) /\ ~ Failed(l)
  BY <1>0, SentIsInHand DEF XmitAllocateTcb, SendState, XmitNb, Live, Failed
<1>2. xmit' = [pc |-> "mapping", by |-> xmit.by, nbl |-> l, nb |-> xmit.nb,
               tcb |-> i]
  BY <1>0 DEF XmitAllocateTcb, RingState, SendTypes, XmitTypes
<1>3. /\ UNCHANGED <<SendWaitQueue, NextSend, RefCount, entered, owed, dpc,
                     freed, rfreed, CompleteNetBufferLists, aborted>>
      /\ tcb' = [tcb EXCEPT ![i] =
                   [inUse |-> TRUE, waiting |-> TRUE, nbl |-> l,
                    nb |-> <<l, xmit.nb>>,
                    TbdStart |-> NextFreeTbd, nTbds |-> 0]]
  BY <1>0 DEF XmitAllocateTcb, waitVars, nblVars, dpcVars, stateVars, resetVars
<1>4. i \in Tcbs /\ ~ tcb[i].inUse
  <2>1. /\ i \in Tcbs /\ nBusySend \in 0 .. NumTcb - 1
        /\ i = NthTcb(CurrSendHead, nBusySend) /\ CurrSendHead \in Tcbs
    BY <1>0, Sizes DEF XmitAllocateTcb, RingState, SendTypes, IndexTypes,
                       TcbRing, MP_TCB_RESOURCES_AVAIABLE
  <2>2. TcbDist(i) = nBusySend
    BY <2>1, Sizes DEF TcbDist, NthTcb, Tcbs
  <2>. QED BY <2>1, <2>2 DEF RingState, TcbRing
<1>5. /\ \A j \in Tcbs : j # i => tcb'[j] = tcb[j]
      /\ tcb'[i].inUse /\ tcb'[i].nbl = l
  BY <1>3, <1>4 DEF RingState, SendTypes, TcbTypes
<1>6. XmitNb' /\ QueueInv' /\ dpc' # "bugcheck"
  <2>1. XmitNb'
    BY <1>1, <1>2 DEF XmitNb
  <2>2. (DpcSends' <=> DpcSends) /\ \A x \in Nbls : Queued(x)' <=> Queued(x)
    BY <1>3 DEF DpcSends, Queued
  <2>3. xmit'.nbl = xmit.nbl
    BY <1>0, <1>2
  <2>. QED BY <1>3, <2>1, <2>2, <2>3 DEF SendState, QueueInv
<1>7. ASSUME NEW x \in Nbls, x # l PROVE ListInv(x)'
  <2>1. xmit'.nbl # x /\ xmit.nbl # x
    BY <1>0, <1>2, <1>7
  <2>2. Held(x)' = Held(x)
    BY <1>4, <1>5, <1>7 DEF Held
  <2>3. Untouched(x)
    BY <1>3, <2>1, <2>2 DEF Untouched
  <2>. QED BY <2>3, UntouchedKeeps DEF SendState
<1>8. ListInv(l)'
  <2>1. Held(l)' = Held(l) \cup {i} /\ i \notin Held(l)
    BY <1>4, <1>5 DEF Held
  <2>2. Cardinality(Held(l))' = Cardinality(Held(l)) + 1
    BY <2>1, HeldAdd
  <2>3. XmitShare(l) = NbCount[l] - xmit.nb + 1
    BY <1>0, <1>1 DEF XmitShare
  <2>4. XmitShare(l)' = NbCount[l] - xmit.nb
    BY <1>1, <1>2 DEF XmitShare
  <2>5. /\ QueueShare(l)' = QueueShare(l)
        /\ One(freed.nbl = l)' = One(freed.nbl = l)
        /\ One(rfreed = l)' = One(rfreed = l)
    BY <1>3 DEF QueueShare, Queued, One
  <2>6. Shares(l)' = Shares(l)
    BY <1>1, <2>2, <2>3, <2>4, <2>5, SharesAre DEF Shares, SendState
  <2>7. xmit.by = "send" => ~ Queued(l)'
    BY <1>1, <1>3 DEF SendState, ListInv, Queued
  <2>8. ~ Failed(l)' /\ xmit'.by = xmit.by
    BY <1>2 DEF Failed
  <2>. QED BY <1>1, <1>3, <2>6, <2>7, <2>8, MovedKeeps DEF Placed, SendState
<1>. QED BY <1>6, <1>7, <1>8 DEF SendState

(* After a mapping the sender goes on to the next frame.                   *)
LEMMA MappedKeepsLists ==
  ASSUME RingState, SendState, XmitMapped
  PROVE  SendState'
<1>0. PICK l : l = xmit.nbl
  OBVIOUS
<1>1. /\ l \in Nbls /\ xmit.nb \in 1 .. NbCount[l] /\ NbCount[l] \in Nat
      /\ xmit.pc = "mapping" /\ xmit.nb \in Nat
  BY <1>0, SentIsInHand DEF XmitMapped, SendState, XmitNb
<1>2. xmit' = [pc |-> "loop", by |-> xmit.by, nbl |-> l, nb |-> xmit.nb + 1,
               tcb |-> xmit.tcb]
  BY <1>0 DEF XmitMapped, RingState, SendTypes, XmitTypes
<1>3. UNCHANGED <<SendWaitQueue, NextSend, RefCount, entered, owed, dpc, tcb,
                  freed, rfreed, CompleteNetBufferLists, aborted>>
  BY DEF XmitMapped, waitVars, nblVars, dpcVars, stateVars, resetVars, tcbVars
<1>4. XmitNb' /\ QueueInv' /\ dpc' # "bugcheck"
  <2>1. XmitNb'
    BY <1>1, <1>2 DEF XmitNb
  <2>2. (DpcSends' <=> DpcSends) /\ \A x \in Nbls : Queued(x)' <=> Queued(x)
    BY <1>3 DEF DpcSends, Queued
  <2>3. xmit'.nbl = xmit.nbl
    BY <1>0, <1>2
  <2>. QED BY <1>3, <2>1, <2>2, <2>3 DEF SendState, QueueInv
<1>5. ASSUME NEW x \in Nbls, x # l PROVE ListInv(x)'
  <2>1. xmit'.nbl # x /\ xmit.nbl # x
    BY <1>0, <1>2, <1>5
  <2>2. Untouched(x)
    BY <1>3, <2>1, HeldSame DEF Untouched
  <2>. QED BY <2>2, UntouchedKeeps DEF SendState
<1>6. ListInv(l)'
  <2>1. XmitShare(l)' = XmitShare(l)
    BY <1>0, <1>1, <1>2 DEF XmitShare
  <2>2. Shares(l)' = Shares(l)
    BY <1>3, <2>1, HeldSame DEF Shares, QueueShare, Queued, One
  <2>3. Live(l)' => Live(l)
    BY <1>0, <1>1, <1>2 DEF Live
  <2>4. ~ Failed(l)' /\ ~ Failed(l) /\ xmit'.by = xmit.by
    BY <1>1, <1>2 DEF Failed
  <2>5. /\ Owing(l)' <=> Owing(l)
        /\ Done(l)' <=> Done(l)
        /\ Queued(l)' <=> Queued(l)
    BY <1>3 DEF Owing, Done, Queued
  <2>6. Placed(l)' => Placed(l)
    BY <1>3, <2>3, <2>5, HeldSame DEF Placed
  <2>7. ListInv(l)
    BY <1>1 DEF SendState
  <2>. QED BY <1>3, <2>2, <2>3, <2>4, <2>5, <2>6, <2>7 DEF ListInv
<1>. QED BY <1>4, <1>5, <1>6 DEF SendState

(* A failed mapping takes all frames that were not sent off the count.     *)
LEMMA MapFailedKeepsLists ==
  ASSUME RingState, SendState, XmitMapFailed
  PROVE  SendState'
<1>0. PICK l, i : l = xmit.nbl /\ i = xmit.tcb
  OBVIOUS
<1>1. /\ l \in Nbls /\ xmit.nb \in 1 .. NbCount[l] /\ NbCount[l] \in Nat
      /\ xmit.pc = "mapping" /\ xmit.nb \in Nat
  BY <1>0, SentIsInHand DEF XmitMapFailed, SendState, XmitNb
<1>2. xmit' = [pc |-> "failed", by |-> xmit.by, nbl |-> l, nb |-> xmit.nb,
               tcb |-> i]
  BY <1>0 DEF XmitMapFailed, RingState, SendTypes, XmitTypes
<1>3. /\ UNCHANGED <<SendWaitQueue, NextSend, entered, owed, dpc,
                     freed, rfreed, CompleteNetBufferLists, aborted>>
      /\ RefCount' = [RefCount EXCEPT ![l] = @ - (NbCount[l] - xmit.nb + 1)]
  BY <1>0 DEF XmitMapFailed, waitVars, nblVars, dpcVars, stateVars, resetVars
<1>4. /\ i \in Tcbs /\ tcb[i].inUse /\ tcb[i].nb = <<l, xmit.nb>>
      /\ <<i, <<l, xmit.nb>>>> \in maps
  BY <1>0 DEF XmitMapFailed, RingState, Waiting, SendTypes, XmitTypes
<1>5. tcb[i].nbl = l
  BY <1>4 DEF RingState, TcbRing
<1>6. ~ tcb'[i].inUse /\ \A j \in Tcbs : j # i => tcb'[j] = tcb[j]
  BY <1>0, <1>4, TcbUnmapped DEF XmitMapFailed, RingState, SendTypes
<1>7. Live(l) /\ i \in Held(l) /\ ~ Failed(l)
  BY <1>0, <1>1, <1>4, <1>5 DEF Live, Held, Failed
<1>8. XmitNb' /\ QueueInv' /\ dpc' # "bugcheck"
  <2>1. XmitNb'
    BY <1>1, <1>2 DEF XmitNb
  <2>2. (DpcSends' <=> DpcSends) /\ \A x \in Nbls : Queued(x)' <=> Queued(x)
    BY <1>3 DEF DpcSends, Queued
  <2>3. xmit'.nbl = xmit.nbl
    BY <1>0, <1>2
  <2>. QED BY <1>3, <2>1, <2>2, <2>3 DEF SendState, QueueInv
<1>9. RefCount \in [Nbls -> Int]
  BY DEF RingState, SendTypes, ListTypes
<1>10. ASSUME NEW x \in Nbls, x # l PROVE ListInv(x)'
  <2>1. xmit'.nbl # x /\ xmit.nbl # x
    BY <1>0, <1>2, <1>10
  <2>2. Held(x)' = Held(x)
    BY <1>4, <1>5, <1>6, <1>10, HeldFreed
  <2>3. Untouched(x)
    BY <1>3, <1>9, <1>10, <2>1, <2>2 DEF Untouched
  <2>. QED BY <2>3, UntouchedKeeps DEF SendState
<1>11. ListInv(l)'
  <2>1. ListInv(l) /\ Owing(l)
    BY <1>1, <1>7 DEF SendState, ListInv, Placed
  <2>2. RefCount[l] = Shares(l)
    BY <2>1 DEF ListInv
  <2>3. Cardinality(Held(l))' = Cardinality(Held(l)) - 1
    BY <1>4, <1>5, <1>6, HeldFreed
  <2>4. XmitShare(l) = NbCount[l] - xmit.nb /\ XmitShare(l)' = 0
    BY <1>0, <1>1, <1>2 DEF XmitShare
  <2>5. /\ QueueShare(l)' = QueueShare(l)
        /\ One(freed.nbl = l)' = One(freed.nbl = l)
        /\ One(rfreed = l)' = One(rfreed = l)
    BY <1>3 DEF QueueShare, Queued, One
  <2>6. RefCount'[l] = RefCount[l] - (NbCount[l] - xmit.nb + 1)
    BY <1>1, <1>3, <1>9
  <2>7. RefCount'[l] = Shares(l)'
    BY <1>1, <2>2, <2>3, <2>4, <2>5, <2>6, SharesAre DEF Shares, SendState
  <2>8. RefCount[l] > 0
    <3>1. Cardinality(Held(l)) > 0
      BY <1>7, HeldCount
    <3>. QED BY <1>1, <2>2, <3>1, SharesAre DEF Shares, SendState
  <2>9. ~ Done(l) /\ ~ Done(l)'
    BY <1>3, <2>1, <2>8 DEF ListInv, Done
  <2>10. Owing(l)' /\ Failed(l)'
    BY <1>2, <1>3, <2>1 DEF Owing, Failed
  <2>11. xmit'.by = "send" => ~ Queued(l)'
    BY <1>2, <1>3, <1>7, <2>1 DEF ListInv, Queued
  <2>. QED BY <1>3, <2>1, <2>7, <2>9, <2>10, <2>11 DEF ListInv, Done
<1>. QED BY <1>8, <1>10, <1>11 DEF SendState

(* Without a control block the list waits at the head of the queue.        *)
LEMMA NoTcbKeepsLists ==
  ASSUME RingState, SendState, XmitNoTcb
  PROVE  SendState'
<1>0. PICK l : l = xmit.nbl
  OBVIOUS
<1>1. /\ l \in Nbls /\ xmit.nb \in 1 .. NbCount[l] /\ NbCount[l] \in Nat
      /\ xmit.pc = "loop" /\ xmit.nb \in Nat /\ Live(l) /\ ~ Failed(l)
  BY <1>0, SentIsInHand DEF XmitNoTcb, SendState, XmitNb, Live, Failed
<1>2. /\ SendWaitQueue \in Seq(Nbls) /\ NextSend \in [Nbls -> Nat]
      /\ NULL \notin Nbls
  BY Sizes DEF RingState, SendTypes, ListTypes
<1>3. /\ xmit' = NoXmit /\ NextSend' = [NextSend EXCEPT ![l] = xmit.nb]
      /\ UNCHANGED <<tcb, RefCount, entered, owed, freed, rfreed,
                     CompleteNetBufferLists, aborted>>
      /\ SendWaitQueue' = IF DpcSends THEN SendWaitQueue
                                      ELSE <<l>> \o SendWaitQueue
  BY <1>0, <1>1, SentIsInHand
  DEF XmitNoTcb, PutBack, bFromQueue, stateVars, resetVars, tcbVars
<1>4. ~ DpcSends' /\ dpc' # "bugcheck"
  BY <1>1, SentIsInHand
  DEF XmitNoTcb, bFromQueue, AfterFull, DpcSends, SendState
<1>5. DpcSends <=> Queued(l)
  BY <1>0, <1>1, SentIsInHand
<1>6. /\ Distinct(SendWaitQueue')
      /\ \A x \in Nbls : Queued(x)' <=> Queued(x) \/ x = l
  <2>1. CASE DpcSends
    BY <1>3, <1>5, <2>1 DEF SendState, QueueInv, Queued
  <2>2. CASE ~ DpcSends
    <3>1. ~ In(SendWaitQueue, l)
      BY <1>5, <2>2 DEF Queued, In
    <3>2. \A x \in Nbls :
            In(SendWaitQueue', x) <=> In(SendWaitQueue, x) \/ x = l
      BY <1>1, <1>2, <1>3, <2>2, InCons
    <3>3. Distinct(SendWaitQueue')
      BY <1>1, <1>2, <1>3, <2>2, <3>1, InCons DEF SendState, QueueInv
    <3>. QED BY <3>2, <3>3 DEF Queued, In
  <2>. QED BY <2>1, <2>2
<1>7. XmitNb'
  BY <1>3 DEF XmitNb, NoXmit
<1>8. QueueInv'
  <2>1. ASSUME NEW x \in Nbls, Queued(x)'
        PROVE  NextSend'[x] \in 1 .. NbCount[x]
    <3>1. CASE x = l
      BY <1>1, <1>2, <1>3, <3>1
    <3>2. CASE x # l
      <4>1. Queued(x) /\ NextSend'[x] = NextSend[x]
        BY <1>2, <1>3, <1>6, <2>1, <3>2
      <4>. QED BY <1>0, <3>2, <4>1 DEF SendState, QueueInv
    <3>. QED BY <3>1, <3>2
  <2>. QED BY <1>4, <1>6, <2>1 DEF QueueInv
<1>9. ASSUME NEW x \in Nbls, x # l PROVE ListInv(x)'
  <2>1. xmit'.nbl # x /\ xmit.nbl # x
    BY <1>0, <1>2, <1>3, <1>9 DEF NoXmit
  <2>2. In(SendWaitQueue', x) <=> In(SendWaitQueue, x)
    BY <1>6, <1>9 DEF Queued, In
  <2>3. Untouched(x)
    BY <1>2, <1>3, <1>9, <2>1, <2>2, HeldSame DEF Untouched
  <2>. QED BY <2>3, UntouchedKeeps DEF SendState
<1>10. ListInv(l)'
  <2>1. XmitShare(l) = NbCount[l] - xmit.nb + 1 /\ QueueShare(l) = 0
    BY <1>0, <1>1, SentIsInHand DEF XmitShare
  <2>2. XmitShare(l)' = 0
    BY <1>1, <1>2, <1>3 DEF XmitShare, NoXmit
  <2>3. QueueShare(l)' = NbCount[l] - xmit.nb + 1
    BY <1>1, <1>2, <1>3, <1>6 DEF QueueShare
  <2>4. Shares(l)' = Shares(l)
    <3>1. Cardinality(Held(l))' = Cardinality(Held(l))
      BY <1>3, HeldSame
    <3>2. /\ One(freed.nbl = l)' = One(freed.nbl = l)
          /\ One(rfreed = l)' = One(rfreed = l)
      BY <1>3 DEF One
    <3>. QED BY <1>1, <2>1, <2>2, <2>3, <3>1, <3>2, SharesAre
         DEF Shares, SendState
  <2>5. ~ Failed(l)' /\ ~ Live(l)'
    BY <1>1, <1>2, <1>3 DEF Failed, Live, NoXmit
  <2>. QED BY <1>1, <1>3, <2>4, <2>5, MovedKeeps DEF Placed, SendState
<1>. QED BY <1>4, <1>7, <1>8, <1>9, <1>10 DEF SendState

(* The list that was sent leaves the queue, if it came from there.         *)
LEMMA HeadLeaves ==
  ASSUME RingState, SendState, xmit.pc # "idle", NEW l \in Nbls, l = xmit.nbl,
         xmit' = NoXmit, NextSend' = NextSend,
         SendWaitQueue' = IF bFromQueue THEN Tail(SendWaitQueue)
                                        ELSE SendWaitQueue,
         ~ DpcSends'
  PROVE  /\ XmitNb' /\ QueueInv' /\ (DpcSends => ~ Queued(l)')
         /\ ~ DpcSends => (Queued(l)' <=> Queued(l))
         /\ \A x \in Nbls : x # l => (In(SendWaitQueue', x)
                                      <=> In(SendWaitQueue, x))
<1>1. SendWaitQueue \in Seq(Nbls) /\ (bFromQueue <=> DpcSends)
  BY SentIsInHand DEF RingState, SendTypes, ListTypes, bFromQueue
<1>2. /\ Distinct(SendWaitQueue') /\ (DpcSends => ~ Queued(l)')
      /\ \A x \in Nbls : x # l =>
           (In(SendWaitQueue', x) <=> In(SendWaitQueue, x))
  <2>1. CASE DpcSends
    <3>1. SendWaitQueue # <<>> /\ Head(SendWaitQueue) = l
      BY <2>1, SentIsInHand
    <3>2. SendWaitQueue' = Tail(SendWaitQueue) /\ Distinct(SendWaitQueue)
      BY <1>1, <2>1 DEF SendState, QueueInv
    <3>3. /\ Distinct(SendWaitQueue') /\ ~ In(SendWaitQueue', l)
          /\ \A x \in Nbls :
               In(SendWaitQueue, x) <=> x = l \/ In(SendWaitQueue', x)
      BY <1>1, <3>1, <3>2, InTail
    <3>. QED BY <3>3 DEF Queued, In
  <2>2. CASE ~ DpcSends
    BY <1>1, <2>2 DEF SendState, QueueInv
  <2>. QED BY <2>1, <2>2
<1>3. \A x \in Nbls : x # l => (Queued(x)' <=> Queued(x))
  BY <1>2 DEF Queued, In
<1>4. ~ DpcSends => (Queued(l)' <=> Queued(l))
  BY <1>1 DEF Queued
<1>5. XmitNb'
  BY DEF XmitNb, NoXmit
<1>6. QueueInv'
  <2>1. ASSUME NEW x \in Nbls, Queued(x)'
        PROVE  NextSend'[x] \in 1 .. NbCount[x]
    <3>1. Queued(x) /\ (DpcSends => x # l)
      BY <1>2, <1>3, <1>4, <2>1
    <3>. QED BY <3>1 DEF SendState, QueueInv
  <2>. QED BY <1>2, <2>1 DEF QueueInv
<1>. QED BY <1>2, <1>4, <1>5, <1>6

(* A list that is sent to its end leaves the sender's hands.               *)
LEMMA DoneKeepsLists ==
  ASSUME RingState, SendState, XmitDone
  PROVE  SendState'
<1>0. PICK l : l = xmit.nbl
  OBVIOUS
<1>1. /\ l \in Nbls /\ NbCount[l] \in Nat /\ xmit.nb = NbCount[l] + 1
      /\ xmit.pc = "loop" /\ ~ Live(l) /\ ~ Failed(l) /\ NULL \notin Nbls
  <2>1. xmit.pc = "loop" /\ xmit.nb > NbCount[xmit.nbl]
    BY DEF XmitDone
  <2>2. l \in Nbls /\ NbCount[l] \in Nat /\ xmit.nb \in Nat /\ NULL \notin Nbls
    BY <1>0, <2>1, SentIsInHand, Sizes
  <2>. QED BY <1>0, <2>1, <2>2 DEF SendState, XmitNb, Live, Failed
<1>2. /\ xmit' = NoXmit
      /\ UNCHANGED <<tcb, RefCount, NextSend, entered, owed, freed, rfreed,
                     CompleteNetBufferLists, aborted>>
      /\ SendWaitQueue' = IF bFromQueue THEN Tail(SendWaitQueue)
                                        ELSE SendWaitQueue
  BY DEF XmitDone, stateVars, resetVars, tcbVars, nblVars
<1>3. ~ DpcSends' /\ dpc' # "bugcheck"
  BY <1>1, SentIsInHand
  DEF XmitDone, bFromQueue, AfterXmit, DpcSends, SendState
<1>4. /\ XmitNb' /\ QueueInv' /\ (DpcSends => ~ Queued(l)')
      /\ ~ DpcSends => (Queued(l)' <=> Queued(l))
      /\ \A x \in Nbls : x # l => (In(SendWaitQueue', x)
                                   <=> In(SendWaitQueue, x))
  BY <1>0, <1>1, <1>2, <1>3, HeadLeaves
<1>5. xmit'.nbl = NULL
  BY <1>2 DEF NoXmit
<1>6. ASSUME NEW x \in Nbls, x # l PROVE ListInv(x)'
  <2>1. Untouched(x)
    BY <1>0, <1>1, <1>2, <1>4, <1>5, <1>6, HeldSame DEF Untouched
  <2>. QED BY <2>1, UntouchedKeeps DEF SendState
<1>7. ListInv(l)'
  <2>1. XmitShare(l) = 0 /\ XmitShare(l)' = 0
    BY <1>0, <1>1, <1>5 DEF XmitShare
  <2>2. QueueShare(l)' = QueueShare(l)
    <3>1. CASE DpcSends
      BY <1>0, <1>1, <1>4, <3>1, SentIsInHand DEF QueueShare
    <3>2. CASE ~ DpcSends
      BY <1>2, <1>4, <3>2 DEF QueueShare
    <3>. QED BY <3>1, <3>2
  <2>3. Held(l)' = Held(l)
    BY <1>2, HeldSame
  <2>4. Shares(l)' = Shares(l)
    BY <1>2, <2>1, <2>2, <2>3 DEF Shares, One
  <2>5. ~ Live(l)' /\ ~ Failed(l)'
    BY <1>1, <1>5 DEF Live, Failed
  <2>6. (Owing(l)' <=> Owing(l)) /\ (Done(l)' <=> Done(l))
    BY <1>2 DEF Owing, Done
  <2>7. Placed(l)' => Placed(l)
    <3>1. Queued(l)' => Queued(l)
      BY <1>4
    <3>. QED BY <1>2, <2>3, <2>5, <2>6, <3>1 DEF Placed
  <2>8. ListInv(l)
    BY <1>1 DEF SendState
  <2>. QED BY <1>1, <1>2, <2>4, <2>5, <2>6, <2>7, <2>8 DEF ListInv
<1>. QED BY <1>3, <1>4, <1>6, <1>7 DEF SendState

(* A list whose mapping failed leaves the hands of the sender.             *)
LEMMA FailedKeepsLists ==
  ASSUME RingState, SendState, XmitFailed
  PROVE  SendState'
<1>0. PICK l : l = xmit.nbl
  OBVIOUS
<1>1. /\ l \in Nbls /\ xmit.pc = "failed" /\ Live(l) /\ Failed(l)
      /\ NULL \notin Nbls
  BY <1>0, SentIsInHand, Sizes DEF XmitFailed, Live, Failed
<1>2. /\ xmit' = NoXmit
      /\ UNCHANGED <<tcb, RefCount, NextSend, entered, freed, rfreed,
                     CompleteNetBufferLists, aborted>>
      /\ SendWaitQueue' = IF bFromQueue THEN Tail(SendWaitQueue)
                                        ELSE SendWaitQueue
      /\ owed' = IF RefCount[l] = 0 THEN Completed({l}) ELSE owed
  BY <1>0 DEF XmitFailed, stateVars, resetVars, tcbVars
<1>3. ~ DpcSends' /\ dpc' # "bugcheck"
  BY <1>1, SentIsInHand
  DEF XmitFailed, bFromQueue, AfterXmit, AfterFailed, DpcSends, SendState
<1>4. /\ XmitNb' /\ QueueInv' /\ (DpcSends => ~ Queued(l)')
      /\ ~ DpcSends => (Queued(l)' <=> Queued(l))
      /\ \A x \in Nbls : x # l => (In(SendWaitQueue', x)
                                   <=> In(SendWaitQueue, x))
  BY <1>0, <1>1, <1>2, <1>3, HeadLeaves
<1>5. xmit'.nbl = NULL
  BY <1>2 DEF NoXmit
<1>6. owed \in [Nbls -> Int]
  BY DEF RingState, SendTypes, ListTypes
<1>7. ASSUME NEW x \in Nbls, x # l PROVE ListInv(x)'
  <2>1. owed'[x] = owed[x]
    BY <1>2, <1>6, <1>7 DEF Completed
  <2>2. Untouched(x)
    BY <1>0, <1>1, <1>2, <1>4, <1>5, <1>7, <2>1, HeldSame DEF Untouched
  <2>. QED BY <2>2, UntouchedKeeps DEF SendState
<1>8. ~ Queued(l)'
  BY <1>0, <1>1, <1>4, SentIsInHand
<1>9. ListInv(l)'
  <2>1. ListInv(l) /\ Owing(l) /\ RefCount[l] = Shares(l)
    BY <1>1 DEF SendState, ListInv, Placed
  <2>2. ~ Done(l) /\ ~ Done(l)'
    BY <1>1, <1>2, <2>1 DEF ListInv, Done
  <2>3. ~ Live(l)' /\ ~ Failed(l)'
    BY <1>1, <1>5 DEF Live, Failed
  <2>4. Held(l)' = Held(l)
    BY <1>2, HeldSame
  <2>5. CASE RefCount[l] = 0
    <3>1. Held(l) = {} /\ freed.nbl # l /\ rfreed # l
      BY <1>1, <2>1, <2>5, NothingLeft DEF SendState
    <3>2. ~ Placed(l)'
      BY <1>2, <1>8, <2>2, <2>3, <2>4, <3>1 DEF Placed
    <3>3. owed'[l] = 0 /\ l \notin entered'
      BY <1>1, <1>2, <2>1, <2>5 DEF Completed, Owing
    <3>. QED BY <3>2, <3>3, CompletedKeeps
  <2>6. CASE RefCount[l] # 0
    <3>1. XmitShare(l) = 0 /\ XmitShare(l)' = 0
      BY <1>1, <1>5 DEF XmitShare
    <3>2. QueueShare(l) = 0 /\ QueueShare(l)' = 0
      BY <1>0, <1>1, <1>8, SentIsInHand DEF QueueShare
    <3>3. Shares(l)' = Shares(l)
      BY <1>2, <2>4, <3>1, <3>2 DEF Shares, One
    <3>4. Owing(l)' /\ owed'[l] = owed[l]
      BY <1>2, <2>1, <2>6 DEF Owing
    <3>. QED BY <1>2, <2>1, <2>2, <2>3, <2>6, <3>3, <3>4 DEF ListInv, Done
  <2>. QED BY <2>5, <2>6
<1>. QED BY <1>3, <1>4, <1>7, <1>9 DEF SendState

---------------------------------------------------------------------------
(* The DPC.                                                                *)
LEMMA FreeTcbKeepsLists ==
  ASSUME RingState, SendState, DpcFreeTcb
  PROVE  SendState'
<1>0. PICK i, l : i = CurrSendHead /\ l = tcb[CurrSendHead].nbl
  OBVIOUS
<1>1. i \in Tcbs /\ tcb[i].inUse /\ l \in Nbls /\ tcb[i].nbl = l
  BY <1>0, HeadInUse DEF DpcFreeTcb, RingState, SendTypes
<1>2. /\ UNCHANGED <<SendWaitQueue, NextSend, RefCount, entered, owed, xmit,
                     maps, rfreed, CompleteNetBufferLists, aborted>>
      /\ freed.nbl = NULL /\ freed'.nbl = l
      /\ ~ DpcSends /\ ~ DpcSends' /\ dpc' # "bugcheck"
  BY <1>0 DEF DpcFreeTcb, waitVars, nblVars, stateVars, resetVars, DpcSends,
              RingState, Control
<1>3. ~ tcb'[i].inUse /\ \A j \in Tcbs : j # i => tcb'[j] = tcb[j]
  BY <1>0, <1>1, TcbFreed DEF DpcFreeTcb, RingState, SendTypes
<1>4. XmitNb' /\ QueueInv'
  BY <1>2, QueueSame DEF SendState
<1>5. ASSUME NEW x \in Nbls, x # l PROVE ListInv(x)'
  <2>1. Held(x)' = Held(x)
    BY <1>1, <1>3, <1>5, HeldFreed
  <2>2. Untouched(x)
    BY <1>2, <1>5, <2>1, Sizes DEF Untouched
  <2>. QED BY <2>2, UntouchedKeeps DEF SendState
<1>6. ListInv(l)'
  <2>1. Cardinality(Held(l))' = Cardinality(Held(l)) - 1
    BY <1>1, <1>3, HeldFreed
  <2>2. One(freed.nbl = l) = 0 /\ One(freed.nbl = l)' = 1
    BY <1>1, <1>2, Sizes DEF One
  <2>3. /\ XmitShare(l)' = XmitShare(l) /\ QueueShare(l)' = QueueShare(l)
        /\ One(rfreed = l)' = One(rfreed = l)
    BY <1>2 DEF XmitShare, QueueShare, Queued, One
  <2>4. Shares(l)' = Shares(l)
    BY <1>1, <2>1, <2>2, <2>3, SharesAre DEF Shares, SendState
  <2>5. /\ Failed(l)' <=> Failed(l)
        /\ Live(l)' <=> Live(l)
        /\ Queued(l)' <=> Queued(l)
    BY <1>2 DEF Failed, Live, Queued
  <2>6. i \in Held(l)
    BY <1>1 DEF Held
  <2>7. ListInv(l) /\ Placed(l)
    BY <1>1, <2>6 DEF SendState, Placed
  <2>8. Live(l)' /\ xmit'.by = "send" => ~ Queued(l)'
    BY <1>2, <2>5, <2>7 DEF ListInv
  <2>. QED BY <1>2, <2>4, <2>5, <2>7, <2>8, MovedKeeps
<1>. QED BY <1>2, <1>4, <1>5, <1>6 DEF SendState

(* The DPC drops the share of the frame whose block it freed.              *)
LEMMA FreeSGListKeepsLists ==
  ASSUME RingState, SendState, DpcFreeSGList
  PROVE  SendState'
<1>0. PICK l : l = freed.nbl
  OBVIOUS
<1>1. /\ l \in Nbls /\ RefCount \in [Nbls -> Int]
      /\ CompleteNetBufferLists \in Seq(Nbls)
  BY <1>0 DEF DpcFreeSGList, RingState, Control, SendTypes, FreedTypes,
              ListTypes
<1>2. /\ UNCHANGED <<SendWaitQueue, NextSend, entered, owed, xmit, tcb, maps,
                     rfreed, aborted>>
      /\ RefCount' = [RefCount EXCEPT ![l] = @ - 1]
      /\ freed'.nbl = NULL
      /\ CompleteNetBufferLists' =
           IF RefCount[l] = 1 THEN Append(CompleteNetBufferLists, l)
                              ELSE CompleteNetBufferLists
      /\ ~ DpcSends /\ ~ DpcSends' /\ dpc' # "bugcheck"
  BY <1>0 DEF DpcFreeSGList, LastReference, NoFreed, waitVars, stateVars,
              resetVars, tcbVars, DpcSends
<1>3. ~ Failed(l)
  BY DEF DpcFreeSGList, Failed, RingState, Control, SendTypes, XmitTypes
<1>4. XmitNb' /\ QueueInv'
  BY <1>2, QueueSame DEF SendState
<1>5. ASSUME NEW x \in Nbls, x # l PROVE ListInv(x)'
  <2>1. In(CompleteNetBufferLists', x) <=> In(CompleteNetBufferLists, x)
    BY <1>1, <1>2, <1>5, InAppend
  <2>2. (freed'.nbl = x <=> freed.nbl = x) /\ RefCount'[x] = RefCount[x]
    BY <1>0, <1>1, <1>2, <1>5, Sizes
  <2>3. Untouched(x)
    BY <1>2, <2>1, <2>2, HeldSame DEF Untouched
  <2>. QED BY <2>3, UntouchedKeeps DEF SendState
<1>6. ListInv(l)'
  <2>1. One(freed.nbl = l) = 1 /\ One(freed.nbl = l)' = 0
    BY <1>0, <1>1, <1>2, Sizes DEF One
  <2>2. /\ XmitShare(l)' = XmitShare(l) /\ QueueShare(l)' = QueueShare(l)
        /\ One(rfreed = l)' = One(rfreed = l)
    BY <1>2 DEF XmitShare, QueueShare, Queued, One
  <2>3. Cardinality(Held(l))' = Cardinality(Held(l))
    BY <1>2, HeldSame
  <2>4. Shares(l)' = Shares(l) - 1 /\ Shares(l) > 0
    <3>1. /\ Cardinality(Held(l)) \in Nat /\ XmitShare(l) \in Nat
          /\ QueueShare(l) \in Nat /\ One(rfreed = l) \in Nat
      BY <1>1, SharesAre DEF SendState
    <3>2. Shares(l) > 0
      BY <2>1, <3>1 DEF Shares
    <3>3. Shares(l)' = Shares(l) - 1
      BY <2>1, <2>2, <2>3, <3>1 DEF Shares
    <3>. QED BY <3>2, <3>3
  <2>5. /\ ~ Failed(l)'
        /\ Live(l)' <=> Live(l)
        /\ Queued(l)' <=> Queued(l)
    BY <1>2, <1>3 DEF Failed, Live, Queued
  <2>6. ListInv(l) /\ Placed(l) /\ RefCount'[l] = RefCount[l] - 1
    BY <1>0, <1>1, <1>2 DEF SendState, Placed
  <2>7. Live(l)' /\ xmit'.by = "send" => ~ Queued(l)'
    BY <1>2, <2>5, <2>6 DEF ListInv
  <2>8. IF RefCount[l] = 1
        THEN /\ In(CompleteNetBufferLists', l)
             /\ In(aborted', l) <=> In(aborted, l)
        ELSE UNCHANGED <<CompleteNetBufferLists, aborted>>
    BY <1>1, <1>2, InAppend
  <2>. QED BY <1>1, <1>2, <1>3, <2>4, <2>5, <2>6, <2>7, <2>8, FreedKeeps
<1>. QED BY <1>2, <1>4, <1>5, <1>6 DEF SendState

(* Lists that are completed.                                               *)
LEMMA DoneIsNowhere ==
  ASSUME RingState, SendState, NEW l \in Nbls, Done(l)
  PROVE  /\ owed[l] = 1 /\ l \notin entered
         /\ Held(l) = {} /\ freed.nbl # l /\ rfreed # l
         /\ (Queued(l) => DpcSends) /\ ~ Live(l)
<1>1. ListInv(l)
  BY DEF SendState
<1>2. Owing(l)
  BY <1>1 DEF ListInv, Placed
<1>3. Shares(l) = 0 /\ ~ Failed(l)
  BY <1>1, <1>2 DEF ListInv
<1>. QED BY <1>2, <1>3, NothingLeft DEF SendState, Owing

(* Completing a chain lowers what is owed for its lists by one.            *)
LEMMA ListsCompleted ==
  ASSUME NEW s \in Seq(Nbls), NEW l \in Nbls,
         owed' = Completed({s[k] : k \in 1 .. Len(s)})
  PROVE  owed'[l] = IF In(s, l) THEN owed[l] - 1 ELSE owed[l]
<1>1. l \in {s[k] : k \in 1 .. Len(s)} <=> In(s, l)
  BY DEF In
<1>. QED BY <1>1 DEF Completed

(* The DPC completes the lists that it found without shares.               *)
LEMMA CompleteKeepsLists ==
  ASSUME RingState, SendState, DpcComplete
  PROVE  SendState'
<1>1. CompleteNetBufferLists \in Seq(Nbls) /\ owed \in [Nbls -> Int]
  BY DEF RingState, SendTypes, ListTypes
<1>2. /\ UNCHANGED <<SendWaitQueue, NextSend, RefCount, entered, xmit, tcb,
                     maps, freed, rfreed, aborted>>
      /\ CompleteNetBufferLists' = <<>>
      /\ owed' = Completed({CompleteNetBufferLists[k] :
                              k \in 1 .. Len(CompleteNetBufferLists)})
      /\ ~ DpcSends /\ ~ DpcSends' /\ dpc' # "bugcheck"
  BY DEF DpcComplete, waitVars, stateVars, resetVars, tcbVars, DpcSends
<1>3. XmitNb' /\ QueueInv'
  BY <1>2, QueueSame DEF SendState
<1>4. \A x \in Nbls : owed'[x] = IF In(CompleteNetBufferLists, x)
                                 THEN owed[x] - 1 ELSE owed[x]
  BY <1>1, <1>2, ListsCompleted
<1>5. \A x \in Nbls : ~ In(CompleteNetBufferLists', x)
  BY <1>2 DEF In
<1>6. ASSUME NEW x \in Nbls PROVE ListInv(x)'
  <2>1. CASE In(CompleteNetBufferLists, x)
    <3>1. Done(x) /\ ListInv(x)
      BY <2>1 DEF Done, SendState
    <3>2. owed'[x] = 0 /\ x \notin entered'
      BY <1>2, <1>4, <2>1, <3>1, DoneIsNowhere
    <3>3. ~ Done(x)'
      BY <1>2, <1>5, <2>1, <3>1 DEF ListInv, Done
    <3>4. /\ Held(x) = {} /\ freed.nbl # x /\ rfreed # x
          /\ ~ Queued(x) /\ ~ Live(x)
      BY <1>2, <3>1, DoneIsNowhere
    <3>5. Held(x)' = {} /\ ~ Queued(x)' /\ ~ Live(x)'
      BY <1>2, <3>4, HeldSame DEF Queued, Live
    <3>6. ~ Placed(x)'
      BY <1>2, <3>3, <3>4, <3>5 DEF Placed
    <3>. QED BY <3>2, <3>6, CompletedKeeps
  <2>2. CASE ~ In(CompleteNetBufferLists, x)
    <3>1. Untouched(x)
      BY <1>2, <1>4, <1>5, <2>2, HeldSame DEF Untouched
    <3>. QED BY <3>1, UntouchedKeeps DEF SendState
  <2>. QED BY <2>1, <2>2
<1>. QED BY <1>2, <1>3, <1>6 DEF SendState

(* The DPC sends the head of the queue and leaves it there.                *)
LEMMA DequeueKeepsLists ==
  ASSUME RingState, SendState, DpcDequeue
  PROVE  SendState'
<1>0. PICK l : l = Head(SendWaitQueue)
  OBVIOUS
<1>1. /\ SendWaitQueue \in Seq(Nbls) /\ SendWaitQueue # <<>>
      /\ NextSend \in [Nbls -> Nat] /\ NULL \notin Nbls
  BY Sizes DEF DpcDequeue, CanDequeue, RingState, SendTypes, ListTypes
<1>2. l \in Nbls /\ Queued(l)
  BY <1>0, <1>1, InTail DEF In, Queued
<1>3. xmit.nbl = NULL /\ ~ DpcSends
  BY DEF DpcDequeue, CanDequeue, RingState, Control, DpcSends
<1>4. NbCount[l] \in Nat /\ NextSend[l] \in 1 .. NbCount[l]
  BY <1>2, <1>3, Sizes DEF SendState, QueueInv
<1>5. /\ xmit' = [pc |-> "loop", by |-> "dpc", nbl |-> l,
                  nb |-> NextSend[l], tcb |-> 0]
      /\ NextSend' = [NextSend EXCEPT ![l] = 0]
      /\ UNCHANGED <<SendWaitQueue, RefCount, entered, owed, tcb, maps, freed,
                     rfreed, CompleteNetBufferLists, aborted>>
      /\ DpcSends' /\ dpc' # "bugcheck"
  BY <1>0 DEF DpcDequeue, stateVars, resetVars, tcbVars, DpcSends
<1>6. \A x \in Nbls : Queued(x)' <=> Queued(x)
  BY <1>5 DEF Queued
<1>7. XmitNb'
  BY <1>4, <1>5 DEF XmitNb
<1>8. QueueInv'
  <2>1. Distinct(SendWaitQueue')
    BY <1>5 DEF SendState, QueueInv
  <2>2. SendWaitQueue' # <<>> /\ Head(SendWaitQueue') = xmit'.nbl
    BY <1>0, <1>1, <1>5
  <2>3. ASSUME NEW x \in Nbls, Queued(x)'
        PROVE  IF xmit'.nbl = x THEN NextSend'[x] = 0
                                ELSE NextSend'[x] \in 1 .. NbCount[x]
    <3>1. CASE x = l
      BY <1>1, <1>2, <1>5, <3>1
    <3>2. CASE x # l
      BY <1>1, <1>3, <1>5, <1>6, <2>3, <3>2 DEF SendState, QueueInv
    <3>. QED BY <3>1, <3>2
  <2>. QED BY <1>5, <2>1, <2>2, <2>3 DEF QueueInv
<1>9. ASSUME NEW x \in Nbls, x # l PROVE ListInv(x)'
  <2>1. xmit'.nbl # x /\ xmit.nbl # x /\ NextSend'[x] = NextSend[x]
    BY <1>1, <1>3, <1>5, <1>9
  <2>2. Untouched(x)
    BY <1>5, <1>9, <2>1, HeldSame DEF Untouched
  <2>. QED BY <2>2, UntouchedKeeps DEF SendState
<1>10. ListInv(l)'
  <2>1. XmitShare(l) = 0 /\ XmitShare(l)' = NbCount[l] - NextSend[l] + 1
    BY <1>1, <1>2, <1>3, <1>4, <1>5 DEF XmitShare
  <2>2. QueueShare(l) = NbCount[l] - NextSend[l] + 1
    BY <1>2, <1>4 DEF QueueShare
  <2>3. QueueShare(l)' = 0
    BY <1>1, <1>2, <1>5 DEF QueueShare
  <2>4. /\ Cardinality(Held(l))' = Cardinality(Held(l))
        /\ One(freed.nbl = l)' = One(freed.nbl = l)
        /\ One(rfreed = l)' = One(rfreed = l)
    BY <1>5, HeldSame DEF One
  <2>5. Shares(l)' = Shares(l)
    BY <1>2, <1>4, <2>1, <2>2, <2>3, <2>4, SharesAre DEF Shares, SendState
  <2>6. ~ Failed(l) /\ ~ Failed(l)' /\ xmit'.by # "send"
    BY <1>1, <1>2, <1>3, <1>5 DEF Failed
  <2>. QED BY <1>2, <1>5, <2>5, <2>6, MovedKeeps DEF Placed, SendState
<1>. QED BY <1>5, <1>7, <1>8, <1>9, <1>10 DEF SendState

---------------------------------------------------------------------------
(* A pause and a reset empty the queue.                                    *)
LEMMA QueueFreedKeepsLists ==
  ASSUME RingState, SendState, MpFreeQueuedSendNetBufferLists, orderly',
         UNCHANGED <<tcb, rfreed, aborted, NextSend, entered, xmit, maps,
                     dpcVars>>
  PROVE  SendState'
<1>1. /\ SendWaitQueue \in Seq(Nbls) /\ RefCount \in [Nbls -> Int]
      /\ owed \in [Nbls -> Int] /\ NULL \notin Nbls
  BY Sizes DEF RingState, SendTypes, ListTypes
<1>2. xmit.nbl = NULL /\ xmit.pc = "idle" /\ ~ DpcSends
  BY DEF MpFreeQueuedSendNetBufferLists, RingState, Control
<1>3. /\ UNCHANGED <<tcb, rfreed, aborted, NextSend, entered, xmit, maps, dpc,
                     freed, CompleteNetBufferLists>>
      /\ SendWaitQueue' = <<>>
  BY DEF MpFreeQueuedSendNetBufferLists, dpcVars
<1>4. \A x \in Nbls : /\ x \in QueuedLists <=> Queued(x)
                      /\ x \in QueuedLists <=> In(SendWaitQueue, x)
  BY DEF QueuedLists, Queued, In
<1>5. \A x \in Nbls : ~ Queued(x)' /\ ~ In(SendWaitQueue', x)
  BY <1>3 DEF Queued, In
<1>6. \A x \in Nbls : RefCount'[x] = IF Queued(x) THEN LeftOf(x)
                                                  ELSE RefCount[x]
  BY <1>4 DEF MpFreeQueuedSendNetBufferLists
<1>7. \A x \in Nbls : owed'[x] = IF Queued(x) /\ LeftOf(x) = 0
                                 THEN owed[x] - 1 ELSE owed[x]
  BY <1>4 DEF MpFreeQueuedSendNetBufferLists, Completed, QueuedAndWhole
<1>8. ~ DpcSends' /\ dpc' # "bugcheck" /\ XmitNb' /\ QueueInv'
  <2>1. ~ DpcSends' /\ dpc' # "bugcheck"
    BY <1>2, <1>3 DEF DpcSends, SendState
  <2>2. XmitNb'
    BY <1>3 DEF SendState, XmitNb
  <2>3. Distinct(SendWaitQueue')
    BY <1>3 DEF Distinct
  <2>. QED BY <1>5, <2>1, <2>2, <2>3 DEF QueueInv
<1>9. ASSUME NEW x \in Nbls, ~ Queued(x) PROVE ListInv(x)'
  <2>1. In(SendWaitQueue', x) <=> In(SendWaitQueue, x)
    BY <1>4, <1>5, <1>9
  <2>2. Untouched(x)
    BY <1>3, <1>6, <1>7, <1>9, <2>1, HeldSame DEF Untouched
  <2>. QED BY <2>2, UntouchedKeeps DEF SendState
<1>10. ASSUME NEW x \in Nbls, Queued(x) PROVE ListInv(x)'
  <2>1. ListInv(x) /\ Owing(x) /\ RefCount[x] = Shares(x)
    BY <1>10 DEF SendState, ListInv, Placed
  <2>2. NbCount[x] \in Nat /\ NextSend[x] \in 1 .. NbCount[x]
    BY <1>2, <1>10, Sizes DEF SendState, QueueInv
  <2>3. QueueShare(x) = NbCount[x] - NextSend[x] + 1
    BY <1>10, <2>2 DEF QueueShare
  <2>4. XmitShare(x) = 0
    BY <1>1, <1>2 DEF XmitShare
  <2>5. /\ Cardinality(Held(x)) \in Nat
        /\ One(freed.nbl = x) \in Nat /\ One(rfreed = x) \in Nat
    BY SharesAre DEF SendState
  <2>6. LeftOf(x) = Shares(x) - QueueShare(x) /\ RefCount[x] > 0
    <3>1. LeftOf(x) = RefCount[x] - (NbCount[x] - NextSend[x] + 1)
      BY <2>2 DEF LeftOf
    <3>2. Shares(x) >= QueueShare(x) /\ QueueShare(x) > 0
      BY <2>2, <2>3, <2>4, <2>5 DEF Shares
    <3>. QED BY <2>1, <2>2, <2>3, <2>5, <3>1, <3>2, SharesAre DEF SendState
  <2>7. ~ Done(x) /\ ~ Done(x)'
    BY <1>3, <2>1, <2>6 DEF ListInv, Done
  <2>8. ~ Live(x)' /\ ~ Failed(x)'
    BY <1>1, <1>2, <1>3 DEF Live, Failed
  <2>9. Held(x)' = Held(x)
    BY <1>3, HeldSame
  <2>10. LeftOf(x) = Cardinality(Held(x)) + One(freed.nbl = x)
                     + One(rfreed = x)
    BY <2>2, <2>3, <2>4, <2>5, <2>6 DEF Shares
  <2>11. CASE LeftOf(x) = 0
    <3>1. owed'[x] = 0 /\ x \notin entered'
      BY <1>3, <1>7, <1>10, <2>1, <2>11 DEF Owing
    <3>2. Cardinality(Held(x)) = 0 /\ freed.nbl # x /\ rfreed # x
      BY <2>5, <2>10, <2>11 DEF One
    <3>3. ~ Placed(x)'
      BY <1>3, <1>5, <2>7, <2>8, <2>9, <3>2, HeldCount DEF Placed
    <3>. QED BY <3>1, <3>3, CompletedKeeps
  <2>12. CASE LeftOf(x) # 0
    <3>1. XmitShare(x)' = 0 /\ QueueShare(x)' = 0
      BY <1>1, <1>2, <1>3, <1>5 DEF XmitShare, QueueShare
    <3>2. Shares(x)' = LeftOf(x)
      BY <1>3, <2>5, <2>9, <2>10, <3>1 DEF Shares, One
    <3>3. Owing(x)' /\ owed'[x] = owed[x] /\ RefCount'[x] = LeftOf(x)
      BY <1>3, <1>6, <1>7, <1>10, <2>1, <2>12 DEF Owing
    <3>. QED BY <1>3, <2>1, <2>7, <2>8, <2>12, <3>2, <3>3 DEF ListInv, Done
  <2>. QED BY <2>11, <2>12
<1>. QED BY <1>8, <1>9, <1>10 DEF SendState

(* Pausing, restarting and cancelling, all that NDIS asks for.             *)
LEMMA PauseKeepsLists ==
  ASSUME RingEnv, RingState, SendState, orderly', Ndis
  PROVE  SendState'
<1>. USE DEF stateVars, resetVars, dpcVars, tcbVars
<1>1. CASE MPPause \/ MPPauseReturn \/ MPRestart
  <2>1. /\ UNCHANGED <<waitVars, nblVars, xmit, freed, rfreed, tcb, maps, dpc,
                       CompleteNetBufferLists, aborted>>
        /\ dpc # "bugcheck"
    BY <1>1 DEF MPPause, MPPauseReturn, MPRestart, SendState
  <2>2. DpcSends' <=> DpcSends
    BY <2>1 DEF DpcSends
  <2>. QED BY <2>1, <2>2, HeldSame, QuietKeepsLists
<1>2. CASE MPPauseQueue
  BY <1>2, QueueFreedKeepsLists DEF MPPauseQueue
<1>3. ASSUME NEW S \in SUBSET Nbls, MPCancelSendNetBufferLists(S)
      PROVE  SendState'
  BY <1>3 DEF MPCancelSendNetBufferLists, RingEnv
<1>. QED BY <1>1, <1>2, <1>3 DEF Ndis

---------------------------------------------------------------------------
(* MPReset; it frees the oldest TCB, as the DPC does.                      *)
LEMMA ResetFreeTcbKeepsLists ==
  ASSUME RingState, SendState, MPResetFreeTcb
  PROVE  SendState'
<1>0. PICK i, l : i = CurrSendHead /\ l = tcb[CurrSendHead].nbl
  OBVIOUS
<1>1. /\ i \in Tcbs /\ tcb[i].inUse /\ l \in Nbls /\ tcb[i].nbl = l
      /\ NULL \notin Nbls /\ l # NULL
  <2>1. nBusySend > 0
    BY DEF MPResetFreeTcb, BusyIsLeft
  <2>. QED BY <1>0, <2>1, HeadInUse, Sizes DEF RingState, SendTypes
<1>2. /\ UNCHANGED <<SendWaitQueue, NextSend, entered, owed, xmit, maps, dpc,
                     freed, CompleteNetBufferLists>>
      /\ \/ rfreed' = l /\ UNCHANGED <<RefCount, aborted>>
         \/ rfreed' = rfreed /\ Abort(l)
  BY <1>0, <1>1 DEF MPResetFreeTcb, waitVars, dpcVars
<1>3. rfreed = NULL /\ xmit.nbl = NULL
  BY DEF MPResetFreeTcb, RingState, Control
<1>4. ~ tcb'[i].inUse /\ \A j \in Tcbs : j # i => tcb'[j] = tcb[j]
  BY <1>0, <1>1, TcbFreed DEF MPResetFreeTcb, RingState, SendTypes
<1>5. RefCount \in [Nbls -> Int] /\ aborted \in Seq(Nbls)
  BY DEF RingState, SendTypes, ListTypes
<1>6. XmitNb' /\ QueueInv' /\ dpc' # "bugcheck"
  BY <1>2, QueueSame DEF SendState, DpcSends
<1>7. ASSUME NEW x \in Nbls, x # l PROVE ListInv(x)'
  <2>1. Held(x)' = Held(x)
    BY <1>1, <1>4, <1>7, HeldFreed
  <2>2. rfreed' = x <=> rfreed = x
    BY <1>1, <1>2, <1>3, <1>7
  <2>3. RefCount'[x] = RefCount[x] /\ (In(aborted', x) <=> In(aborted, x))
    <3>1. In(Append(aborted, l), x) <=> In(aborted, x)
      BY <1>1, <1>5, <1>7, InAppend
    <3>2. aborted' \in {aborted, Append(aborted, l)}
      BY <1>2 DEF Abort
    <3>3. RefCount'[x] = RefCount[x]
      BY <1>1, <1>2, <1>5, <1>7 DEF Abort
    <3>. QED BY <3>1, <3>2, <3>3
  <2>4. Untouched(x)
    BY <1>2, <1>7, <2>1, <2>2, <2>3 DEF Untouched
  <2>. QED BY <2>4, UntouchedKeeps DEF SendState
<1>8. ListInv(l)'
  <2>1. Cardinality(Held(l))' = Cardinality(Held(l)) - 1
    BY <1>1, <1>4, HeldFreed
  <2>2. i \in Held(l)
    BY <1>1 DEF Held
  <2>3. ListInv(l) /\ Placed(l)
    BY <1>1, <2>2 DEF SendState, Placed
  <2>4. /\ XmitShare(l)' = XmitShare(l) /\ QueueShare(l)' = QueueShare(l)
        /\ One(freed.nbl = l)' = One(freed.nbl = l)
    BY <1>2 DEF XmitShare, QueueShare, Queued, One
  <2>5. ~ Failed(l) /\ ~ Failed(l)' /\ ~ Live(l)'
    BY <1>1, <1>2, <1>3 DEF Failed, Live
  <2>6. One(rfreed = l) = 0
    BY <1>1, <1>3 DEF One
  <2>7. /\ Cardinality(Held(l)) \in Nat /\ XmitShare(l) \in Nat
        /\ QueueShare(l) \in Nat /\ One(freed.nbl = l) \in Nat
    BY <1>1, SharesAre DEF SendState
  <2>8. CASE rfreed' = l /\ UNCHANGED <<RefCount, aborted>>
    <3>1. One(rfreed = l)' = 1
      BY <2>8 DEF One
    <3>2. Shares(l)' = Shares(l)
      BY <2>1, <2>4, <2>6, <2>7, <3>1 DEF Shares
    <3>. QED BY <1>2, <2>3, <2>5, <2>8, <3>2, MovedKeeps
  <2>9. CASE rfreed' = rfreed /\ Abort(l)
    <3>1. One(rfreed = l)' = 0
      BY <1>1, <1>3, <2>9 DEF One
    <3>2. Shares(l)' = Shares(l) - 1
      BY <2>1, <2>4, <2>6, <2>7, <3>1 DEF Shares
    <3>3. Shares(l) > 0
      <4>1. Cardinality(Held(l)) # 0
        BY <2>2, HeldCount
      <4>. QED BY <2>6, <2>7, <4>1 DEF Shares
    <3>4. RefCount'[l] = RefCount[l] - 1
      BY <1>1, <1>5, <2>9 DEF Abort
    <3>5. IF RefCount[l] = 1
          THEN /\ In(aborted', l)
               /\ In(CompleteNetBufferLists', l)
                    <=> In(CompleteNetBufferLists, l)
          ELSE UNCHANGED <<CompleteNetBufferLists, aborted>>
      <4>1. In(Append(aborted, l), l)
        BY <1>1, <1>5, InAppend
      <4>. QED BY <1>2, <2>9, <4>1 DEF Abort
    <3>. QED BY <1>1, <1>2, <2>3, <2>5, <3>2, <3>3, <3>4, <3>5, FreedKeeps
  <2>. QED BY <1>2, <2>8, <2>9
<1>. QED BY <1>6, <1>7, <1>8 DEF SendState

(* The reset drops the share of the frame whose block it freed.            *)
LEMMA ResetFreeSGListKeepsLists ==
  ASSUME RingState, SendState, MPResetFreeSGList
  PROVE  SendState'
<1>0. PICK l : l = rfreed
  OBVIOUS
<1>1. /\ l \in Nbls /\ NULL \notin Nbls /\ rfreed = l
      /\ RefCount \in [Nbls -> Int] /\ aborted \in Seq(Nbls)
  BY <1>0, Sizes DEF MPResetFreeSGList, RingState, Control, SendTypes,
                     FreedTypes, ListTypes
<1>2. /\ UNCHANGED <<SendWaitQueue, NextSend, entered, owed, xmit, tcb, maps,
                     dpc, freed, CompleteNetBufferLists>>
      /\ rfreed' = NULL /\ Abort(l)
  BY <1>0 DEF MPResetFreeSGList, waitVars, dpcVars, tcbVars
<1>3. xmit.nbl = NULL
  BY DEF MPResetFreeSGList, RingState, Control
<1>4. XmitNb' /\ QueueInv' /\ dpc' # "bugcheck"
  BY <1>2, QueueSame DEF SendState, DpcSends
<1>5. ASSUME NEW x \in Nbls, x # l PROVE ListInv(x)'
  <2>1. rfreed' = x <=> rfreed = x
    BY <1>1, <1>2, <1>5
  <2>2. RefCount'[x] = RefCount[x] /\ (In(aborted', x) <=> In(aborted, x))
    BY ZenonT(30), <1>1, <1>2, <1>5, InAppend DEF Abort
  <2>3. Untouched(x)
    BY <1>2, <2>1, <2>2, HeldSame DEF Untouched
  <2>. QED BY <2>3, UntouchedKeeps DEF SendState
<1>6. ListInv(l)'
  <2>1. Cardinality(Held(l))' = Cardinality(Held(l))
    BY <1>2, HeldSame
  <2>2. ListInv(l) /\ Placed(l)
    BY <1>1 DEF SendState, Placed
  <2>3. /\ XmitShare(l)' = XmitShare(l) /\ QueueShare(l)' = QueueShare(l)
        /\ One(freed.nbl = l)' = One(freed.nbl = l)
    BY <1>2 DEF XmitShare, QueueShare, Queued, One
  <2>4. ~ Failed(l) /\ ~ Failed(l)' /\ ~ Live(l)'
    BY <1>1, <1>2, <1>3 DEF Failed, Live
  <2>5. One(rfreed = l) = 1 /\ One(rfreed = l)' = 0
    BY <1>1, <1>2 DEF One
  <2>6. /\ Cardinality(Held(l)) \in Nat /\ XmitShare(l) \in Nat
        /\ QueueShare(l) \in Nat /\ One(freed.nbl = l) \in Nat
    BY <1>1, SharesAre DEF SendState
  <2>7. Shares(l)' = Shares(l) - 1
    BY <2>1, <2>3, <2>5, <2>6 DEF Shares
  <2>8. Shares(l) > 0
    BY <2>5, <2>6 DEF Shares
  <2>9. RefCount'[l] = RefCount[l] - 1
    BY <1>1, <1>2 DEF Abort
  <2>10. IF RefCount[l] = 1
         THEN /\ In(aborted', l)
              /\ In(CompleteNetBufferLists', l)
                   <=> In(CompleteNetBufferLists, l)
         ELSE UNCHANGED <<CompleteNetBufferLists, aborted>>
    BY <1>1, <1>2, InAppend DEF Abort
  <2>. QED BY <1>1, <1>2, <2>2, <2>4, <2>7, <2>8, <2>9, <2>10, FreedKeeps
<1>. QED BY <1>4, <1>5, <1>6 DEF SendState

(* The reset completes the lists it found without shares.                  *)
LEMMA ResetCompleteKeepsLists ==
  ASSUME RingState, SendState, MPResetComplete
  PROVE  SendState'
<1>1. aborted \in Seq(Nbls) /\ owed \in [Nbls -> Int]
  BY DEF RingState, SendTypes, ListTypes
<1>2. /\ UNCHANGED <<SendWaitQueue, NextSend, RefCount, entered, xmit, tcb,
                     maps, dpc, freed, rfreed, CompleteNetBufferLists>>
      /\ aborted' = <<>>
      /\ owed' = Completed({aborted[k] : k \in 1 .. Len(aborted)})
  BY DEF MPResetComplete, waitVars, dpcVars, tcbVars
<1>3. ~ DpcSends
  BY DEF MPResetComplete, RingState, Control
<1>4. XmitNb' /\ QueueInv' /\ dpc' # "bugcheck"
  BY <1>2, QueueSame DEF SendState, DpcSends
<1>5. \A x \in Nbls : owed'[x] = IF In(aborted, x) THEN owed[x] - 1
                                                   ELSE owed[x]
  BY <1>1, <1>2, ListsCompleted
<1>6. \A x \in Nbls : ~ In(aborted', x)
  BY <1>2 DEF In
<1>7. ASSUME NEW x \in Nbls PROVE ListInv(x)'
  <2>1. CASE In(aborted, x)
    <3>1. Done(x) /\ ListInv(x)
      BY <2>1 DEF Done, SendState
    <3>2. owed'[x] = 0 /\ x \notin entered'
      BY <1>2, <1>5, <2>1, <3>1, DoneIsNowhere
    <3>3. ~ Done(x)'
      BY <1>2, <1>6, <2>1, <3>1 DEF ListInv, Done
    <3>4. /\ Held(x) = {} /\ freed.nbl # x /\ rfreed # x
          /\ ~ Queued(x) /\ ~ Live(x)
      BY <1>3, <3>1, DoneIsNowhere
    <3>5. Held(x)' = {} /\ ~ Queued(x)' /\ ~ Live(x)'
      BY <1>2, <3>4, HeldSame DEF Queued, Live
    <3>6. ~ Placed(x)'
      BY <1>2, <3>3, <3>4, <3>5 DEF Placed
    <3>. QED BY <3>2, <3>6, CompletedKeeps
  <2>2. CASE ~ In(aborted, x)
    <3>1. Untouched(x)
      BY <1>2, <1>5, <1>6, <2>2, HeldSame DEF Untouched
    <3>. QED BY <3>1, UntouchedKeeps DEF SendState
  <2>. QED BY <2>1, <2>2
<1>. QED BY <1>4, <1>7 DEF SendState

(* The reset starts with an empty ring again.                              *)
LEMMA ResetInitKeepsLists ==
  ASSUME RingState, SendState, MPResetInitSend
  PROVE  SendState'
<1>1. nBusySend = 0 /\ \A i \in Tcbs : ~ tcb[i].inUse
  <2>1. nBusySend = 0
    BY DEF MPResetInitSend, RingState, TcbRing
  <2>. QED BY <2>1, DistRange DEF RingState, SendTypes, TcbRing
<1>2. \A i \in Tcbs : ~ tcb'[i].inUse
  BY DEF MPResetInitSend, ZeroTcb
<1>3. \A l \in Nbls : Held(l)' = Held(l)
  BY <1>1, <1>2 DEF Held
<1>4. /\ UNCHANGED <<waitVars, nblVars, xmit, maps, freed, rfreed,
                     CompleteNetBufferLists, aborted>>
      /\ dpc' = dpc
  BY DEF MPResetInitSend, dpcVars
<1>5. (DpcSends' <=> DpcSends) /\ dpc' # "bugcheck"
  BY <1>4 DEF SendState, DpcSends
<1>. QED BY <1>3, <1>4, <1>5, QuietKeepsLists

(* All the steps of a reset, together.                                     *)
LEMMA ResetKeepsLists ==
  ASSUME RingState, SendState, orderly', Reset
  PROVE  SendState'
<1>1. CASE MPReset \/ MPResetFreed \/ MPResetEnd
  <2>1. /\ UNCHANGED <<waitVars, nblVars, xmit, freed, rfreed, tcb, maps, dpc,
                       CompleteNetBufferLists, aborted>>
        /\ dpc # "bugcheck"
    BY <1>1 DEF MPReset, MPResetFreed, MPResetEnd, SendState, dpcVars, tcbVars
  <2>2. DpcSends' <=> DpcSends
    BY <2>1 DEF DpcSends
  <2>. QED BY <2>1, <2>2, HeldSame, QuietKeepsLists
<1>2. CASE MPResetQueue
  BY <1>2, QueueFreedKeepsLists DEF MPResetQueue, tcbVars
<1>3. CASE MPResetFreeTcb BY <1>3, ResetFreeTcbKeepsLists
<1>4. CASE MPResetFreeSGList BY <1>4, ResetFreeSGListKeepsLists
<1>5. CASE MPResetComplete BY <1>5, ResetCompleteKeepsLists
<1>6. CASE MPResetInitSend BY <1>6, ResetInitKeepsLists
<1>. QED BY <1>1, <1>2, <1>3, <1>4, <1>5, <1>6 DEF Reset

---------------------------------------------------------------------------
(* The rest of MiniportSendNetBufferList, MpProcessSGList and the DPC.     *)
LEMMA XmitKeepsLists ==
  ASSUME RingState, SendState, Xmit
  PROVE  SendState'
<1>1. CASE XmitAllocateTcb BY <1>1, AllocateKeepsLists
<1>2. CASE XmitMapped BY <1>2, MappedKeepsLists
<1>3. CASE XmitMapFailed BY <1>3, MapFailedKeepsLists
<1>4. CASE XmitNoTcb BY <1>4, NoTcbKeepsLists
<1>5. CASE XmitDone BY <1>5, DoneKeepsLists
<1>6. CASE XmitFailed BY <1>6, FailedKeepsLists
<1>7. CASE XmitBugCheck
  BY <1>7, SentIsInHand DEF XmitBugCheck
<1>. QED BY <1>1, <1>2, <1>3, <1>4, <1>5, <1>6, <1>7 DEF Xmit

(* The mapping callback leaves the lists to those who have them.           *)
LEMMA CallbackKeepsLists ==
  ASSUME ListEnv, RingState, SendState, ProcessSGList
  PROVE  SendState'
<1>1. PICK m \in maps :
        \/ \E n \in 1 .. NIC_MAX_PHYS_BUF_COUNT : MpProcessSGList(m[1], m[2], n)
        \/ MpProcessSGListCopyFailed(m[1], m[2])
        \/ MpProcessSGListEmpty(m[1], m[2])
        \/ MpProcessSGListLate(m[1], m[2])
        \/ MpProcessSGListBugCheck(m[1], m[2])
  BY DEF ProcessSGList
<1>2. m[1] \in Tcbs /\ tcb[m[1]].inUse
  BY DEF RingState, Waiting, SendTypes, XmitTypes
<1>3. ASSUME NEW n \in 1 .. NIC_MAX_PHYS_BUF_COUNT,
             MpProcessSGList(m[1], m[2], n)
      PROVE  SendState'
  <2>1. PICK i : i = m[1]
    OBVIOUS
  <2>2. n \in 0 .. NIC_MAX_PHYS_BUF_COUNT
    BY Sizes
  <2>3. /\ tcb' = [tcb EXCEPT ![i].waiting = FALSE, ![i].nTbds = n]
        /\ maps' \subseteq maps
        /\ UNCHANGED <<waitVars, nblVars, xmit, freed, rfreed,
                       CompleteNetBufferLists, aborted, dpc>>
    BY <1>3, <2>1 DEF MpProcessSGList, dpcVars, stateVars, resetVars
  <2>4. /\ \A j \in Tcbs : j # i => tcb'[j] = tcb[j]
        /\ tcb'[i].inUse = tcb[i].inUse /\ tcb'[i].nbl = tcb[i].nbl
    <3>1. TcbTypes /\ i \in Tcbs
      BY <1>2, <2>1 DEF RingState, SendTypes
    <3>. QED BY <2>2, <2>3, <3>1, TcbGiven
  <2>5. \A l \in Nbls : Held(l)' = Held(l)
    BY <2>4 DEF Held
  <2>6. (DpcSends' <=> DpcSends) /\ dpc' # "bugcheck"
    BY <2>3 DEF SendState, DpcSends
  <2>. QED BY <2>3, <2>5, <2>6, QuietKeepsLists
<1>4. CASE MpProcessSGListCopyFailed(m[1], m[2])
  BY <1>4 DEF MpProcessSGListCopyFailed, ListEnv
<1>5. CASE MpProcessSGListLate(m[1], m[2])
  BY <1>2, <1>5 DEF MpProcessSGListLate
<1>6. CASE MpProcessSGListBugCheck(m[1], m[2])
  BY <1>2, <1>6 DEF MpProcessSGListBugCheck, ZeroTcb
<1>7. CASE MpProcessSGListEmpty(m[1], m[2])
  <2>1. /\ maps' \subseteq maps
        /\ UNCHANGED <<tcb, waitVars, nblVars, xmit, freed, rfreed,
                       CompleteNetBufferLists, aborted, dpc>>
    BY <1>7 DEF MpProcessSGListEmpty, dpcVars, tcbVars, stateVars, resetVars
  <2>2. \A l \in Nbls : Held(l)' = Held(l)
    BY <2>1 DEF Held
  <2>3. (DpcSends' <=> DpcSends) /\ dpc' # "bugcheck"
    BY <2>1 DEF SendState, DpcSends
  <2>. QED BY <2>1, <2>2, <2>3, QuietKeepsLists
<1>. QED BY <1>1, <1>3, <1>4, <1>5, <1>6, <1>7

(* The NIC, the cable and other interrupts touch no list.                  *)
LEMMA OutsideKeepsLists ==
  ASSUME SendState,
         \/ NicTransmit \/ CableChange \/ OtherInterrupt
         \/ UNCHANGED sendVars
  PROVE  SendState'
<1>1. /\ UNCHANGED <<waitVars, nblVars, xmit, freed, rfreed, tcb, maps, dpc,
                     CompleteNetBufferLists, aborted>>
      /\ dpc # "bugcheck"
  BY DEF NicTransmit, CableChange, OtherInterrupt, SendState, sendVars,
         dpcVars, tcbVars, stateVars, resetVars
<1>2. DpcSends' <=> DpcSends
  BY <1>1 DEF DpcSends
<1>. QED BY <1>1, <1>2, HeldSame, QuietKeepsLists

(* All the steps of the DPC, together.                                     *)
LEMMA DpcKeepsLists ==
  ASSUME RingState, SendState, Dpc
  PROVE  SendState'
<1>1. CASE \/ DpcAck \/ DpcLinkState \/ DpcLinkFlag \/ DpcRelock
           \/ DpcSendIdle \/ DpcSendEnter \/ DpcReapEnd \/ DpcDequeueEnd
  <2>1. /\ UNCHANGED <<waitVars, nblVars, xmit, freed, rfreed, tcb, maps,
                       CompleteNetBufferLists, aborted>>
        /\ dpc' # "bugcheck" /\ ~ DpcSends /\ ~ DpcSends'
    BY <1>1 DEF DpcAck, DpcLinkState, DpcLinkFlag, DpcRelock, DpcSendIdle,
                DpcSendEnter, DpcReapEnd, DpcDequeueEnd, DpcSends, tcbVars,
                stateVars, resetVars
  <2>. QED BY <2>1, HeldSame, QuietKeepsLists
<1>2. CASE DpcFreeTcb BY <1>2, FreeTcbKeepsLists
<1>3. CASE DpcFreeSGList BY <1>3, FreeSGListKeepsLists
<1>4. CASE DpcComplete BY <1>4, CompleteKeepsLists
<1>5. CASE DpcDequeue BY <1>5, DequeueKeepsLists
<1>. QED BY <1>1, <1>2, <1>3, <1>4, <1>5 DEF Dpc

---------------------------------------------------------------------------
(* At the start no list is owed and none is anywhere.                      *)
LEMMA SendStateInit == Init => SendState
<1>. SUFFICES ASSUME Init PROVE SendState
  OBVIOUS
<1>1. XmitNb /\ QueueInv /\ dpc # "bugcheck"
  BY DEF Init, XmitNb, NoXmit, QueueInv, Distinct, DpcSends, Queued
<1>2. ASSUME NEW l \in Nbls PROVE ListInv(l)
  <2>1. owed[l] = 0 /\ l \notin entered /\ NULL # l
    BY Sizes DEF Init
  <2>2. Held(l) = {} /\ ~ Queued(l) /\ ~ Done(l) /\ ~ Live(l)
    BY <2>1 DEF Init, Held, ZeroTcb, Queued, Done, In, Live, NoXmit
  <2>3. ~ Placed(l)
    BY <2>1, <2>2 DEF Init, Placed, NoFreed
  <2>. QED BY <2>1, <2>2, <2>3 DEF ListInv, Owing, Done
<1>. QED BY <1>1, <1>2 DEF SendState

(* Every list is accounted for as long as the queue is emptied only while  *)
(* no list is being sent.                                                  *)
THEOREM SendInvariant == ListEnv => (Spec => []SendInv)
<1>. SUFFICES ASSUME ListEnv PROVE Spec => []SendInv
  OBVIOUS
<1>1. Init => SendInv
  BY SendStateInit DEF SendInv
<1>2. RingInv /\ SendInv /\ [Next]_sendVars => SendInv'
  <2>. SUFFICES ASSUME RingInv, SendInv, [Next]_sendVars, orderly'
                PROVE  SendState'
    BY DEF SendInv
  <2>1. RingState /\ SendState /\ RingEnv
    BY OrderlyEarlier DEF RingInv, Sane, SendInv, ListEnv
  <2>2. CASE Enter
    BY <2>1, <2>2, EnterKeepsLists DEF Enter
  <2>3. CASE SendLocked
    BY <2>1, <2>3, NoLinkKeepsLists, SendQueueKeepsLists, SendStartKeepsLists
    DEF SendLocked
  <2>4. CASE Xmit BY <2>1, <2>4, XmitKeepsLists
  <2>5. CASE ProcessSGList BY <2>1, <2>5, CallbackKeepsLists
  <2>6. CASE \/ NicTransmit \/ CableChange \/ OtherInterrupt
             \/ UNCHANGED sendVars
    BY <2>1, <2>6, OutsideKeepsLists
  <2>7. CASE Dpc BY <2>1, <2>7, DpcKeepsLists
  <2>8. CASE Ndis BY <2>1, <2>8, PauseKeepsLists
  <2>9. CASE Reset BY <2>1, <2>9, ResetKeepsLists
  <2>. QED BY <2>2, <2>3, <2>4, <2>5, <2>6, <2>7, <2>8, <2>9 DEF Next
<1>3. RingEnv
  BY DEF ListEnv
<1>. QED BY <1>1, <1>2, <1>3, RingInvariant, PTL DEF Spec

---------------------------------------------------------------------------
(* What the invariant says of the lists.                                   *)
LEMMA CountsImply == RingState /\ SendState => RefsCounted
<1>. SUFFICES ASSUME RingState, SendState, NEW l \in Nbls, Owing(l)
              PROVE  RefCount[l] = Cardinality({i \in Busy : tcb[i].nbl = l
                                                      /\ tcb[i].nb # NULL})
                                   + One(freed.nbl = l) + One(rfreed = l)
                                   + ToSend(l)
  BY DEF RefsCounted, Owing, One
<1>1. {i \in Busy : tcb[i].nbl = l /\ tcb[i].nb # NULL} = Held(l)
  BY DEF Busy, Held, RingState, TcbRing
<1>2. RefCount[l] = Shares(l)
  BY DEF SendState, ListInv
<1>3. ToSend(l) = XmitShare(l) + QueueShare(l)
  BY DEF ToSend, XmitShare, QueueShare
<1>4. /\ Cardinality(Held(l)) \in Nat /\ XmitShare(l) \in Nat
      /\ QueueShare(l) \in Nat /\ One(freed.nbl = l) \in Nat
      /\ One(rfreed = l) \in Nat
  BY SharesAre DEF SendState
<1>5. Shares(l) = Cardinality(Held(l)) + One(freed.nbl = l)
                  + One(rfreed = l) + ToSend(l)
  BY <1>3, <1>4 DEF Shares
<1>. QED BY <1>1, <1>2, <1>5

(* A list with a busy control block has not been completed.                *)
LEMMA OwedImply == RingState /\ SendState => BusyNblsOwed
<1>. SUFFICES ASSUME RingState, SendState PROVE BusyNblsOwed
  OBVIOUS
<1>1. \A l \in Nbls : Placed(l) => owed[l] = 1
  BY DEF SendState, ListInv, Owing
<1>2. ASSUME NEW i \in Busy PROVE owed[tcb[i].nbl] = 1
  <2>1. tcb[i].nbl \in Nbls /\ i \in Held(tcb[i].nbl)
    BY DEF Busy, Held, RingState, TcbRing, SendTypes, TcbTypes, MP_TCB
  <2>. QED BY <1>1, <2>1 DEF Placed
<1>3. (freed.nbl # NULL => freed.nbl \in Nbls)
      /\ (rfreed # NULL => rfreed \in Nbls)
  BY DEF RingState, SendTypes, FreedTypes
<1>. QED BY <1>1, <1>2, <1>3 DEF BusyNblsOwed, Placed

(* A list that is owed to NDIS is somewhere in the send path.              *)
LEMMA InHandImply ==
  ASSUME RingState, SendState, NEW l \in Nbls, Owing(l)
  PROVE  InHand(l)
<1>1. ListInv(l) /\ RefCount[l] = Shares(l)
  BY DEF SendState, ListInv
<1>2. CASE Shares(l) = 0
  BY <1>1, <1>2 DEF ListInv, Done, Failed, InHand, In
<1>3. CASE Shares(l) # 0
  <2>1. \/ Cardinality(Held(l)) # 0 \/ One(freed.nbl = l) # 0
        \/ One(rfreed = l) # 0 \/ XmitShare(l) # 0 \/ QueueShare(l) # 0
    BY <1>3 DEF Shares
  <2>2. Cardinality(Held(l)) # 0 => \E i \in Busy : tcb[i].nbl = l
    BY HeldCount DEF Held, Busy
  <2>. QED BY <2>1, <2>2 DEF One, XmitShare, QueueShare, InHand
<1>. QED BY <1>2, <1>3

(* The theorems on lists have two conditions.  ListEnv: no copy fails, no  *)
(* list is cancelled, and no mapping comes late to an adapter that is      *)
(* reset.  orderly: so far every pause and every reset has emptied the     *)
(* queue with no CPU in the send loop; nothing in the driver sees to that. *)

(* Then the reference count of a list is the number of its NET_BUFFERs     *)
(* that are with a TCB, being freed or still to be sent.                   *)
THEOREM RefsCountedHolds == ListEnv => (Spec => [](orderly => RefsCounted))
<1>. SUFFICES ASSUME ListEnv PROVE Spec => [](orderly => RefsCounted)
  OBVIOUS
<1>1. RingInv /\ SendInv => (orderly => RefsCounted)
  BY CountsImply DEF RingInv, SendInv, Sane
<1>2. RingEnv
  BY DEF ListEnv
<1>. QED BY <1>1, <1>2, RingInvariant, SendInvariant, PTL

(* Then no list is completed twice, and none that was not sent.            *)
THEOREM CompletedOnceHolds ==
  ListEnv => (Spec => [](orderly => CompletedOnce))
<1>. SUFFICES ASSUME ListEnv PROVE Spec => [](orderly => CompletedOnce)
  OBVIOUS
<1>1. SendInv => (orderly => CompletedOnce)
  BY DEF SendInv, SendState, ListInv, CompletedOnce
<1>. QED BY <1>1, SendInvariant, PTL

(* Then no control block in use, and no NET_BUFFER that the DPC or a reset *)
(* is freeing, is of a list that was completed.  The CPU in the loop of    *)
(* MiniportSendNetBufferList is not covered: it still reads a list whose   *)
(* NET_BUFFERs may all be sent and freed (mp_nic.c:298).                   *)
THEOREM BusyNblsOwedHolds == ListEnv => (Spec => [](orderly => BusyNblsOwed))
<1>. SUFFICES ASSUME ListEnv PROVE Spec => [](orderly => BusyNblsOwed)
  OBVIOUS
<1>1. RingInv /\ SendInv => (orderly => BusyNblsOwed)
  BY OwedImply DEF RingInv, SendInv, Sane
<1>2. RingEnv
  BY DEF ListEnv
<1>. QED BY <1>1, <1>2, RingInvariant, SendInvariant, PTL

(* A null pointer is read, by RemoveHeadQueue of an empty queue (ASSERT of *)
(* mp.h:154) or for a zeroed TCB, only after a pause or a reset emptied    *)
(* the queue with a CPU in the send loop: this race, which the driver does *)
(* have, is the only cause as long as ListEnv holds.                       *)
THEOREM OnlyEmptiedQueueTraps ==
  ListEnv => (Spec => [](~ HeadToRemove => ~ orderly))
<1>. SUFFICES ASSUME ListEnv PROVE Spec => [](~ HeadToRemove => ~ orderly)
  OBVIOUS
<1>1. SendInv => (~ HeadToRemove => ~ orderly)
  BY DEF SendInv, SendState, HeadToRemove
<1>. QED BY <1>1, SendInvariant, PTL

(* Under ListEnv, as long as the run is orderly (NoListLost says so        *)
(* itself), every list that was taken in is somewhere until completed.     *)
THEOREM NoListLostHolds == ListEnv => (Spec => []NoListLost)
<1>. SUFFICES ASSUME ListEnv PROVE Spec => []NoListLost
  OBVIOUS
<1>1. RingInv /\ SendInv => NoListLost
  BY InHandImply DEF RingInv, SendInv, Sane, NoListLost, Owing
<1>2. RingEnv
  BY DEF ListEnv
<1>. QED BY <1>1, <1>2, RingInvariant, SendInvariant, PTL

(* Only a pause or a reset empties the queue.                              *)
THEOREM QueueIsLeft ==
  Env \cap {"pause", "reset"} = {} => (Spec => []orderly)
<1>. SUFFICES ASSUME Env \cap {"pause", "reset"} = {} PROVE Spec => []orderly
  OBVIOUS
<1>. DEFINE Calm == orderly /\ pause = "none" /\ reset = "none"
<1>1. Init => Calm
  BY DEF Init
<1>2. Calm /\ [Next]_sendVars => Calm'
  <2>. SUFFICES ASSUME Calm, [Next]_sendVars PROVE Calm'
    OBVIOUS
  <2>. USE DEF stateVars, resetVars
  <2>1. CASE Enter \/ SendLocked
    BY <2>1 DEF Enter, SendLocked, MPSendEnter, MPSendNoLink, MPSendQueue,
                MPSendStart
  <2>2. CASE Xmit
    BY <2>2 DEF Xmit, XmitAllocateTcb, XmitMapped, XmitMapFailed, XmitNoTcb,
                XmitDone, XmitFailed, XmitBugCheck
  <2>3. CASE ProcessSGList
    BY <2>3 DEF ProcessSGList, MpProcessSGList, MpProcessSGListCopyFailed,
                MpProcessSGListEmpty, MpProcessSGListLate,
                MpProcessSGListBugCheck
  <2>4. CASE NicTransmit \/ CableChange \/ OtherInterrupt
    BY <2>4 DEF NicTransmit, CableChange, OtherInterrupt
  <2>5. CASE Dpc
    BY <2>5 DEF Dpc, DpcAck, DpcLinkState, DpcLinkFlag, DpcRelock,
                DpcSendIdle, DpcSendEnter, DpcFreeTcb, DpcFreeSGList,
                DpcReapEnd, DpcComplete, DpcDequeue, DpcDequeueEnd
  <2>6. CASE Ndis
    BY <2>6 DEF Ndis, MPPause, MPPauseQueue, MPPauseReturn, MPRestart,
                MPCancelSendNetBufferLists
  <2>7. CASE Reset
    BY <2>7 DEF Reset, MPReset, MPResetQueue, MPResetFreeTcb,
                MPResetFreeSGList, MPResetFreed, MPResetComplete,
                MPResetInitSend, MPResetEnd
  <2>8. CASE UNCHANGED sendVars
    BY <2>8 DEF sendVars
  <2>. QED BY <2>1, <2>2, <2>3, <2>4, <2>5, <2>6, <2>7, <2>8 DEF Next
<1>3. Calm => orderly
  OBVIOUS
<1>. QED BY <1>1, <1>2, <1>3, PTL DEF Spec

(* So if ListEnv holds and there are no pauses and resets, all of it holds *)
(* in every state.                                                         *)
THEOREM SendPathHolds ==
  ListEnv /\ Env \cap {"pause", "reset"} = {} =>
    (Spec => [](RefsCounted /\ CompletedOnce /\ BusyNblsOwed /\ HeadToRemove))
<1>. SUFFICES ASSUME ListEnv, Env \cap {"pause", "reset"} = {}
              PROVE  Spec => [](RefsCounted /\ CompletedOnce /\ BusyNblsOwed
                                /\ HeadToRemove)
  OBVIOUS
<1>. QED
  BY QueueIsLeft, RefsCountedHolds, CompletedOnceHolds, BusyNblsOwedHolds,
     OnlyEmptiedQueueTraps, PTL
===============================================================================
