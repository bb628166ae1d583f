------------------------------ MODULE RecvRing ------------------------------
(***************************************************************************)
(* The receive descriptor ring of the Realtek 8169 NDIS miniport           *)
(* (src/NDIS/RealtekGiga/recvnew.c and the functions of mp_nic.c and       *)
(* mp_init.c that use it).                                                 *)
(*                                                                         *)
(* The NIC walks an array of hardware descriptors (RBDs) and stops at the  *)
(* first one whose OWN bit is clear.  The driver keeps its software        *)
(* descriptors (MP_RBDs) on a linked list, RecvList, and records in the    *)
(* array pMpRbds which MP_RBD sits on which hardware descriptor.  MP_RBDs  *)
(* leave the ring in the order of the ring and come back in any order,     *)
(* whenever the protocols above return them.                               *)
(*                                                                         *)
(* Every action is one call made with Adapter->RcvLock held, or one step   *)
(* of the NIC.                                                             *)
(***************************************************************************)
EXTENDS Integers, Sequences, FiniteSets

CONSTANTS
  NumHwRecvBuffers,    (* descriptors in the hardware ring                 *)
  NIC_MIN_RECV_BUFFERS,(* NICInitRecv fails unless it sets up more than    *)
                       (* this many MP_RBDs (4 in mp_def.h)                *)
  Rbds,                (* the MP_RBDs the driver can ever allocate         *)
  NULL                 (* the null pointer                                 *)

ASSUME RingAssumption ==
  /\ NumHwRecvBuffers \in Nat \ {0}
  /\ NIC_MIN_RECV_BUFFERS \in Nat
  /\ IsFiniteSet(Rbds)
  /\ NULL \notin Rbds
  /\ NULL \notin Int

VARIABLES
  pMpRbds,          (* Adapter->pMpRbds: the MP_RBD on each descriptor     *)
  HwRbd,            (* pMpRbd->HwRbd: the descriptor of each MP_RBD        *)
  RecvList,         (* Adapter->RecvList: the ready MP_RBDs                *)
  nReadyRecv,       (* Adapter->nReadyRecv                                 *)
  CurrentRBD,       (* Adapter->CurrentRBD: next descriptor to process     *)
  EarlyFreeRbdHint, (* Adapter->EarlyFreeRbdHint: where a search starts    *)
  OWN,              (* the OWN bit of each descriptor                      *)
  bufAddr,          (* the MP_RBD whose buffer each descriptor points to   *)
  nicNext,          (* the NIC's own position in the ring                  *)
  receiver          (* "on": CmdRxEnb set; "off": cleared;                 *)
                    (* "reset": the chip was reset, the ring not yet       *)

driverVars == <<pMpRbds, HwRbd, RecvList, nReadyRecv, CurrentRBD,
                EarlyFreeRbdHint>>
nicVars    == <<nicNext, receiver>>
ringVars   == <<pMpRbds, HwRbd, RecvList, nReadyRecv, CurrentRBD,
                EarlyFreeRbdHint, OWN, bufAddr, nicNext, receiver>>

Slots == 0 .. NumHwRecvBuffers - 1

(* The d-th descriptor after i, around the ring (0 <= d <= ring size).     *)
Nth(i, d) == IF i + d >= NumHwRecvBuffers THEN i + d - NumHwRecvBuffers
                                          ELSE i + d

(* Mutant: the index does not wrap.                                        *)
NoWrap(i) == i + 1
INC_RBD_INDEX(i) == IF i + 1 >= NumHwRecvBuffers THEN 0 ELSE i + 1

(* The end-of-ring bit is set on the last descriptor by NICInitRecv and    *)
(* kept by ZeroRBDandDisOwnToNIC.                                          *)
EORbit(i) == i = NumHwRecvBuffers - 1

IncCurrentRBD(i) == IF i + 1 = NumHwRecvBuffers \/ EORbit(i) THEN 0 ELSE i + 1

InRecvList(x) == \E k \in 1 .. Len(RecvList) : RecvList[k] = x

(* RemoveEntryList: unlink x wherever it is on the list.                   *)
WithoutEntry(s, x) ==
  LET k == CHOOSE k \in 1 .. Len(s) : s[k] = x
  IN  [j \in 1 .. Len(s) - 1 |-> IF j < k THEN s[j] ELSE s[j + 1]]

-----------------------------------------------------------------------------
(* NICInitRecv: n MP_RBDs could be set up; they take descriptors 0 .. n-1. *)
NICInitRecv(n, list) ==
  /\ RecvList = list
  /\ nReadyRecv = n
  /\ pMpRbds = [i \in Slots |-> IF i < n THEN list[i + 1] ELSE NULL]
  /\ HwRbd = [x \in Rbds |-> IF \E k \in 1 .. n : list[k] = x
                             THEN (CHOOSE k \in 1 .. n : list[k] = x) - 1
                             ELSE NULL]
  /\ OWN = [i \in Slots |-> i < n]
  /\ bufAddr = pMpRbds
  /\ CurrentRBD = 0
  /\ EarlyFreeRbdHint = Nth(0, n)

Distinct(list) ==
  \A j, k \in 1 .. Len(list) : list[j] = list[k] => j = k

Init ==
  /\ \E n \in NIC_MIN_RECV_BUFFERS + 1 .. NumHwRecvBuffers :
       \E list \in [1 .. n -> Rbds] : Distinct(list) /\ NICInitRecv(n, list)
  /\ nicNext = 0
  /\ receiver = "on"

-----------------------------------------------------------------------------
(* Offsets from the hint at which a descriptor has no MP_RBD.              *)
FreeOffsets == {d \in Slots : pMpRbds[Nth(EarlyFreeRbdHint, d)] = NULL}

(* InsertMpRbdInFreeHwRbdsArray: the first free descriptor from the hint   *)
(* on.  When there is none the FAILURE it returns is ignored by its only   *)
(* caller, and x keeps the descriptor it had before.                       *)
InsertMpRbdInFreeHwRbdsArray(x) ==
  \/ /\ FreeOffsets # {}
     /\ LET i == Nth(EarlyFreeRbdHint,
                     CHOOSE d \in FreeOffsets : \A e \in FreeOffsets : d <= e)
        IN  /\ pMpRbds' = [pMpRbds EXCEPT ![i] = x]
            /\ HwRbd' = [HwRbd EXCEPT ![x] = i]
            /\ EarlyFreeRbdHint' = INC_RBD_INDEX(i)
  \/ /\ FreeOffsets = {}
     /\ UNCHANGED <<pMpRbds, HwRbd, EarlyFreeRbdHint>>

(* Mutant: the descriptor keeps the buffer address it had.                 *)
OwnOldBuffer(x) ==
  /\ OWN' = [OWN EXCEPT ![HwRbd'[x]] = TRUE]
  /\ UNCHANGED bufAddr

(* ZeroRBDandDisOwnToNIC on pMpRbd->HwRbd.  With no descriptor at all (a   *)
(* new MP_RBD that found no room) the code dereferences NULL; the memory   *)
(* of the ring is left alone here and EveryReadyRbdHasSlot is false.       *)
ZeroRBDandDisOwnToNIC(x) ==
  IF HwRbd'[x] = NULL
  THEN UNCHANGED <<OWN, bufAddr>>
  ELSE /\ OWN' = [OWN EXCEPT ![HwRbd'[x]] = TRUE]
       /\ bufAddr' = [bufAddr EXCEPT ![HwRbd'[x]] = x]

(* Mutant: InsertHeadList for InsertTailList.                              *)
ReturnAtHead(x) ==
  /\ ~ InRecvList(x)
  /\ InsertMpRbdInFreeHwRbdsArray(x)
  /\ RecvList' = <<x>> \o RecvList
  /\ ZeroRBDandDisOwnToNIC(x)
  /\ nReadyRecv' = nReadyRecv + 1
  /\ UNCHANGED <<CurrentRBD, nicNext, receiver>>

NICReturnRBD(x) ==
  /\ ~ InRecvList(x)
  /\ InsertMpRbdInFreeHwRbdsArray(x)
  /\ RecvList' = Append(RecvList, x)
  /\ ZeroRBDandDisOwnToNIC(x)
  /\ nReadyRecv' = nReadyRecv + 1
  /\ UNCHANGED <<CurrentRBD, nicNext, receiver>>

(* One iteration of the inner loop of MpHandleRecvInterrupt, up to the     *)
(* point where x is off the list: its descriptor is completed.             *)
RecvTakeRbd(x) ==
  /\ RecvList # <<>>
  /\ x = pMpRbds[CurrentRBD]
  /\ InRecvList(x)                    \* fMP_RBD_RECV_READY
  /\ ~ OWN[HwRbd[x]]                  \* NIC_RBD_STATUS_COMPLETED
  /\ RecvList' = WithoutEntry(RecvList, x)
  /\ pMpRbds' = [pMpRbds EXCEPT ![CurrentRBD] = NULL]
  /\ CurrentRBD' = IncCurrentRBD(CurrentRBD)
  /\ nReadyRecv' = nReadyRecv - 1
  /\ UNCHANGED <<HwRbd, EarlyFreeRbdHint, OWN, bufAddr, nicNext, receiver>>

(* The NIC writes a frame to the descriptor it points to.                  *)
NicReceive ==
  /\ receiver = "on"
  /\ OWN[nicNext]
  /\ OWN' = [OWN EXCEPT ![nicNext] = FALSE]
  /\ nicNext' = INC_RBD_INDEX(nicNext)
  /\ UNCHANGED <<driverVars, bufAddr, receiver>>

(* RealtekHwCommand with SCB_RUC_ABORT and with SCB_RUC_START: the NIC     *)
(* resumes at the descriptor where it stopped (recvnew.c:48-50).           *)
RucAbort ==
  /\ receiver = "on"
  /\ receiver' = "off"
  /\ UNCHANGED <<driverVars, OWN, bufAddr, nicNext>>

RucStart ==
  /\ receiver = "off"
  /\ receiver' = "on"
  /\ UNCHANGED <<driverVars, OWN, bufAddr, nicNext>>

(* HwSoftwareReset: the receiver is disabled and the chip starts over at   *)
(* the base of the ring.                                                   *)
HwSoftwareReset ==
  /\ receiver' = "reset"
  /\ nicNext' = 0
  /\ UNCHANGED <<driverVars, OWN, bufAddr>>

(* NICResetRecv: every ready MP_RBD is taken off the head of the list and  *)
(* given back in order, from descriptor 0 on.  Only their descriptors are  *)
(* written: the OWN bits of the others stay as they were.                  *)
NICResetRecv ==
  /\ receiver = "reset"
  /\ RecvList # <<>>
  /\ nReadyRecv <= NumHwRecvBuffers
  /\ pMpRbds' = [i \in Slots |-> IF i < nReadyRecv THEN RecvList[i + 1]
                                                   ELSE NULL]
  /\ HwRbd' = [x \in Rbds |->
                 IF \E k \in 1 .. nReadyRecv : RecvList[k] = x
                 THEN (CHOOSE k \in 1 .. nReadyRecv : RecvList[k] = x) - 1
                 ELSE HwRbd[x]]
  /\ OWN' = [i \in Slots |-> i < nReadyRecv \/ OWN[i]]
  /\ bufAddr' = [i \in Slots |-> IF i < nReadyRecv THEN RecvList[i + 1]
                                                   ELSE bufAddr[i]]
  /\ CurrentRBD' = 0
  /\ EarlyFreeRbdHint' = Nth(0, nReadyRecv)
  /\ receiver' = "off"
  /\ UNCHANGED <<RecvList, nReadyRecv, nicNext>>

-----------------------------------------------------------------------------
(* Operation without an adapter reset, and with resets.                    *)
OperNext ==
  \/ \E x \in Rbds : NICReturnRBD(x) \/ RecvTakeRbd(x)
  \/ NicReceive
  \/ RucAbort
  \/ RucStart

Next == OperNext \/ HwSoftwareReset \/ NICResetRecv

OperSpec == Init /\ [][OperNext]_ringVars
Spec     == Init /\ [][Next]_ringVars

(* The driver never has more MP_RBDs than the ring has descriptors.        *)
RingRoom == Cardinality(Rbds) <= NumHwRecvBuffers

-----------------------------------------------------------------------------
(* Types of the ring's variables.                                          *)
TypeOK ==
  /\ pMpRbds \in [Slots -> Rbds \cup {NULL}]
  /\ HwRbd \in [Rbds -> Slots \cup {NULL}]
  /\ RecvList \in Seq(Rbds)
  /\ nReadyRecv \in Nat
  /\ CurrentRBD \in Slots
  /\ EarlyFreeRbdHint \in Slots
  /\ OWN \in [Slots -> BOOLEAN]
  /\ bufAddr \in [Slots -> Rbds \cup {NULL}]
  /\ nicNext \in Slots
  /\ receiver \in {"on", "off", "reset"}

(* The ready MP_RBDs fill, in the order of RecvList, the descriptors from  *)
(* CurrentRBD up to the hint, and no other descriptor has an MP_RBD: the   *)
(* ring has no gap although buffers come back in any order                 *)
(* (recvnew.c:40-41, 53-61).                                               *)
RingShape ==
  /\ nReadyRecv = Len(RecvList)
  /\ nReadyRecv <= NumHwRecvBuffers
  /\ Distinct(RecvList)
  /\ \A k \in 1 .. nReadyRecv :
       /\ pMpRbds[Nth(CurrentRBD, k - 1)] = RecvList[k]
       /\ HwRbd[RecvList[k]] = Nth(CurrentRBD, k - 1)
  /\ \A d \in nReadyRecv .. NumHwRecvBuffers - 1 :
       pMpRbds[Nth(CurrentRBD, d)] = NULL
  /\ EarlyFreeRbdHint = Nth(CurrentRBD, nReadyRecv)

(* Every MP_RBD on the ready list sits on the descriptor it points to, so  *)
(* the ASSERT of recvnew.c:122-123, "there must be a free NIC-completed    *)
(* RBD available", held each time one was inserted.                        *)
EveryReadyRbdHasSlot ==
  \A k \in 1 .. Len(RecvList) :
    /\ HwRbd[RecvList[k]] # NULL
    /\ pMpRbds[HwRbd[RecvList[k]]] = RecvList[k]

(* While anything is ready, the descriptor the driver looks at next has a  *)
(* ready MP_RBD on it that points back to it (ASSERT of mp_nic.c:1111 and  *)
(* the "Can this happen ?" of mp_nic.c:1114).                              *)
HeadSlotIsReady ==
  RecvList # <<>> =>
    /\ pMpRbds[CurrentRBD] # NULL
    /\ HwRbd[pMpRbds[CurrentRBD]] = CurrentRBD
    /\ InRecvList(pMpRbds[CurrentRBD])

(* The NIC may write only to buffers of ready MP_RBDs: a buffer that NDIS  *)
(* or the driver is reading is on no descriptor the NIC owns.              *)
NicOwnsOnlyReady ==
  \A i \in Slots : OWN[i] => /\ pMpRbds[i] # NULL
                             /\ bufAddr[i] = pMpRbds[i]

(* The NIC runs into a clear OWN bit only when it has filled every         *)
(* descriptor the driver gave it: no gap stops it early                    *)
(* (recvnew.c:40-43).                                                      *)
NoGapStopsNic == ~ OWN[nicNext] => \A i \in Slots : ~ OWN[i]

(* The NIC is c descriptors ahead of the driver; the c behind it wait to   *)
(* be processed, the others of the ready ones are the NIC's.               *)
NicAhead(c) ==
  /\ nicNext = Nth(CurrentRBD, c)
  /\ \A d \in Slots :
       OWN[Nth(CurrentRBD, d)] <=> (c <= d /\ d < nReadyRecv)
  /\ \A d \in Slots :
       d < nReadyRecv => bufAddr[Nth(CurrentRBD, d)] = RecvList[d + 1]

NicInSync == \E c \in 0 .. nReadyRecv : NicAhead(c)
=============================================================================
