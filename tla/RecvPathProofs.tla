--------------------------- MODULE RecvPathProofs ---------------------------
(***************************************************************************)
(* Proofs about the receive path.  First the ring by itself: its shape,    *)
(* for a ring of any size and any set of MP_RBDs that fits it, with        *)
(* adapter resets, and what the NIC may own, without them.  Then the path: *)
(* that interrupt, DPC, returns, growth, pause and restart use the ring by *)
(* its operations only, so that the theorems of the ring hold of the whole *)
(* path; and that receive references are exact and complete a pause once.  *)
(***************************************************************************)
EXTENDS RecvPath, FiniteSetTheorems, TLAPS

-----------------------------------------------------------------------------
(* Walking around the ring stays in the ring.                              *)
LEMMA NthType ==
  ASSUME NEW i \in Slots, NEW d \in 0 .. NumHwRecvBuffers
  PROVE  Nth(i, d) \in Slots
BY RingAssumption DEF Nth, Slots

(* The same for an offset below the ring's size.                           *)
LEMMA NthInRing ==
  ASSUME NEW i \in Slots, NEW d \in Slots
  PROVE  Nth(i, d) \in Slots
BY RingAssumption DEF Nth, Slots

(* Different offsets below the ring's size lead to different descriptors.  *)
LEMMA NthInjective ==
  ASSUME NEW i \in Slots, NEW d \in Slots, NEW e \in Slots,
         Nth(i, d) = Nth(i, e)
  PROVE  d = e
BY RingAssumption DEF Nth, Slots

(* Every descriptor is at some offset from every other one.                *)
LEMMA NthOnto ==
  ASSUME NEW i \in Slots, NEW j \in Slots
  PROVE  \E d \in Slots : Nth(i, d) = j
<1>1. CASE j >= i
  <2>1. j - i \in Slots /\ Nth(i, j - i) = j
    BY <1>1, RingAssumption DEF Nth, Slots
  <2>. QED BY <2>1
<1>2. CASE j < i
  <2>1. /\ j - i + NumHwRecvBuffers \in Slots
        /\ Nth(i, j - i + NumHwRecvBuffers) = j
    BY <1>2, RingAssumption DEF Nth, Slots
  <2>. QED BY <2>1
<1>. QED BY <1>1, <1>2, RingAssumption DEF Slots

(* One step around the ring, the two ways the code writes it.              *)
LEMMA IncIsNth ==
  ASSUME NEW i \in Slots
  PROVE  /\ INC_RBD_INDEX(i) = Nth(i, 1)
         /\ IncCurrentRBD(i) = Nth(i, 1)
         /\ Nth(i, 0) = i
         /\ Nth(i, NumHwRecvBuffers) = i
BY RingAssumption DEF INC_RBD_INDEX, IncCurrentRBD, EORbit, Nth, Slots

(* Walking d steps and one more is walking d + 1 steps.                    *)
LEMMA NthStep ==
  ASSUME NEW i \in Slots, NEW d \in Slots
  PROVE  /\ Nth(Nth(i, d), 1) = Nth(i, d + 1)
         /\ Nth(Nth(i, 1), d) = Nth(i, d + 1)
                                \/ (d = NumHwRecvBuffers - 1
                                    /\ Nth(Nth(i, 1), d) = i)
BY RingAssumption DEF Nth, Slots

(* A list of distinct MP_RBDs that misses one of them is shorter than the  *)
(* ring: the ASSERT of recvnew.c:123 cannot fail.                          *)
LEMMA RoomForOneMore ==
  ASSUME RingRoom, RecvList \in Seq(Rbds), Distinct(RecvList),
         NEW x \in Rbds, ~ InRecvList(x)
  PROVE  Len(RecvList) < NumHwRecvBuffers
<1>. DEFINE n == Len(RecvList)
            S == 1 .. n + 1
            f == [k \in S |-> IF k <= n THEN RecvList[k] ELSE x]
<1>1. n \in Nat
  OBVIOUS
<1>2. IsFiniteSet(S) /\ Cardinality(S) = n + 1
  BY <1>1, FS_Interval
<1>3. f \in [S -> Rbds]
  BY <1>1
<1>4. Cardinality(Rbds) \in Nat
  BY FS_CardinalityType, RingAssumption
<1>5. \A a, b \in S : f[a] = f[b] => a = b
  BY <1>1 DEF Distinct, InRecvList
<1>. HIDE DEF f, S
<1>6. ~ (Cardinality(Rbds) < Cardinality(S))
  BY <1>2, <1>3, <1>5, FS_PigeonHole, RingAssumption
<1>. QED BY <1>1, <1>2, <1>4, <1>6, RingAssumption DEF RingRoom

-----------------------------------------------------------------------------
(* The inductive invariant: RingShape says that the ready MP_RBDs form one *)
(* unbroken run of descriptors, which is what makes the search from the    *)
(* hint succeed at its first try and append to that run.                   *)
IInv == TypeOK /\ RingShape

(* With the ring in shape and a descriptor to spare, the search from the   *)
(* hint ends at the hint.                                                  *)
LEMMA InsertAtHint ==
  ASSUME IInv, nReadyRecv < NumHwRecvBuffers, NEW x \in Rbds,
         InsertMpRbdInFreeHwRbdsArray(x)
  PROVE  /\ pMpRbds' = [pMpRbds EXCEPT ![EarlyFreeRbdHint] = x]
         /\ HwRbd' = [HwRbd EXCEPT ![x] = EarlyFreeRbdHint]
         /\ EarlyFreeRbdHint' = INC_RBD_INDEX(EarlyFreeRbdHint)
<1>1. Nth(EarlyFreeRbdHint, 0) = EarlyFreeRbdHint
  BY IncIsNth DEF IInv, TypeOK
<1>2. pMpRbds[EarlyFreeRbdHint] = NULL
  BY RingAssumption DEF IInv, TypeOK, RingShape
<1>3. 0 \in FreeOffsets /\ \A e \in FreeOffsets : 0 <= e
  BY <1>1, <1>2, RingAssumption DEF FreeOffsets, Slots
<1>4. (CHOOSE d \in FreeOffsets : \A e \in FreeOffsets : d <= e) = 0
  BY <1>3 DEF FreeOffsets, Slots
<1>. QED BY <1>1, <1>3, <1>4 DEF InsertMpRbdInFreeHwRbdsArray

(* Giving an MP_RBD back keeps the ring in shape.                          *)
LEMMA ReturnKeepsShape ==
  ASSUME IInv, RingRoom, NEW x \in Rbds, NICReturnRBD(x)
  PROVE  IInv'
<1>. USE RingAssumption
<1>. DEFINE n == nReadyRecv
            cur == CurrentRBD
            hint == EarlyFreeRbdHint
<1>1. /\ n \in Nat /\ n = Len(RecvList) /\ cur \in Slots /\ hint \in Slots
      /\ RecvList \in Seq(Rbds) /\ Distinct(RecvList)
      /\ hint = Nth(cur, n)
  BY DEF IInv, TypeOK, RingShape
<1>2. n < NumHwRecvBuffers
  BY <1>1, RoomForOneMore DEF NICReturnRBD
<1>3. /\ pMpRbds' = [pMpRbds EXCEPT ![hint] = x]
      /\ HwRbd' = [HwRbd EXCEPT ![x] = hint]
      /\ EarlyFreeRbdHint' = Nth(hint, 1)
  BY <1>1, <1>2, InsertAtHint, IncIsNth DEF NICReturnRBD
<1>4. HwRbd'[x] = hint /\ hint # NULL
  BY <1>1, <1>3 DEF IInv, TypeOK, Slots
<1>5. /\ OWN' = [OWN EXCEPT ![hint] = TRUE]
      /\ bufAddr' = [bufAddr EXCEPT ![hint] = x]
  BY <1>4 DEF NICReturnRBD, ZeroRBDandDisOwnToNIC
<1>6. /\ RecvList' = Append(RecvList, x)
      /\ nReadyRecv' = n + 1
      /\ CurrentRBD' = cur /\ nicNext' = nicNext /\ receiver' = receiver
      /\ ~ InRecvList(x)
  BY DEF NICReturnRBD
<1>7. /\ Len(RecvList') = n + 1
      /\ RecvList'[n + 1] = x
      /\ \A k \in 1 .. n : RecvList'[k] = RecvList[k]
  BY <1>1, <1>6
<1>8. n \in Slots
  BY <1>1, <1>2 DEF Slots
<1>9. TypeOK'
  <2>1. Nth(hint, 1) \in Slots
    BY <1>1, NthType
  <2>. QED
    BY <1>1, <1>3, <1>5, <1>6, <2>1 DEF IInv, TypeOK
<1>10. Distinct(RecvList)'
  BY <1>1, <1>6, <1>7 DEF Distinct, InRecvList
<1>11. \A k \in 1 .. n + 1 :
         /\ pMpRbds'[Nth(cur, k - 1)] = RecvList'[k]
         /\ HwRbd'[RecvList'[k]] = Nth(cur, k - 1)
  <2>1. ASSUME NEW k \in 1 .. n
        PROVE  /\ pMpRbds'[Nth(cur, k - 1)] = RecvList'[k]
               /\ HwRbd'[RecvList'[k]] = Nth(cur, k - 1)
    <3>1. k - 1 \in Slots /\ k - 1 # n
      BY <1>1, <1>2 DEF Slots
    <3>2. Nth(cur, k - 1) \in Slots
      BY <1>1, <3>1, NthInRing
    <3>5. Nth(cur, k - 1) # hint
      BY <1>1, <1>8, <3>1, NthInjective
    <3>3. RecvList[k] \in Rbds /\ RecvList[k] # x
      BY <1>1, <1>6 DEF InRecvList
    <3>4. /\ pMpRbds[Nth(cur, k - 1)] = RecvList[k]
          /\ HwRbd[RecvList[k]] = Nth(cur, k - 1)
      BY DEF IInv, RingShape
    <3>. QED
      BY <1>3, <1>7, <3>2, <3>3, <3>4, <3>5 DEF IInv, TypeOK
  <2>2. pMpRbds'[hint] = x /\ HwRbd'[x] = hint
    BY <1>1, <1>3 DEF IInv, TypeOK
  <2>. QED BY <1>1, <1>7, <2>1, <2>2
<1>12. \A d \in n + 1 .. NumHwRecvBuffers - 1 : pMpRbds'[Nth(cur, d)] = NULL
  <2>1. ASSUME NEW d \in n + 1 .. NumHwRecvBuffers - 1
        PROVE  pMpRbds'[Nth(cur, d)] = NULL
    <3>1. d \in Slots /\ d # n
      BY <1>1 DEF Slots
    <3>2. Nth(cur, d) \in Slots /\ Nth(cur, d) # hint
      BY <1>1, <1>8, <3>1, NthInRing, NthInjective
    <3>3. pMpRbds[Nth(cur, d)] = NULL
      BY <1>1 DEF IInv, RingShape
    <3>. QED BY <1>3, <3>2, <3>3 DEF IInv, TypeOK
  <2>. QED BY <2>1
<1>13. Nth(hint, 1) = Nth(cur, n + 1)
  BY <1>1, <1>8, NthStep
<1>. QED
  BY <1>1, <1>2, <1>3, <1>6, <1>7, <1>9, <1>10, <1>11, <1>12, <1>13
     DEF IInv, RingShape

(* Taking the completed MP_RBD at CurrentRBD keeps the ring in shape: it   *)
(* is the head of RecvList, wherever the code would find it.               *)
LEMMA TakeKeepsShape ==
  ASSUME IInv, NEW x \in Rbds, RecvTakeRbd(x)
  PROVE  IInv'
<1>. USE RingAssumption
<1>. DEFINE n == nReadyRecv
            cur == CurrentRBD
            next == Nth(cur, 1)
<1>1. /\ n \in Nat /\ n = Len(RecvList) /\ cur \in Slots
      /\ RecvList \in Seq(Rbds) /\ Distinct(RecvList)
      /\ n <= NumHwRecvBuffers
  BY DEF IInv, TypeOK, RingShape
<1>2. n > 0
  BY <1>1 DEF RecvTakeRbd
<1>3. x = RecvList[1]
  <2>1. pMpRbds[Nth(cur, 0)] = RecvList[1]
    BY <1>1, <1>2 DEF IInv, RingShape
  <2>. QED BY <1>1, <2>1, IncIsNth DEF RecvTakeRbd
<1>4. /\ pMpRbds' = [pMpRbds EXCEPT ![cur] = NULL]
      /\ CurrentRBD' = next
      /\ nReadyRecv' = n - 1
      /\ RecvList' = WithoutEntry(RecvList, x)
      /\ UNCHANGED <<HwRbd, EarlyFreeRbdHint, OWN, bufAddr, nicNext, receiver>>
  BY <1>1, IncIsNth DEF RecvTakeRbd
<1>5. RecvList' = [j \in 1 .. n - 1 |-> RecvList[j + 1]]
  <2>1. \A k \in 1 .. Len(RecvList) : RecvList[k] = x <=> k = 1
    BY <1>1, <1>2, <1>3 DEF Distinct
  <2>2. (CHOOSE k \in 1 .. Len(RecvList) : RecvList[k] = x) = 1
    BY <1>1, <1>2, <2>1
  <2>3. WithoutEntry(RecvList, x)
          = [j \in 1 .. n - 1 |-> IF j < 1 THEN RecvList[j]
                                            ELSE RecvList[j + 1]]
    BY <1>1, <2>2 DEF WithoutEntry
  <2>. QED BY <1>1, <1>4, <2>3
<1>6. /\ RecvList' \in Seq(Rbds)
      /\ Len(RecvList') = n - 1
      /\ \A j \in 1 .. n - 1 : RecvList'[j] = RecvList[j + 1]
  <2>1. \A j \in 1 .. n - 1 : RecvList[j + 1] \in Rbds
    BY <1>1
  <2>2. n - 1 \in Nat
    BY <1>1, <1>2
  <2>. HIDE DEF n
  <2>. QED BY <1>5, <2>1, <2>2
<1>7. next \in Slots
  BY <1>1, NthType
<1>8. TypeOK'
  BY <1>1, <1>2, <1>4, <1>6, <1>7 DEF IInv, TypeOK
<1>9. Distinct(RecvList)'
  <2>1. \A j, k \in 1 .. n : RecvList[j] = RecvList[k] => j = k
    BY <1>1 DEF Distinct
  <2>2. ASSUME NEW j \in 1 .. n - 1, NEW k \in 1 .. n - 1,
               RecvList'[j] = RecvList'[k]
        PROVE  j = k
    <3>1. j + 1 \in 1 .. n /\ k + 1 \in 1 .. n
      BY <1>1
    <3>2. RecvList[j + 1] = RecvList[k + 1]
      BY <1>6, <2>2
    <3>3. j + 1 = k + 1
      BY <2>1, <3>1, <3>2, Zenon
    <3>. QED BY <3>3
  <2>3. 1 .. Len(RecvList') = 1 .. n - 1
    BY <1>6
  <2>. QED BY <2>2, <2>3, Zenon DEF Distinct
<1>10. \A d \in Slots : d + 1 < NumHwRecvBuffers =>
         Nth(next, d) = Nth(cur, d + 1) /\ Nth(cur, d + 1) # cur
  <2>1. ASSUME NEW d \in Slots, d + 1 < NumHwRecvBuffers
        PROVE  Nth(next, d) = Nth(cur, d + 1) /\ Nth(cur, d + 1) # cur
    BY <1>1, <2>1 DEF Nth, Slots
  <2>. QED BY <2>1
<1>11. ASSUME NEW k \in 1 .. n - 1
       PROVE  /\ pMpRbds'[Nth(next, k - 1)] = RecvList'[k]
              /\ HwRbd'[RecvList'[k]] = Nth(next, k - 1)
  <2>1. k - 1 \in Slots /\ k \in Slots /\ k + 1 \in 1 .. n
    BY <1>1, <1>2 DEF Slots
  <2>2. Nth(next, k - 1) = Nth(cur, k) /\ Nth(cur, k) # cur
    BY <1>1, <1>10, <2>1 DEF Slots
  <2>3. /\ pMpRbds[Nth(cur, k)] = RecvList[k + 1]
        /\ HwRbd[RecvList[k + 1]] = Nth(cur, k)
    BY <1>1, <2>1 DEF IInv, RingShape
  <2>. QED BY <1>1, <1>4, <1>6, <2>1, <2>2, <2>3, NthInRing DEF IInv, TypeOK
<1>12. ASSUME NEW d \in n - 1 .. NumHwRecvBuffers - 1
       PROVE  pMpRbds'[Nth(next, d)] = NULL
  <2>1. d \in Slots
    BY <1>1, <1>2 DEF Slots
  <2>2. CASE d + 1 < NumHwRecvBuffers
    <3>1. /\ Nth(next, d) = Nth(cur, d + 1) /\ Nth(cur, d + 1) # cur
          /\ d + 1 \in n .. NumHwRecvBuffers - 1
          /\ d + 1 \in Slots
      BY <1>1, <1>2, <1>10, <2>1, <2>2 DEF Slots
    <3>2. pMpRbds[Nth(cur, d + 1)] = NULL
      BY <1>1, <3>1 DEF IInv, RingShape
    <3>. QED BY <1>1, <1>4, <3>1, <3>2, NthInRing DEF IInv, TypeOK
  <2>3. CASE ~ (d + 1 < NumHwRecvBuffers)
    <3>1. Nth(next, d) = cur
      BY <1>1, <2>1, <2>3 DEF Nth, Slots
    <3>. QED BY <1>1, <1>4, <3>1 DEF IInv, TypeOK
  <2>. QED BY <2>2, <2>3
<1>13. EarlyFreeRbdHint = Nth(next, n - 1)
  <2>1. EarlyFreeRbdHint = Nth(cur, n)
    BY DEF IInv, RingShape
  <2>. QED BY <1>1, <1>2, <2>1 DEF Nth, Slots
<1>. QED
  BY <1>1, <1>2, <1>4, <1>6, <1>8, <1>9, <1>11, <1>12, <1>13
     DEF IInv, RingShape

(* In a list of distinct MP_RBDs the one at position k is found at k.       *)
LEMMA PositionInList ==
  ASSUME NEW list, NEW n \in Nat, n = Len(list), Distinct(list),
         NEW k \in 1 .. n
  PROVE  (CHOOSE j \in 1 .. n : list[j] = list[k]) = k
BY DEF Distinct

(* NICResetRecv lays the ready MP_RBDs out again from descriptor 0.         *)
LEMMA ResetKeepsShape ==
  ASSUME IInv, NICResetRecv
  PROVE  IInv'
<1>. USE RingAssumption
<1>. DEFINE n == nReadyRecv
<1>1. /\ n \in 0 .. NumHwRecvBuffers /\ n = Len(RecvList) /\ n \in Nat
      /\ RecvList \in Seq(Rbds) /\ Distinct(RecvList)
  BY DEF IInv, TypeOK, RingShape
<1>2. /\ pMpRbds' = [i \in Slots |-> IF i < n THEN RecvList[i + 1] ELSE NULL]
      /\ CurrentRBD' = 0
      /\ EarlyFreeRbdHint' = Nth(0, n)
      /\ UNCHANGED <<RecvList, nReadyRecv, nicNext>>
      /\ receiver' = "off"
  BY DEF NICResetRecv
<1>3. 0 \in Slots /\ Nth(0, n) \in Slots
  BY <1>1, NthType DEF Slots
<1>4. \A k \in 1 .. n : RecvList[k] \in Rbds /\ k - 1 \in Slots
  BY <1>1 DEF Slots
<1>5. ASSUME NEW k \in 1 .. n
      PROVE  HwRbd'[RecvList[k]] = k - 1
  <2>1. \E j \in 1 .. n : RecvList[j] = RecvList[k]
    OBVIOUS
  <2>2. (CHOOSE j \in 1 .. n : RecvList[j] = RecvList[k]) = k
    BY <1>1, PositionInList
  <2>. QED BY <1>4, <2>1, <2>2 DEF NICResetRecv
<1>6. TypeOK'
  <2>1. pMpRbds' \in [Slots -> Rbds \cup {NULL}]
    BY <1>1, <1>2, <1>4 DEF Slots
  <2>2. HwRbd' \in [Rbds -> Slots \cup {NULL}]
    <3>1. ASSUME NEW x \in Rbds, \E k \in 1 .. n : RecvList[k] = x
          PROVE  (CHOOSE k \in 1 .. n : RecvList[k] = x) - 1 \in Slots
      BY <1>4, <3>1
    <3>. QED BY <3>1 DEF NICResetRecv, IInv, TypeOK
  <2>3. OWN' \in [Slots -> BOOLEAN]
    BY DEF NICResetRecv, IInv, TypeOK
  <2>4. bufAddr' \in [Slots -> Rbds \cup {NULL}]
    <3>1. \A i \in Slots : i < n => RecvList[i + 1] \in Rbds
      BY <1>1 DEF Slots
    <3>. QED BY <3>1 DEF NICResetRecv, IInv, TypeOK
  <2>. QED BY <1>2, <1>3, <2>1, <2>2, <2>3, <2>4 DEF IInv, TypeOK
<1>7. ASSUME NEW k \in 1 .. n
      PROVE  /\ pMpRbds'[Nth(0, k - 1)] = RecvList'[k]
             /\ HwRbd'[RecvList'[k]] = Nth(0, k - 1)
  <2>1. k - 1 \in Slots /\ Nth(0, k - 1) = k - 1 /\ k - 1 < n
    BY <1>1 DEF Slots, Nth
  <2>. QED BY <1>2, <1>5, <2>1
<1>8. ASSUME NEW d \in n .. NumHwRecvBuffers - 1
      PROVE  pMpRbds'[Nth(0, d)] = NULL
  <2>1. d \in Slots /\ Nth(0, d) = d /\ ~ (d < n)
    BY <1>1 DEF Slots, Nth
  <2>. QED BY <1>2, <2>1
<1>. QED
  BY <1>1, <1>2, <1>6, <1>7, <1>8 DEF IInv, RingShape, Distinct

(* NICInitRecv lays them out there first.                                  *)
LEMMA InitKeepsShape ==
  ASSUME Init
  PROVE  IInv
<1>. USE RingAssumption
<1>1. PICK n \in NIC_MIN_RECV_BUFFERS + 1 .. NumHwRecvBuffers :
        \E list \in [1 .. n -> Rbds] : Distinct(list) /\ NICInitRecv(n, list)
  BY DEF Init
<1>2. PICK list \in [1 .. n -> Rbds] : Distinct(list) /\ NICInitRecv(n, list)
  BY <1>1
<1>3. /\ n \in Nat /\ n <= NumHwRecvBuffers
      /\ list \in Seq(Rbds) /\ Len(list) = n
  BY <1>2
<1>4. /\ RecvList = list /\ nReadyRecv = n /\ CurrentRBD = 0
      /\ pMpRbds = [i \in Slots |-> IF i < n THEN list[i + 1] ELSE NULL]
      /\ OWN = [i \in Slots |-> i < n]
      /\ bufAddr = pMpRbds
      /\ EarlyFreeRbdHint = Nth(0, n)
      /\ nicNext = 0 /\ receiver = "on"
  BY <1>2 DEF NICInitRecv, Init
<1>5. 0 \in Slots /\ Nth(0, n) \in Slots
  BY <1>3, NthType DEF Slots
<1>6. \A k \in 1 .. n : list[k] \in Rbds /\ k - 1 \in Slots
  BY <1>3 DEF Slots
<1>7. ASSUME NEW k \in 1 .. n
      PROVE  HwRbd[list[k]] = k - 1
  <2>1. \E j \in 1 .. n : list[j] = list[k]
    OBVIOUS
  <2>2. (CHOOSE j \in 1 .. n : list[j] = list[k]) = k
    BY <1>2, <1>3, PositionInList
  <2>. QED BY <1>2, <1>6, <2>1, <2>2 DEF NICInitRecv
<1>8. TypeOK
  <2>1. pMpRbds \in [Slots -> Rbds \cup {NULL}]
    BY <1>3, <1>4, <1>6 DEF Slots
  <2>2. HwRbd \in [Rbds -> Slots \cup {NULL}]
    <3>1. ASSUME NEW x \in Rbds, \E k \in 1 .. n : list[k] = x
          PROVE  (CHOOSE k \in 1 .. n : list[k] = x) - 1 \in Slots
      BY <1>6, <3>1
    <3>. QED BY <1>2, <3>1 DEF NICInitRecv
  <2>. QED BY <1>3, <1>4, <1>5, <2>1, <2>2 DEF TypeOK
<1>9. ASSUME NEW k \in 1 .. n
      PROVE  pMpRbds[Nth(0, k - 1)] = list[k] /\ HwRbd[list[k]] = Nth(0, k - 1)
  <2>1. k - 1 \in Slots /\ Nth(0, k - 1) = k - 1 /\ k - 1 < n
    BY <1>3 DEF Slots, Nth
  <2>. QED BY <1>4, <1>7, <2>1
<1>10. ASSUME NEW d \in n .. NumHwRecvBuffers - 1
       PROVE  pMpRbds[Nth(0, d)] = NULL
  <2>1. d \in Slots /\ Nth(0, d) = d /\ ~ (d < n)
    BY <1>3 DEF Slots, Nth
  <2>. QED BY <1>4, <2>1
<1>. QED
  BY <1>2, <1>3, <1>4, <1>8, <1>9, <1>10 DEF IInv, RingShape

(* Every step of the driver and of the NIC keeps the ring in shape.        *)
LEMMA StepKeepsShape ==
  ASSUME IInv, RingRoom, [Next]_ringVars
  PROVE  IInv'
<1>1. ASSUME NEW x \in Rbds, NICReturnRBD(x) PROVE IInv'
  BY <1>1, ReturnKeepsShape
<1>2. ASSUME NEW x \in Rbds, RecvTakeRbd(x) PROVE IInv'
  BY <1>2, TakeKeepsShape
<1>3. CASE NicReceive
  <2>1. INC_RBD_INDEX(nicNext) \in Slots
    BY IncIsNth, NthType, RingAssumption DEF IInv, TypeOK
  <2>. QED
    BY <1>3, <2>1 DEF IInv, TypeOK, RingShape, Distinct, NicReceive, driverVars
<1>4. CASE RucAbort
  BY <1>4 DEF IInv, TypeOK, RingShape, Distinct, RucAbort, driverVars
<1>5. CASE RucStart
  BY <1>5 DEF IInv, TypeOK, RingShape, Distinct, RucStart, driverVars
<1>6. CASE HwSoftwareReset
  <2>1. 0 \in Slots
    BY RingAssumption DEF Slots
  <2>. QED
    BY <1>6, <2>1 DEF IInv, TypeOK, RingShape, Distinct, HwSoftwareReset,
                      driverVars
<1>7. CASE NICResetRecv
  BY <1>7, ResetKeepsShape
<1>8. CASE UNCHANGED ringVars
  BY <1>8 DEF IInv, TypeOK, RingShape, Distinct, ringVars
<1>. QED
  BY <1>1, <1>2, <1>3, <1>4, <1>5, <1>6, <1>7, <1>8 DEF Next, OperNext

(* So the invariant holds in every behaviour.                              *)
LEMMA IInvHolds == RingRoom => (Spec => []IInv)
<1>. SUFFICES ASSUME RingRoom PROVE Spec => []IInv
  OBVIOUS
<1>1. Init => IInv
  BY InitKeepsShape
<1>2. IInv /\ [Next]_ringVars => IInv'
  BY StepKeepsShape
<1>. QED BY <1>1, <1>2, PTL DEF Spec

(* The ring's variables keep their types: the walk around the ring, the    *)
(* search for a free descriptor and the new layout after a reset stay in   *)
(* the array (recvnew.c:108-133, mp_nic.c:1110-1140).                      *)
THEOREM RingTypesHold == RingRoom => (Spec => []TypeOK)
<1>1. IInv => TypeOK
  BY DEF IInv
<1>. QED BY <1>1, IInvHolds, PTL

(* For every ring size, and as long as there are no more MP_RBDs than      *)
(* descriptors, the ready MP_RBDs are one unbroken run of the ring in list *)
(* order, whatever the order NDIS returns them in and with adapter resets  *)
(* in between (recvnew.c:40-41, 53-61).                                    *)
THEOREM RingShapeHolds == RingRoom => (Spec => []RingShape)
<1>1. IInv => RingShape
  BY DEF IInv
<1>. QED BY <1>1, IInvHolds, PTL

(* ... and so the ASSERT of recvnew.c:122-123 holds at each insertion.     *)
THEOREM EveryReadyRbdHasSlotHolds ==
          RingRoom => (Spec => []EveryReadyRbdHasSlot)
<1>1. IInv => EveryReadyRbdHasSlot
  <2>. SUFFICES ASSUME IInv, NEW k \in 1 .. Len(RecvList)
                PROVE  /\ HwRbd[RecvList[k]] # NULL
                       /\ pMpRbds[HwRbd[RecvList[k]]] = RecvList[k]
    BY DEF EveryReadyRbdHasSlot
  <2>1. /\ HwRbd[RecvList[k]] = Nth(CurrentRBD, k - 1)
        /\ pMpRbds[Nth(CurrentRBD, k - 1)] = RecvList[k]
        /\ k - 1 \in Slots
    BY RingAssumption DEF IInv, TypeOK, RingShape, Slots
  <2>2. Nth(CurrentRBD, k - 1) \in Int
    BY <2>1, NthInRing, RingAssumption DEF IInv, TypeOK, Slots
  <2>. QED BY <2>1, <2>2, RingAssumption
<1>. QED BY <1>1, IInvHolds, PTL

(* ... and the descriptor the interrupt handler looks at next is that of a *)
(* ready MP_RBD whenever there is one (mp_nic.c:1110-1118).                *)
THEOREM HeadSlotIsReadyHolds == RingRoom => (Spec => []HeadSlotIsReady)
<1>1. IInv => HeadSlotIsReady
  <2>. SUFFICES ASSUME IInv, RecvList # <<>>
                PROVE  /\ pMpRbds[CurrentRBD] # NULL
                       /\ HwRbd[pMpRbds[CurrentRBD]] = CurrentRBD
                       /\ InRecvList(pMpRbds[CurrentRBD])
    BY DEF HeadSlotIsReady
  <2>1. 1 \in 1 .. Len(RecvList) /\ RecvList[1] \in Rbds
    BY DEF IInv, TypeOK
  <2>2. /\ pMpRbds[Nth(CurrentRBD, 0)] = RecvList[1]
        /\ HwRbd[RecvList[1]] = Nth(CurrentRBD, 0)
    BY <2>1 DEF IInv, TypeOK, RingShape
  <2>3. Nth(CurrentRBD, 0) = CurrentRBD
    BY IncIsNth DEF IInv, TypeOK
  <2>. QED BY <2>1, <2>2, <2>3, RingAssumption DEF InRecvList
<1>. QED BY <1>1, IInvHolds, PTL

-----------------------------------------------------------------------------
(* Without adapter resets the NIC and the driver also agree on where the   *)
(* NIC is.  NicInSync is inductive together with IInv: giving an MP_RBD    *)
(* back leaves the distance between the two as it is, ...                  *)
LEMMA ReturnKeepsAhead ==
  ASSUME IInv, RingRoom, NEW c \in 0 .. nReadyRecv, NicAhead(c),
         NEW x \in Rbds, NICReturnRBD(x)
  PROVE  NicAhead(c)' /\ nReadyRecv' = nReadyRecv + 1
<1>. USE RingAssumption
<1>. DEFINE n == nReadyRecv
            cur == CurrentRBD
            hint == EarlyFreeRbdHint
<1>1. c \in 0 .. n /\ NicAhead(c)
  OBVIOUS
<1>2. /\ n \in Nat /\ n = Len(RecvList) /\ cur \in Slots /\ hint \in Slots
      /\ RecvList \in Seq(Rbds) /\ hint = Nth(cur, n)
      /\ OWN \in [Slots -> BOOLEAN]
      /\ bufAddr \in [Slots -> Rbds \cup {NULL}]
  BY DEF IInv, TypeOK, RingShape
<1>3. n < NumHwRecvBuffers
  BY <1>2, RoomForOneMore DEF NICReturnRBD, IInv, RingShape
<1>4. HwRbd' = [HwRbd EXCEPT ![x] = hint]
  BY <1>3, InsertAtHint DEF NICReturnRBD
<1>5. /\ OWN' = [OWN EXCEPT ![hint] = TRUE]
      /\ bufAddr' = [bufAddr EXCEPT ![hint] = x]
  <2>1. HwRbd'[x] = hint /\ hint # NULL
    BY <1>2, <1>4 DEF IInv, TypeOK, Slots
  <2>. QED BY <2>1 DEF NICReturnRBD, ZeroRBDandDisOwnToNIC
<1>6. /\ RecvList' = Append(RecvList, x)
      /\ nReadyRecv' = n + 1
      /\ CurrentRBD' = cur /\ nicNext' = nicNext
  BY DEF NICReturnRBD
<1>7. n \in Slots
  BY <1>2, <1>3 DEF Slots
<1>8. ASSUME NEW d \in Slots
      PROVE  /\ OWN'[Nth(cur, d)] <=> (c <= d /\ d < n + 1)
             /\ d < n + 1 => bufAddr'[Nth(cur, d)] = RecvList'[d + 1]
  <2>1. Nth(cur, d) \in Slots
    BY <1>2, NthInRing
  <2>2. CASE d = n
    <3>1. OWN'[hint] /\ bufAddr'[hint] = x
      BY <1>2, <1>5
    <3>2. RecvList'[n + 1] = x
      BY <1>2, <1>6
    <3>3. c <= n
      BY <1>2
    <3>. QED BY <1>2, <2>2, <3>1, <3>2, <3>3
  <2>3. CASE d # n
    <3>1. Nth(cur, d) # hint
      BY <1>2, <1>7, <2>3, NthInjective
    <3>2. /\ OWN'[Nth(cur, d)] = OWN[Nth(cur, d)]
          /\ bufAddr'[Nth(cur, d)] = bufAddr[Nth(cur, d)]
      BY <1>2, <1>5, <2>1, <3>1
    <3>3. d < n + 1 <=> d < n
      BY <1>2, <2>3 DEF Slots
    <3>4. d < n => RecvList'[d + 1] = RecvList[d + 1]
      BY <1>2, <1>6 DEF Slots
    <3>. QED BY <1>1, <3>2, <3>3, <3>4 DEF NicAhead
  <2>. QED BY <2>2, <2>3
<1>9. NicAhead(c)'
  BY <1>1, <1>6, <1>8 DEF NicAhead
<1>. QED BY <1>6, <1>9

(* ... taking a completed one, which is the head of the list, brings the   *)
(* driver one closer to the NIC, ...                                       *)
LEMMA TakeKeepsAhead ==
  ASSUME IInv, NEW c \in 0 .. nReadyRecv, NicAhead(c),
         NEW x \in Rbds, RecvTakeRbd(x)
  PROVE  /\ NicAhead(c - 1)' /\ c > 0
         /\ nReadyRecv' = nReadyRecv - 1 /\ nReadyRecv > 0
         /\ x = RecvList[1]
         /\ \A j \in 1 .. nReadyRecv - 1 : RecvList'[j] = RecvList[j + 1]
<1>. USE RingAssumption
<1>. DEFINE n == nReadyRecv
            cur == CurrentRBD
            next == Nth(cur, 1)
<1>1. c \in 0 .. n /\ NicAhead(c)
  OBVIOUS
<1>2. /\ n \in Nat /\ n = Len(RecvList) /\ n <= NumHwRecvBuffers
      /\ cur \in Slots /\ RecvList \in Seq(Rbds) /\ Distinct(RecvList)
  BY DEF IInv, TypeOK, RingShape
<1>3. n > 0
  BY <1>2 DEF RecvTakeRbd
<1>4. x = RecvList[1] /\ HwRbd[x] = cur /\ ~ OWN[cur]
  <2>1. /\ pMpRbds[Nth(cur, 0)] = RecvList[1]
        /\ HwRbd[RecvList[1]] = Nth(cur, 0)
    BY <1>2, <1>3 DEF IInv, RingShape
  <2>. QED BY <1>2, <2>1, IncIsNth DEF RecvTakeRbd
<1>5. /\ CurrentRBD' = next
      /\ nReadyRecv' = n - 1
      /\ UNCHANGED <<OWN, bufAddr, nicNext>>
      /\ RecvList' = WithoutEntry(RecvList, x)
  BY <1>2, IncIsNth DEF RecvTakeRbd
<1>6. \A j \in 1 .. n - 1 : RecvList'[j] = RecvList[j + 1]
  <2>1. \A k \in 1 .. Len(RecvList) : RecvList[k] = x <=> k = 1
    BY <1>2, <1>3, <1>4 DEF Distinct
  <2>2. (CHOOSE k \in 1 .. Len(RecvList) : RecvList[k] = x) = 1
    BY <1>2, <1>3, <2>1
  <2>3. WithoutEntry(RecvList, x)
          = [j \in 1 .. n - 1 |-> IF j < 1 THEN RecvList[j]
                                            ELSE RecvList[j + 1]]
    BY <1>2, <2>2 DEF WithoutEntry
  <2>4. RecvList' = [j \in 1 .. n - 1 |-> RecvList[j + 1]]
    BY <1>2, <1>5, <2>3
  <2>. QED BY <2>4
<1>7. c > 0
  <2>1. 0 \in Slots /\ Nth(cur, 0) = cur
    BY <1>2, IncIsNth DEF Slots
  <2>. QED BY <1>1, <1>2, <1>3, <1>4, <2>1 DEF NicAhead
<1>8. ASSUME NEW d \in Slots
      PROVE  /\ OWN[Nth(next, d)] <=> (c - 1 <= d /\ d < n - 1)
             /\ d < n - 1 => bufAddr[Nth(next, d)] = RecvList'[d + 1]
  <2>1. CASE d + 1 < NumHwRecvBuffers
    <3>1. d + 1 \in Slots /\ Nth(next, d) = Nth(cur, d + 1)
      BY <1>2, <2>1 DEF Nth, Slots
    <3>2. /\ OWN[Nth(cur, d + 1)] <=> (c <= d + 1 /\ d + 1 < n)
          /\ d + 1 < n => bufAddr[Nth(cur, d + 1)] = RecvList[d + 2]
      BY <1>1, <3>1 DEF NicAhead, Slots
    <3>3. d < n - 1 => RecvList'[d + 1] = RecvList[d + 2]
      BY <1>2, <1>6 DEF Slots
    <3>4. (c <= d + 1 /\ d + 1 < n) <=> (c - 1 <= d /\ d < n - 1)
      BY <1>2 DEF Slots
    <3>5. d + 1 < n <=> d < n - 1
      BY <1>2 DEF Slots
    <3>. QED BY <3>1, <3>2, <3>3, <3>4, <3>5
  <2>2. CASE ~ (d + 1 < NumHwRecvBuffers)
    <3>1. Nth(next, d) = cur /\ ~ (d < n - 1)
      BY <1>2, <2>2 DEF Nth, Slots
    <3>. QED BY <1>4, <3>1
  <2>. QED BY <2>1, <2>2
<1>9. nicNext = Nth(next, c - 1)
  <2>1. nicNext = Nth(cur, c)
    BY <1>1 DEF NicAhead
  <2>. QED BY <1>2, <1>7, <2>1 DEF Nth, Slots
<1>10. NicAhead(c - 1)'
  BY <1>5, <1>8, <1>9 DEF NicAhead
<1>. QED BY <1>3, <1>4, <1>5, <1>6, <1>7, <1>10

(* ... and a frame brings the NIC one further ahead: it fills the buffer   *)
(* of the ready MP_RBD at that distance.                                   *)
LEMMA ReceiveKeepsAhead ==
  ASSUME IInv, NEW c \in 0 .. nReadyRecv, NicAhead(c), NicReceive
  PROVE  /\ NicAhead(c + 1)' /\ c < nReadyRecv
         /\ UNCHANGED <<nReadyRecv, RecvList>>
         /\ bufAddr[nicNext] = RecvList[c + 1]
<1>. USE RingAssumption
<1>. DEFINE n == nReadyRecv
            cur == CurrentRBD
<1>1. c \in 0 .. n /\ NicAhead(c)
  OBVIOUS
<1>2. /\ n \in Nat /\ n <= NumHwRecvBuffers /\ cur \in Slots
      /\ OWN \in [Slots -> BOOLEAN] /\ nicNext \in Slots
      /\ nicNext = Nth(cur, c)
  BY <1>1 DEF IInv, TypeOK, RingShape, NicAhead
<1>3. /\ OWN[nicNext]
      /\ OWN' = [OWN EXCEPT ![nicNext] = FALSE]
      /\ nicNext' = Nth(nicNext, 1)
      /\ UNCHANGED <<nReadyRecv, CurrentRBD, RecvList, bufAddr>>
  BY <1>2, IncIsNth DEF NicReceive, driverVars
<1>4. c < n /\ c \in Slots
  <2>1. c # NumHwRecvBuffers
    <3>. SUFFICES ASSUME c = NumHwRecvBuffers PROVE FALSE
      OBVIOUS
    <3>1. nicNext = Nth(cur, 0) /\ 0 \in Slots
      BY <1>2, IncIsNth DEF Slots
    <3>2. c <= 0
      BY <1>1, <1>3, <3>1 DEF NicAhead
    <3>. QED BY <3>2
  <2>2. c \in Slots
    BY <1>2, <2>1 DEF Slots
  <2>. QED BY <1>1, <1>2, <1>3, <2>2 DEF NicAhead
<1>5. nicNext' = Nth(cur, c + 1)
  BY <1>2, <1>3, <1>4, NthStep
<1>6. ASSUME NEW d \in Slots
      PROVE  OWN'[Nth(cur, d)] <=> (c + 1 <= d /\ d < n)
  <2>1. Nth(cur, d) \in Slots
    BY <1>2, NthInRing
  <2>2. CASE d = c
    BY <1>2, <1>3, <1>4, <2>2 DEF Slots
  <2>3. CASE d # c
    <3>1. Nth(cur, d) # nicNext
      BY <1>2, <1>4, <2>3, NthInjective
    <3>2. OWN'[Nth(cur, d)] = OWN[Nth(cur, d)]
      BY <1>2, <1>3, <2>1, <3>1
    <3>3. c + 1 <= d <=> c <= d
      BY <1>2, <2>3 DEF Slots
    <3>. QED BY <1>1, <3>2, <3>3 DEF NicAhead
  <2>. QED BY <2>2, <2>3
<1>7. NicAhead(c + 1)'
  BY <1>1, <1>3, <1>5, <1>6 DEF NicAhead
<1>8. bufAddr[nicNext] = RecvList[c + 1]
  BY <1>1, <1>2, <1>4 DEF NicAhead
<1>. QED BY <1>3, <1>4, <1>7, <1>8

(* So the two stay in step in each of these steps.                         *)
LEMMA StepKeepsSync ==
  ASSUME IInv, RingRoom, NicInSync,
         \/ \E x \in Rbds : NICReturnRBD(x) \/ RecvTakeRbd(x)
         \/ NicReceive
  PROVE  NicInSync'
<1>1. PICK c \in 0 .. nReadyRecv : NicAhead(c)
  BY DEF NicInSync
<1>2. nReadyRecv \in Nat /\ c \in Nat /\ c <= nReadyRecv
  BY DEF IInv, TypeOK
<1>3. ASSUME NEW x \in Rbds, NICReturnRBD(x) PROVE NicInSync'
  <2>1. NicAhead(c)' /\ nReadyRecv' = nReadyRecv + 1
    BY <1>1, <1>3, ReturnKeepsAhead
  <2>. QED BY <1>2, <2>1 DEF NicInSync
<1>4. ASSUME NEW x \in Rbds, RecvTakeRbd(x) PROVE NicInSync'
  <2>1. NicAhead(c - 1)' /\ nReadyRecv' = nReadyRecv - 1 /\ c > 0
    BY <1>1, <1>4, TakeKeepsAhead
  <2>2. c - 1 \in 0 .. nReadyRecv'
    BY <1>2, <2>1
  <2>. QED BY <2>1, <2>2 DEF NicInSync
<1>5. CASE NicReceive
  <2>1. /\ NicAhead(c + 1)' /\ nReadyRecv' = nReadyRecv
        /\ c < nReadyRecv
    BY <1>1, <1>5, ReceiveKeepsAhead
  <2>2. c + 1 \in 0 .. nReadyRecv'
    BY <1>2, <2>1
  <2>. QED BY <2>1, <2>2 DEF NicInSync
<1>. QED BY <1>3, <1>4, <1>5

(* At the start the NIC and the driver are both at the base.               *)
LEMMA InitKeepsSync ==
  ASSUME Init
  PROVE  NicInSync
<1>. USE RingAssumption
<1>1. PICK n \in NIC_MIN_RECV_BUFFERS + 1 .. NumHwRecvBuffers :
        \E list \in [1 .. n -> Rbds] : Distinct(list) /\ NICInitRecv(n, list)
  BY DEF Init
<1>2. PICK list \in [1 .. n -> Rbds] : Distinct(list) /\ NICInitRecv(n, list)
  BY <1>1
<1>3. \A d \in Slots : Nth(0, d) = d
  BY DEF Nth, Slots
<1>4. Nth(0, 0) = 0
  BY <1>3 DEF Slots
<1>5. NicAhead(0)
  <2>1. /\ nReadyRecv = n /\ CurrentRBD = 0 /\ nicNext = 0 /\ RecvList = list
        /\ pMpRbds = [i \in Slots |-> IF i < n THEN list[i + 1] ELSE NULL]
        /\ OWN = [i \in Slots |-> i < n]
        /\ bufAddr = pMpRbds
    BY <1>2 DEF NICInitRecv, Init
  <2>4. \A d \in Slots : OWN[d] = (d < n)
    BY <2>1, Zenon
  <2>5. \A d \in Slots : 0 <= d
    BY DEF Slots
  <2>2. \A d \in Slots : OWN[Nth(0, d)] <=> (0 <= d /\ d < n)
    BY <1>3, <2>4, <2>5, Zenon
  <2>3. \A d \in Slots : d < n => bufAddr[Nth(0, d)] = list[d + 1]
    BY <1>3, <2>1
  <2>. QED BY <1>4, <2>1, <2>2, <2>3 DEF NicAhead
<1>6. 0 \in 0 .. nReadyRecv
  BY <1>2 DEF NICInitRecv
<1>. QED BY <1>5, <1>6 DEF NicInSync

(* The driver and the NIC stay in step as long as the chip is not reset.   *)
LEMMA SyncHolds == RingRoom => (OperSpec => [](IInv /\ NicInSync))
<1>. SUFFICES ASSUME RingRoom PROVE OperSpec => [](IInv /\ NicInSync)
  OBVIOUS
<1>1. Init => IInv /\ NicInSync
  BY InitKeepsShape, InitKeepsSync
<1>2. IInv /\ NicInSync /\ [OperNext]_ringVars => (IInv /\ NicInSync)'
  <2>. SUFFICES ASSUME IInv, NicInSync, [OperNext]_ringVars
                PROVE  NicInSync'
    BY StepKeepsShape DEF Next
  <2>1. CASE \E x \in Rbds : NICReturnRBD(x) \/ RecvTakeRbd(x)
    BY <2>1, StepKeepsSync
  <2>3. CASE NicReceive
    BY <2>3, StepKeepsSync
  <2>4. CASE RucAbort \/ RucStart \/ UNCHANGED ringVars
    BY <2>4 DEF NicInSync, NicAhead, RucAbort, RucStart, ringVars, driverVars
  <2>. QED BY <2>1, <2>3, <2>4 DEF OperNext
<1>. QED BY <1>1, <1>2, PTL DEF OperSpec

(* Without resets the NIC can write only to buffers of ready MP_RBDs: it   *)
(* never writes to a buffer the driver or NDIS is reading.                 *)
THEOREM NicOwnsOnlyReadyHolds == RingRoom => (OperSpec => []NicOwnsOnlyReady)
<1>1. IInv /\ NicInSync => NicOwnsOnlyReady
  <2>. SUFFICES ASSUME IInv, NicInSync, NEW i \in Slots, OWN[i]
                PROVE  pMpRbds[i] # NULL /\ bufAddr[i] = pMpRbds[i]
    BY DEF NicOwnsOnlyReady
  <2>1. PICK c \in 0 .. nReadyRecv : NicAhead(c)
    BY DEF NicInSync
  <2>2. PICK d \in Slots : Nth(CurrentRBD, d) = i
    BY NthOnto DEF IInv, TypeOK
  <2>3. d < nReadyRecv /\ bufAddr[i] = RecvList[d + 1]
    BY <2>1, <2>2 DEF NicAhead
  <2>4. d + 1 \in 1 .. nReadyRecv /\ d + 1 - 1 = d
    BY <2>3, RingAssumption DEF IInv, TypeOK, Slots
  <2>5. pMpRbds[i] = RecvList[d + 1] /\ RecvList[d + 1] \in Rbds
    <3>1. PICK k \in 1 .. nReadyRecv : k = d + 1 /\ k - 1 = d
      <4>1. d \in Int
        BY RingAssumption DEF Slots
      <4>. QED BY <2>4, <4>1
    <3>2. /\ pMpRbds[Nth(CurrentRBD, k - 1)] = RecvList[k]
          /\ k \in 1 .. Len(RecvList)
      BY DEF IInv, RingShape
    <3>. QED BY <2>2, <3>1, <3>2 DEF IInv, TypeOK
  <2>. QED BY <2>3, <2>5, RingAssumption
<1>. QED BY <1>1, SyncHolds, PTL

(* ... and it stops only when it has filled every descriptor the driver    *)
(* gave it (recvnew.c:40-43).                                              *)
THEOREM NoGapStopsNicHolds == RingRoom => (OperSpec => []NoGapStopsNic)
<1>1. IInv /\ NicInSync => NoGapStopsNic
  <2>. SUFFICES ASSUME IInv, NicInSync, ~ OWN[nicNext], NEW i \in Slots, OWN[i]
                PROVE  FALSE
    BY DEF NoGapStopsNic
  <2>1. PICK c \in 0 .. nReadyRecv : NicAhead(c)
    BY DEF NicInSync
  <2>2. PICK d \in Slots : Nth(CurrentRBD, d) = i
    BY NthOnto DEF IInv, TypeOK
  <2>3. c <= d /\ d < nReadyRecv
    BY <2>1, <2>2 DEF NicAhead
  <2>4. c \in Slots /\ c < nReadyRecv
    BY <2>3, RingAssumption DEF IInv, TypeOK, Slots
  <2>5. OWN[Nth(CurrentRBD, c)] /\ nicNext = Nth(CurrentRBD, c)
    BY <2>1, <2>4 DEF NicAhead
  <2>. QED BY <2>5
<1>. QED BY <1>1, SyncHolds, PTL

-----------------------------------------------------------------------------
(* What the operations on lists do to the set of their elements.           *)
LEMMA RangeOfList ==
  ASSUME NEW s \in Seq(Rbds)
  PROVE  /\ Range(s) \subseteq Rbds
         /\ \A x : x \in Range(s) <=> \E k \in 1 .. Len(s) : s[k] = x
BY DEF Range

(* Appending adds the new element.                                         *)
LEMMA AppendToList ==
  ASSUME NEW s \in Seq(Rbds), NEW x \in Rbds
  PROVE  /\ Append(s, x) \in Seq(Rbds)
         /\ Range(Append(s, x)) = Range(s) \cup {x}
         /\ Distinct(s) /\ x \notin Range(s) => Distinct(Append(s, x))
<1>. DEFINE a == Append(s, x)
<1>1. /\ a \in Seq(Rbds) /\ Len(a) = Len(s) + 1 /\ Len(s) \in Nat
      /\ a[Len(s) + 1] = x
      /\ \A k \in 1 .. Len(s) : a[k] = s[k]
  OBVIOUS
<1>. HIDE DEF a
<1>2. Range(a) = Range(s) \cup {x}
  <2>1. ASSUME NEW y \in Range(a) PROVE y \in Range(s) \cup {x}
    <3>1. PICK k \in 1 .. Len(s) + 1 : a[k] = y
      BY <1>1, RangeOfList
    <3>. QED BY <1>1, <3>1, RangeOfList
  <2>2. ASSUME NEW y \in Range(s) PROVE y \in Range(a)
    <3>1. PICK k \in 1 .. Len(s) : s[k] = y
      BY RangeOfList
    <3>2. k \in 1 .. Len(a) /\ a[k] = y
      BY <1>1, <3>1
    <3>. QED BY <1>1, <3>2, RangeOfList
  <2>3. x \in Range(a)
    BY <1>1, RangeOfList
  <2>. QED BY <2>1, <2>2, <2>3
<1>3. ASSUME Distinct(s), x \notin Range(s) PROVE Distinct(a)
  <2>1. \A k \in 1 .. Len(s) : s[k] # x
    BY <1>3, RangeOfList
  <2>. QED BY <1>1, <1>3, <2>1 DEF Distinct
<1>. QED BY <1>1, <1>2, <1>3 DEF a

(* Cutting the head off removes it.                                        *)
LEMMA TailOfList ==
  ASSUME NEW s \in Seq(Rbds), s # <<>>, Distinct(s)
  PROVE  /\ Tail(s) \in Seq(Rbds)
         /\ Head(s) \in Range(s)
         /\ Range(Tail(s)) = Range(s) \ {Head(s)}
         /\ Distinct(Tail(s))
<1>. DEFINE t == Tail(s)
<1>1. /\ t \in Seq(Rbds) /\ Len(t) = Len(s) - 1 /\ Len(s) \in Nat \ {0}
      /\ Head(s) = s[1]
      /\ \A k \in 1 .. Len(s) - 1 : t[k] = s[k + 1]
  OBVIOUS
<1>. HIDE DEF t
<1>2. Head(s) \in Range(s)
  BY <1>1, RangeOfList
<1>3. ASSUME NEW y \in Range(t) PROVE y \in Range(s) \ {Head(s)}
  <2>1. PICK k \in 1 .. Len(s) - 1 : t[k] = y
    BY <1>1, RangeOfList
  <2>2. k + 1 \in 1 .. Len(s) /\ s[k + 1] = y /\ k + 1 # 1
    BY <1>1, <2>1
  <2>. QED BY <1>1, <2>2, RangeOfList DEF Distinct
<1>4. ASSUME NEW y \in Range(s), y # Head(s) PROVE y \in Range(t)
  <2>1. PICK k \in 1 .. Len(s) : s[k] = y
    BY RangeOfList
  <2>2. k - 1 \in 1 .. Len(t) /\ t[k - 1] = y
    BY <1>1, <1>4, <2>1
  <2>. QED BY <1>1, <2>2, RangeOfList
<1>5. Distinct(t)
  BY <1>1 DEF Distinct
<1>6. Range(t) = Range(s) \ {Head(s)}
  BY <1>3, <1>4
<1>. QED BY <1>1, <1>2, <1>5, <1>6 DEF t

(* RemoveEntryList removes one element and keeps the others.               *)
LEMMA RemoveEntry ==
  ASSUME NEW s \in Seq(Rbds), Distinct(s), NEW x \in Range(s)
  PROVE  /\ WithoutEntry(s, x) \in Seq(Rbds)
         /\ Range(WithoutEntry(s, x)) = Range(s) \ {x}
         /\ Distinct(WithoutEntry(s, x))
<1>1. PICK k \in 1 .. Len(s) : s[k] = x
  BY RangeOfList
<1>2. (CHOOSE j \in 1 .. Len(s) : s[j] = x) = k
  BY <1>1 DEF Distinct
<1>3. WithoutEntry(s, x)
        = [j \in 1 .. Len(s) - 1 |-> IF j < k THEN s[j] ELSE s[j + 1]]
  BY <1>2 DEF WithoutEntry
<1>. DEFINE w == WithoutEntry(s, x)
<1>4. /\ w \in Seq(Rbds) /\ Len(w) = Len(s) - 1
      /\ \A j \in 1 .. Len(s) - 1 : w[j] = IF j < k THEN s[j] ELSE s[j + 1]
  <2>1. Len(s) \in Nat /\ Len(s) - 1 \in Nat
    BY <1>1
  <2>2. \A j \in 1 .. Len(s) - 1 : s[j] \in Rbds /\ s[j + 1] \in Rbds
    OBVIOUS
  <2>. QED BY <1>3, <2>1, <2>2
<1>5. Distinct(w)
  BY SMTT(30), <1>1, <1>4 DEF Distinct
<1>6. Range(w) = Range(s) \ {x}
  <2>1. ASSUME NEW y \in Range(w) PROVE y \in Range(s) \ {x}
    <3>1. PICK j \in 1 .. Len(s) - 1 : w[j] = y
      BY <1>4, RangeOfList
    <3>. QED BY <1>1, <1>4, <3>1, RangeOfList DEF Distinct
  <2>2. ASSUME NEW y \in Range(s), y # x PROVE y \in Range(w)
    <3>1. PICK i \in 1 .. Len(s) : s[i] = y
      BY RangeOfList
    <3>2. CASE i < k
      <4>1. i \in 1 .. Len(s) - 1 /\ w[i] = y
        BY <1>1, <1>4, <3>1, <3>2
      <4>. QED BY <1>4, <4>1, RangeOfList
    <3>3. CASE i > k
      <4>1. i - 1 \in 1 .. Len(s) - 1 /\ w[i - 1] = y
        BY <1>1, <1>4, <3>1, <3>3
      <4>. QED BY <1>4, <4>1, RangeOfList
    <3>. QED BY <1>1, <2>2, <3>1, <3>2, <3>3
  <2>. QED BY <2>1, <2>2
<1>. QED BY <1>4, <1>5, <1>6

(* A list without duplicates is as long as it has elements.                *)
LEMMA SizeOfList ==
  ASSUME NEW s \in Seq(Rbds), Distinct(s)
  PROVE  IsFiniteSet(Range(s)) /\ Cardinality(Range(s)) = Len(s)
<1>1. Len(s) \in Nat
  OBVIOUS
<1>2. IsFiniteSet(1 .. Len(s)) /\ Cardinality(1 .. Len(s)) = Len(s)
  BY SMTT(30), <1>1, FS_Interval
<1>3. s \in Bijection(1 .. Len(s), Range(s))
  BY DEF Distinct, Range, Bijection, Injection, Surjection, IsInjective
<1>. QED BY <1>2, <1>3, FS_Bijection DEF ExistsBijection

(* Sets without a common element: their sizes add up.                      *)
LEMMA DisjointUnion ==
  ASSUME NEW S, NEW T, IsFiniteSet(S), IsFiniteSet(T), S \cap T = {}
  PROVE  /\ IsFiniteSet(S \cup T)
         /\ Cardinality(S \cup T) = Cardinality(S) + Cardinality(T)
<1>1. Cardinality(S \cap T) = 0
  BY FS_EmptySet
<1>2. /\ IsFiniteSet(S \cup T)
      /\ Cardinality(S \cup T)
           = Cardinality(S) + Cardinality(T) - Cardinality(S \cap T)
  BY FS_Union
<1>3. Cardinality(S) \in Nat /\ Cardinality(T) \in Nat
  BY FS_CardinalityType
<1>. QED BY <1>1, <1>2, <1>3

-----------------------------------------------------------------------------
(* The inductive invariant.  Every MP_RBD is in one place, ...             *)
Places ==
  /\ RecvList \in Seq(Rbds) /\ Distinct(RecvList)
  /\ FreeNetBufferList \in Seq(Rbds) /\ Distinct(FreeNetBufferList)
  /\ NetBufferList \in Seq(Rbds)
  /\ allocated \subseteq Rbds
  /\ allocated = Range(RecvList) \cup RecvPendList
                   \cup Range(FreeNetBufferList) \cup ({pMpRbd} \ {NULL})
  /\ Range(RecvList) \cap RecvPendList = {}
  /\ Range(RecvList) \cap Range(FreeNetBufferList) = {}
  /\ RecvPendList \cap Range(FreeNetBufferList) = {}
  /\ pMpRbd \notin Range(RecvList) \cup RecvPendList
                     \cup Range(FreeNetBufferList)
  /\ Range(NetBufferList) \subseteq RecvPendList \ ndisHeld
  /\ ndisHeld \subseteq RecvPendList
  /\ NetBufferLists \subseteq ndisHeld

(* ... the lock is held by the code that needs it, ...                     *)
Locking ==
  /\ RcvLock = "dpc" <=> dpc \in {"receive", "drop", "resources", "tail"}
  /\ RcvLock = "ret" <=> ret = "return"
  /\ pMpRbd # NULL <=> dpc = "drop"
  /\ NetBufferLists # {} => ret = "return"
  /\ receiver = "on"

(* ... and a pause is where the adapter's state says.                      *)
PauseState ==
  /\ pause \in {"none", "entered", "pending", "done"}
  /\ pause = "none" <=> AdapterState = "NicRunning"
  /\ pause = "entered" => AdapterState = "NicPausing"
  /\ pause = "done" => AdapterState = "NicPaused"
  /\ AdapterState = "NicPaused" => RcvRefCount = 0
  /\ dpc = "complete" \/ ret = "complete" =>
       pause = "pending" /\ AdapterState = "NicPaused"
  /\ ~ (dpc = "complete" /\ ret = "complete")

PathIInv == Places /\ Locking /\ PauseState /\ ReceiveRefs

(* Taking the frame at CurrentRBD removes one MP_RBD from the ready list.  *)
LEMMA TakeEffect ==
  ASSUME Places, NEW x \in Rbds, RecvTakeRbd(x)
  PROVE  /\ RecvList' \in Seq(Rbds) /\ Distinct(RecvList')
         /\ x \in Range(RecvList) /\ Range(RecvList') = Range(RecvList) \ {x}
         /\ receiver' = receiver
<1>1. x \in Range(RecvList)
  BY RangeOfList DEF RecvTakeRbd, InRecvList, Places
<1>. QED BY <1>1, RemoveEntry DEF RecvTakeRbd, Places

(* Returning one adds it.                                                  *)
LEMMA ReturnEffect ==
  ASSUME Places, NEW x \in Rbds, NICReturnRBD(x)
  PROVE  /\ RecvList' \in Seq(Rbds) /\ Distinct(RecvList')
         /\ x \notin Range(RecvList)
         /\ Range(RecvList') = Range(RecvList) \cup {x}
         /\ receiver' = receiver
<1>1. x \notin Range(RecvList)
  BY RangeOfList DEF NICReturnRBD, InRecvList, Places
<1>. QED BY <1>1, AppendToList DEF NICReturnRBD, Places

(* The pended MP_RBDs can be counted, ...                                  *)
LEMMA PendFinite ==
  ASSUME Places
  PROVE  /\ IsFiniteSet(RecvPendList)
         /\ Cardinality(RecvPendList) \in Nat
         /\ Cardinality(RecvPendList) = 0 => RecvPendList = {}
<1>1. RecvPendList \subseteq Rbds
  BY DEF Places
<1>2. IsFiniteSet(RecvPendList)
  BY <1>1, FS_Subset, RingAssumption
<1>. QED BY <1>2, FS_CardinalityType, FS_EmptySet

(* ... and one more or one less changes the count by one.                  *)
LEMMA PendCount ==
  ASSUME Places, NEW x
  PROVE  /\ x \notin RecvPendList =>
              Cardinality(RecvPendList \cup {x}) = Cardinality(RecvPendList) + 1
         /\ x \in RecvPendList =>
              Cardinality(RecvPendList \ {x}) = Cardinality(RecvPendList) - 1
BY PendFinite, FS_AddElement, FS_RemoveElement

(* A frame taken to be pended.                                             *)
LEMMA PendKeeps ==
  ASSUME PathIInv, NEW x \in Rbds, DpcPend(x)
  PROVE  PathIInv'
<1>1. RecvTakeRbd(x) /\ dpc = "receive"
  BY DEF DpcPend
<1>2. x \in Range(RecvList) /\ x \notin RecvPendList
  BY <1>1, TakeEffect DEF PathIInv, Places
<1>3. Places'
  BY <1>1, <1>2, TakeEffect, AppendToList DEF DpcPend, PathIInv, Places,
     poolVars, retVars
<1>4. Locking'
  BY <1>1, TakeEffect DEF DpcPend, PathIInv, Locking, lockVars, retVars
<1>5. ReceiveRefs'
  BY <1>2, PendFinite, PendCount DEF DpcPend, PathIInv, ReceiveRefs, DpcInLoop
<1>6. AdapterState # "NicPaused"
  <2>1. RcvRefCount > 0
    BY <1>1, PendFinite DEF PathIInv, ReceiveRefs, DpcInLoop
  <2>. QED BY <2>1 DEF PathIInv, PauseState
<1>7. PauseState'
  BY <1>6 DEF DpcPend, PathIInv, PauseState, retVars
<1>. QED BY <1>3, <1>4, <1>5, <1>7 DEF PathIInv

(* A frame taken to be indicated with RESOURCES.                           *)
LEMMA ResourcesKeeps ==
  ASSUME PathIInv, NEW x \in Rbds, DpcResources(x)
  PROVE  PathIInv'
<1>1. RecvTakeRbd(x)
  BY DEF DpcResources
<1>2. Places'
  BY <1>1, TakeEffect, AppendToList DEF DpcResources, PathIInv, Places,
     pendVars, poolVars, retVars
<1>3. Locking' /\ PauseState' /\ ReceiveRefs'
  BY <1>1, TakeEffect DEF DpcResources, PathIInv, Locking, PauseState,
     ReceiveRefs, DpcInLoop, lockVars, refVars, pendVars, retVars
<1>. QED BY <1>2, <1>3 DEF PathIInv

(* A frame taken to be dropped.                                            *)
LEMMA BadKeeps ==
  ASSUME PathIInv, NEW x \in Rbds, DpcBad(x)
  PROVE  PathIInv'
<1>1. RecvTakeRbd(x) /\ dpc = "receive" /\ pMpRbd = NULL /\ x # NULL
  BY RingAssumption DEF DpcBad, PathIInv, Locking
<1>2. Places'
  BY <1>1, TakeEffect DEF DpcBad, PathIInv, Places, pendVars, poolVars, retVars
<1>3. Locking' /\ PauseState' /\ ReceiveRefs'
  BY <1>1, TakeEffect DEF DpcBad, PathIInv, Locking, PauseState,
     ReceiveRefs, DpcInLoop, lockVars, refVars, pendVars, retVars
<1>. QED BY <1>2, <1>3 DEF PathIInv

(* The dropped frame's MP_RBD goes back to the ring.                       *)
LEMMA DropKeeps ==
  ASSUME PathIInv, DpcDrop
  PROVE  PathIInv'
<1>1. pMpRbd # NULL /\ pMpRbd \in Rbds /\ NICReturnRBD(pMpRbd)
  BY DEF DpcDrop, PathIInv, Locking, Places
<1>2. NULL \notin Rbds
  BY RingAssumption
<1>3. Places'
  BY <1>1, <1>2, ReturnEffect, RangeOfList
     DEF DpcDrop, PathIInv, Places, pendVars, poolVars, retVars
<1>4. Locking' /\ PauseState' /\ ReceiveRefs'
  BY <1>1, ReturnEffect DEF DpcDrop, PathIInv, Locking, PauseState,
     ReceiveRefs, DpcInLoop, lockVars, refVars, pendVars, retVars
<1>. QED BY <1>3, <1>4 DEF PathIInv

(* So does each one indicated with RESOURCES.                              *)
LEMMA ReturnResourcesKeeps ==
  ASSUME PathIInv, DpcReturnResources
  PROVE  PathIInv'
<1>. DEFINE x == Head(FreeNetBufferList)
<1>1. x \in Range(FreeNetBufferList) /\ x \in Rbds /\ NICReturnRBD(x)
  BY TailOfList, RangeOfList DEF DpcReturnResources, PathIInv, Places
<1>2. Places'
  BY <1>1, ReturnEffect, TailOfList
     DEF DpcReturnResources, PathIInv, Places, poolVars, retVars
<1>3. Locking' /\ PauseState' /\ ReceiveRefs'
  BY <1>1, ReturnEffect DEF DpcReturnResources, PathIInv, Locking, PauseState,
     ReceiveRefs, DpcInLoop, lockVars, refVars, retVars
<1>. QED BY <1>2, <1>3 DEF PathIInv

(* NDIS gives one back.                                                    *)
LEMMA ReturnOneKeeps ==
  ASSUME PathIInv, NEW x \in Rbds, ReturnOne(x)
  PROVE  PathIInv'
<1>1. x \in RecvPendList /\ NICReturnRBD(x)
  BY DEF ReturnOne, PathIInv, Places
<1>2. Places'
  BY <1>1, ReturnEffect DEF ReturnOne, PathIInv, Places, poolVars, dpcVars
<1>3. Locking'
  BY <1>1, ReturnEffect DEF ReturnOne, PathIInv, Locking, lockVars, dpcVars
<1>4. ReceiveRefs'
  BY <1>1, PendFinite, PendCount DEF ReturnOne, PathIInv, ReceiveRefs,
     DpcInLoop, dpcVars
<1>5. AdapterState # "NicPaused"
  <2>1. Cardinality(RecvPendList) > 0
    BY <1>1, PendFinite DEF PathIInv
  <2>2. RcvRefCount > 0
    BY <2>1, PendFinite DEF PathIInv, ReceiveRefs
  <2>. QED BY <2>2 DEF PathIInv, PauseState
<1>6. PauseState'
  BY <1>5 DEF ReturnOne, PathIInv, PauseState, dpcVars
<1>. QED BY <1>2, <1>3, <1>4, <1>6 DEF PathIInv

(* A new MP_RBD comes.                                                     *)
LEMMA AllocateKeeps ==
  ASSUME PathIInv, NEW x \in Rbds, MPAllocateComplete(x)
  PROVE  PathIInv'
<1>1. x \notin allocated /\ NICReturnRBD(x) /\ NULL \notin Rbds
  BY RingAssumption DEF MPAllocateComplete
<1>2. Places'
  BY <1>1, ReturnEffect DEF MPAllocateComplete, PathIInv, Places, pendVars,
     dpcVars, retVars
<1>3. Locking' /\ PauseState' /\ ReceiveRefs'
  BY <1>1, ReturnEffect DEF MPAllocateComplete, PathIInv, Locking, PauseState,
     ReceiveRefs, DpcInLoop, lockVars, refVars, pendVars, dpcVars, retVars
<1>. QED BY <1>2, <1>3 DEF PathIInv

(* Steps that leave lists and references alone.                            *)
LEMMA StillKeeps ==
  ASSUME PathIInv,
         \/ NicFrame \/ NicStall \/ MPIsr \/ DpcAck \/ DpcIgnore
         \/ DpcEndBatch \/ DpcEndEmpty \/ DpcReacquire \/ DpcNextBatch
         \/ DpcStartReceiver \/ DpcEnableInterrupt \/ MPAllocateFailed
         \/ MPPause \/ UNCHANGED pathVars
  PROVE  PathIInv'
<1>. DEFINE lists == <<RecvList, FreeNetBufferList, NetBufferList, allocated,
                       pMpRbd, RecvPendList, ndisHeld, NetBufferLists>>
<1>1. /\ UNCHANGED lists
      /\ UNCHANGED <<RcvRefCount, ret>>
      /\ receiver' \in {receiver, "on"}
  BY DEF NicFrame, NicReceive, NicStall, MPIsr, DpcAck, DpcIgnore, DpcEndBatch,
     DpcEndEmpty, DpcReacquire, DpcNextBatch, DpcStartReceiver,
     DpcEnableInterrupt, MPAllocateFailed, MPPause, pathVars, ringVars,
     driverVars, poolVars, refVars, pendVars, intrVars, dpcVars, retVars
<1>2. Places'
  BY <1>1 DEF PathIInv, Places
<1>3. Locking'
  BY <1>1 DEF PathIInv, Locking, NicFrame, NicStall, MPIsr, DpcAck, DpcIgnore,
     DpcEndBatch, DpcEndEmpty, DpcReacquire, DpcNextBatch, DpcStartReceiver,
     DpcEnableInterrupt, MPAllocateFailed, MPPause, pathVars, lockVars, dpcVars,
     retVars
<1>4. /\ DpcInLoop' <=> DpcInLoop
      /\ dpc' = "complete" => dpc = "complete"
  BY DEF DpcInLoop, NicFrame, NicStall, MPIsr, DpcAck, DpcIgnore,
     DpcEndBatch, DpcEndEmpty, DpcReacquire, DpcNextBatch, DpcStartReceiver,
     DpcEnableInterrupt, MPAllocateFailed, MPPause, pathVars, dpcVars
<1>5. \/ UNCHANGED <<AdapterState, pause>>
      \/ /\ AdapterState = "NicRunning" /\ pause = "none"
         /\ AdapterState' = "NicPausing" /\ pause' = "entered"
  BY DEF NicFrame, NicStall, MPIsr, DpcAck, DpcIgnore,
     DpcEndBatch, DpcEndEmpty, DpcReacquire, DpcNextBatch, DpcStartReceiver,
     DpcEnableInterrupt, MPAllocateFailed, MPPause, pathVars, refVars
<1>6. ReceiveRefs'
  BY <1>1, <1>4, <1>5 DEF PathIInv, ReceiveRefs
<1>7. PauseState'
  BY <1>1, <1>4, <1>5 DEF PathIInv, PauseState
<1>. QED BY <1>2, <1>3, <1>6, <1>7 DEF PathIInv

(* The DPC enters its loop, and indicates.                                 *)
LEMMA EnterKeeps ==
  ASSUME PathIInv, DpcEnter
  PROVE  PathIInv'
<1>1. Places'
  BY DEF DpcEnter, PathIInv, Places, ringVars, poolVars, pendVars, retVars
<1>2. Locking' /\ PauseState'
  BY DEF DpcEnter, PathIInv, Locking, PauseState, ringVars, retVars
<1>3. ReceiveRefs'
  BY PendFinite DEF DpcEnter, PathIInv, ReceiveRefs, DpcInLoop, pendVars
<1>. QED BY <1>1, <1>2, <1>3 DEF PathIInv

(* What is indicated as pended is NDIS's.                                  *)
LEMMA IndicateKeeps ==
  ASSUME PathIInv, DpcIndicate
  PROVE  PathIInv'
<1>1. Range(<<>>) = {} /\ <<>> \in Seq(Rbds)
  BY DEF Range
<1>2. Places'
  BY <1>1 DEF DpcIndicate, PathIInv, Places, ringVars, poolVars, retVars
<1>3. Locking' /\ PauseState' /\ ReceiveRefs'
  BY DEF DpcIndicate, PathIInv, Locking, PauseState, ReceiveRefs, DpcInLoop,
     ringVars, lockVars, refVars, retVars
<1>. QED BY <1>2, <1>3 DEF PathIInv

(* Dropping a reference completes a pause only as the last one.            *)
LEMMA TailKeeps ==
  ASSUME PathIInv, DpcTail
  PROVE  PathIInv'
<1>1. Places'
  BY DEF DpcTail, PathIInv, Places, ringVars, pendVars, retVars
<1>2. Locking'
  BY DEF DpcTail, PathIInv, Locking, ringVars, retVars
<1>3. ReceiveRefs'
  BY PendFinite DEF DpcTail, PathIInv, ReceiveRefs, DpcInLoop, pendVars
<1>4. RcvRefCount > 0 /\ AdapterState # "NicPaused"
  BY PendFinite DEF DpcTail, PathIInv, PauseState, ReceiveRefs, DpcInLoop
<1>5. RcvRefCount' = 0 => pause \notin {"none", "entered"}
  BY <1>3, PendFinite DEF DpcTail, PathIInv, ReceiveRefs, pendVars
<1>6. PauseState'
  BY <1>4, <1>5 DEF DpcTail, PathIInv, PauseState, Pausing, retVars
<1>. QED BY <1>1, <1>2, <1>3, <1>6 DEF PathIInv

(* The return handler ends.                                                *)
LEMMA ReturnEndKeeps ==
  ASSUME PathIInv, ReturnEnd
  PROVE  PathIInv'
<1>1. Places' /\ Locking' /\ ReceiveRefs'
  BY DEF ReturnEnd, PathIInv, Places, Locking, ReceiveRefs, DpcInLoop, ringVars,
     poolVars, pendVars, dpcVars
<1>2. RcvRefCount = 0 => pause \notin {"none", "entered"}
  BY PendFinite DEF PathIInv, ReceiveRefs
<1>3. PauseState'
  BY <1>2 DEF ReturnEnd, PathIInv, PauseState, Pausing, dpcVars
<1>. QED BY <1>1, <1>3 DEF PathIInv

(* The pause itself drops the reference of MPRestart, which takes it.      *)
LEMMA PauseKeeps ==
  ASSUME PathIInv,
         MPPauseReturn \/ MPRestart \/ DpcPauseComplete \/ ReturnPauseComplete
  PROVE  PathIInv'
<1>1. Places' /\ Locking'
  BY DEF MPPauseReturn, MPRestart, DpcPauseComplete, ReturnPauseComplete,
     PathIInv, Places, Locking, ringVars, lockVars, poolVars, pendVars,
     dpcVars, retVars
<1>2. ReceiveRefs'
  BY PendFinite DEF MPPauseReturn, MPRestart, DpcPauseComplete,
     ReturnPauseComplete, PathIInv, PauseState, ReceiveRefs, DpcInLoop,
     pendVars, dpcVars
<1>3. PauseState'
  BY DEF MPPauseReturn, MPRestart, DpcPauseComplete, ReturnPauseComplete,
     PathIInv, PauseState, dpcVars, retVars
<1>. QED BY <1>1, <1>2, <1>3 DEF PathIInv

(* NDIS begins to return.                                                  *)
LEMMA NdisReturnsKeeps ==
  ASSUME PathIInv, NdisReturns
  PROVE  PathIInv'
BY DEF NdisReturns, MPReturnNetBufferLists, PathIInv, Places, Locking,
   PauseState, ReceiveRefs, DpcInLoop, ringVars, poolVars, refVars, pendVars,
   dpcVars

(* The path starts with everything in the ring and nothing pended.         *)
LEMMA PathInitInvariant ==
  ASSUME PathInit \/ RunningInit
  PROVE  PathIInv
<1>. USE DEF PathInit, RunningInit, AtRest
<1>1. PICK n \in NIC_MIN_RECV_BUFFERS + 1 .. NumHwRecvBuffers :
        \E list \in [1 .. n -> Rbds] : Distinct(list) /\ NICInitRecv(n, list)
  BY DEF Init
<1>2. PICK list \in [1 .. n -> Rbds] : Distinct(list) /\ NICInitRecv(n, list)
  BY <1>1
<1>3. /\ RecvList \in Seq(Rbds) /\ Distinct(RecvList)
      /\ Range(RecvList) \subseteq Rbds /\ receiver = "on"
  <2>1. n \in Nat /\ RecvList = list /\ receiver = "on"
    BY <1>2, RingAssumption DEF NICInitRecv, Init
  <2>2. RecvList \in Seq(Rbds)
    BY <2>1
  <2>. QED BY <1>2, <2>1, <2>2, RangeOfList
<1>4. /\ <<>> \in Seq(Rbds) /\ Range(<<>>) = {} /\ Distinct(<<>>)
      /\ NULL \notin Rbds
  BY RingAssumption DEF Range, Distinct
<1>5. Places
  BY <1>3, <1>4 DEF Places
<1>6. Locking /\ PauseState
  BY <1>3 DEF Locking, PauseState
<1>7. ReceiveRefs
  BY FS_EmptySet DEF ReceiveRefs, DpcInLoop
<1>. QED BY <1>5, <1>6, <1>7 DEF PathIInv

(* Every step keeps the invariant.                                         *)
LEMMA PathStepInvariant ==
  ASSUME PathIInv, [PathNext]_pathVars
  PROVE  PathIInv'
<1>1. ASSUME DpcStep PROVE PathIInv'
  BY <1>1, StillKeeps, EnterKeeps, PendKeeps, ResourcesKeeps, BadKeeps,
     DropKeeps, IndicateKeeps, ReturnResourcesKeeps, TailKeeps, PauseKeeps
     DEF DpcStep, DpcTake
<1>2. ASSUME NdisReturns \/ RetStep PROVE PathIInv'
  BY <1>2, NdisReturnsKeeps, ReturnOneKeeps, ReturnEndKeeps, PauseKeeps
     DEF RetStep
<1>3. ASSUME AllocStep PROVE PathIInv'
  BY <1>3, AllocateKeeps, StillKeeps DEF AllocStep
<1>. QED
  BY <1>1, <1>2, <1>3, StillKeeps, PauseKeeps DEF PathNext, RunningNext

(* So the invariant holds of the path, without any assumption on the pool. *)
LEMMA PathInvariant == PathSpec => []PathIInv
<1>1. PathInit => PathIInv
  BY PathInitInvariant
<1>2. PathIInv /\ [PathNext]_pathVars => PathIInv'
  BY PathStepInvariant
<1>. QED BY <1>1, <1>2, PTL DEF PathSpec

-----------------------------------------------------------------------------
(* RcvRefCount is exact: the pended MP_RBDs, the DPC in its loop, and the  *)
(* reference of MPRestart (mp_nic.c:1053-1073, mp_main.c:1150-1194).       *)
THEOREM ReceiveRefsHolds == PathSpec => []ReceiveRefs
<1>1. PathIInv => ReceiveRefs
  BY DEF PathIInv
<1>. QED BY <1>1, PathInvariant, PTL

(* No MP_RBD is lost or in two places, for every ring and every pool,      *)
(* even one that does not fit the ring.                                    *)
THEOREM RbdsAccountedForHolds == PathSpec => []RbdsAccountedFor
<1>1. PathIInv => RbdsAccountedFor
  <2>. SUFFICES ASSUME Places PROVE RbdsAccountedFor
    BY DEF PathIInv
  <2>. DEFINE R == Range(RecvList)
              P == RecvPendList
              F == Range(FreeNetBufferList)
              D == {pMpRbd} \ {NULL}
  <2>1. /\ IsFiniteSet(R) /\ Cardinality(R) = Len(RecvList)
        /\ IsFiniteSet(F) /\ Cardinality(F) = Len(FreeNetBufferList)
        /\ Len(RecvList) \in Nat /\ Len(FreeNetBufferList) \in Nat
    BY SizeOfList DEF Places
  <2>2. IsFiniteSet(P) /\ Cardinality(P) \in Nat
    BY PendFinite
  <2>3. IsFiniteSet(D) /\ Cardinality(D) \in Nat
    BY FS_Singleton, FS_EmptySet, FS_CardinalityType, FS_Subset
  <2>4. R \cap P = {} /\ (R \cup P) \cap F = {} /\ (R \cup P \cup F) \cap D = {}
    BY DEF Places
  <2>5. allocated = R \cup P \cup F \cup D
    BY DEF Places
  <2>6. Cardinality(R \cup P \cup F \cup D)
          = Cardinality(R) + Cardinality(P) + Cardinality(F) + Cardinality(D)
    <3>. HIDE DEF R, P, F, D
    <3>1. /\ IsFiniteSet(R \cup P)
          /\ Cardinality(R \cup P) = Cardinality(R) + Cardinality(P)
      BY <2>1, <2>2, <2>4, DisjointUnion
    <3>2. /\ IsFiniteSet(R \cup P \cup F)
          /\ Cardinality(R \cup P \cup F)
               = Cardinality(R \cup P) + Cardinality(F)
      BY <2>1, <2>4, <3>1, DisjointUnion
    <3>3. Cardinality(R \cup P \cup F \cup D)
            = Cardinality(R \cup P \cup F) + Cardinality(D)
      BY <2>3, <2>4, <3>2, DisjointUnion
    <3>. QED BY <3>1, <3>2, <3>3
  <2>. QED BY <2>1, <2>5, <2>6 DEF RbdsAccountedFor, CurrNumRecvBuffer
<1>. QED BY <1>1, PathInvariant, PTL

(* A pause is completed only when it is pending, and by one completer.     *)
THEOREM PauseCompletedOnceHolds == PathSpec => []PauseCompletedOnce
<1>1. PathIInv => PauseCompletedOnce
  BY DEF PathIInv, PauseState, PauseCompletedOnce
<1>. QED BY <1>1, PathInvariant, PTL

(* A paused adapter has nothing with NDIS and no DPC in the loop.          *)
THEOREM PausedIsQuietHolds == PathSpec => []PausedIsQuiet
<1>1. PathIInv => PausedIsQuiet
  BY PendFinite DEF PathIInv, Places, PauseState, ReceiveRefs, PausedIsQuiet
<1>. QED BY <1>1, PathInvariant, PTL

-----------------------------------------------------------------------------
(* Most steps of the path leave the ring alone.                            *)
LEMMA QuietSteps ==
  ASSUME \/ NicStall \/ MPIsr \/ DpcAck \/ DpcIgnore \/ DpcEnter
         \/ DpcEndBatch \/ DpcEndEmpty \/ DpcIndicate \/ DpcReacquire
         \/ DpcNextBatch \/ DpcTail \/ DpcPauseComplete \/ DpcEnableInterrupt
         \/ NdisReturns \/ ReturnEnd \/ ReturnPauseComplete
         \/ MPAllocateFailed \/ MPPause \/ MPPauseReturn \/ MPRestart
         \/ UNCHANGED pathVars
  PROVE  UNCHANGED ringVars
BY DEF NicStall, MPIsr, DpcAck, DpcIgnore, DpcEnter, DpcEndBatch, DpcEndEmpty,
       DpcIndicate, DpcReacquire, DpcNextBatch, DpcTail, DpcPauseComplete,
       DpcEnableInterrupt, NdisReturns, MPReturnNetBufferLists, ReturnEnd,
       ReturnPauseComplete, MPAllocateFailed, MPPause, MPPauseReturn,
       MPRestart, pathVars

(* The others are one operation of the ring each, on some MP_RBD.          *)
RingStep ==
  \/ \E x \in Rbds : RecvTakeRbd(x)
  \/ \E x \in Rbds : NICReturnRBD(x)
  \/ NicReceive
  \/ receiver' = "on" /\ UNCHANGED <<driverVars, OWN, bufAddr, nicNext>>
  \/ UNCHANGED ringVars

(* Every step of the path is a RingStep.                                   *)
LEMMA StepsOfTheRing ==
  ASSUME PathIInv, [PathNext]_pathVars
  PROVE  RingStep
<1>1. CASE NicFrame
  BY <1>1 DEF NicFrame, RingStep
<1>2. CASE DpcTake
  BY <1>2 DEF DpcTake, DpcPend, DpcResources, RingStep
<1>3. CASE \E x \in Rbds : DpcBad(x)
  BY <1>3 DEF DpcBad, RingStep
<1>4. CASE DpcDrop
  BY <1>4 DEF DpcDrop, RingStep, PathIInv, Places, Locking
<1>5. CASE DpcReturnResources
  <2>1. Head(FreeNetBufferList) \in Rbds
    BY <1>5 DEF DpcReturnResources, PathIInv, Places
  <2>. QED BY <1>5, <2>1 DEF DpcReturnResources, RingStep
<1>6. CASE DpcStartReceiver
  BY <1>6 DEF DpcStartReceiver, RingStep
<1>7. CASE \E x \in Rbds : ReturnOne(x)
  BY <1>7 DEF ReturnOne, RingStep
<1>8. CASE \E x \in Rbds : MPAllocateComplete(x)
  BY <1>8 DEF MPAllocateComplete, RingStep
<1>. QED
  BY <1>1, <1>2, <1>3, <1>4, <1>5, <1>6, <1>7, <1>8, QuietSteps
     DEF PathNext, RunningNext, DpcStep, RetStep, AllocStep, RingStep

(* The path touches the ring by its operations only: it implements         *)
(* OperSpec.                                                               *)
THEOREM PathImplementsOper == PathSpec => OperSpec
<1>1. PathInit => Init
  BY DEF PathInit, AtRest
<1>2. PathIInv /\ [PathNext]_pathVars => [OperNext]_ringVars
  <2>. SUFFICES ASSUME PathIInv, [PathNext]_pathVars PROVE [OperNext]_ringVars
    OBVIOUS
  <2>1. CASE \E x \in Rbds : RecvTakeRbd(x) \/ NICReturnRBD(x)
    BY <2>1 DEF OperNext
  <2>2. CASE NicReceive
    BY <2>2 DEF OperNext
  <2>3. CASE receiver' = "on" /\ UNCHANGED <<driverVars, OWN, bufAddr, nicNext>>
    BY <2>3 DEF PathIInv, Locking, ringVars, driverVars
  <2>. QED BY <2>1, <2>2, <2>3, StepsOfTheRing DEF RingStep
<1>. QED BY <1>1, <1>2, PathInvariant, PTL DEF PathSpec, OperSpec

(* So what was proved of the ring holds of the whole path: the NIC never   *)
(* owns a buffer that somebody reads, however returns, growth, pauses and  *)
(* DPC interleave.                                                         *)
THEOREM PathNicOwnsOnlyReady == RingRoom => (PathSpec => []NicOwnsOnlyReady)
BY PathImplementsOper, NicOwnsOnlyReadyHolds

(* And the NIC stops only when it has filled all it was given.             *)
THEOREM PathNoGapStopsNic == RingRoom => (PathSpec => []NoGapStopsNic)
BY PathImplementsOper, NoGapStopsNicHolds

-----------------------------------------------------------------------------
(* The order of the frames.  The frames that wait are, in order of         *)
(* arrival: the batch to be pended, the batch to be indicated with         *)
(* RESOURCES, the frame being dropped, and the c ready MP_RBDs the NIC has *)
(* filled.                                                                 *)
Kept == IF dpc \in {"receive", "drop", "indicate"}
        THEN Len(FreeNetBufferList) ELSE 0
Dropped == IF dpc = "drop" THEN 1 ELSE 0

Waiting(c) ==
  /\ Len(arrived) = Len(NetBufferList) + Kept + Dropped + c
  /\ \A k \in 1 .. Len(NetBufferList) : arrived[k] = NetBufferList[k]
  /\ \A k \in 1 .. Kept :
       arrived[Len(NetBufferList) + k] = FreeNetBufferList[k]
  /\ dpc = "drop" => arrived[Len(NetBufferList) + Kept + 1] = pMpRbd
  /\ \A k \in 1 .. c :
       arrived[Len(NetBufferList) + Kept + Dropped + k] = RecvList[k]

InOrder == \E c \in 0 .. nReadyRecv : NicAhead(c) /\ Waiting(c)

(* Once a frame of a batch is kept for a RESOURCES indication, all later   *)
(* ones are: the count of ready MP_RBDs does not grow while the DPC holds  *)
(* the lock, but for the MP_RBD of a frame it took and drops.              *)
Batches ==
  /\ dpc \notin {"receive", "drop", "indicate"} => NetBufferList = <<>>
  /\ dpc \notin {"receive", "drop", "indicate", "indicated", "resources"} =>
       FreeNetBufferList = <<>>
  /\ FreeNetBufferList # <<>> =>
       /\ dpc = "receive" => nReadyRecv < MIN_NUM_RECV_BUFFER
       /\ dpc = "drop" => nReadyRecv + 1 < MIN_NUM_RECV_BUFFER
  /\ DpcInLoop => LoopIndex > 0

OrderInv == PathTypeOK /\ InOrder /\ Batches

(* What the invariants say of the state a step starts in.                  *)
Ordered == RingRoom /\ IInv /\ PathIInv /\ OrderInv

(* The parts of a list of frames are no longer than the list.              *)
LEMMA Sizes ==
  ASSUME Ordered
  PROVE  /\ Len(NetBufferList) \in Nat /\ Len(FreeNetBufferList) \in Nat
         /\ Kept \in Nat /\ Dropped \in 0 .. 1 /\ Len(arrived) \in Nat
         /\ nReadyRecv \in Nat /\ nReadyRecv = Len(RecvList)
         /\ RecvList \in Seq(Rbds) /\ MIN_NUM_RECV_BUFFER \in Nat
         /\ NetBufferList \in Seq(Rbds) /\ FreeNetBufferList \in Seq(Rbds)
         /\ arrived \in Seq(Rbds)
BY PathAssumption DEF Ordered, OrderInv, PathTypeOK, Kept, Dropped, IInv,
   TypeOK, RingShape

(* Taking out the one element that is at position k.                       *)
LEMMA CutOut ==
  ASSUME NEW s \in Seq(Rbds), NEW k \in 1 .. Len(s), NEW x \in Rbds,
         s[k] = x, \A j \in 1 .. Len(s) : s[j] = x => j = k
  PROVE  /\ WithoutEntry(s, x) \in Seq(Rbds)
         /\ Len(WithoutEntry(s, x)) = Len(s) - 1
         /\ \A j \in 1 .. Len(s) - 1 :
              WithoutEntry(s, x)[j] = IF j < k THEN s[j] ELSE s[j + 1]
<1>1. (CHOOSE j \in 1 .. Len(s) : s[j] = x) = k
  OBVIOUS
<1>2. WithoutEntry(s, x)
        = [j \in 1 .. Len(s) - 1 |-> IF j < k THEN s[j] ELSE s[j + 1]]
  BY <1>1 DEF WithoutEntry
<1>3. Len(s) \in Nat /\ Len(s) - 1 \in Nat
  OBVIOUS
<1>4. \A j \in 1 .. Len(s) - 1 : s[j] \in Rbds /\ s[j + 1] \in Rbds
  OBVIOUS
<1>. QED BY <1>2, <1>3, <1>4

(* A frame comes: it goes to the MP_RBD at the NIC's place, which is the   *)
(* next of the ready ones, and to the end of what waits.                   *)
LEMMA FrameKeepsOrder ==
  ASSUME Ordered, NicFrame
  PROVE  OrderInv'
<1>1. PICK c \in 0 .. nReadyRecv : NicAhead(c) /\ Waiting(c)
  BY DEF Ordered, OrderInv, InOrder
<1>2. /\ NicAhead(c + 1)' /\ c < nReadyRecv
      /\ UNCHANGED <<nReadyRecv, RecvList>>
      /\ bufAddr[nicNext] = RecvList[c + 1]
  BY <1>1, ReceiveKeepsAhead DEF NicFrame, Ordered
<1>3. /\ UNCHANGED <<lockVars, poolVars, refVars, pendVars, IntrMask, stalled,
                     dpcVars, retVars>>
      /\ IntrStatus' = TRUE
      /\ arrived' = Append(arrived, RecvList[c + 1])
  BY <1>2 DEF NicFrame
<1>4. RecvList[c + 1] \in Rbds /\ c \in Nat /\ c + 1 \in 0 .. nReadyRecv
  BY <1>1, <1>2, Sizes
<1>5. PathTypeOK' /\ Batches'
  BY <1>2, <1>3, <1>4 DEF Ordered, OrderInv, PathTypeOK, Batches, lockVars,
     poolVars, refVars, pendVars, dpcVars, retVars, DpcInLoop
<1>6. UNCHANGED <<NetBufferList, FreeNetBufferList, Kept, Dropped, dpc, pMpRbd>>
  BY <1>3 DEF dpcVars, Kept, Dropped
<1>7. Waiting(c + 1)'
  <2>. DEFINE n == Len(NetBufferList) + Kept + Dropped
  <2>1. n \in Nat /\ Len(arrived) = n + c
    BY <1>1, Sizes DEF Waiting
  <2>2. /\ Len(arrived') = n + c + 1 /\ arrived'[n + c + 1] = RecvList[c + 1]
        /\ \A k \in 1 .. n + c : arrived'[k] = arrived[k]
    BY SMTT(30), <1>3, <1>4, <2>1, Sizes
  <2>3. \A k \in 1 .. c + 1 : arrived'[n + k] = RecvList[k]
    BY <1>1, <1>4, <2>1, <2>2 DEF Waiting
  <2>4. \A k \in 1 .. Len(NetBufferList) : arrived'[k] = NetBufferList[k]
    BY SMTT(30), <1>1, <1>4, <2>2, Sizes DEF Waiting
  <2>5. \A k \in 1 .. Kept :
          arrived'[Len(NetBufferList) + k] = FreeNetBufferList[k]
    BY SMTT(30), <1>1, <1>4, <2>2, Sizes DEF Waiting
  <2>6. dpc = "drop" => arrived'[Len(NetBufferList) + Kept + 1] = pMpRbd
    BY <1>1, <1>4, <2>2, Sizes DEF Waiting, Dropped
  <2>7. /\ Len(arrived') = Len(NetBufferList) + Kept + Dropped + (c + 1)
        /\ \A k \in 1 .. c + 1 :
             arrived'[Len(NetBufferList) + Kept + Dropped + k] = RecvList[k]
    BY <1>4, <2>1, <2>2, <2>3
  <2>. HIDE DEF n
  <2>. QED BY <1>2, <1>6, <2>4, <2>5, <2>6, <2>7 DEF Waiting
<1>. QED BY <1>2, <1>4, <1>5, <1>7 DEF OrderInv, InOrder

(* What taking the frame at the head of the ready list does to the order.  *)
LEMMA TakeInOrder ==
  ASSUME Ordered, NEW x \in Rbds, RecvTakeRbd(x), dpc = "receive",
         NEW c \in 0 .. nReadyRecv, NicAhead(c), Waiting(c)
  PROVE  /\ NicAhead(c - 1)' /\ c - 1 \in 0 .. nReadyRecv' /\ c \in Nat
         /\ nReadyRecv' = nReadyRecv - 1 /\ nReadyRecv' \in Nat
         /\ Kept = Len(FreeNetBufferList) /\ Dropped = 0
         /\ Len(arrived) = Len(NetBufferList) + Len(FreeNetBufferList) + c
         /\ \A k \in 1 .. Len(NetBufferList) : arrived[k] = NetBufferList[k]
         /\ \A k \in 1 .. Len(FreeNetBufferList) :
              arrived[Len(NetBufferList) + k] = FreeNetBufferList[k]
         /\ arrived[Len(NetBufferList) + Len(FreeNetBufferList) + 1] = x
         /\ \A k \in 1 .. c - 1 :
              arrived[Len(NetBufferList) + Len(FreeNetBufferList) + 1 + k]
                = RecvList'[k]
<1>. DEFINE m == Len(NetBufferList) + Len(FreeNetBufferList)
<1>1. /\ NicAhead(c - 1)' /\ c > 0
      /\ nReadyRecv' = nReadyRecv - 1 /\ nReadyRecv > 0
      /\ x = RecvList[1]
      /\ \A j \in 1 .. nReadyRecv - 1 : RecvList'[j] = RecvList[j + 1]
  BY TakeKeepsAhead DEF Ordered
<1>2. Kept = Len(FreeNetBufferList) /\ Dropped = 0
  BY DEF Kept, Dropped
<1>3. /\ Len(arrived) = m + c
      /\ \A k \in 1 .. Len(NetBufferList) : arrived[k] = NetBufferList[k]
      /\ \A k \in 1 .. Len(FreeNetBufferList) :
           arrived[Len(NetBufferList) + k] = FreeNetBufferList[k]
      /\ \A k \in 1 .. c : arrived[m + k] = RecvList[k]
  <2>1. Len(NetBufferList) + Kept + Dropped = m
    BY <1>2, Sizes
  <2>. HIDE DEF m
  <2>. QED BY <1>2, <2>1 DEF Waiting
<1>4. /\ m \in Nat /\ c \in Nat /\ nReadyRecv \in Nat
      /\ c - 1 \in 0 .. nReadyRecv'
  BY <1>1, Sizes
<1>5. arrived[m + 1] = x
  BY <1>1, <1>3, <1>4
<1>6. ASSUME NEW k \in 1 .. c - 1 PROVE arrived[m + 1 + k] = RecvList'[k]
  <2>1. k + 1 \in 1 .. c /\ m + 1 + k = m + (k + 1) /\ k \in 1 .. nReadyRecv - 1
    BY <1>1, <1>4
  <2>. QED BY <1>1, <1>3, <2>1
<1>. QED BY <1>1, <1>2, <1>3, <1>4, <1>5, <1>6

(* It will be pended: then no frame before it was kept.                    *)
LEMMA PendKeepsOrder ==
  ASSUME Ordered, NEW x \in Rbds, DpcPend(x)
  PROVE  OrderInv'
<1>1. PICK c \in 0 .. nReadyRecv : NicAhead(c) /\ Waiting(c)
  BY DEF Ordered, OrderInv, InOrder
<1>2. RecvTakeRbd(x) /\ dpc = "receive" /\ nReadyRecv' >= MIN_NUM_RECV_BUFFER
  BY DEF DpcPend
<1>3. /\ NicAhead(c - 1)' /\ c - 1 \in 0 .. nReadyRecv' /\ c \in Nat
      /\ nReadyRecv' = nReadyRecv - 1 /\ nReadyRecv' \in Nat
      /\ Len(arrived) = Len(NetBufferList) + Len(FreeNetBufferList) + c
      /\ \A k \in 1 .. Len(NetBufferList) : arrived[k] = NetBufferList[k]
      /\ arrived[Len(NetBufferList) + Len(FreeNetBufferList) + 1] = x
      /\ \A k \in 1 .. c - 1 :
           arrived[Len(NetBufferList) + Len(FreeNetBufferList) + 1 + k]
             = RecvList'[k]
  BY <1>1, <1>2, TakeInOrder
<1>4. FreeNetBufferList = <<>> /\ Len(FreeNetBufferList) = 0
  BY <1>2, <1>3, Sizes DEF Ordered, OrderInv, Batches
<1>5. /\ UNCHANGED <<arrived, FreeNetBufferList, dpc, pMpRbd, LoopIndex>>
      /\ NetBufferList' = Append(NetBufferList, x)
  BY DEF DpcPend
<1>6. /\ NetBufferList' \in Seq(Rbds)
      /\ Len(NetBufferList') = Len(NetBufferList) + 1
      /\ NetBufferList'[Len(NetBufferList) + 1] = x
      /\ \A k \in 1 .. Len(NetBufferList) :
           NetBufferList'[k] = NetBufferList[k]
  BY <1>5, Sizes
<1>7. PathTypeOK'
  <2>1. RcvRefCount' \in Nat
    BY DEF DpcPend, Ordered, OrderInv, PathTypeOK
  <2>. QED
    BY <1>5, <1>6, <2>1 DEF DpcPend, Ordered, OrderInv, PathTypeOK, lockVars,
       poolVars, intrVars, retVars
<1>8. Batches'
  BY <1>2, <1>4, <1>5 DEF Ordered, OrderInv, Batches, DpcInLoop
<1>9. Kept' = 0 /\ Dropped' = 0
  BY <1>2, <1>4, <1>5 DEF Kept, Dropped
<1>10. Waiting(c - 1)'
  <2>1. Len(arrived') = Len(NetBufferList') + Kept' + Dropped' + (c - 1)
    <3>1. Len(arrived') = Len(NetBufferList) + c
      BY <1>3, <1>4, <1>5, Sizes
    <3>2. Len(NetBufferList') + Kept' + Dropped' = Len(NetBufferList) + 1
      BY <1>6, <1>9, Sizes
    <3>. QED BY <1>3, <3>1, <3>2, Sizes
  <2>2. \A k \in 1 .. Len(NetBufferList') : arrived'[k] = NetBufferList'[k]
    BY <1>3, <1>4, <1>5, <1>6, Sizes
  <2>3. \A k \in 1 .. c - 1 :
          arrived'[Len(NetBufferList') + Kept' + Dropped' + k] = RecvList'[k]
    <3>1. Len(NetBufferList') + Kept' + Dropped'
            = Len(NetBufferList) + Len(FreeNetBufferList) + 1
      BY <1>4, <1>6, <1>9, Sizes
    <3>. QED BY <1>3, <1>5, <3>1, Zenon
  <2>4. dpc' # "drop"
    BY <1>2, <1>5
  <2>. QED BY <1>9, <2>1, <2>2, <2>3, <2>4 DEF Waiting
<1>. QED BY <1>3, <1>7, <1>8, <1>10 DEF OrderInv, InOrder

(* It is kept for a RESOURCES indication.                                  *)
LEMMA ResourcesKeepOrder ==
  ASSUME Ordered, NEW x \in Rbds, DpcResources(x)
  PROVE  OrderInv'
<1>1. PICK c \in 0 .. nReadyRecv : NicAhead(c) /\ Waiting(c)
  BY DEF Ordered, OrderInv, InOrder
<1>2. RecvTakeRbd(x) /\ dpc = "receive" /\ nReadyRecv' < MIN_NUM_RECV_BUFFER
  BY DEF DpcResources
<1>. DEFINE p == Len(NetBufferList)
            f == Len(FreeNetBufferList)
<1>3. /\ NicAhead(c - 1)' /\ c - 1 \in 0 .. nReadyRecv' /\ c \in Nat
      /\ Len(arrived) = p + f + c
      /\ \A k \in 1 .. p : arrived[k] = NetBufferList[k]
      /\ \A k \in 1 .. f : arrived[p + k] = FreeNetBufferList[k]
      /\ arrived[p + f + 1] = x
      /\ \A k \in 1 .. c - 1 : arrived[p + f + 1 + k] = RecvList'[k]
  BY <1>1, <1>2, TakeInOrder
<1>4. /\ UNCHANGED <<arrived, NetBufferList, dpc, pMpRbd, LoopIndex>>
      /\ FreeNetBufferList' = Append(FreeNetBufferList, x)
      /\ p \in Nat /\ f \in Nat
  BY Sizes DEF DpcResources
<1>5. /\ FreeNetBufferList' \in Seq(Rbds)
      /\ Len(FreeNetBufferList') = f + 1
      /\ FreeNetBufferList'[f + 1] = x
      /\ \A k \in 1 .. f : FreeNetBufferList'[k] = FreeNetBufferList[k]
  BY <1>4, Sizes
<1>6. PathTypeOK'
  BY <1>4, <1>5 DEF DpcResources, Ordered, OrderInv, PathTypeOK, lockVars,
     poolVars, refVars, pendVars, intrVars, retVars
<1>7. Batches'
  BY <1>2, <1>4 DEF Ordered, OrderInv, Batches, DpcInLoop
<1>8. Kept' = f + 1 /\ Dropped' = 0 /\ Len(NetBufferList') = p
  BY <1>2, <1>4, <1>5 DEF Kept, Dropped
<1>9. Waiting(c - 1)'
  <2>1. Len(arrived') = Len(NetBufferList') + Kept' + Dropped' + (c - 1)
    BY <1>3, <1>4, <1>8
  <2>2. ASSUME NEW k \in 1 .. f + 1
        PROVE  arrived'[p + k] = FreeNetBufferList'[k]
    <3>1. CASE k = f + 1
      <4>1. p + k = p + f + 1
        BY <1>4, <3>1
      <4>. QED BY <1>3, <1>4, <1>5, <3>1, <4>1
    <3>2. CASE k # f + 1
      <4>1. k \in 1 .. f
        BY <1>4, <3>2
      <4>. QED BY <1>3, <1>4, <1>5, <4>1
    <3>. QED BY <3>1, <3>2
  <2>3. \A k \in 1 .. c - 1 :
          arrived'[Len(NetBufferList') + Kept' + Dropped' + k] = RecvList'[k]
    <3>1. Len(NetBufferList') + Kept' + Dropped' = p + f + 1
      BY <1>4, <1>8
    <3>. QED BY <1>3, <1>4, <3>1, Zenon
  <2>4. dpc' # "drop"
    BY <1>2, <1>4
  <2>. QED BY <1>3, <1>4, <1>8, <2>1, <2>2, <2>3, <2>4 DEF Waiting
<1>. QED BY <1>3, <1>6, <1>7, <1>9 DEF OrderInv, InOrder

(* It is bad and will be dropped.                                          *)
LEMMA BadKeepsOrder ==
  ASSUME Ordered, NEW x \in Rbds, DpcBad(x)
  PROVE  OrderInv'
<1>1. PICK c \in 0 .. nReadyRecv : NicAhead(c) /\ Waiting(c)
  BY DEF Ordered, OrderInv, InOrder
<1>2. RecvTakeRbd(x) /\ dpc = "receive"
  BY DEF DpcBad
<1>. DEFINE p == Len(NetBufferList)
            f == Len(FreeNetBufferList)
<1>3. /\ NicAhead(c - 1)' /\ c - 1 \in 0 .. nReadyRecv' /\ c \in Nat
      /\ nReadyRecv' = nReadyRecv - 1
      /\ Len(arrived) = p + f + c
      /\ \A k \in 1 .. p : arrived[k] = NetBufferList[k]
      /\ \A k \in 1 .. f : arrived[p + k] = FreeNetBufferList[k]
      /\ arrived[p + f + 1] = x
      /\ \A k \in 1 .. c - 1 : arrived[p + f + 1 + k] = RecvList'[k]
  BY <1>1, <1>2, TakeInOrder
<1>4. /\ UNCHANGED <<arrived, NetBufferList, FreeNetBufferList, LoopIndex>>
      /\ dpc' = "drop" /\ pMpRbd' = x
      /\ p \in Nat /\ f \in Nat
  BY Sizes DEF DpcBad
<1>5. PathTypeOK'
  BY <1>4 DEF DpcBad, Ordered, OrderInv, PathTypeOK, lockVars,
     poolVars, refVars, pendVars, intrVars, retVars
<1>6. Batches'
  BY <1>2, <1>3, <1>4, Sizes DEF Ordered, OrderInv, Batches, DpcInLoop
<1>7. /\ Kept' = f /\ Dropped' = 1 /\ Len(NetBufferList') = p
      /\ Len(NetBufferList') + Kept' + Dropped' = p + f + 1
  BY <1>2, <1>4 DEF Kept, Dropped
<1>8. Waiting(c - 1)'
  <2>1. Len(arrived') = Len(NetBufferList') + Kept' + Dropped' + (c - 1)
    <3>1. p + f + 1 + (c - 1) = p + f + c
      BY <1>3, <1>4
    <3>. QED BY <1>3, <1>4, <1>7, <3>1, Zenon
  <2>2. \A k \in 1 .. c - 1 :
          arrived'[Len(NetBufferList') + Kept' + Dropped' + k] = RecvList'[k]
    BY <1>3, <1>4, <1>7, Zenon
  <2>. QED BY <1>3, <1>4, <1>7, <2>1, <2>2 DEF Waiting
<1>. QED BY <1>3, <1>5, <1>6, <1>8 DEF OrderInv, InOrder

(* Giving an MP_RBD back lengthens the ready list behind the c that wait.  *)
LEMMA ReturnInOrder ==
  ASSUME Ordered, NEW x \in Rbds, NICReturnRBD(x),
         NEW c \in 0 .. nReadyRecv, NicAhead(c)
  PROVE  /\ NicAhead(c)' /\ c \in 0 .. nReadyRecv'
         /\ nReadyRecv' = nReadyRecv + 1
         /\ \A k \in 1 .. c : RecvList'[k] = RecvList[k]
<1>1. NicAhead(c)' /\ nReadyRecv' = nReadyRecv + 1
  BY ReturnKeepsAhead DEF Ordered
<1>2. RecvList' = Append(RecvList, x)
  BY DEF NICReturnRBD
<1>3. c \in 1 .. Len(RecvList) \/ c = 0
  BY Sizes
<1>4. \A k \in 1 .. c : RecvList'[k] = RecvList[k]
  BY <1>2, <1>3, Sizes
<1>. QED BY <1>1, <1>4, Sizes

(* The dropped frame leaves the waiting ones from between those of the     *)
(* batch and those in the ring: it is nowhere else.                        *)
LEMMA DropKeepsOrder ==
  ASSUME Ordered, DpcDrop
  PROVE  OrderInv'
<1>1. PICK c \in 0 .. nReadyRecv : NicAhead(c) /\ Waiting(c)
  BY DEF Ordered, OrderInv, InOrder
<1>2. dpc = "drop" /\ pMpRbd \in Rbds /\ NICReturnRBD(pMpRbd)
  BY DEF DpcDrop, Ordered, PathIInv, Locking, Places
<1>. DEFINE p == Len(NetBufferList)
            f == Len(FreeNetBufferList)
<1>3. /\ NicAhead(c)' /\ c \in 0 .. nReadyRecv' /\ c \in Nat
      /\ nReadyRecv' = nReadyRecv + 1
      /\ \A k \in 1 .. c : RecvList'[k] = RecvList[k]
  BY <1>1, <1>2, ReturnInOrder, Sizes
<1>4. /\ p \in Nat /\ f \in Nat /\ Kept = f /\ Dropped = 1
      /\ arrived \in Seq(Rbds)
  BY <1>2, Sizes DEF Kept, Dropped
<1>5. /\ Len(arrived) = p + f + 1 + c
      /\ \A k \in 1 .. p : arrived[k] = NetBufferList[k]
      /\ \A k \in 1 .. f : arrived[p + k] = FreeNetBufferList[k]
      /\ arrived[p + f + 1] = pMpRbd
      /\ \A k \in 1 .. c : arrived[p + f + 1 + k] = RecvList[k]
  <2>. HIDE DEF p, f
  <2>. QED BY <1>1, <1>2, <1>4 DEF Waiting, p, f
<1>6. /\ \A k \in 1 .. p : NetBufferList[k] # pMpRbd
      /\ \A k \in 1 .. f : FreeNetBufferList[k] # pMpRbd
      /\ \A k \in 1 .. c : RecvList[k] # pMpRbd
  <2>1. /\ pMpRbd \notin Range(NetBufferList)
        /\ pMpRbd \notin Range(FreeNetBufferList)
        /\ pMpRbd \notin Range(RecvList)
    BY DEF Ordered, PathIInv, Places
  <2>2. \A k \in 1 .. c : k \in 1 .. Len(RecvList)
    BY <1>3, Sizes
  <2>. QED BY <2>1, <2>2, Sizes, RangeOfList
<1>7. ASSUME NEW j \in 1 .. Len(arrived), arrived[j] = pMpRbd
      PROVE  j = p + f + 1
  <2>. HIDE DEF p, f
  <2>1. ~ (j \in 1 .. p)
    BY <1>5, <1>6, <1>7
  <2>2. ~ (p < j /\ j <= p + f)
    <3>. SUFFICES ASSUME p < j, j <= p + f PROVE FALSE
      OBVIOUS
    <3>1. j - p \in 1 .. f /\ p + (j - p) = j
      BY <1>4
    <3>. QED BY <1>5, <1>6, <1>7, <3>1
  <2>3. ~ (j > p + f + 1)
    <3>. SUFFICES ASSUME j > p + f + 1 PROVE FALSE
      OBVIOUS
    <3>1. /\ j - (p + f + 1) \in 1 .. c
          /\ p + f + 1 + (j - (p + f + 1)) = j
      BY <1>3, <1>4, <1>5
    <3>. QED BY <1>5, <1>6, <1>7, <3>1
  <2>. QED BY <1>4, <2>1, <2>2, <2>3
<1>8. /\ arrived' \in Seq(Rbds) /\ Len(arrived') = p + f + c
      /\ \A k \in 1 .. p + f : arrived'[k] = arrived[k]
      /\ \A k \in 1 .. c : arrived'[p + f + k] = arrived[p + f + 1 + k]
  <2>1. arrived' = WithoutEntry(arrived, pMpRbd)
    BY DEF DpcDrop
  <2>2. p + f + 1 \in 1 .. Len(arrived)
    BY <1>3, <1>4, <1>5
  <2>. HIDE DEF p, f
  <2>3. /\ arrived' \in Seq(Rbds) /\ Len(arrived') = Len(arrived) - 1
        /\ \A j \in 1 .. Len(arrived) - 1 :
             arrived'[j] = IF j < p + f + 1 THEN arrived[j] ELSE arrived[j + 1]
    BY ZenonT(30), <1>2, <1>4, <1>5, <1>7, <2>1, <2>2, CutOut
  <2>4. Len(arrived) - 1 = p + f + c
    BY <1>3, <1>4, <1>5
  <2>5. ASSUME NEW k \in 1 .. p + f PROVE arrived'[k] = arrived[k]
    <3>1. k \in 1 .. Len(arrived) - 1 /\ k < p + f + 1
      BY <1>3, <1>4, <2>4
    <3>. QED BY <2>3, <3>1
  <2>6. ASSUME NEW k \in 1 .. c
        PROVE  arrived'[p + f + k] = arrived[p + f + 1 + k]
    <3>1. /\ p + f + k \in 1 .. Len(arrived) - 1
          /\ ~ (p + f + k < p + f + 1)
          /\ p + f + k + 1 = p + f + 1 + k
      BY <1>3, <1>4, <2>4
    <3>. QED BY <2>3, <3>1
  <2>. QED BY <2>3, <2>4, <2>5, <2>6
<1>9. /\ UNCHANGED <<NetBufferList, FreeNetBufferList, LoopIndex>>
      /\ dpc' = "receive" /\ pMpRbd' = NULL
  BY DEF DpcDrop
<1>10. PathTypeOK'
  BY <1>8, <1>9 DEF DpcDrop, Ordered, OrderInv, PathTypeOK, lockVars,
     poolVars, refVars, pendVars, intrVars, retVars
<1>11. Batches'
  BY <1>2, <1>3, <1>9, Sizes DEF Ordered, OrderInv, Batches, DpcInLoop
<1>12. Kept' = f /\ Dropped' = 0 /\ Len(NetBufferList') = p
  BY <1>9 DEF Kept, Dropped
<1>13. Waiting(c)'
  <2>1. p + f + 0 = p + f
    BY <1>4
  <2>2. Len(arrived') = Len(NetBufferList') + Kept' + Dropped' + c
    BY <1>8, <1>12, <2>1, Zenon
  <2>3. \A k \in 1 .. p : arrived'[k] = NetBufferList[k]
    BY <1>4, <1>5, <1>8
  <2>4. \A k \in 1 .. f : arrived'[p + k] = FreeNetBufferList[k]
    <3>1. \A k \in 1 .. f : p + k \in 1 .. p + f
      BY <1>4
    <3>. QED BY <1>5, <1>8, <3>1, Zenon
  <2>5. \A k \in 1 .. c :
          arrived'[Len(NetBufferList') + Kept' + Dropped' + k] = RecvList'[k]
    <3>1. \A k \in 1 .. c : arrived'[p + f + k] = RecvList'[k]
      BY <1>3, <1>5, <1>8, Zenon
    <3>. QED BY <1>12, <2>1, <3>1, Zenon
  <2>. QED BY <1>9, <1>12, <2>2, <2>3, <2>4, <2>5 DEF Waiting
<1>. QED BY <1>3, <1>10, <1>11, <1>13 DEF OrderInv, InOrder

(* Indicating takes the whole batch from the front of what waits.          *)
LEMMA IndicateKeepsOrder ==
  ASSUME Ordered, DpcIndicate
  PROVE  OrderInv'
<1>1. PICK c \in 0 .. nReadyRecv : NicAhead(c) /\ Waiting(c)
  BY DEF Ordered, OrderInv, InOrder
<1>. DEFINE p == Len(NetBufferList)
            f == Len(FreeNetBufferList)
<1>2. /\ dpc = "indicate" /\ dpc' = "indicated"
      /\ NetBufferList' = <<>>
      /\ arrived' = SubSeq(arrived, p + f + 1, Len(arrived))
      /\ UNCHANGED <<ringVars, FreeNetBufferList, pMpRbd, LoopIndex>>
  BY DEF DpcIndicate, NetBufferListCount
<1>3. /\ p \in Nat /\ f \in Nat /\ c \in Nat /\ Kept = f /\ Dropped = 0
      /\ arrived \in Seq(Rbds)
  BY <1>2, Sizes DEF Kept, Dropped
<1>4. /\ Len(arrived) = p + f + c
      /\ \A k \in 1 .. c : arrived[p + f + k] = RecvList[k]
  <2>1. p + f + 0 = p + f
    BY <1>3
  <2>. HIDE DEF p, f
  <2>. QED BY <1>1, <1>3, <2>1 DEF Waiting, p, f
<1>5. /\ arrived' \in Seq(Rbds) /\ Len(arrived') = c
      /\ \A k \in 1 .. c : arrived'[k] = arrived[p + f + k]
  <2>. HIDE DEF p, f
  <2>1. \A k \in 1 .. c : p + f + 1 + k - 1 = p + f + k
    BY <1>3
  <2>. QED BY <1>2, <1>3, <1>4, <2>1
<1>6. PathTypeOK'
  <2>1. Range(NetBufferList) \subseteq Rbds /\ <<>> \in Seq(Rbds)
    BY Sizes, RangeOfList
  <2>. QED
    BY SMTT(30), <1>2, <1>5, <2>1
    DEF DpcIndicate, Ordered, OrderInv, PathTypeOK, lockVars, poolVars,
        refVars, intrVars, retVars
<1>7. Batches'
  BY <1>2 DEF Ordered, OrderInv, Batches, DpcInLoop
<1>8. Kept' = 0 /\ Dropped' = 0 /\ Len(NetBufferList') = 0
  BY <1>2 DEF Kept, Dropped
<1>9. NicAhead(c)' /\ nReadyRecv' = nReadyRecv /\ RecvList' = RecvList
  BY <1>1, <1>2 DEF NicAhead, ringVars
<1>10. Waiting(c)'
  <2>1. \A k \in 1 .. c : 0 + 0 + 0 + k = k
    OBVIOUS
  <2>. QED BY <1>2, <1>3, <1>4, <1>5, <1>8, <1>9, <2>1 DEF Waiting
<1>. QED BY <1>6, <1>7, <1>9, <1>10 DEF OrderInv, InOrder

(* What waits depends on these only.                                       *)
LEMMA StillWaits ==
  ASSUME NEW c, Waiting(c), \A k \in 1 .. c : RecvList'[k] = RecvList[k],
         UNCHANGED <<arrived, NetBufferList, Kept>>,
         Kept # 0 => UNCHANGED FreeNetBufferList,
         Kept \in Nat, UNCHANGED pMpRbd, dpc' = "drop" <=> dpc = "drop"
  PROVE  Waiting(c)'
<1>1. Dropped' = Dropped
  BY DEF Dropped
<1>2. \A k \in 1 .. Kept : FreeNetBufferList' = FreeNetBufferList
  OBVIOUS
<1>3. \A k \in 1 .. Kept :
        arrived'[Len(NetBufferList') + k] = FreeNetBufferList'[k]
  BY <1>2 DEF Waiting
<1>. QED BY <1>1, <1>3 DEF Waiting

(* The steps that give an MP_RBD back while nothing is being received.     *)
LEMMA ReturnsKeepOrder ==
  ASSUME Ordered,
         \/ DpcReturnResources
         \/ \E x \in Rbds : ReturnOne(x) \/ MPAllocateComplete(x)
  PROVE  OrderInv'
<1>1. PICK c \in 0 .. nReadyRecv : NicAhead(c) /\ Waiting(c)
  BY DEF Ordered, OrderInv, InOrder
<1>2. PICK x \in Rbds : NICReturnRBD(x)
  <2>1. CASE DpcReturnResources
    <3>1. Head(FreeNetBufferList) \in Rbds
      BY <2>1, Sizes DEF DpcReturnResources
    <3>. QED BY <2>1, <3>1 DEF DpcReturnResources
  <2>2. CASE \E x \in Rbds : ReturnOne(x) \/ MPAllocateComplete(x)
    BY <2>2 DEF ReturnOne, MPAllocateComplete
  <2>. QED BY <2>1, <2>2
<1>3. /\ NicAhead(c)' /\ c \in 0 .. nReadyRecv'
      /\ nReadyRecv' = nReadyRecv + 1
      /\ \A k \in 1 .. c : RecvList'[k] = RecvList[k]
  BY <1>1, <1>2, ReturnInOrder
<1>4. /\ UNCHANGED <<arrived, NetBufferList, pMpRbd, dpc, LoopIndex>>
      /\ dpc \notin {"receive", "drop"}
      /\ \/ UNCHANGED FreeNetBufferList
         \/ /\ dpc = "resources"
            /\ FreeNetBufferList' = Tail(FreeNetBufferList)
            /\ FreeNetBufferList # <<>>
  BY DEF DpcReturnResources, ReturnOne, MPAllocateComplete, Ordered, PathIInv,
     Locking, dpcVars
<1>5. Kept' = Kept /\ (Kept # 0 => UNCHANGED FreeNetBufferList)
  BY <1>4 DEF Kept
<1>6. Waiting(c)'
  BY <1>1, <1>3, <1>4, <1>5, Sizes, StillWaits
<1>7. PathTypeOK'
  <2>1. CASE DpcReturnResources
    <3>1. FreeNetBufferList' \in Seq(Rbds)
      BY <2>1, Sizes DEF DpcReturnResources
    <3>. QED
      BY <2>1, <3>1 DEF DpcReturnResources, Ordered, OrderInv, PathTypeOK,
         lockVars, poolVars, refVars, intrVars, retVars
  <2>2. ASSUME NEW y \in Rbds, ReturnOne(y) PROVE PathTypeOK'
    <3>1. RcvRefCount' \in Nat
      <4>1. y \in RecvPendList /\ PathIInv
        BY <2>2 DEF ReturnOne, Ordered, PathIInv, Places
      <4>2. RcvRefCount \in Nat /\ RcvRefCount > 0
        <5>1. Cardinality(RecvPendList) \in Nat /\ Cardinality(RecvPendList) > 0
          BY <4>1, PendFinite DEF PathIInv
        <5>. QED BY <4>1, <5>1 DEF PathIInv, ReceiveRefs
      <4>3. RcvRefCount' = RcvRefCount - 1
        BY <2>2 DEF ReturnOne
      <4>. QED BY <4>2, <4>3
    <3>. QED
      BY <2>2, <3>1 DEF ReturnOne, Ordered, OrderInv, PathTypeOK, lockVars,
         poolVars, intrVars, dpcVars
  <2>3. ASSUME NEW y \in Rbds, MPAllocateComplete(y) PROVE PathTypeOK'
    <3>1. /\ UNCHANGED <<lockVars, refVars, pendVars, intrVars, dpcVars,
                         retVars, arrived>>
          /\ allocated' = allocated \cup {y} /\ bAllocNewRecvBuffer' = FALSE
      BY <2>3 DEF MPAllocateComplete
    <3>2. PathTypeOK /\ allocated' \subseteq Rbds
      BY <3>1 DEF Ordered, OrderInv, PathTypeOK
    <3>3. bAllocNewRecvBuffer' \in BOOLEAN
      BY <3>1
    <3>4. UNCHANGED <<lockVars, refVars, pendVars, intrVars, dpcVars, retVars,
                      arrived>>
      BY <3>1
    <3>. QED
      BY <3>2, <3>3, <3>4 DEF PathTypeOK, lockVars, refVars, pendVars,
         intrVars, dpcVars, retVars
  <2>. QED BY <2>1, <2>2, <2>3
<1>8. Batches'
  BY <1>4 DEF Ordered, OrderInv, Batches, DpcInLoop
<1>. QED BY <1>3, <1>6, <1>7, <1>8 DEF OrderInv, InOrder

(* The steps that only move the DPC, the pause or the interrupt: those     *)
(* that end a batch or begin one find the lists as they leave them.        *)
LEMMA QuietKeepsOrder ==
  ASSUME Ordered, PathIInv',
         \/ NicStall \/ MPIsr \/ DpcAck \/ DpcIgnore \/ DpcEnter
         \/ DpcEndBatch \/ DpcEndEmpty \/ DpcReacquire \/ DpcNextBatch
         \/ DpcTail \/ DpcPauseComplete \/ DpcStartReceiver
         \/ DpcEnableInterrupt \/ NdisReturns \/ ReturnEnd
         \/ ReturnPauseComplete \/ MPAllocateFailed \/ MPPause
         \/ MPPauseReturn \/ MPRestart \/ UNCHANGED pathVars
  PROVE  OrderInv'
<1>1. PICK c \in 0 .. nReadyRecv : NicAhead(c) /\ Waiting(c)
  BY DEF Ordered, OrderInv, InOrder
<1>2. UNCHANGED <<driverVars, OWN, bufAddr, nicNext>>
  BY QuietSteps DEF ringVars, driverVars, DpcStartReceiver
<1>3. NicAhead(c)' /\ nReadyRecv' = nReadyRecv /\ RecvList' = RecvList
  BY <1>1, <1>2 DEF NicAhead, driverVars
<1>4. /\ UNCHANGED <<arrived, NetBufferList, FreeNetBufferList, pMpRbd>>
      /\ dpc' = "drop" <=> dpc = "drop"
  BY DEF NicStall, MPIsr, DpcAck, DpcIgnore, DpcEnter, DpcEndBatch,
     DpcEndEmpty, DpcReacquire, DpcNextBatch, DpcTail, DpcPauseComplete,
     DpcStartReceiver, DpcEnableInterrupt, NdisReturns,
     MPReturnNetBufferLists, ReturnEnd, ReturnPauseComplete,
     MPAllocateFailed, MPPause, MPPauseReturn, MPRestart, pathVars, dpcVars
<1>5. Batches' /\ Kept' = Kept
  <2>1. CASE DpcEnter \/ DpcEndBatch \/ DpcEndEmpty \/ DpcReacquire
             \/ DpcNextBatch \/ DpcTail \/ MPIsr \/ DpcAck \/ DpcIgnore
    <3>1. NetBufferListCount = 0 =>
            NetBufferList = <<>> /\ FreeNetBufferList = <<>>
      BY Sizes DEF NetBufferListCount
    <3>2. Len(<<>>) = 0 /\ LoopIndex \in Nat
      BY PathAssumption DEF Ordered, OrderInv, PathTypeOK
    <3>. QED
      BY <1>3, <1>4, <2>1, <3>1, <3>2
         DEF Ordered, OrderInv, Batches, Kept, DpcInLoop, DpcEnter,
             DpcEndBatch, DpcEndEmpty, DpcReacquire, DpcNextBatch, DpcTail,
             MPIsr, DpcAck, DpcIgnore
  <2>2. CASE DpcPauseComplete \/ DpcStartReceiver \/ DpcEnableInterrupt
    BY <1>3, <1>4, <2>2
       DEF Ordered, OrderInv, Batches, Kept, DpcInLoop, DpcPauseComplete,
           DpcStartReceiver, DpcEnableInterrupt
  <2>3. CASE \/ NicStall \/ NdisReturns \/ ReturnEnd \/ ReturnPauseComplete
             \/ MPAllocateFailed \/ MPPause \/ MPPauseReturn \/ MPRestart
             \/ UNCHANGED pathVars
    <3>1. UNCHANGED <<dpc, LoopIndex>>
      BY <2>3 DEF NicStall, NdisReturns, MPReturnNetBufferLists, ReturnEnd,
         ReturnPauseComplete, MPAllocateFailed, MPPause, MPPauseReturn,
         MPRestart, pathVars, dpcVars
    <3>. QED
      BY <1>3, <1>4, <3>1 DEF Ordered, OrderInv, Batches, Kept, DpcInLoop
  <2>. QED BY <2>1, <2>2, <2>3
<1>6. Waiting(c)'
  BY <1>1, <1>3, <1>4, <1>5, Sizes, StillWaits
<1>7. PathTypeOK'
  <2>1. RcvRefCount' \in Nat
    <3>1. RecvPendList' = RecvPendList
      BY DEF NicStall, MPIsr, DpcAck, DpcIgnore, DpcEnter, DpcEndBatch,
         DpcEndEmpty, DpcReacquire, DpcNextBatch, DpcTail, DpcPauseComplete,
         DpcStartReceiver, DpcEnableInterrupt, NdisReturns,
         MPReturnNetBufferLists, ReturnEnd, ReturnPauseComplete,
         MPAllocateFailed, MPPause, MPPauseReturn, MPRestart, pathVars,
         pendVars
    <3>2. Cardinality(RecvPendList) \in Nat
      BY PendFinite DEF Ordered, PathIInv
    <3>. QED BY <3>1, <3>2 DEF PathIInv, ReceiveRefs
  <2>2. LoopIndex' \in 0 .. LoopCount /\ bContinue' \in BOOLEAN
        /\ bAllocNew' \in BOOLEAN
    <3>1. \/ UNCHANGED <<LoopIndex, bAllocNew>> /\ bContinue' \in BOOLEAN
          \/ LoopIndex' \in {0, 1} /\ bContinue' = TRUE /\ bAllocNew' = FALSE
          \/ /\ LoopIndex < LoopCount /\ LoopIndex' = LoopIndex + 1
             /\ UNCHANGED <<bContinue, bAllocNew>>
      BY DEF Ordered, OrderInv, PathTypeOK, NicStall, MPIsr, DpcAck,
         DpcIgnore, DpcEnter, DpcEndBatch, DpcEndEmpty, DpcReacquire,
         DpcNextBatch, DpcTail, DpcPauseComplete, DpcStartReceiver,
         DpcEnableInterrupt, NdisReturns, MPReturnNetBufferLists, ReturnEnd,
         ReturnPauseComplete, MPAllocateFailed, MPPause, MPPauseReturn,
         MPRestart, pathVars, dpcVars
    <3>2. /\ LoopIndex \in 0 .. LoopCount /\ bContinue \in BOOLEAN
          /\ bAllocNew \in BOOLEAN /\ LoopCount \in Nat \ {0}
      BY PathAssumption DEF Ordered, OrderInv, PathTypeOK
    <3>3. LoopIndex' \in 0 .. LoopCount
      BY <3>1, <3>2
    <3>4. bContinue' \in BOOLEAN /\ bAllocNew' \in BOOLEAN
      BY <3>1, <3>2, Zenon
    <3>. QED BY <3>3, <3>4
  <2>3. /\ RcvLock' \in {"free", "dpc", "ret"}
        /\ AdapterState' \in {"NicPaused", "NicRunning", "NicPausing"}
        /\ pause' \in {"none", "entered", "pending", "done"}
        /\ dpc' \in {"idle", "queued", "acked", "receive", "drop", "indicate",
                     "indicated", "resources", "tail", "complete", "restart",
                     "enable"}
        /\ ret' \in {"idle", "return", "complete"}
    BY DEF Ordered, OrderInv, PathTypeOK, NicStall, MPIsr, DpcAck,
       DpcIgnore, DpcEnter, DpcEndBatch, DpcEndEmpty, DpcReacquire,
       DpcNextBatch, DpcTail, DpcPauseComplete, DpcStartReceiver,
       DpcEnableInterrupt, NdisReturns, MPReturnNetBufferLists, ReturnEnd,
       ReturnPauseComplete, MPAllocateFailed, MPPause, MPPauseReturn,
       MPRestart, pathVars, lockVars, refVars, dpcVars, retVars
  <2>4. OutstandingRecv' \in Int
    <3>1. OutstandingRecv' \in {OutstandingRecv,
                               OutstandingRecv + NetBufferListCount}
      BY DEF NicStall, MPIsr, DpcAck, DpcIgnore, DpcEnter, DpcEndBatch,
         DpcEndEmpty, DpcReacquire, DpcNextBatch, DpcTail, DpcPauseComplete,
         DpcStartReceiver, DpcEnableInterrupt, NdisReturns,
         MPReturnNetBufferLists, ReturnEnd, ReturnPauseComplete,
         MPAllocateFailed, MPPause, MPPauseReturn, MPRestart, pathVars,
         pendVars
    <3>2. OutstandingRecv \in Int /\ NetBufferListCount \in Nat
      BY Sizes DEF Ordered, OrderInv, PathTypeOK, NetBufferListCount
    <3>. QED BY <3>1, <3>2
  <2>6. /\ UNCHANGED <<RecvPendList, ndisHeld, allocated>>
        /\ NetBufferLists' \subseteq Rbds
    BY DEF Ordered, OrderInv, PathTypeOK, NicStall, MPIsr, DpcAck,
       DpcIgnore, DpcEnter, DpcEndBatch, DpcEndEmpty, DpcReacquire,
       DpcNextBatch, DpcTail, DpcPauseComplete, DpcStartReceiver,
       DpcEnableInterrupt, NdisReturns, MPReturnNetBufferLists, ReturnEnd,
       ReturnPauseComplete, MPAllocateFailed, MPPause, MPPauseReturn,
       MPRestart, pathVars, pendVars, poolVars, retVars
  <2>5. /\ bAllocNewRecvBuffer' \in BOOLEAN /\ IntrStatus' \in BOOLEAN
        /\ IntrMask' \in BOOLEAN /\ stalled' \in BOOLEAN
    BY DEF Ordered, OrderInv, PathTypeOK, NicStall, MPIsr, DpcAck,
       DpcIgnore, DpcEnter, DpcEndBatch, DpcEndEmpty, DpcReacquire,
       DpcNextBatch, DpcTail, DpcPauseComplete, DpcStartReceiver,
       DpcEnableInterrupt, NdisReturns, MPReturnNetBufferLists, ReturnEnd,
       ReturnPauseComplete, MPAllocateFailed, MPPause, MPPauseReturn,
       MPRestart, pathVars, poolVars, intrVars, AskForMpRbd
  <2>. QED
    BY <1>4, <2>1, <2>2, <2>3, <2>4, <2>5, <2>6
       DEF Ordered, OrderInv, PathTypeOK
<1>. QED BY <1>3, <1>5, <1>6, <1>7 DEF OrderInv, InOrder

(* Every step keeps the order.                                             *)
LEMMA OrderStep ==
  ASSUME Ordered, [PathNext]_pathVars
  PROVE  OrderInv'
<1>1. PathIInv'
  BY PathStepInvariant DEF Ordered
<1>2. CASE DpcStep
  BY <1>1, <1>2, PendKeepsOrder, ResourcesKeepOrder, BadKeepsOrder,
     DropKeepsOrder, IndicateKeepsOrder, ReturnsKeepOrder, QuietKeepsOrder
     DEF DpcStep, DpcTake
<1>3. CASE NdisReturns \/ RetStep \/ AllocStep
  BY <1>1, <1>3, ReturnsKeepOrder, QuietKeepsOrder DEF RetStep, AllocStep
<1>4. CASE NicFrame
  BY <1>4, FrameKeepsOrder
<1>5. CASE NicStall \/ MPIsr \/ MPPause \/ MPPauseReturn \/ MPRestart
           \/ UNCHANGED pathVars
  BY <1>1, <1>5, QuietKeepsOrder
<1>. QED BY <1>2, <1>3, <1>4, <1>5 DEF PathNext, RunningNext

(* At the start nothing waits.                                             *)
LEMMA InitInOrder ==
  ASSUME PathInit
  PROVE  OrderInv
<1>. USE DEF PathInit, AtRest
<1>1. IInv /\ NicInSync
  BY InitKeepsShape, InitKeepsSync
<1>2. PICK c \in 0 .. nReadyRecv : NicAhead(c)
  BY <1>1 DEF NicInSync
<1>3. nReadyRecv \in Nat /\ Len(<<>>) = 0 /\ <<>> \in Seq(Rbds)
  BY <1>1 DEF IInv, TypeOK
<1>4. Kept = 0 /\ Dropped = 0
  BY DEF Kept, Dropped
<1>5. NicAhead(0)
  <2>1. CurrentRBD = 0 /\ nicNext = 0 /\ nReadyRecv > 0
    <3>1. PICK n \in NIC_MIN_RECV_BUFFERS + 1 .. NumHwRecvBuffers :
            \E list \in [1 .. n -> Rbds] : NICInitRecv(n, list)
      BY DEF Init
    <3>. QED BY <3>1, RingAssumption DEF NICInitRecv, Init
  <2>2. OWN[0]
    <3>1. PICK n \in NIC_MIN_RECV_BUFFERS + 1 .. NumHwRecvBuffers :
            \E list \in [1 .. n -> Rbds] : NICInitRecv(n, list)
      BY DEF Init
    <3>2. 0 \in Slots /\ 0 < n /\ OWN = [i \in Slots |-> i < n]
      BY <3>1, RingAssumption DEF NICInitRecv, Slots
    <3>. QED BY <3>2
  <2>3. 0 \in Slots /\ Nth(0, 0) = 0
    BY RingAssumption DEF Slots, Nth
  <2>4. c = 0
    <3>1. OWN[Nth(CurrentRBD, 0)]
      BY <2>1, <2>2, <2>3
    <3>. QED BY <1>2, <1>3, <2>3, <3>1 DEF NicAhead
  <2>. QED BY <1>2, <2>4
<1>6. Waiting(0)
  BY <1>3, <1>4 DEF Waiting
<1>7. PathTypeOK
  <2>1. allocated \subseteq Rbds
    BY PathInitInvariant DEF PathIInv, Places
  <2>2. 0 \in 0 .. LoopCount
    BY PathAssumption
  <2>3. /\ RcvRefCount \in Nat /\ OutstandingRecv \in Int
        /\ RecvPendList \subseteq Rbds /\ ndisHeld \subseteq Rbds
        /\ NetBufferLists \subseteq Rbds /\ LoopIndex \in 0 .. LoopCount
    BY <2>2
  <2>4. /\ bAllocNewRecvBuffer \in BOOLEAN /\ IntrStatus \in BOOLEAN
        /\ IntrMask \in BOOLEAN /\ stalled \in BOOLEAN
        /\ bContinue \in BOOLEAN /\ bAllocNew \in BOOLEAN
    OBVIOUS
  <2>. QED BY <1>3, <2>1, <2>3, <2>4 DEF PathTypeOK
<1>8. Batches
  BY DEF Batches, DpcInLoop
<1>. QED BY <1>3, <1>5, <1>6, <1>7, <1>8 DEF OrderInv, InOrder

(* So the order holds of the path, when the pool fits the ring.            *)
LEMMA OrderInvariant == RingRoom => (PathSpec => []Ordered)
<1>. SUFFICES ASSUME RingRoom PROVE PathSpec => []Ordered
  OBVIOUS
<1>1. PathSpec => [](IInv /\ NicInSync)
  BY PathImplementsOper, SyncHolds
<1>2. PathInit => OrderInv
  BY InitInOrder
<1>3. IInv /\ PathIInv /\ OrderInv /\ [PathNext]_pathVars => OrderInv'
  BY OrderStep DEF Ordered
<1>4. IInv /\ NicInSync /\ PathIInv /\ OrderInv => Ordered
  BY DEF Ordered
<1>. QED BY <1>1, <1>2, <1>3, <1>4, PathInvariant, PTL DEF PathSpec

(* The path's variables keep their types: in particular the DPC begins no  *)
(* more than LoopCount batches, the receive references are never negative, *)
(* and every frame the NIC writes goes to an MP_RBD (mp_nic.c:1053-1073,   *)
(* 1097-1107).                                                             *)
THEOREM PathTypesHold == RingRoom => (PathSpec => []PathTypeOK)
<1>1. Ordered => PathTypeOK
  BY DEF Ordered, OrderInv
<1>. QED BY <1>1, OrderInvariant, PTL

(* Frames are indicated in the order they arrived: the pended ones of a    *)
(* batch before those with RESOURCES is that order, however the DPC, the   *)
(* NIC, returns, growth and pauses interleave (mp_nic.c:1144-1265,         *)
(* 1284-1313).                                                             *)
THEOREM FramesInOrderHolds == RingRoom => (PathSpec => []FramesInOrder)
<1>1. Ordered => FramesInOrder
  <2>. SUFFICES ASSUME Ordered, dpc = "indicate"
                PROVE  LET batch == NetBufferList \o FreeNetBufferList
                       IN  /\ Len(batch) <= Len(arrived)
                           /\ batch = SubSeq(arrived, 1, Len(batch))
    BY DEF FramesInOrder
  <2>. DEFINE p == Len(NetBufferList)
              f == Len(FreeNetBufferList)
              batch == NetBufferList \o FreeNetBufferList
  <2>1. PICK c \in 0 .. nReadyRecv : Waiting(c)
    BY DEF Ordered, OrderInv, InOrder
  <2>2. /\ p \in Nat /\ f \in Nat /\ c \in Nat /\ Kept = f /\ Dropped = 0
        /\ arrived \in Seq(Rbds)
    BY Sizes DEF Kept, Dropped
  <2>3. /\ Len(arrived) = p + f + c
        /\ \A k \in 1 .. p : arrived[k] = NetBufferList[k]
        /\ \A k \in 1 .. f : arrived[p + k] = FreeNetBufferList[k]
    <3>1. p + f + 0 = p + f
      BY <2>2
    <3>. HIDE DEF p, f
    <3>. QED BY <2>1, <2>2, <3>1 DEF Waiting, p, f
  <2>4. /\ batch \in Seq(Rbds) /\ Len(batch) = p + f
        /\ \A k \in 1 .. p + f :
             batch[k] = IF k <= p THEN NetBufferList[k]
                        ELSE FreeNetBufferList[k - p]
    BY Sizes
  <2>5. /\ SubSeq(arrived, 1, p + f) \in Seq(Rbds)
        /\ Len(SubSeq(arrived, 1, p + f)) = p + f
        /\ \A k \in 1 .. p + f : SubSeq(arrived, 1, p + f)[k] = arrived[k]
    <3>. HIDE DEF p, f
    <3>. QED BY <2>2, <2>3
  <2>6. ASSUME NEW k \in 1 .. p + f PROVE batch[k] = arrived[k]
    <3>1. CASE k <= p
      BY <2>2, <2>3, <2>4, <3>1
    <3>2. CASE ~ (k <= p)
      <4>1. k - p \in 1 .. f /\ p + (k - p) = k
        BY <2>2, <3>2
      <4>. QED BY <2>3, <2>4, <3>2, <4>1
    <3>. QED BY <3>1, <3>2
  <2>7. batch = SubSeq(arrived, 1, p + f)
    <3>. HIDE DEF batch, p, f
    <3>. QED BY <2>2, <2>4, <2>5, <2>6
  <2>8. p + f <= p + f + c
    BY <2>2
  <2>. HIDE DEF p, f
  <2>. QED BY <2>3, <2>4, <2>7, <2>8
<1>. QED BY <1>1, OrderInvariant, PTL
=============================================================================
