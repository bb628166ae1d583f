--------------------------- MODULE MicrowireProofs ----------------------------
(***************************************************************************)
(* Proofs about the EEPROM and its bus: every routine of a call finds the  *)
(* chip as the routines before it have left it, so a call that succeeds has*)
(* read or written what it was asked for.                                  *)
(*                                                                         *)
(* What a row of clocked bits makes of the chip is computed by functions   *)
(* over 0 .. n; the invariant of the bus says for each call at which place *)
(* of its routines it is, and for the one that was granted the EEPROM what *)
(* the chip has seen of it.                                                *)
(***************************************************************************)
EXTENDS Microwire, NaturalsInduction, WellFoundedInduction, SequenceTheorems, TLAPS

(* A non-empty set of natural numbers has a least element.                 *)
LEMMA NatMin ==
  ASSUME NEW T, T \subseteq Nat, T # {}
  PROVE  \E m \in T : \A n \in T : m <= n
<1>1. PICK m \in T : \A n \in T : ~ (<<n, m>> \in OpToRel(<, Nat))
  BY NatLessThanWellFounded, WFMin, Zenon
<1>2. \A n \in T : ~ (n < m)
  BY <1>1 DEF OpToRel
<1>. HIDE <1>1
<1>3. m \in T
  BY Zenon
<1>. QED BY <1>2, <1>3

(* A set that has 0 and, with each number below n, the next, has them all  *)
(* up to n.                                                                *)
LEMMA UpTo ==
  ASSUME NEW n \in Nat, NEW T, 0 \in T,
         \A i \in 0 .. n : i < n /\ i \in T => i + 1 \in T
  PROVE  \A i \in 0 .. n : i \in T
<1>. SUFFICES ASSUME (0 .. n) \ T # {} PROVE FALSE
  OBVIOUS
<1>1. PICK m \in (0 .. n) \ T : \A i \in (0 .. n) \ T : m <= i
  <2>1. (0 .. n) \ T \subseteq Nat
    OBVIOUS
  <2>. QED BY <2>1, NatMin
<1>2. m # 0 /\ m - 1 \in 0 .. n /\ m - 1 < n /\ m - 1 + 1 = m /\ ~ (m <= m - 1)
  OBVIOUS
<1>3. m - 1 \in T
  BY <1>1, <1>2
<1>. QED BY <1>2, <1>3

-----------------------------------------------------------------------------
(* Recursive functions.  F says what each step makes of what there is: the *)
(* function that starts with a and goes on so exists.                      *)
Follows(s, n, a, F) ==
  s = [i \in 0 .. n |-> IF i = 0 THEN a ELSE F[i][s[i - 1]]]

(* What was computed in n steps can be carried on for one more.            *)
LEMMA FollowsMore ==
  ASSUME NEW n \in Nat, NEW a, NEW F, NEW s, Follows(s, n, a, F)
  PROVE  \E t : Follows(t, n + 1, a, F)
<1>. DEFINE t == [i \in 0 .. n + 1 |-> IF i = n + 1 THEN F[n + 1][s[n]] ELSE s[i]]
<1>1. \A i \in 0 .. n : s[i] = IF i = 0 THEN a ELSE F[i][s[i - 1]]
  BY DEF Follows
<1>2. \A i \in 0 .. n : t[i] = s[i]
  OBVIOUS
<1>3. t[n + 1] = F[n + 1][s[n]] /\ n \in 0 .. n /\ n + 1 \in 0 .. n + 1
  <2>1. n \in 0 .. n /\ n + 1 \in 0 .. n + 1
    OBVIOUS
  <2>. QED BY <2>1, Zenon
<1>4. t = [i \in 0 .. n + 1 |-> t[i]]
  OBVIOUS
<1>. HIDE DEF t
<1>5. ASSUME NEW i \in 0 .. n + 1
      PROVE  t[i] = IF i = 0 THEN a ELSE F[i][t[i - 1]]
  <2>1. CASE i = n + 1
    <3>1. i # 0 /\ i - 1 = n
      BY <2>1
    <3>2. t[i] = F[i][s[n]]
      BY <1>3, <2>1, Zenon
    <3>3. t[i - 1] = s[n]
      BY <1>2, <1>3, <3>1, Zenon
    <3>. QED BY <3>1, <3>2, <3>3, Zenon
  <2>2. CASE i = 0
    <3>1. 0 \in 0 .. n
      OBVIOUS
    <3>. QED BY <1>1, <1>2, <2>2, <3>1, Zenon
  <2>3. CASE i # n + 1 /\ i # 0
    <3>1. i \in 0 .. n /\ i - 1 \in 0 .. n
      BY <2>3
    <3>. QED BY <1>1, <1>2, <2>3, <3>1, Zenon
  <2>. QED BY <2>1, <2>2, <2>3, Zenon
<1>6. t = [i \in 0 .. n + 1 |-> IF i = 0 THEN a ELSE F[i][t[i - 1]]]
  BY <1>4, <1>5, Zenon
<1>7. Follows(t, n + 1, a, F)
  BY <1>6 DEF Follows
<1>. QED BY <1>7

(* Any number of steps can be computed.                                    *)
LEMMA FollowsExists ==
  ASSUME NEW n \in Nat, NEW a, NEW F
  PROVE  \E s : Follows(s, n, a, F)
<1>. DEFINE T == {k \in 0 .. n : \E s : Follows(s, k, a, F)}
<1>1. 0 \in T
  <2>. DEFINE s == [i \in 0 .. 0 |-> a]
  <2>1. s = [i \in 0 .. 0 |-> IF i = 0 THEN a ELSE F[i][s[i - 1]]]
    <3>1. \A i \in 0 .. 0 : i = 0
      OBVIOUS
    <3>. QED BY <3>1, Zenon
  <2>. HIDE DEF s
  <2>2. Follows(s, 0, a, F)
    BY <2>1, Zenon DEF Follows
  <2>. QED BY <2>2
<1>2. \A i \in 0 .. n : i < n /\ i \in T => i + 1 \in T
  BY FollowsMore
<1>3. n \in 0 .. n /\ \A i \in T : \E s : Follows(s, i, a, F)
  OBVIOUS
<1>. HIDE DEF T
<1>4. n \in T
  BY <1>1, <1>2, <1>3, UpTo
<1>. QED BY <1>3, <1>4

(* What such a function is, step by step.                                  *)
LEMMA FollowsSteps ==
  ASSUME NEW n \in Nat, NEW a, NEW F, NEW s, Follows(s, n, a, F)
  PROVE  s[0] = a /\ \A i \in 0 .. n : i < n => s[i + 1] = F[i + 1][s[i]]
<1>1. \A i \in 0 .. n : s[i] = IF i = 0 THEN a ELSE F[i][s[i - 1]]
  BY DEF Follows
<1>2. 0 \in 0 .. n
  OBVIOUS
<1>3. ASSUME NEW i \in 0 .. n, i < n PROVE s[i + 1] = F[i + 1][s[i]]
  <2>1. i + 1 \in 0 .. n /\ i + 1 # 0 /\ i + 1 - 1 = i
    BY <1>3
  <2>2. PICK j \in 0 .. n : j = i + 1
    BY <2>1
  <2>3. j # 0 /\ j - 1 = i
    BY <2>1, <2>2
  <2>4. s[j] = F[j][s[i]]
    BY <1>1, <2>3, Zenon
  <2>. QED BY <2>2, <2>4, Zenon
<1>. QED BY <1>1, <1>2, <1>3, Zenon

(* If every step leads from one set to the next, that is where it stays.   *)
LEMMA FollowsIn ==
  ASSUME NEW n \in Nat, NEW a, NEW F, NEW s, Follows(s, n, a, F),
         NEW R, a \in R[0],
         \A i \in 0 .. n : \A x \in R[i] : i < n => F[i + 1][x] \in R[i + 1]
  PROVE  \A i \in 0 .. n : s[i] \in R[i]
<1>. DEFINE T == {i \in 0 .. n : s[i] \in R[i]}
<1>1. s[0] = a /\ \A i \in 0 .. n : i < n => s[i + 1] = F[i + 1][s[i]]
  BY FollowsSteps
<1>2. 0 \in T
  BY <1>1
<1>3. ASSUME NEW i \in 0 .. n, i < n, i \in T PROVE i + 1 \in T
  <2>1. i + 1 \in 0 .. n
    BY <1>3
  <2>2. s[i + 1] = F[i + 1][s[i]] /\ s[i] \in R[i]
    BY <1>1, <1>3
  <2>3. F[i + 1][s[i]] \in R[i + 1]
    BY <1>3, <2>2
  <2>. QED BY <2>1, <2>2, <2>3
<1>4. \A i \in T : s[i] \in R[i]
  OBVIOUS
<1>. HIDE DEF T
<1>. QED BY <1>2, <1>3, <1>4, UpTo

-----------------------------------------------------------------------------
(* Powers of two, bits and shifts.                                         *)

(* What the bus assumes of its constants, in one place.                    *)
LEMMA Sizes ==
  /\ AddressBits \in Nat /\ AddressBits > 2 /\ WordBits \in Nat /\ WordBits > 0
  /\ CommandBits = 3 + AddressBits /\ CommandBits \in Nat
BY MicrowireAssumption DEF CommandBits, opcode_bits

(* Pow2 doubles from one exponent to the next.                             *)
LEMMA Pow2Steps ==
  /\ Pow2[0] = 1
  /\ \A i \in 0 .. CommandBits + WordBits :
       /\ Pow2[i] \in Nat /\ Pow2[i] > 0
       /\ i < CommandBits + WordBits => Pow2[i + 1] = 2 * Pow2[i]
<1>. DEFINE n == CommandBits + WordBits
            F == [i \in 1 .. n |-> [x \in Nat |-> 2 * x]]
            R == [i \in 0 .. n |-> Nat \ {0}]
<1>1. n \in Nat
  BY Sizes
<1>2. \A i \in 1 .. n : \A x \in Nat : F[i][x] = 2 * x
  OBVIOUS
<1>3. \A i \in 0 .. n : R[i] = Nat \ {0}
  OBVIOUS
<1>. HIDE DEF F, R, n
<1>4. \A i \in 0 .. n : \A x \in R[i] : i < n => F[i + 1][x] \in R[i + 1]
  BY <1>1, <1>2, <1>3
<1>5. 1 \in R[0]
  BY <1>1, <1>3
<1>6. PICK s : Follows(s, n, 1, F)
  BY <1>1, FollowsExists
<1>7. \A i \in 0 .. n : s[i] \in Nat \ {0}
  BY <1>1, <1>3, <1>4, <1>5, <1>6, FollowsIn
<1>8. s = [i \in 0 .. n |-> IF i = 0 THEN 1 ELSE 2 * s[i - 1]]
  <2>1. s = [i \in 0 .. n |-> s[i]]
    BY <1>6 DEF Follows
  <2>2. s[0] = 1 /\ \A i \in 0 .. n : i < n => s[i + 1] = F[i + 1][s[i]]
    BY <1>1, <1>6, FollowsSteps
  <2>3. ASSUME NEW i \in 0 .. n, i # 0 PROVE s[i] = 2 * s[i - 1]
    <3>1. i - 1 \in 0 .. n /\ i - 1 < n /\ i - 1 + 1 = i /\ i \in 1 .. n
      BY <1>1, <2>3
    <3>2. s[i] = F[i][s[i - 1]] /\ s[i - 1] \in Nat
      BY <1>7, <2>2, <3>1
    <3>. QED BY <1>2, <3>1, <3>2
  <2>. QED BY <2>1, <2>2, <2>3
<1>9. Pow2 = [i \in 0 .. n |-> IF i = 0 THEN 1 ELSE 2 * Pow2[i - 1]]
  BY <1>8, Zenon DEF Pow2, n
<1>. DEFINE T == {i \in 0 .. n : Pow2[i] \in Nat \ {0}}
<1>10. 0 \in T /\ Pow2[0] = 1
  BY <1>1, <1>9
<1>11. ASSUME NEW i \in 0 .. n, i < n
       PROVE  Pow2[i + 1] = 2 * Pow2[i] /\ i + 1 \in 0 .. n
  BY <1>1, <1>9, <1>11
<1>12. \A i \in 0 .. n : i < n /\ i \in T => i + 1 \in T
  BY <1>11
<1>13. \A i \in T : Pow2[i] \in Nat \ {0}
  OBVIOUS
<1>. HIDE DEF T
<1>14. \A i \in 0 .. n : i \in T
  BY <1>1, <1>10, <1>12, UpTo
<1>15. \A i \in 0 .. n : Pow2[i] \in Nat /\ Pow2[i] > 0
  BY <1>13, <1>14
<1>. QED BY <1>10, <1>11, <1>15 DEF n

(* A quotient is what divides with a rest below the divisor.               *)
LEMMA DivUnique ==
  ASSUME NEW x \in Nat, NEW p \in Nat, p > 0, NEW q \in Nat, NEW r \in Nat,
         r < p, x = p * q + r
  PROVE  x \div p = q
OBVIOUS

(* A number is its quotient times the divisor plus its rest.               *)
LEMMA DivPart ==
  ASSUME NEW x \in Nat, NEW p \in Nat, p > 0
  PROVE  /\ x \div p \in Nat /\ x % p \in 0 .. p - 1
         /\ x = p * (x \div p) + (x % p)
OBVIOUS

(* Dividing by twice as much leaves out one bit.                           *)
LEMMA DivTwice ==
  ASSUME NEW x \in Nat, NEW p \in Nat, p > 0, NEW d \in Nat, d = 2 * p
  PROVE  x \div p = 2 * (x \div d) + ((x \div p) % 2)
<1>1. PICK q \in Nat, r \in Nat : r < p /\ x = p * q + r /\ q = x \div p
  BY DivPart
<1>2. PICK h \in Nat, b \in 0 .. 1 : q = 2 * h + b /\ b = q % 2
  <2>1. (q % 2) \in 0 .. 1 /\ q = 2 * (q \div 2) + (q % 2) /\ (q \div 2) \in Nat
    BY ONLY q \in Nat, DivPart, 2 \in Nat, 2 > 0, 2 - 1 = 1
  <2>. QED BY <2>1
<1>3. x = d * h + (p * b + r)
  BY <1>1, <1>2
<1>4. p * b + r \in Nat /\ p * b + r < d /\ d > 0
  BY <1>1, <1>2
<1>5. x \div d = h
  <2>1. PICK r2 \in Nat : r2 = p * b + r
    BY <1>4
  <2>2. x = d * h + r2 /\ r2 < d /\ d > 0
    BY <1>3, <1>4, <2>1
  <2>. QED BY ONLY <2>2, x \in Nat, d \in Nat, h \in Nat, r2 \in Nat, DivUnique
<1>. QED BY <1>1, <1>2, <1>5

(* A number without its last j bits has one bit more than without j + 1.   *)
LEMMA NextBit ==
  ASSUME NEW x \in Nat, NEW j \in Nat, j < CommandBits + WordBits
  PROVE  /\ Bit(x, j) \in 0 .. 1
         /\ x \div Pow2[j + 1] \in Nat
         /\ x \div Pow2[j] = 2 * (x \div Pow2[j + 1]) + Bit(x, j)
<1>1. /\ Pow2[j] \in Nat /\ Pow2[j] > 0 /\ Pow2[j + 1] = 2 * Pow2[j]
      /\ Pow2[j + 1] \in Nat /\ Pow2[j + 1] > 0
  BY Pow2Steps, Sizes
<1>2. PICK p \in Nat, d \in Nat : p = Pow2[j] /\ d = Pow2[j + 1] /\ p > 0 /\ d > 0 /\ d = 2 * p
  BY <1>1
<1>. HIDE <1>2
<1>3. x \div p = 2 * (x \div d) + ((x \div p) % 2)
  BY <1>2, DivTwice
<1>4. PICK q \in Nat : q = x \div p
  BY ONLY <1>2, DivPart, x \in Nat
<1>5. x \div d \in Nat
  BY ONLY <1>2, DivPart, x \in Nat
<1>6. (q % 2) \in 0 .. 1
  BY ONLY q \in Nat, DivPart, 2 \in Nat, 2 > 0, 2 - 1 = 1
<1>. QED BY <1>2, <1>3, <1>4, <1>5, <1>6, Zenon DEF Bit

(* A number below Pow2[n] has no bits from n on.                           *)
LEMMA AllBits ==
  ASSUME NEW x \in Nat, NEW n \in 0 .. CommandBits + WordBits, x < Pow2[n]
  PROVE  x \div Pow2[n] = 0 /\ x \div Pow2[0] = x
<1>1. PICK p \in Nat : p = Pow2[n] /\ p > 0 /\ Pow2[0] = 1
  BY Pow2Steps
<1>2. x \div p = 0
  <2>1. x = p * 0 + x /\ x < p
    BY <1>1
  <2>. QED BY ONLY <1>1, <2>1, x \in Nat, 0 \in Nat, DivUnique
<1>3. x \div 1 = x
  OBVIOUS
<1>. QED BY <1>1, <1>2, <1>3, Zenon

(* The power of a sum is the product of the powers.                        *)
LEMMA Pow2Sum ==
  ASSUME NEW a \in Nat, NEW b \in Nat, a + b <= CommandBits + WordBits
  PROVE  Pow2[a + b] = Pow2[a] * Pow2[b]
<1>. DEFINE T == {i \in 0 .. b : Pow2[a + i] = Pow2[a] * Pow2[i]}
<1>. PICK n \in Nat : n = CommandBits + WordBits
  BY Sizes
<1>1. 0 \in T
  BY Pow2Steps
<1>2. ASSUME NEW i \in 0 .. b, i < b, i \in T PROVE i + 1 \in T
  <2>1. /\ a + i \in 0 .. n /\ i \in 0 .. n /\ a \in 0 .. n
        /\ a + i < n /\ i < n /\ i + 1 \in 0 .. b /\ (a + i) + 1 = a + (i + 1)
    BY <1>2
  <2>2. PICK p \in Nat, x \in Nat, y \in Nat :
          p = Pow2[a] /\ x = Pow2[i] /\ y = Pow2[a + i]
    BY <2>1, Pow2Steps
  <2>3. Pow2[a + (i + 1)] = 2 * y /\ Pow2[i + 1] = 2 * x
    BY <2>1, <2>2, Pow2Steps, Zenon
  <2>4. y = p * x
    BY <1>2, <2>2
  <2>5. 2 * y = p * (2 * x)
    BY <2>2, <2>4
  <2>. QED BY <2>1, <2>2, <2>3, <2>5
<1>3. \A i \in T : Pow2[a + i] = Pow2[a] * Pow2[i]
  OBVIOUS
<1>4. b \in 0 .. b
  OBVIOUS
<1>. HIDE DEF T
<1>. QED BY <1>1, <1>2, <1>3, <1>4, UpTo

(* Powers grow with their exponents.                                       *)
LEMMA Pow2Grows ==
  ASSUME NEW a \in Nat, NEW b \in Nat, a <= b, b <= CommandBits + WordBits
  PROVE  Pow2[a] <= Pow2[b]
<1>1. PICK d \in Nat : d = b - a /\ a + d = b
  OBVIOUS
<1>2. PICK p \in Nat, q \in Nat : p = Pow2[a] /\ q = Pow2[d] /\ q > 0
  BY <1>1, Pow2Steps, Sizes
<1>3. Pow2[b] = p * q
  BY <1>1, <1>2, Pow2Sum
<1>4. p <= p * q
  BY <1>2
<1>. QED BY <1>2, <1>3, <1>4

-----------------------------------------------------------------------------
(* The registers of the chip.                                              *)

(* A name for BOOLEAN that the provers need not look into.                 *)
Flags == BOOLEAN

Chips == [count : Nat, opcode : Nat, address : Nat, word : Nat, out : Nat,
          do : 0 .. 1, enabled : BOOLEAN, busy : {<<>>} \cup (Offsets \X Values)]

OpcodeBits(n)  == IF n <= 3 THEN n ELSE 3
AddressedBits(n) ==
  IF n <= 3 THEN 0 ELSE IF n <= CommandBits THEN n - 3 ELSE AddressBits
GatheredBits(n) == IF n <= CommandBits THEN 0 ELSE n - CommandBits

(* The registers hold no more than has been shifted into them, and have    *)
(* room for b more bits: the word that is shifted out has as many left, or *)
(* the command, if it has begun, is short enough.                          *)
Registers(x) ==
  /\ x \in Chips /\ x.count <= CommandBits + WordBits /\ x.out <= WordBits
  /\ x.opcode < Pow2[OpcodeBits(x.count)]
  /\ x.address < Pow2[AddressedBits(x.count)]
  /\ x.word < Pow2[WordBits]
Room(x, b) ==
  \/ b <= x.out /\ x.count >= CommandBits
  \/ /\ x.out = 0 /\ x.count + b <= CommandBits + WordBits
     /\ x.word < Pow2[GatheredBits(x.count)]
Fits(x, b) == Registers(x) /\ Room(x, b)

(* The powers that the sizes of the EEPROM are made of.                    *)
LEMMA Powers ==
  /\ Pow2[0] = 1 /\ Pow2[3] = 8 /\ 3 <= CommandBits
  /\ WordSize \in Nat /\ WordSize > 0 /\ WordSize = Pow2[AddressBits]
  /\ Pow2[WordBits] \in Nat /\ Pow2[WordBits] > 1
<1>1. 0 \in 0 .. CommandBits + WordBits /\ 1 \in 0 .. CommandBits + WordBits
      /\ 2 \in 0 .. CommandBits + WordBits /\ 1 + 1 = 2 /\ 2 + 1 = 3
      /\ AddressBits \in 0 .. CommandBits + WordBits
      /\ WordBits \in 0 .. CommandBits + WordBits
      /\ 0 < CommandBits + WordBits /\ 1 < CommandBits + WordBits
      /\ 2 < CommandBits + WordBits
  BY Sizes
<1>2. Pow2[1] = 2 /\ Pow2[2] = 4 /\ Pow2[3] = 8
  <2>1. Pow2[0 + 1] = 2 * Pow2[0] /\ Pow2[1 + 1] = 2 * Pow2[1] /\ Pow2[2 + 1] = 2 * Pow2[2]
    BY <1>1, Pow2Steps, Zenon
  <2>. QED BY <1>1, <2>1, Pow2Steps
<1>3. Pow2[1] <= Pow2[WordBits]
  BY Sizes, Pow2Grows
<1>. QED BY <1>1, <1>2, <1>3, Pow2Steps, Sizes DEF WordSize

(* One more bit.                                                           *)
LEMMA GatheredIs ==
  ASSUME NEW c \in Chips, NEW di \in 0 .. 1
  PROVE  LET d == Gathered(c, di) IN
         /\ d \in Chips
         /\ d.count = c.count + 1 /\ d.out = c.out /\ d.do = c.do
         /\ d.enabled = c.enabled /\ d.busy = c.busy
         /\ d.opcode = IF c.count < 3 THEN 2 * c.opcode + di ELSE c.opcode
         /\ d.address = IF c.count >= 3 /\ c.count < CommandBits THEN 2 * c.address + di
                        ELSE c.address
         /\ d.word = IF c.count >= CommandBits THEN 2 * c.word + di ELSE c.word
<1>. DEFINE d == Gathered(c, di)
<1>1. /\ d.out = c.out /\ d.do = c.do /\ d.enabled = c.enabled /\ d.busy = c.busy
      /\ d.count = c.count + 1
  BY DEF Gathered, Chips
<1>2. /\ d.opcode = IF c.count < 3 THEN 2 * c.opcode + di ELSE c.opcode
      /\ d.address = IF c.count >= 3 /\ c.count < CommandBits THEN 2 * c.address + di
                     ELSE c.address
      /\ d.word = IF c.count >= CommandBits THEN 2 * c.word + di ELSE c.word
  BY DEF Gathered, Chips, opcode_bits
<1>3. d \in Chips
  <2>1. 2 * c.opcode + di \in Nat /\ 2 * c.address + di \in Nat
        /\ 2 * c.word + di \in Nat /\ c.count + 1 \in Nat
    BY SMTT(30) DEF Chips
  <2>. QED BY <2>1 DEF Gathered, Chips
<1>. QED BY <1>1, <1>2, <1>3

(* A complete command leaves its address; a read also fetches the word.    *)
LEMMA DecodedIs ==
  ASSUME NEW c \in Chips, words \in [Offsets -> Values], c.address \in Offsets
  PROVE  LET d == Decoded(c) IN
         /\ d \in Chips
         /\ d.count = c.count /\ d.opcode = c.opcode /\ d.address = c.address
         /\ d.busy = c.busy
         /\ IF c.opcode = 6
              THEN /\ d.do = 0 /\ d.out = WordBits /\ d.word = words[c.address]
                   /\ d.word \in Values /\ d.enabled = c.enabled
              ELSE d.do = c.do /\ d.out = c.out /\ d.word = c.word
<1>1. CASE c.opcode = 6
  <2>1. Decoded(c) = [c EXCEPT !.do = 0, !.out = WordBits, !.word = words[c.address]]
    BY <1>1 DEF Decoded
  <2>2. words[c.address] \in Values /\ words[c.address] \in Nat
    BY DEF Values
  <2>3. PICK w \in Nat : w = words[c.address] /\ w \in Values
    BY <2>2
  <2>4. Decoded(c) = [c EXCEPT !.do = 0, !.out = WordBits, !.word = w]
    BY <2>1, <2>3, Zenon
  <2>5. WordBits \in Nat /\ 0 \in 0 .. 1
    BY Sizes
  <2>6. [c EXCEPT !.do = 0, !.out = WordBits, !.word = w] \in Chips
    BY ONLY <2>5, c \in Chips, w \in Nat DEF Chips
  <2>. QED BY <1>1, <2>3, <2>4, <2>5, <2>6 DEF Chips
<1>2. CASE c.opcode # 6
  <2>1. \/ Decoded(c) = c
        \/ Decoded(c) = [c EXCEPT !.enabled = TRUE]
        \/ Decoded(c) = [c EXCEPT !.enabled = FALSE]
    BY <1>2 DEF Decoded
  <2>. QED BY <1>2, <2>1 DEF Chips
<1>. QED BY <1>1, <1>2

(* Every bit that is gathered still fits the registers of the chip.        *)
LEMMA GatheredFits ==
  ASSUME NEW c, NEW di \in 0 .. 1, Registers(c), c.out = 0,
         c.count < CommandBits + WordBits, c.word < Pow2[GatheredBits(c.count)]
  PROVE  LET d == Gathered(c, di) IN
         Registers(d) /\ d.out = 0 /\ d.word < Pow2[GatheredBits(d.count)]
<1>1. c \in Chips /\ c.count \in Nat /\ c.opcode \in Nat /\ c.address \in Nat
      /\ c.word \in Nat
  BY DEF Registers, Chips
<1>2. PICK d \in Chips : d = Gathered(c, di)
  BY <1>1, GatheredIs
<1>3. /\ d.count = c.count + 1 /\ d.out = 0
      /\ d.opcode = IF c.count < 3 THEN 2 * c.opcode + di ELSE c.opcode
      /\ d.address = IF c.count >= 3 /\ c.count < CommandBits THEN 2 * c.address + di
                     ELSE c.address
      /\ d.word = IF c.count >= CommandBits THEN 2 * c.word + di ELSE c.word
  BY <1>1, <1>2, GatheredIs
<1>4. d.opcode < Pow2[OpcodeBits(d.count)]
  <2>1. CASE c.count < 3
    <3>1. OpcodeBits(c.count) = c.count /\ OpcodeBits(d.count) = c.count + 1
          /\ c.count \in 0 .. CommandBits + WordBits
          /\ c.count < CommandBits + WordBits
      BY <1>1, <1>3, <2>1, Sizes DEF OpcodeBits
    <3>2. Pow2[c.count + 1] = 2 * Pow2[c.count] /\ Pow2[c.count] \in Nat
          /\ c.opcode < Pow2[c.count]
      BY <3>1, Pow2Steps DEF Registers
    <3>3. 2 * c.opcode + di < 2 * Pow2[c.count]
      BY <1>1, <3>2
    <3>. QED BY <1>3, <2>1, <3>1, <3>2, <3>3
  <2>2. CASE c.count >= 3
    BY <1>1, <1>3, <2>2 DEF OpcodeBits, Registers
  <2>. QED BY <1>1, <2>1, <2>2
<1>5. d.address < Pow2[AddressedBits(d.count)]
  <2>1. CASE c.count >= 3 /\ c.count < CommandBits
    <3>1. PICK k \in Nat : k = c.count - 3
      BY <1>1, <2>1
    <3>2. AddressedBits(c.count) = k /\ AddressedBits(d.count) = k + 1
          /\ k \in 0 .. CommandBits + WordBits /\ k < CommandBits + WordBits
      BY <1>1, <1>3, <2>1, <3>1, Sizes DEF AddressedBits
    <3>3. Pow2[k + 1] = 2 * Pow2[k] /\ Pow2[k] \in Nat /\ c.address < Pow2[k]
      BY <3>2, Pow2Steps DEF Registers
    <3>4. 2 * c.address + di < 2 * Pow2[k]
      BY <1>1, <3>3
    <3>. QED BY <1>3, <2>1, <3>2, <3>3, <3>4
  <2>2. CASE ~ (c.count >= 3 /\ c.count < CommandBits)
    <3>1. AddressedBits(d.count) = AddressedBits(c.count)
      BY <1>1, <1>3, <2>2, Sizes DEF AddressedBits
    <3>. QED BY <1>3, <2>2, <3>1 DEF Registers
  <2>. QED BY <2>1, <2>2
<1>6. d.word < Pow2[GatheredBits(d.count)]
  <2>1. CASE c.count >= CommandBits
    <3>1. PICK k \in Nat : k = c.count - CommandBits
      BY <1>1, <2>1, Sizes
    <3>2. GatheredBits(c.count) = k /\ GatheredBits(d.count) = k + 1
          /\ k \in 0 .. CommandBits + WordBits /\ k < CommandBits + WordBits
      BY <1>1, <1>3, <2>1, <3>1, Sizes DEF GatheredBits
    <3>3. Pow2[k + 1] = 2 * Pow2[k] /\ Pow2[k] \in Nat /\ c.word < Pow2[k]
      BY <3>2, Pow2Steps
    <3>4. 2 * c.word + di < 2 * Pow2[k]
      BY <1>1, <3>3
    <3>. QED BY <1>3, <2>1, <3>2, <3>3, <3>4
  <2>2. CASE c.count < CommandBits
    BY <1>1, <1>3, <2>2, Sizes DEF GatheredBits
  <2>. QED BY <1>1, <2>1, <2>2, Sizes
<1>7. Pow2[GatheredBits(d.count)] <= Pow2[WordBits]
  <2>1. GatheredBits(d.count) \in Nat /\ GatheredBits(d.count) <= WordBits
        /\ WordBits <= CommandBits + WordBits
    BY <1>1, <1>3, Sizes DEF GatheredBits
  <2>. QED BY <2>1, Pow2Grows, Sizes
<1>8. d.word < Pow2[WordBits] /\ d.count <= CommandBits + WordBits /\ d.out <= WordBits
  <2>1. Pow2[GatheredBits(d.count)] \in Nat /\ d.word \in Nat
    <3>1. GatheredBits(d.count) \in 0 .. CommandBits + WordBits
      BY <1>1, <1>3, Sizes DEF GatheredBits
    <3>2. d.word \in Nat
      BY DEF Chips
    <3>. QED BY <3>1, <3>2, Pow2Steps
  <2>. QED BY <1>1, <1>3, <1>6, <1>7, <2>1, Sizes, Powers
<1>. QED BY <1>2, <1>3, <1>4, <1>5, <1>6, <1>8 DEF Registers

(* Registers with room for more bits have room for fewer.                  *)
LEMMA LessRoom ==
  ASSUME NEW c, NEW a \in Nat, NEW b \in Nat, b <= a, Fits(c, a)
  PROVE  Fits(c, b)
<1>1. c.out \in Nat /\ c.count \in Nat
  BY DEF Fits, Registers, Chips
<1>. QED BY <1>1, Sizes DEF Fits, Room

(* A clock takes one bit of the room.                                      *)
LEMMA ClockedFits ==
  ASSUME words \in [Offsets -> Values], NEW c, NEW di \in 0 .. 1,
         NEW b \in Nat, Fits(c, b + 1)
  PROVE  Fits(Clocked(c, di), b)
<1>1. c \in Chips /\ c.out \in Nat /\ c.count \in Nat /\ c.word \in Nat
  BY DEF Fits, Registers, Chips
<1>2. CASE c.out > 0
  <2>1. b + 1 <= c.out /\ c.count >= CommandBits /\ c.out <= WordBits
    BY <1>1, <1>2 DEF Fits, Room, Registers
  <2>2. PICK n \in Nat : n = c.out - 1 /\ b <= n /\ n < CommandBits + WordBits
    BY <1>1, <1>2, <2>1, Sizes
  <2>3. PICK x \in 0 .. 1 : x = Bit(c.word, n)
    BY <1>1, <2>2, NextBit
  <2>4. Clocked(c, di) = [c EXCEPT !.do = x, !.out = n]
    BY <1>2, <2>2, <2>3, Zenon DEF Clocked
  <2>5. [c EXCEPT !.do = x, !.out = n] \in Chips
    BY <1>1 DEF Chips
  <2>6. PICK d \in Chips : d = [c EXCEPT !.do = x, !.out = n]
    BY <2>5
  <2>7. d.count = c.count /\ d.out = n /\ d.opcode = c.opcode
        /\ d.address = c.address /\ d.word = c.word
    BY <1>1, <2>6 DEF Chips
  <2>8. Registers(d)
    BY <1>1, <2>1, <2>2, <2>7, Sizes DEF Fits, Registers
  <2>9. Room(d, b)
    BY <2>1, <2>2, <2>7 DEF Room
  <2>. QED BY <2>4, <2>6, <2>8, <2>9, Zenon DEF Fits
<1>3. CASE c.out = 0 /\ c.count = 0 /\ di = 0
  <2>1. Clocked(c, di) = c
    BY <1>3 DEF Clocked
  <2>. QED BY <2>1, LessRoom
<1>4. CASE c.out = 0 /\ ~ (c.count = 0 /\ di = 0)
  <2>1. c.count + (b + 1) <= CommandBits + WordBits
        /\ c.word < Pow2[GatheredBits(c.count)]
    BY <1>1, <1>4 DEF Fits, Room
  <2>2. PICK d : d = Gathered(c, di)
    OBVIOUS
  <2>3. Registers(d) /\ d.out = 0 /\ d.word < Pow2[GatheredBits(d.count)]
    BY <1>1, <1>4, <2>1, <2>2, GatheredFits, Sizes DEF Fits
  <2>4. d.count = c.count + 1
    BY <1>1, <2>2, GatheredIs
  <2>5. Room(d, b)
    BY <1>1, <2>1, <2>3, <2>4, Sizes DEF Room
  <2>6. CASE d.count # CommandBits
    <3>1. Clocked(c, di) = d
      BY <1>4, <2>2, <2>6 DEF Clocked
    <3>. QED BY <2>3, <2>5, <3>1 DEF Fits
  <2>7. CASE d.count = CommandBits
    <3>1. Clocked(c, di) = Decoded(d)
      BY <1>4, <2>2, <2>7 DEF Clocked
    <3>2. d \in Chips /\ d.address \in Offsets
      <4>1. AddressedBits(d.count) = AddressBits
        BY <2>7, Sizes DEF AddressedBits
      <4>2. d.address \in Nat /\ d.address < Pow2[AddressBits]
        BY <2>3, <4>1 DEF Registers, Chips
      <4>. QED BY <2>3, <4>2, Powers DEF Registers, Offsets
    <3>3. PICK e : e = Decoded(d)
      OBVIOUS
    <3>4. /\ e \in Chips
          /\ e.count = d.count /\ e.opcode = d.opcode /\ e.address = d.address
          /\ IF d.opcode = 6 THEN e.out = WordBits /\ e.word \in Values
             ELSE e.out = d.out /\ e.word = d.word
      BY <3>2, <3>3, DecodedIs
    <3>5. e.word < Pow2[WordBits] /\ e.out <= WordBits
      BY <2>3, <3>4, Sizes, Powers DEF Values, Registers
    <3>6. Registers(e)
      BY <2>3, <3>4, <3>5 DEF Registers
    <3>7. Room(e, b)
      <4>1. b <= WordBits
        BY <1>1, <2>1, <2>4, <2>7, Sizes
      <4>2. d.opcode = 6 => Room(e, b)
        BY <2>7, <3>4, <4>1, Sizes DEF Room
      <4>3. d.opcode # 6 => Room(e, b)
        <5>1. d.count + b <= CommandBits + WordBits
          BY <1>1, <2>1, <2>4, Sizes
        <5>. QED BY <2>3, <3>4, <5>1 DEF Room
      <4>. QED BY <4>2, <4>3
    <3>. QED BY <3>1, <3>3, <3>6, <3>7 DEF Fits
  <2>. QED BY <2>6, <2>7
<1>. QED BY <1>1, <1>2, <1>3, <1>4

(* While the chip is busy it ignores the clock.                            *)
Tick(c, di) == IF c.busy = <<>> THEN Clocked(c, di) ELSE c

(* A clock uses up the room of one bit.                                    *)
LEMMA TickFits ==
  ASSUME words \in [Offsets -> Values], NEW c, NEW di \in 0 .. 1,
         NEW b \in Nat, Fits(c, b + 1)
  PROVE  Fits(Tick(c, di), b)
<1>1. Fits(c, b)
  BY LessRoom
<1>. QED BY <1>1, ClockedFits DEF Tick

(* A chip that has been deselected has room for a whole command.           *)
LEMMA DeselectedFits ==
  ASSUME NEW c, Registers(c)
  PROVE  LET d == Deselected(c) IN
         /\ Fits(d, CommandBits + WordBits)
         /\ d.count = 0 /\ d.opcode = 0 /\ d.address = 0 /\ d.word = 0 /\ d.out = 0
         /\ d.busy = IF IsWrite(c) THEN <<c.address, c.word>> ELSE c.busy
         /\ d.do = IF d.busy = <<>> THEN 1 ELSE 0
         /\ d.enabled = c.enabled
<1>1. /\ c \in Chips /\ c.enabled \in BOOLEAN /\ c.count \in Nat /\ c.address \in Nat
      /\ c.word \in Nat /\ c.busy \in {<<>>} \cup (Offsets \X Values)
  BY DEF Registers, Chips
<1>2. IsWrite(c) => <<c.address, c.word>> \in Offsets \X Values
  <2>1. SUFFICES ASSUME IsWrite(c) PROVE c.address \in Offsets /\ c.word \in Values
    OBVIOUS
  <2>2. AddressedBits(c.count) = AddressBits
    BY <2>1, Sizes DEF IsWrite, AddressedBits
  <2>. QED BY <1>1, <2>2, Powers DEF Registers, Offsets, Values
<1>3. PICK busy \in {<<>>} \cup (Offsets \X Values) :
        busy = IF IsWrite(c) THEN <<c.address, c.word>> ELSE c.busy
  BY <1>1, <1>2
<1>4. PICK do \in 0 .. 1 : do = IF busy = <<>> THEN 1 ELSE 0
  OBVIOUS
<1>5. PICK en \in BOOLEAN : en = c.enabled
  BY <1>1
<1>6. Deselected(c) = [NewChip EXCEPT !.do = do, !.enabled = en, !.busy = busy]
  BY <1>3, <1>4, <1>5, Zenon DEF Deselected
<1>7. PICK d : d = [NewChip EXCEPT !.do = do, !.enabled = en, !.busy = busy]
  OBVIOUS
<1>8. /\ d \in Chips /\ d.count = 0 /\ d.opcode = 0 /\ d.address = 0 /\ d.word = 0
      /\ d.out = 0 /\ d.do = do /\ d.enabled = en /\ d.busy = busy
  BY <1>7 DEF Chips, NewChip
<1>9. Registers(d)
  BY <1>8, Powers, Sizes DEF Registers, OpcodeBits, AddressedBits
<1>10. Room(d, CommandBits + WordBits)
  BY <1>8, Powers, Sizes DEF Room, GatheredBits
<1>. QED BY <1>3, <1>4, <1>5, <1>6, <1>7, <1>8, <1>9, <1>10, Zenon DEF Fits

-----------------------------------------------------------------------------
(* What the routines make of the chip and the pins.                        *)

(* The parts of a state of the bus and of the pins.                        *)
LEMMA AtIs ==
  ASSUME NEW c, NEW p, NEW d, NEW cs, NEW sk, NEW di
  PROVE  /\ At(c, p, d).chip = c /\ At(c, p, d).pins = p /\ At(c, p, d).data = d
         /\ Pins(cs, sk, di).cs = cs /\ Pins(cs, sk, di).sk = sk
         /\ Pins(cs, sk, di).di = di
BY DEF At, Pins

(* What the chip makes of a change of the pins.                            *)
LEMMA SeenIs ==
  ASSUME NEW c, NEW cs, NEW sk, NEW di, NEW cs2, NEW sk2, NEW di2
  PROVE  Seen(c, Pins(cs, sk, di), Pins(cs2, sk2, di2)) =
           IF cs = 1 /\ cs2 = 0 THEN Deselected(c)
           ELSE IF cs2 = 1 /\ sk = 0 /\ sk2 = 1 THEN Tick(c, di2) ELSE c
BY Zenon DEF Seen, Pins, Tick

(* What each write of one pin makes of the chip and of the data.           *)
LEMMA PinWrites ==
  ASSUME NEW c, NEW cs, NEW sk, NEW di, NEW d
  PROVE  /\ raise_eec_clk(At(c, Pins(cs, sk, di), d))
              = At(Seen(c, Pins(cs, sk, di), Pins(cs, 1, di)), Pins(cs, 1, di), d)
         /\ lower_eec_clk(At(c, Pins(cs, sk, di), d))
              = At(Seen(c, Pins(cs, sk, di), Pins(cs, 0, di)), Pins(cs, 0, di), d)
         /\ read_do(At(c, Pins(cs, sk, di), d)) = At(c, Pins(cs, sk, di), 2 * d + c.do)
         /\ \A x : /\ write_di(At(c, Pins(cs, sk, di), d), x)
                      = At(Seen(c, Pins(cs, sk, di), Pins(cs, sk, x)), Pins(cs, sk, x), d)
                  /\ write_cs(At(c, Pins(cs, sk, di), d), x)
                      = At(Seen(c, Pins(cs, sk, di), Pins(x, sk, di)), Pins(x, sk, di), d)
BY AtIs DEF raise_eec_clk, lower_eec_clk, write_sk, write_di, write_cs, Write,
   read_do

(* One bit out, and one bit in.                                            *)
LEMMA BitOut ==
  ASSUME NEW c, NEW d, NEW x, NEW b
  PROVE  /\ lower_eec_clk(raise_eec_clk(write_di(At(c, Pins(1, 0, x), d), b)))
              = At(Tick(c, b), Pins(1, 0, b), d)
         /\ write_di(At(c, Pins(1, 0, x), d), 0) = At(c, Pins(1, 0, 0), d)
<1>1. ASSUME NEW e
      PROVE  write_di(At(c, Pins(1, 0, x), d), e) = At(c, Pins(1, 0, e), d)
  <2>1. Seen(c, Pins(1, 0, x), Pins(1, 0, e)) = c
    BY SeenIs
  <2>. QED BY <2>1, PinWrites
<1>2. raise_eec_clk(At(c, Pins(1, 0, b), d)) = At(Tick(c, b), Pins(1, 1, b), d)
  <2>1. Seen(c, Pins(1, 0, b), Pins(1, 1, b)) = Tick(c, b)
    BY SeenIs
  <2>. QED BY <2>1, PinWrites
<1>3. ASSUME NEW e
      PROVE  lower_eec_clk(At(e, Pins(1, 1, b), d)) = At(e, Pins(1, 0, b), d)
  <2>1. Seen(e, Pins(1, 1, b), Pins(1, 0, b)) = e
    BY SeenIs
  <2>. QED BY <2>1, PinWrites
<1>. QED BY <1>1, <1>2, <1>3

(* One bit is shifted in by one clock.                                     *)
LEMMA BitIn ==
  ASSUME NEW c, NEW d
  PROVE  lower_eec_clk(read_do(raise_eec_clk(At(c, Pins(1, 0, 0), d))))
           = At(Tick(c, 0), Pins(1, 0, 0), 2 * d + Tick(c, 0).do)
<1>1. raise_eec_clk(At(c, Pins(1, 0, 0), d)) = At(Tick(c, 0), Pins(1, 1, 0), d)
  <2>1. Seen(c, Pins(1, 0, 0), Pins(1, 1, 0)) = Tick(c, 0)
    BY SeenIs
  <2>. QED BY <2>1, PinWrites
<1>2. ASSUME NEW e
      PROVE  read_do(At(e, Pins(1, 1, 0), d)) = At(e, Pins(1, 1, 0), 2 * d + e.do)
  BY PinWrites
<1>3. ASSUME NEW e, NEW n
      PROVE  lower_eec_clk(At(e, Pins(1, 1, 0), n)) = At(e, Pins(1, 0, 0), n)
  <2>1. Seen(e, Pins(1, 1, 0), Pins(1, 0, 0)) = e
    BY SeenIs
  <2>. QED BY <2>1, PinWrites
<1>. QED BY <1>1, <1>2, <1>3

(* Standby and stop deselect the chip once, and clock it no more.          *)
LEMMA StandbyIs ==
  ASSUME NEW c, NEW d
  PROVE  standby_nvm(At(c, Pins(1, 0, 0), d)) = At(Deselected(c), Pins(1, 0, 0), d)
<1>1. Write(At(c, Pins(1, 0, 0), d), Pins(0, 0, 0)) = At(Deselected(c), Pins(0, 0, 0), d)
  <2>1. Seen(c, Pins(1, 0, 0), Pins(0, 0, 0)) = Deselected(c)
    BY SeenIs
  <2>. QED BY <2>1, AtIs DEF Write
<1>2. ASSUME NEW e
      PROVE  raise_eec_clk(At(e, Pins(0, 0, 0), d)) = At(e, Pins(0, 1, 0), d)
  <2>1. Seen(e, Pins(0, 0, 0), Pins(0, 1, 0)) = e
    BY SeenIs
  <2>. QED BY <2>1, PinWrites
<1>3. ASSUME NEW e
      PROVE  write_cs(At(e, Pins(0, 1, 0), d), 1) = At(e, Pins(1, 1, 0), d)
  <2>1. Seen(e, Pins(0, 1, 0), Pins(1, 1, 0)) = e
    BY SeenIs
  <2>. QED BY <2>1, PinWrites
<1>4. ASSUME NEW e
      PROVE  lower_eec_clk(At(e, Pins(1, 1, 0), d)) = At(e, Pins(1, 0, 0), d)
  <2>1. Seen(e, Pins(1, 1, 0), Pins(1, 0, 0)) = e
    BY SeenIs
  <2>. QED BY <2>1, PinWrites
<1>. QED BY <1>1, <1>2, <1>3, <1>4, AtIs DEF standby_nvm

(* stop_nvm deselects the chip.                                            *)
LEMMA StopIs ==
  ASSUME NEW c, NEW d
  PROVE  stop_nvm(At(c, Pins(1, 0, 0), d)) = At(Deselected(c), Pins(0, 0, 0), d)
<1>1. Write(At(c, Pins(1, 0, 0), d), Pins(0, 0, 0)) = At(Deselected(c), Pins(0, 0, 0), d)
  <2>1. Seen(c, Pins(1, 0, 0), Pins(0, 0, 0)) = Deselected(c)
    BY SeenIs
  <2>. QED BY <2>1, AtIs DEF Write
<1>2. ASSUME NEW e
      PROVE  lower_eec_clk(raise_eec_clk(At(e, Pins(0, 0, 0), d))) = At(e, Pins(0, 0, 0), d)
  <2>1. Seen(e, Pins(0, 0, 0), Pins(0, 1, 0)) = e
    BY SeenIs
  <2>2. Seen(e, Pins(0, 1, 0), Pins(0, 0, 0)) = e
    BY SeenIs
  <2>. QED BY <2>1, <2>2, PinWrites
<1>. QED BY <1>1, <1>2, AtIs DEF stop_nvm

(* ready_nvm_eeprom selects the chip.                                      *)
LEMMA ReadyIs ==
  ASSUME NEW c, NEW d
  PROVE  ready_nvm_eeprom(At(c, Pins(0, 0, 0), d)) = At(c, Pins(1, 0, 0), d)
<1>1. Write(At(c, Pins(0, 0, 0), d), Pins(0, 0, 0)) = At(c, Pins(0, 0, 0), d)
  <2>1. Seen(c, Pins(0, 0, 0), Pins(0, 0, 0)) = c
    BY SeenIs
  <2>. QED BY <2>1, AtIs DEF Write
<1>2. write_cs(At(c, Pins(0, 0, 0), d), 1) = At(c, Pins(1, 0, 0), d)
  <2>1. Seen(c, Pins(0, 0, 0), Pins(1, 0, 0)) = c
    BY SeenIs
  <2>. QED BY <2>1, PinWrites
<1>. QED BY <1>1, <1>2, AtIs DEF ready_nvm_eeprom

-----------------------------------------------------------------------------
(* The loops over bits.  e[i] is the chip after i bits.                    *)

OutLoop(s, at, value, count) ==
  s = [i \in 0 .. count |->
         IF i = 0 THEN at
         ELSE lower_eec_clk(raise_eec_clk(write_di(s[i - 1], Bit(value, count - i))))]

InLoop(s, at, count) ==
  s = [i \in 0 .. count |->
         IF i = 0 THEN at ELSE lower_eec_clk(read_do(raise_eec_clk(s[i - 1])))]

(* Shifting bits out is a row of clocks, the highest bit first.            *)
LEMMA ShiftOutIs ==
  ASSUME NEW count \in Nat, NEW value, NEW d, NEW e,
         \A i \in 0 .. count : i < count => e[i + 1] = Tick(e[i], Bit(value, count - (i + 1)))
  PROVE  shift_out_eec_bits(At(e[0], Pins(1, 0, 0), d), value, count)
           = At(e[count], Pins(1, 0, 0), d)
<1>. DEFINE at == At(e[0], Pins(1, 0, 0), d)
            P(i) == Pins(1, 0, IF i = 0 THEN 0 ELSE Bit(value, count - i))
            t == [i \in 0 .. count |-> At(e[i], P(i), d)]
            Next1(a, i) == lower_eec_clk(raise_eec_clk(write_di(a, Bit(value, count - i))))
<1>1. ASSUME NEW i \in 0 .. count, i < count
      PROVE  Next1(At(e[i], P(i), d), i + 1) = At(e[i + 1], P(i + 1), d)
  <2>1. i + 1 # 0
    OBVIOUS
  <2>2. P(i + 1) = Pins(1, 0, Bit(value, count - (i + 1)))
    BY <2>1, Zenon
  <2>3. PICK x : P(i) = Pins(1, 0, x)
    OBVIOUS
  <2>4. e[i + 1] = Tick(e[i], Bit(value, count - (i + 1)))
    BY <1>1
  <2>. HIDE DEF P
  <2>. QED BY <2>2, <2>3, <2>4, BitOut
<1>2. At(e[0], P(0), d) = at
  OBVIOUS
<1>3. \A i \in 0 .. count : t[i] = At(e[i], P(i), d)
  OBVIOUS
<1>4. t = [i \in 0 .. count |-> t[i]]
  OBVIOUS
<1>. HIDE DEF P, at, t, Next1
<1>5. \A i \in 0 .. count : t[i] = IF i = 0 THEN at ELSE Next1(t[i - 1], i)
  <2>. TAKE i \in 0 .. count
  <2>1. CASE i = 0
    BY <1>2, <1>3, <2>1
  <2>2. CASE i # 0
    <3>1. PICK j \in 0 .. count : j < count /\ j + 1 = i /\ i - 1 = j
      BY <2>2
    <3>2. Next1(At(e[j], P(j), d), i) = At(e[i], P(i), d)
      BY <1>1, <3>1
    <3>. QED BY <1>3, <2>2, <3>1, <3>2
  <2>. QED BY <2>1, <2>2
<1>6. OutLoop(t, at, value, count)
  <2>1. t = [i \in 0 .. count |-> IF i = 0 THEN at ELSE Next1(t[i - 1], i)]
    BY <1>4, <1>5, Zenon
  <2>. QED BY <2>1, Zenon DEF OutLoop, Next1
<1>7. ASSUME NEW s, OutLoop(s, at, value, count)
      PROVE  s[count] = At(e[count], P(count), d)
  <2>. DEFINE T == {i \in 0 .. count : s[i] = At(e[i], P(i), d)}
  <2>1. \A i \in 0 .. count : s[i] = IF i = 0 THEN at ELSE Next1(s[i - 1], i)
    BY <1>7, Zenon DEF OutLoop, Next1
  <2>2. 0 \in T
    BY <1>2, <2>1
  <2>3. ASSUME NEW i \in 0 .. count, i < count, i \in T PROVE i + 1 \in T
    <3>1. PICK j \in 0 .. count : j = i + 1 /\ j - 1 = i /\ j # 0
      BY <2>3
    <3>2. s[j] = Next1(s[i], j)
      BY <2>1, <3>1
    <3>3. Next1(At(e[i], P(i), d), j) = At(e[j], P(j), d)
      BY <1>1, <2>3, <3>1
    <3>. QED BY <2>3, <3>1, <3>2, <3>3
  <2>4. \A i \in T : s[i] = At(e[i], P(i), d)
    OBVIOUS
  <2>5. count \in 0 .. count
    OBVIOUS
  <2>. HIDE DEF T
  <2>. QED BY <2>2, <2>3, <2>4, <2>5, UpTo
<1>8. PICK s : OutLoop(s, at, value, count)
               /\ shift_out_eec_bits(at, value, count) = write_di(s[count], 0)
  <2>. DEFINE c == CHOOSE s : OutLoop(s, at, value, count)
  <2>1. OutLoop(c, at, value, count)
    BY <1>6, Zenon
  <2>2. shift_out_eec_bits(at, value, count) = write_di(c[count], 0)
    BY DEF shift_out_eec_bits, OutLoop
  <2>. QED BY <2>1, <2>2
<1>9. PICK x : P(count) = Pins(1, 0, x)
  BY DEF P
<1>10. write_di(At(e[count], Pins(1, 0, x), d), 0) = At(e[count], Pins(1, 0, 0), d)
  BY BitOut
<1>. QED BY <1>7, <1>8, <1>9, <1>10 DEF at

(* Shifting bits in is a row of clocks that read the output of the chip.   *)
LEMMA ShiftInIs ==
  ASSUME NEW count \in Nat, NEW e, NEW n, n[0] = 0,
         \A i \in 0 .. count : i < count => /\ e[i + 1] = Tick(e[i], 0)
                                            /\ n[i + 1] = 2 * n[i] + e[i + 1].do
  PROVE  shift_in_eec_bits(At(e[0], Pins(1, 0, 0), 0), count)
           = At(e[count], Pins(1, 0, 0), n[count])
<1>. DEFINE at == At(e[0], Pins(1, 0, 0), 0)
            A(i) == At(e[i], Pins(1, 0, 0), n[i])
            t == [i \in 0 .. count |-> A(i)]
            Next1(a) == lower_eec_clk(read_do(raise_eec_clk(a)))
<1>1. ASSUME NEW i \in 0 .. count, i < count PROVE Next1(A(i)) = A(i + 1)
  BY <1>1, BitIn
<1>2. A(0) = at
  OBVIOUS
<1>3. \A i \in 0 .. count : t[i] = A(i)
  OBVIOUS
<1>4. t = [i \in 0 .. count |-> t[i]]
  OBVIOUS
<1>. HIDE DEF A, at, t, Next1
<1>5. \A i \in 0 .. count : t[i] = IF i = 0 THEN at ELSE Next1(t[i - 1])
  <2>. TAKE i \in 0 .. count
  <2>1. CASE i = 0
    BY <1>2, <1>3, <2>1
  <2>2. CASE i # 0
    <3>1. PICK j \in 0 .. count : j < count /\ j + 1 = i /\ i - 1 = j
      BY <2>2
    <3>2. Next1(A(j)) = A(i)
      BY <1>1, <3>1
    <3>. QED BY <1>3, <2>2, <3>1, <3>2
  <2>. QED BY <2>1, <2>2
<1>6. InLoop(t, at, count)
  <2>1. t = [i \in 0 .. count |-> IF i = 0 THEN at ELSE Next1(t[i - 1])]
    BY <1>4, <1>5, Zenon
  <2>. QED BY <2>1, Zenon DEF InLoop, Next1
<1>7. ASSUME NEW s, InLoop(s, at, count) PROVE s[count] = A(count)
  <2>. DEFINE T == {i \in 0 .. count : s[i] = A(i)}
  <2>1. \A i \in 0 .. count : s[i] = IF i = 0 THEN at ELSE Next1(s[i - 1])
    BY <1>7, Zenon DEF InLoop, Next1
  <2>2. 0 \in T
    BY <1>2, <2>1
  <2>3. ASSUME NEW i \in 0 .. count, i < count, i \in T PROVE i + 1 \in T
    <3>1. PICK j \in 0 .. count : j = i + 1 /\ j - 1 = i /\ j # 0
      BY <2>3
    <3>2. s[j] = Next1(s[i])
      BY <2>1, <3>1
    <3>3. Next1(A(i)) = A(j)
      BY <1>1, <2>3, <3>1
    <3>. QED BY <2>3, <3>1, <3>2, <3>3
  <2>4. \A i \in T : s[i] = A(i)
    OBVIOUS
  <2>5. count \in 0 .. count
    OBVIOUS
  <2>. HIDE DEF T
  <2>. QED BY <2>2, <2>3, <2>4, <2>5, UpTo
<1>8. PICK s : InLoop(s, at, count) /\ shift_in_eec_bits(at, count) = s[count]
  <2>. DEFINE c == CHOOSE s : InLoop(s, at, count)
  <2>1. InLoop(c, at, count)
    BY <1>6, Zenon
  <2>2. shift_in_eec_bits(at, count) = c[count]
    BY DEF shift_in_eec_bits, InLoop
  <2>. QED BY <2>1, <2>2
<1>. QED BY <1>7, <1>8 DEF at, A

(* The chip keeps room for the bits that are still to come, whatever is    *)
(* shifted out or in.                                                      *)
LEMMA OutFits ==
  ASSUME words \in [Offsets -> Values], NEW c,
         NEW r \in [value : Nat, count : Nat, room : Nat],
         r.count <= CommandBits + WordBits, Fits(c, r.room + r.count)
  PROVE  \E e : /\ Fits(e, r.room)
                /\ shift_out_eec_bits(At(c, Pins(1, 0, 0), 0), r.value, r.count)
                     = At(e, Pins(1, 0, 0), 0)
<1>. PICK value \in Nat, count \in Nat, b \in Nat :
       value = r.value /\ count = r.count /\ b = r.room
  OBVIOUS
<1>0. count <= CommandBits + WordBits /\ Fits(c, b + count)
  OBVIOUS
<1>. DEFINE F == [i \in 1 .. count |-> [x \in Chips |-> Tick(x, Bit(value, count - i))]]
            R == [i \in 0 .. count |-> {x \in Chips : Fits(x, b + (count - i))}]
<1>1. \A i \in 1 .. count : \A x \in Chips : F[i][x] = Tick(x, Bit(value, count - i))
  OBVIOUS
<1>2. \A i \in 0 .. count : \A x : x \in R[i] <=> x \in Chips /\ Fits(x, b + (count - i))
  OBVIOUS
<1>. HIDE DEF F, R
<1>3. \A x, n : Fits(x, n) => x \in Chips
  BY DEF Fits, Registers
<1>4. c \in R[0]
  <2>1. 0 \in 0 .. count /\ b + (count - 0) = b + count
    OBVIOUS
  <2>. QED BY <1>0, <1>2, <1>3, <2>1
<1>5. ASSUME NEW i \in 0 .. count, i < count, NEW x \in R[i]
      PROVE  F[i + 1][x] \in R[i + 1] /\ F[i + 1][x] = Tick(x, Bit(value, count - (i + 1)))
  <2>1. PICK m \in Nat : m = count - (i + 1) /\ m < CommandBits + WordBits
    BY <1>0, <1>5, Sizes
  <2>2. Bit(value, m) \in 0 .. 1
    BY <2>1, NextBit
  <2>3. b + (count - i) = (b + m) + 1 /\ b + m \in Nat /\ b + (count - (i + 1)) = b + m
        /\ i + 1 \in 1 .. count /\ i + 1 \in 0 .. count
    BY <1>5, <2>1
  <2>4. x \in Chips /\ Fits(x, (b + m) + 1)
    BY <1>2, <2>3
  <2>5. Fits(Tick(x, Bit(value, m)), b + m)
    BY <2>2, <2>3, <2>4, TickFits
  <2>6. F[i + 1][x] = Tick(x, Bit(value, m))
    BY <1>1, <2>1, <2>3, <2>4
  <2>. QED BY <1>2, <1>3, <2>1, <2>3, <2>5, <2>6
<1>6. PICK e : Follows(e, count, c, F)
  BY FollowsExists
<1>7. \A i \in 0 .. count : e[i] \in R[i]
  BY <1>4, <1>5, <1>6, FollowsIn
<1>8. e[0] = c /\ \A i \in 0 .. count : i < count => e[i + 1] = F[i + 1][e[i]]
  BY <1>6, FollowsSteps
<1>9. \A i \in 0 .. count : i < count => e[i + 1] = Tick(e[i], Bit(value, count - (i + 1)))
  BY <1>5, <1>7, <1>8
<1>10. shift_out_eec_bits(At(e[0], Pins(1, 0, 0), 0), value, count)
         = At(e[count], Pins(1, 0, 0), 0)
  BY <1>9, ShiftOutIs
<1>11. Fits(e[count], b)
  <2>1. count \in 0 .. count /\ b + (count - count) = b
    OBVIOUS
  <2>. QED BY <1>2, <1>7, <2>1
<1>. QED BY <1>8, <1>10, <1>11

(* Shifting a word in leaves registers that still fit.                     *)
LEMMA InFits ==
  ASSUME words \in [Offsets -> Values], NEW c,
         NEW count \in Nat, count <= CommandBits + WordBits,
         NEW b \in Nat, Fits(c, b + count)
  PROVE  \E e, n : /\ Fits(e, b) /\ n \in Nat /\ n < Pow2[count]
                   /\ shift_in_eec_bits(At(c, Pins(1, 0, 0), 0), count)
                        = At(e, Pins(1, 0, 0), n)
<1>. DEFINE F == [i \in 1 .. count |->
                    [x \in Chips \X Nat |-> <<Tick(x[1], 0), 2 * x[2] + Tick(x[1], 0).do>>]]
            R == [i \in 0 .. count |->
                    {x \in Chips \X Nat : Fits(x[1], b + (count - i)) /\ x[2] < Pow2[i]}]
<1>1. \A i \in 1 .. count : \A x \in Chips \X Nat :
        F[i][x] = <<Tick(x[1], 0), 2 * x[2] + Tick(x[1], 0).do>>
  OBVIOUS
<1>2. \A i \in 0 .. count : \A x :
        x \in R[i] <=> x \in Chips \X Nat /\ Fits(x[1], b + (count - i)) /\ x[2] < Pow2[i]
  OBVIOUS
<1>. HIDE DEF F, R
<1>3. \A x, n : Fits(x, n) => x \in Chips /\ x.do \in 0 .. 1
  BY DEF Fits, Registers, Chips
<1>4. <<c, 0>> \in R[0]
  <2>1. 0 \in 0 .. count /\ b + (count - 0) = b + count /\ 0 < Pow2[0]
    BY Powers
  <2>2. c \in Chips
    BY <1>3
  <2>. QED BY <1>2, <2>1, <2>2
<1>5. ASSUME NEW i \in 0 .. count, i < count, NEW x \in R[i]
      PROVE  /\ F[i + 1][x] \in R[i + 1]
             /\ F[i + 1][x] = <<Tick(x[1], 0), 2 * x[2] + Tick(x[1], 0).do>>
  <2>1. PICK m \in Nat : m = count - (i + 1)
    BY <1>5
  <2>2. b + (count - i) = (b + m) + 1 /\ b + m \in Nat /\ b + (count - (i + 1)) = b + m
        /\ i + 1 \in 1 .. count /\ i + 1 \in 0 .. count
        /\ i \in 0 .. CommandBits + WordBits /\ i < CommandBits + WordBits
    BY <1>5, <2>1, Sizes
  <2>3. PICK y \in Chips, n \in Nat : x = <<y, n>> /\ Fits(y, (b + m) + 1) /\ n < Pow2[i]
    BY <1>2, <2>2
  <2>4. PICK z : z = Tick(y, 0)
    OBVIOUS
  <2>5. Fits(z, b + m) /\ z \in Chips /\ z.do \in 0 .. 1
    BY <1>3, <2>2, <2>3, <2>4, TickFits
  <2>6. F[i + 1][x] = <<z, 2 * n + z.do>>
    BY <1>1, <2>2, <2>3, <2>4
  <2>7. Pow2[i + 1] = 2 * Pow2[i] /\ Pow2[i] \in Nat
    BY <2>2, Pow2Steps
  <2>8. 2 * n + z.do \in Nat /\ 2 * n + z.do < Pow2[i + 1]
    BY <2>3, <2>5, <2>7
  <2>. QED BY <1>2, <2>2, <2>3, <2>4, <2>5, <2>6, <2>8
<1>6. PICK s : Follows(s, count, <<c, 0>>, F)
  BY FollowsExists
<1>7. \A i \in 0 .. count : s[i] \in R[i]
  BY <1>4, <1>5, <1>6, FollowsIn
<1>8. s[0] = <<c, 0>> /\ \A i \in 0 .. count : i < count => s[i + 1] = F[i + 1][s[i]]
  BY <1>6, FollowsSteps
<1>. DEFINE e == [i \in 0 .. count |-> s[i][1]]
            n == [i \in 0 .. count |-> s[i][2]]
<1>9. e[0] = c /\ n[0] = 0
  BY <1>8
<1>10. ASSUME NEW i \in 0 .. count, i < count
       PROVE  e[i + 1] = Tick(e[i], 0) /\ n[i + 1] = 2 * n[i] + e[i + 1].do
  <2>1. i + 1 \in 0 .. count
    BY <1>10
  <2>2. s[i + 1] = <<Tick(s[i][1], 0), 2 * s[i][2] + Tick(s[i][1], 0).do>>
    BY <1>5, <1>7, <1>8, <1>10
  <2>. QED BY <2>1, <2>2
<1>11. count \in 0 .. count /\ b + (count - count) = b
  OBVIOUS
<1>12. Fits(e[count], b) /\ n[count] \in Nat /\ n[count] < Pow2[count]
  BY <1>2, <1>7, <1>11
<1>. HIDE DEF e, n
<1>13. shift_in_eec_bits(At(e[0], Pins(1, 0, 0), 0), count)
         = At(e[count], Pins(1, 0, 0), n[count])
  BY <1>9, <1>10, ShiftInIs
<1>. QED BY <1>9, <1>12, <1>13

-----------------------------------------------------------------------------
(* What the chip makes of the commands of the code.                        *)

Chip(n, op, ad, wd, out, do, en) ==
  [count |-> n, opcode |-> op, address |-> ad, word |-> wd, out |-> out,
   do |-> do, enabled |-> en, busy |-> <<>>]

(* The fields of a chip that is given by its registers.                    *)
LEMMA ChipFields ==
  ASSUME NEW n \in Nat, NEW op \in Nat, NEW ad \in Nat, NEW wd \in Nat,
         NEW out \in Nat,
         NEW do \in 0 .. 1, NEW en \in Flags
  PROVE  /\ Chip(n, op, ad, wd, out, do, en) \in Chips
         /\ Chip(n, op, ad, wd, out, do, en).count = n
         /\ Chip(n, op, ad, wd, out, do, en).opcode = op
         /\ Chip(n, op, ad, wd, out, do, en).address = ad
         /\ Chip(n, op, ad, wd, out, do, en).word = wd
         /\ Chip(n, op, ad, wd, out, do, en).out = out
         /\ Chip(n, op, ad, wd, out, do, en).do = do
         /\ Chip(n, op, ad, wd, out, do, en).enabled = en
         /\ Chip(n, op, ad, wd, out, do, en).busy = <<>>
BY DEF Chip, Chips, Flags

(* A chip that is not busy is given by its registers.                      *)
LEMMA ChipIs ==
  ASSUME NEW c \in Chips, c.busy = <<>>
  PROVE  c = Chip(c.count, c.opcode, c.address, c.word, c.out, c.do, c.enabled)
BY DEF Chip, Chips

(* A bit of a command: of the opcode, of the address, its last one, and of *)
(* the word.                                                               *)
LEMMA CommandTick ==
  ASSUME NEW c \in Chips, c.out = 0, c.do = 1, c.busy = <<>>,
         NEW di \in 0 .. 1, c.count # 0 \/ di = 1
  PROVE  \E d \in Chips :
           /\ Tick(c, di) = IF c.count + 1 = CommandBits THEN Decoded(d) ELSE d
           /\ d.count = c.count + 1 /\ d.out = 0 /\ d.do = 1
           /\ d.enabled = c.enabled /\ d.busy = <<>>
           /\ d.opcode = IF c.count < 3 THEN 2 * c.opcode + di ELSE c.opcode
           /\ d.address = IF c.count >= 3 /\ c.count < CommandBits
                            THEN 2 * c.address + di ELSE c.address
           /\ d.word = IF c.count >= CommandBits THEN 2 * c.word + di ELSE c.word
<1>1. PICK d \in Chips : d = Gathered(c, di)
  BY GatheredIs
<1>2. /\ d.count = c.count + 1 /\ d.out = 0 /\ d.do = 1 /\ d.enabled = c.enabled
      /\ d.busy = <<>>
      /\ d.opcode = IF c.count < 3 THEN 2 * c.opcode + di ELSE c.opcode
      /\ d.address = IF c.count >= 3 /\ c.count < CommandBits
                       THEN 2 * c.address + di ELSE c.address
      /\ d.word = IF c.count >= CommandBits THEN 2 * c.word + di ELSE c.word
  BY <1>1, GatheredIs, Zenon
<1>3. ~ (c.out > 0) /\ ~ (c.count = 0 /\ di = 0)
  OBVIOUS
<1>4. Clocked(c, di) = IF d.count = CommandBits THEN Decoded(d) ELSE d
  BY <1>1, <1>3, Zenon DEF Clocked
<1>5. Tick(c, di) = IF c.count + 1 = CommandBits THEN Decoded(d) ELSE d
  BY <1>2, <1>4, Zenon DEF Tick
<1>. QED BY <1>2, <1>5, Zenon

(* One of the first three bits goes to the opcode.                         *)
LEMMA OpcodeTick ==
  ASSUME NEW c \in Chips, c.out = 0, c.do = 1, c.busy = <<>>,
         NEW di \in 0 .. 1,
         c.count < 3, c.count # 0 \/ di = 1, c.address = 0, c.word = 0
  PROVE  Tick(c, di) = Chip(c.count + 1, 2 * c.opcode + di, 0, 0, 0, 1, c.enabled)
<1>1. ~ (c.count >= 3) /\ ~ (c.count >= CommandBits) /\ c.count + 1 # CommandBits
  BY Sizes DEF Chips
<1>2. PICK d \in Chips :
        /\ Tick(c, di) = IF c.count + 1 = CommandBits THEN Decoded(d) ELSE d
        /\ d.count = c.count + 1 /\ d.out = 0 /\ d.do = 1
        /\ d.enabled = c.enabled /\ d.busy = <<>>
        /\ d.opcode = IF c.count < 3 THEN 2 * c.opcode + di ELSE c.opcode
        /\ d.address = IF c.count >= 3 /\ c.count < CommandBits
                         THEN 2 * c.address + di ELSE c.address
        /\ d.word = IF c.count >= CommandBits THEN 2 * c.word + di ELSE c.word
  BY <1>1, CommandTick
<1>3. d.opcode = 2 * c.opcode + di /\ d.address = 0 /\ d.word = 0
  BY <1>1, <1>2, Zenon
<1>4. d = Chip(d.count, d.opcode, d.address, d.word, d.out, d.do, d.enabled)
  BY <1>2, ChipIs
<1>5. d = Chip(c.count + 1, 2 * c.opcode + di, 0, 0, 0, 1, c.enabled)
  BY <1>2, <1>3, <1>4, Zenon
<1>. QED BY <1>1, <1>2, <1>5, Zenon

(* One of the next bits goes to the address, the last one decodes it.      *)
LEMMA AddressTick ==
  ASSUME NEW c \in Chips, c.out = 0, c.do = 1, c.busy = <<>>,
         NEW di \in 0 .. 1,
         c.count >= 3, c.count < CommandBits, c.word = 0
  PROVE  LET d == Chip(c.count + 1, c.opcode, 2 * c.address + di, 0, 0, 1, c.enabled)
         IN Tick(c, di) = IF c.count + 1 = CommandBits THEN Decoded(d) ELSE d
<1>1. ~ (c.count < 3) /\ ~ (c.count >= CommandBits) /\ c.count # 0
  BY Sizes DEF Chips
<1>2. PICK d \in Chips :
        /\ Tick(c, di) = IF c.count + 1 = CommandBits THEN Decoded(d) ELSE d
        /\ d.count = c.count + 1 /\ d.out = 0 /\ d.do = 1
        /\ d.enabled = c.enabled /\ d.busy = <<>>
        /\ d.opcode = IF c.count < 3 THEN 2 * c.opcode + di ELSE c.opcode
        /\ d.address = IF c.count >= 3 /\ c.count < CommandBits
                         THEN 2 * c.address + di ELSE c.address
        /\ d.word = IF c.count >= CommandBits THEN 2 * c.word + di ELSE c.word
  BY <1>1, CommandTick
<1>3. d.opcode = c.opcode /\ d.address = 2 * c.address + di /\ d.word = 0
  BY <1>1, <1>2, Zenon
<1>4. d = Chip(d.count, d.opcode, d.address, d.word, d.out, d.do, d.enabled)
  BY <1>2, ChipIs
<1>5. d = Chip(c.count + 1, c.opcode, 2 * c.address + di, 0, 0, 1, c.enabled)
  BY <1>2, <1>3, <1>4, Zenon
<1>. QED BY <1>1, <1>2, <1>5, Zenon

(* A bit after the command goes to the word.                               *)
LEMMA WordTick ==
  ASSUME NEW c \in Chips, c.out = 0, c.do = 1, c.busy = <<>>,
         NEW di \in 0 .. 1,
         c.count >= CommandBits
  PROVE  Tick(c, di) = Chip(c.count + 1, c.opcode, c.address, 2 * c.word + di, 0, 1, c.enabled)
<1>1. ~ (c.count < 3) /\ ~ (c.count < CommandBits) /\ c.count # 0
      /\ c.count + 1 # CommandBits
  BY Sizes DEF Chips
<1>2. PICK d \in Chips :
        /\ Tick(c, di) = IF c.count + 1 = CommandBits THEN Decoded(d) ELSE d
        /\ d.count = c.count + 1 /\ d.out = 0 /\ d.do = 1
        /\ d.enabled = c.enabled /\ d.busy = <<>>
        /\ d.opcode = IF c.count < 3 THEN 2 * c.opcode + di ELSE c.opcode
        /\ d.address = IF c.count >= 3 /\ c.count < CommandBits
                         THEN 2 * c.address + di ELSE c.address
        /\ d.word = IF c.count >= CommandBits THEN 2 * c.word + di ELSE c.word
  BY <1>1, CommandTick
<1>3. d.opcode = c.opcode /\ d.address = c.address /\ d.word = 2 * c.word + di
  BY <1>1, <1>2, Zenon
<1>4. d = Chip(d.count, d.opcode, d.address, d.word, d.out, d.do, d.enabled)
  BY <1>2, ChipIs
<1>5. d = Chip(c.count + 1, c.opcode, c.address, 2 * c.word + di, 0, 1, c.enabled)
  BY <1>2, <1>3, <1>4, Zenon
<1>. QED BY <1>1, <1>2, <1>5, Zenon

-----------------------------------------------------------------------------
Idle0(en) == Chip(0, 0, 0, 0, 0, 1, en)

(* The powers that the opcodes need.                                       *)
LEMMA SmallPowers ==
  /\ Pow2[0] = 1 /\ Pow2[1] = 2 /\ Pow2[2] = 4 /\ Pow2[3] = 8 /\ Pow2[4] = 16
  /\ CommandBits > 5
<1>1. 0 \in 0 .. CommandBits + WordBits /\ 1 \in 0 .. CommandBits + WordBits
      /\ 2 \in 0 .. CommandBits + WordBits /\ 3 \in 0 .. CommandBits + WordBits
      /\ 1 + 1 = 2 /\ 2 + 1 = 3 /\ 3 + 1 = 4 /\ 0 + 1 = 1
      /\ 0 < CommandBits + WordBits /\ 1 < CommandBits + WordBits
      /\ 2 < CommandBits + WordBits /\ 3 < CommandBits + WordBits
      /\ CommandBits > 5
  BY Sizes
<1>2. Pow2[1] = 2 * Pow2[0] /\ Pow2[2] = 2 * Pow2[1] /\ Pow2[3] = 2 * Pow2[2]
      /\ Pow2[4] = 2 * Pow2[3]
  BY <1>1, Pow2Steps, Zenon
<1>. QED BY <1>1, <1>2, Pow2Steps

(* A complete address is decoded: the commands of the code.                *)
LEMMA DecodedChip ==
  ASSUME NEW n \in Nat, NEW ad \in Nat, NEW en \in Flags
  PROVE  /\ Decoded(Chip(n, 6, ad, 0, 0, 1, en)) = Chip(n, 6, ad, words[ad], WordBits, 0, en)
         /\ Decoded(Chip(n, 5, ad, 0, 0, 1, en)) = Chip(n, 5, ad, 0, 0, 1, en)
         /\ ad >= 3 * Pow2[AddressBits - 2] =>
              Decoded(Chip(n, 4, ad, 0, 0, 1, en)) = Chip(n, 4, ad, 0, 0, 1, TRUE)
         /\ ad < Pow2[AddressBits - 2] =>
              Decoded(Chip(n, 4, ad, 0, 0, 1, en)) = Chip(n, 4, ad, 0, 0, 1, FALSE)
<1>1. Decoded(Chip(n, 6, ad, 0, 0, 1, en)) = Chip(n, 6, ad, words[ad], WordBits, 0, en)
  <2>1. PICK c, w, b : /\ c = Chip(n, 6, ad, 0, 0, 1, en) /\ w = words[ad]
                       /\ b = WordBits
    OBVIOUS
  <2>2. c.opcode = 6 /\ c.address = ad
    BY <2>1 DEF Chip
  <2>3. Decoded(c) = [c EXCEPT !.do = 0, !.out = WordBits, !.word = words[c.address]]
    BY <2>2 DEF Decoded
  <2>4. [c EXCEPT !.do = 0, !.out = b, !.word = w]
          = [[[c EXCEPT !.do = 0] EXCEPT !.out = b] EXCEPT !.word = w]
    OBVIOUS
  <2>5. [c EXCEPT !.do = 0] = Chip(n, 6, ad, 0, 0, 0, en)
    BY <2>1 DEF Chip
  <2>6. [Chip(n, 6, ad, 0, 0, 0, en) EXCEPT !.out = b] = Chip(n, 6, ad, 0, b, 0, en)
    BY DEF Chip
  <2>7. [Chip(n, 6, ad, 0, b, 0, en) EXCEPT !.word = w] = Chip(n, 6, ad, w, b, 0, en)
    BY DEF Chip
  <2>8. Decoded(c) = Chip(n, 6, ad, w, b, 0, en)
    BY <2>1, <2>2, <2>3, <2>4, <2>5, <2>6, <2>7, Zenon
  <2>. QED BY <2>1, <2>8, Zenon
<1>2. Decoded(Chip(n, 5, ad, 0, 0, 1, en)) = Chip(n, 5, ad, 0, 0, 1, en)
  BY DEF Decoded, Chip
<1>3. ASSUME NEW c, NEW x \in BOOLEAN, c = Chip(n, 4, ad, 0, 0, 1, en)
      PROVE  c.opcode = 4 /\ c.address = ad /\ [c EXCEPT !.enabled = x] = Chip(n, 4, ad, 0, 0, 1, x)
  BY <1>3 DEF Chip
<1>4. PICK p, c : /\ p \in Nat /\ p = Pow2[AddressBits - 2] /\ p > 0
                  /\ c = Chip(n, 4, ad, 0, 0, 1, en)
  BY Pow2Steps, Sizes
<1>5. c.opcode = 4 /\ c.address = ad
  BY <1>3, <1>4
<1>6. ad >= 3 * p => Decoded(c) = [c EXCEPT !.enabled = TRUE]
  BY <1>4, <1>5 DEF Decoded
<1>7. ad < p => Decoded(c) = [c EXCEPT !.enabled = FALSE]
  <2>1. ad < p => ~ (ad >= 3 * p)
    BY <1>4
  <2>. QED BY <1>4, <1>5, <2>1 DEF Decoded
<1>8. /\ [c EXCEPT !.enabled = TRUE] = Chip(n, 4, ad, 0, 0, 1, TRUE)
      /\ [c EXCEPT !.enabled = FALSE] = Chip(n, 4, ad, 0, 0, 1, FALSE)
  BY <1>3, <1>4, Zenon
<1>. QED BY <1>1, <1>2, <1>4, <1>6, <1>7, <1>8, Zenon

(* OpcodeTick for a chip given by its registers.                           *)
LEMMA OpcodeStep ==
  ASSUME NEW n \in Nat, NEW op \in Nat, NEW en \in Flags, NEW di \in 0 .. 1,
         n # 0 \/ di = 1, n < 3
  PROVE  Tick(Chip(n, op, 0, 0, 0, 1, en), di) = Chip(n + 1, 2 * op + di, 0, 0, 0, 1, en)
<1>1. PICK c : c = Chip(n, op, 0, 0, 0, 1, en)
  OBVIOUS
<1>2. /\ c \in Chips /\ c.count = n /\ c.opcode = op /\ c.address = 0 /\ c.word = 0
      /\ c.out = 0 /\ c.do = 1 /\ c.enabled = en /\ c.busy = <<>>
  BY <1>1 DEF Chip, Chips, Flags
<1>3. Tick(c, di) = Chip(c.count + 1, 2 * c.opcode + di, 0, 0, 0, 1, c.enabled)
  BY <1>2, OpcodeTick
<1>. QED BY <1>1, <1>2, <1>3, Zenon

(* The opcodes of READ and WRITE, and those of EWEN and EWDS with the two  *)
(* bits of the address that they carry.                                    *)
LEMMA OpcodeOut ==
  ASSUME NEW d, NEW en \in Flags, NEW v \in {5, 6}
  PROVE  shift_out_eec_bits(At(Idle0(en), Pins(1, 0, 0), d), v, opcode_bits)
           = At(Chip(3, v, 0, 0, 0, 1, en), Pins(1, 0, 0), d)
<1>. DEFINE e == [i \in 0 .. 3 |->
                    CASE i = 0 -> Chip(0, 0, 0, 0, 0, 1, en)
                      [] i = 1 -> Chip(1, 1, 0, 0, 0, 1, en)
                      [] i = 2 -> Chip(2, v - 3, 0, 0, 0, 1, en)
                      [] i = 3 -> Chip(3, v, 0, 0, 0, 1, en)]
<1>1. /\ e[0] = Chip(0, 0, 0, 0, 0, 1, en) /\ e[1] = Chip(1, 1, 0, 0, 0, 1, en)
      /\ e[2] = Chip(2, v - 3, 0, 0, 0, 1, en) /\ e[3] = Chip(3, v, 0, 0, 0, 1, en)
  OBVIOUS
<1>. HIDE DEF e
<1>2. Bit(v, 2) = 1 /\ Bit(v, 1) = v - 5 /\ Bit(v, 0) = 6 - v
  <2>1. CASE v = 5
    BY <2>1, SmallPowers DEF Bit
  <2>2. CASE v = 6
    BY <2>2, SmallPowers DEF Bit
  <2>. QED BY <2>1, <2>2
<1>3. Tick(Chip(0, 0, 0, 0, 0, 1, en), 1) = Chip(1, 1, 0, 0, 0, 1, en)
  <2>1. 0 < 3 /\ 0 \in Nat /\ 1 \in 0 .. 1 /\ 0 + 1 = 1 /\ 2 * 0 + 1 = 1
    OBVIOUS
  <2>. QED BY <2>1, OpcodeStep
<1>4. Tick(Chip(1, 1, 0, 0, 0, 1, en), v - 5) = Chip(2, v - 3, 0, 0, 0, 1, en)
  <2>1. 1 < 3 /\ 0 \in Nat /\ 1 \in Nat /\ v - 5 \in 0 .. 1 /\ 1 + 1 = 2 /\ 1 # 0
        /\ 2 * 1 + (v - 5) = v - 3
    OBVIOUS
  <2>. QED BY <2>1, OpcodeStep
<1>5. Tick(Chip(2, v - 3, 0, 0, 0, 1, en), 6 - v) = Chip(3, v, 0, 0, 0, 1, en)
  <2>1. 2 < 3 /\ 2 \in Nat /\ 6 - v \in 0 .. 1 /\ 2 + 1 = 3 /\ 2 # 0
        /\ 2 * (v - 3) + (6 - v) = v /\ v - 3 \in Nat
    OBVIOUS
  <2>. QED BY <2>1, OpcodeStep
<1>6. ASSUME NEW i \in 0 .. 3, i < 3
      PROVE  e[i + 1] = Tick(e[i], Bit(v, 3 - (i + 1)))
  <2>1. CASE i = 0
    <3>1. i + 1 = 1 /\ 3 - (i + 1) = 2
      BY <2>1
    <3>. QED BY <1>1, <1>2, <1>3, <2>1, <3>1
  <2>2. CASE i = 1
    <3>1. i + 1 = 2 /\ 3 - (i + 1) = 1
      BY <2>2
    <3>. QED BY <1>1, <1>2, <1>4, <2>2, <3>1
  <2>3. CASE i = 2
    <3>1. i + 1 = 3 /\ 3 - (i + 1) = 0
      BY <2>3
    <3>. QED BY <1>1, <1>2, <1>5, <2>3, <3>1
  <2>. QED BY <1>6, <2>1, <2>2, <2>3
<1>7. 3 \in Nat
  OBVIOUS
<1>8. shift_out_eec_bits(At(e[0], Pins(1, 0, 0), d), v, 3) = At(e[3], Pins(1, 0, 0), d)
  BY <1>6, <1>7, ShiftOutIs
<1>. QED BY <1>1, <1>8 DEF opcode_bits, Idle0

(* The last n bits of an address, or of a word, that has begun with a.     *)
Shifted(a, v, n, i) == a * Pow2[i] + (v \div Pow2[n - i])

(* A value is shifted in bit by bit, starting from the highest.            *)
LEMMA ShiftedIs ==
  ASSUME NEW n \in 0 .. CommandBits + WordBits, NEW a \in Nat, NEW v \in Nat,
         v < Pow2[n]
  PROVE  /\ Shifted(a, v, n, 0) = a /\ Shifted(a, v, n, n) = a * Pow2[n] + v
         /\ \A i \in 0 .. n : /\ Shifted(a, v, n, i) \in Nat
                              /\ i < n => /\ Bit(v, n - (i + 1)) \in 0 .. 1
                                          /\ Shifted(a, v, n, i + 1)
                                               = 2 * Shifted(a, v, n, i) + Bit(v, n - (i + 1))
<1>1. v \div Pow2[n] = 0 /\ v \div Pow2[0] = v /\ Pow2[0] = 1
  BY AllBits, Powers
<1>2. n - 0 = n /\ n - n = 0 /\ a * 1 + 0 = a /\ 0 \in 0 .. CommandBits + WordBits
  BY Sizes
<1>3. Shifted(a, v, n, 0) = a /\ Shifted(a, v, n, n) = a * Pow2[n] + v
  BY <1>1, <1>2 DEF Shifted
<1>4. ASSUME NEW i \in 0 .. n
      PROVE  /\ Shifted(a, v, n, i) \in Nat
             /\ i < n => /\ Bit(v, n - (i + 1)) \in 0 .. 1
                         /\ Shifted(a, v, n, i + 1)
                              = 2 * Shifted(a, v, n, i) + Bit(v, n - (i + 1))
  <2>1. i \in 0 .. CommandBits + WordBits /\ n - i \in 0 .. CommandBits + WordBits
    BY Sizes
  <2>2. PICK p \in Nat, q \in Nat : p = Pow2[i] /\ q = Pow2[n - i] /\ q > 0
    BY <2>1, Pow2Steps
  <2>3. PICK h \in Nat : h = v \div q
    BY ONLY <2>2, DivPart, v \in Nat
  <2>4. Shifted(a, v, n, i) = a * p + h /\ a * p + h \in Nat
    BY <2>2, <2>3 DEF Shifted
  <2>5. ASSUME i < n
        PROVE  /\ Bit(v, n - (i + 1)) \in 0 .. 1
               /\ Shifted(a, v, n, i + 1) = 2 * Shifted(a, v, n, i) + Bit(v, n - (i + 1))
    <3>1. PICK j \in Nat : j = n - (i + 1) /\ j + 1 = n - i /\ j < CommandBits + WordBits
      BY <2>5, Sizes
    <3>2. Bit(v, j) \in 0 .. 1 /\ v \div Pow2[j] = 2 * (v \div Pow2[j + 1]) + Bit(v, j)
      BY <3>1, NextBit
    <3>3. PICK b \in 0 .. 1 : b = Bit(v, j)
      BY <3>2
    <3>4. v \div Pow2[j] = 2 * h + b
      BY <2>2, <2>3, <3>1, <3>2, <3>3
    <3>5. Pow2[i + 1] = 2 * p
      BY <2>1, <2>2, <2>5, Pow2Steps, Sizes
    <3>6. Shifted(a, v, n, i + 1) = a * (2 * p) + (2 * h + b)
      BY <3>1, <3>4, <3>5, Zenon DEF Shifted
    <3>7. a * (2 * p) + (2 * h + b) = 2 * (a * p + h) + b
      BY <2>2, <2>3, <3>3
    <3>. QED BY <2>4, <3>1, <3>3, <3>6, <3>7
  <2>. QED BY <2>4, <2>5
<1>. QED BY <1>3, <1>4

(* The first bits of a command that allows or forbids writing.             *)
LEMMA EnableOut ==
  ASSUME NEW d, NEW en \in Flags, NEW v \in {19, 16}
  PROVE  shift_out_eec_bits(At(Idle0(en), Pins(1, 0, 0), d), v, opcode_bits + 2)
           = At(Chip(5, 4, v - 16, 0, 0, 1, en), Pins(1, 0, 0), d)
<1>. PICK b \in 0 .. 1 : v = 16 + 3 * b
  <2>1. v = 16 + 3 * 0 \/ v = 16 + 3 * 1
    OBVIOUS
  <2>. QED BY <2>1
<1>. DEFINE e == [i \in 0 .. 5 |->
                    CASE i = 0 -> Chip(0, 0, 0, 0, 0, 1, en)
                      [] i = 1 -> Chip(1, 1, 0, 0, 0, 1, en)
                      [] i = 2 -> Chip(2, 2, 0, 0, 0, 1, en)
                      [] i = 3 -> Chip(3, 4, 0, 0, 0, 1, en)
                      [] i = 4 -> Chip(4, 4, b, 0, 0, 1, en)
                      [] i = 5 -> Chip(5, 4, 3 * b, 0, 0, 1, en)]
<1>1. /\ e[0] = Chip(0, 0, 0, 0, 0, 1, en) /\ e[1] = Chip(1, 1, 0, 0, 0, 1, en)
      /\ e[2] = Chip(2, 2, 0, 0, 0, 1, en) /\ e[3] = Chip(3, 4, 0, 0, 0, 1, en)
      /\ e[4] = Chip(4, 4, b, 0, 0, 1, en) /\ e[5] = Chip(5, 4, 3 * b, 0, 0, 1, en)
  OBVIOUS
<1>. HIDE DEF e
<1>2. /\ Bit(v, 4) = 1 /\ Bit(v, 3) = 0 /\ Bit(v, 2) = 0 /\ Bit(v, 1) = b /\ Bit(v, 0) = b
  <2>1. CASE b = 0
    BY <2>1, SmallPowers DEF Bit
  <2>2. CASE b = 1
    BY <2>2, SmallPowers DEF Bit
  <2>. QED BY <2>1, <2>2
<1>3. Tick(Chip(0, 0, 0, 0, 0, 1, en), 1) = Chip(1, 1, 0, 0, 0, 1, en)
  <2>1. 0 < 3 /\ 0 \in Nat /\ 1 \in 0 .. 1 /\ 0 + 1 = 1 /\ 2 * 0 + 1 = 1
    OBVIOUS
  <2>. QED BY <2>1, OpcodeStep
<1>4. Tick(Chip(1, 1, 0, 0, 0, 1, en), 0) = Chip(2, 2, 0, 0, 0, 1, en)
  <2>1. 1 < 3 /\ 1 \in Nat /\ 0 \in 0 .. 1 /\ 1 + 1 = 2 /\ 1 # 0 /\ 2 * 1 + 0 = 2
    OBVIOUS
  <2>. QED BY <2>1, OpcodeStep
<1>5. Tick(Chip(2, 2, 0, 0, 0, 1, en), 0) = Chip(3, 4, 0, 0, 0, 1, en)
  <2>1. 2 < 3 /\ 2 \in Nat /\ 0 \in 0 .. 1 /\ 2 + 1 = 3 /\ 2 # 0 /\ 2 * 2 + 0 = 4
    OBVIOUS
  <2>. QED BY <2>1, OpcodeStep
<1>6. Tick(Chip(3, 4, 0, 0, 0, 1, en), b) = Chip(4, 4, b, 0, 0, 1, en)
  <2>1. PICK c : c = Chip(3, 4, 0, 0, 0, 1, en)
    OBVIOUS
  <2>2. /\ c \in Chips /\ c.count = 3 /\ c.opcode = 4 /\ c.address = 0 /\ c.word = 0
        /\ c.out = 0 /\ c.do = 1 /\ c.enabled = en /\ c.busy = <<>>
    BY <2>1 DEF Chip, Chips, Flags
  <2>3. c.count >= 3 /\ c.count < CommandBits /\ c.count + 1 # CommandBits
        /\ c.count + 1 = 4 /\ 2 * c.address + b = b
    BY <2>2, SmallPowers, Sizes
  <2>4. Tick(c, b) = Chip(c.count + 1, c.opcode, 2 * c.address + b, 0, 0, 1, c.enabled)
    BY <2>2, <2>3, AddressTick
  <2>. QED BY <2>1, <2>2, <2>3, <2>4, Zenon
<1>7. Tick(Chip(4, 4, b, 0, 0, 1, en), b) = Chip(5, 4, 3 * b, 0, 0, 1, en)
  <2>1. PICK c : c = Chip(4, 4, b, 0, 0, 1, en)
    OBVIOUS
  <2>2. /\ c \in Chips /\ c.count = 4 /\ c.opcode = 4 /\ c.address = b /\ c.word = 0
        /\ c.out = 0 /\ c.do = 1 /\ c.enabled = en /\ c.busy = <<>>
    BY <2>1 DEF Chip, Chips, Flags
  <2>3. c.count >= 3 /\ c.count < CommandBits /\ c.count + 1 # CommandBits
        /\ c.count + 1 = 5 /\ 2 * c.address + b = 3 * b
    BY <2>2, SmallPowers, Sizes
  <2>4. Tick(c, b) = Chip(c.count + 1, c.opcode, 2 * c.address + b, 0, 0, 1, c.enabled)
    BY <2>2, <2>3, AddressTick
  <2>. QED BY <2>1, <2>2, <2>3, <2>4, Zenon
<1>8. ASSUME NEW i \in 0 .. 5, i < 5
      PROVE  e[i + 1] = Tick(e[i], Bit(v, 5 - (i + 1)))
  <2>1. CASE i = 0
    <3>1. i + 1 = 1 /\ 5 - (i + 1) = 4
      BY <2>1
    <3>. QED BY <1>1, <1>2, <1>3, <2>1, <3>1
  <2>2. CASE i = 1
    <3>1. i + 1 = 2 /\ 5 - (i + 1) = 3
      BY <2>2
    <3>. QED BY <1>1, <1>2, <1>4, <2>2, <3>1
  <2>3. CASE i = 2
    <3>1. i + 1 = 3 /\ 5 - (i + 1) = 2
      BY <2>3
    <3>. QED BY <1>1, <1>2, <1>5, <2>3, <3>1
  <2>4. CASE i = 3
    <3>1. i + 1 = 4 /\ 5 - (i + 1) = 1
      BY <2>4
    <3>. QED BY <1>1, <1>2, <1>6, <2>4, <3>1
  <2>5. CASE i = 4
    <3>1. i + 1 = 5 /\ 5 - (i + 1) = 0
      BY <2>5
    <3>. QED BY <1>1, <1>2, <1>7, <2>5, <3>1
  <2>. QED BY <1>8, <2>1, <2>2, <2>3, <2>4, <2>5
<1>9. PICK n \in Nat : n = 5
  OBVIOUS
<1>10. shift_out_eec_bits(At(e[0], Pins(1, 0, 0), d), v, n) = At(e[n], Pins(1, 0, 0), d)
  <2>1. \A i \in 0 .. n : i < n => e[i + 1] = Tick(e[i], Bit(v, n - (i + 1)))
    BY <1>8, <1>9
  <2>. QED BY <2>1, ShiftOutIs
<1>11. v - 16 = 3 * b /\ 3 + 2 = 5
  OBVIOUS
<1>. QED BY <1>1, <1>9, <1>10, <1>11, Zenon DEF opcode_bits, Idle0

(* The rest of an address completes the command.                           *)
LEMMA AddressOut ==
  ASSUME NEW c \in Chips, c.opcode \in {4, 5, 6}, c.word = 0, c.out = 0,
         c.do = 1, c.busy = <<>>,
         NEW n \in Nat, n > 0, n <= AddressBits, c.count = CommandBits - n,
         NEW v \in Nat, v < Pow2[n]
  PROVE  shift_out_eec_bits(At(c, Pins(1, 0, 0), 0), v, n)
           = At(Decoded(Chip(CommandBits, c.opcode, c.address * Pow2[n] + v, 0, 0, 1, c.enabled)),
                Pins(1, 0, 0), 0)
<1>. PICK a \in Nat, op \in {4, 5, 6}, en \in Flags : a = c.address /\ op = c.opcode /\ en = c.enabled
  BY DEF Chips, Flags
<1>. PICK d : d = 0
  OBVIOUS
<1>0. c = Chip(CommandBits - n, op, a, 0, 0, 1, en)
  BY ChipIs, Zenon
<1>. DEFINE S(i) == Shifted(a, v, n, i)
            e == [i \in 0 .. n |->
                    IF i < n THEN Chip(CommandBits - n + i, op, S(i), 0, 0, 1, en)
                    ELSE Decoded(Chip(CommandBits, op, S(n), 0, 0, 1, en))]
<1>1. /\ S(0) = a /\ S(n) = a * Pow2[n] + v
      /\ \A i \in 0 .. n : /\ S(i) \in Nat
                           /\ i < n => /\ Bit(v, n - (i + 1)) \in 0 .. 1
                                       /\ S(i + 1) = 2 * S(i) + Bit(v, n - (i + 1))
  <2>1. n \in 0 .. CommandBits + WordBits
    BY Sizes
  <2>. QED BY ZenonT(30), <2>1, ShiftedIs
<1>. HIDE DEF S
<1>2. /\ \A i \in 0 .. n : i < n => e[i] = Chip(CommandBits - n + i, op, S(i), 0, 0, 1, en)
      /\ e[n] = Decoded(Chip(CommandBits, op, S(n), 0, 0, 1, en))
  OBVIOUS
<1>. HIDE DEF e
<1>3. ASSUME NEW i \in 0 .. n, i < n
      PROVE  e[i + 1] = Tick(e[i], Bit(v, n - (i + 1)))
  <2>1. PICK b \in 0 .. 1 : b = Bit(v, n - (i + 1)) /\ S(i + 1) = 2 * S(i) + b
    BY <1>1, <1>3
  <2>2. PICK s \in Nat : s = S(i)
    BY <1>1
  <2>3. PICK m \in Nat : m = CommandBits - n + i /\ m >= 3 /\ m < CommandBits
    BY <1>3, Sizes
  <2>4. e[i] = Chip(m, op, s, 0, 0, 1, en)
    BY <1>2, <1>3, <2>2, <2>3
  <2>5. PICK x : x = e[i]
    OBVIOUS
  <2>6. /\ x \in Chips /\ x.count = m /\ x.opcode = op /\ x.address = s /\ x.word = 0
        /\ x.out = 0 /\ x.do = 1 /\ x.enabled = en /\ x.busy = <<>>
    BY <2>4, <2>5 DEF Chip, Chips, Flags
  <2>7. x.count >= 3 /\ x.count < CommandBits
    BY <2>3, <2>6
  <2>8. PICK y : y = Chip(x.count + 1, x.opcode, 2 * x.address + b, 0, 0, 1, x.enabled)
    OBVIOUS
  <2>9. Tick(x, b) = IF x.count + 1 = CommandBits THEN Decoded(y) ELSE y
    BY <2>6, <2>7, <2>8, AddressTick, Zenon
  <2>10. y = Chip(m + 1, op, S(i + 1), 0, 0, 1, en)
    BY <2>1, <2>2, <2>6, <2>8, Zenon
  <2>11. CASE i + 1 = n
    <3>1. m + 1 = CommandBits
      BY <2>3, <2>11, Sizes
    <3>2. e[i + 1] = Decoded(y)
      BY <1>2, <2>10, <2>11, <3>1, Zenon
    <3>. QED BY <2>1, <2>5, <2>6, <2>9, <3>1, <3>2, Zenon
  <2>12. CASE i + 1 # n
    <3>1. PICK j \in 0 .. n : j = i + 1 /\ j < n
      BY <1>3, <2>12
    <3>2. m + 1 = CommandBits - n + j /\ m + 1 # CommandBits
      BY <2>3, <3>1, Sizes
    <3>3. e[j] = y
      BY <1>2, <2>10, <3>1, <3>2
    <3>. QED BY <2>1, <2>5, <2>6, <2>9, <3>1, <3>2, <3>3, Zenon
  <2>. QED BY <2>11, <2>12
<1>4. shift_out_eec_bits(At(e[0], Pins(1, 0, 0), d), v, n) = At(e[n], Pins(1, 0, 0), d)
  <2>1. \A i \in 0 .. n : i < n => e[i + 1] = Tick(e[i], Bit(v, n - (i + 1)))
    BY <1>3
  <2>2. n \in Nat
    OBVIOUS
  <2>. QED BY ONLY <2>1, <2>2, ShiftOutIs
<1>5. e[0] = Chip(CommandBits - n, op, a, 0, 0, 1, en)
  <2>1. 0 \in 0 .. n /\ 0 < n /\ CommandBits - n + 0 = CommandBits - n
    BY Sizes
  <2>. QED BY <1>1, <1>2, <2>1
<1>. QED BY <1>0, <1>1, <1>2, <1>4, <1>5, Zenon

(* ShiftedIs for a word.                                                   *)
LEMMA WordShifted ==
  ASSUME NEW v \in Values
  PROVE  /\ Shifted(0, v, WordBits, 0) = 0
         /\ Shifted(0, v, WordBits, WordBits) = 0 * Pow2[WordBits] + v
         /\ \A i \in 0 .. WordBits :
              /\ Shifted(0, v, WordBits, i) \in Nat
              /\ i < WordBits =>
                   /\ Bit(v, WordBits - (i + 1)) \in 0 .. 1
                   /\ Shifted(0, v, WordBits, i + 1)
                        = 2 * Shifted(0, v, WordBits, i) + Bit(v, WordBits - (i + 1))
<1>1. WordBits \in 0 .. CommandBits + WordBits /\ 0 \in Nat /\ v \in Nat
      /\ v < Pow2[WordBits]
  BY Sizes, Powers DEF Values
<1>. QED BY <1>1, ShiftedIs

(* The word of a WRITE.                                                    *)
LEMMA WordOut ==
  ASSUME NEW d, NEW en \in Flags, NEW ad \in Nat, NEW v \in Values
  PROVE  shift_out_eec_bits(At(Chip(CommandBits, 5, ad, 0, 0, 1, en), Pins(1, 0, 0), d),
                            v, WordBits)
           = At(Chip(CommandBits + WordBits, 5, ad, v, 0, 1, en), Pins(1, 0, 0), d)
<1>. DEFINE S(i) == Shifted(0, v, WordBits, i)
            e == [i \in 0 .. WordBits |->
                    Chip(CommandBits + i, 5, ad, S(i), 0, 1, en)]
<1>. WordBits \in Nat /\ v \in Nat /\ v < Pow2[WordBits]
  BY Sizes, Powers DEF Values
<1>1. /\ S(0) = 0 /\ S(WordBits) = 0 * Pow2[WordBits] + v
      /\ \A i \in 0 .. WordBits :
           /\ S(i) \in Nat
           /\ i < WordBits => /\ Bit(v, WordBits - (i + 1)) \in 0 .. 1
                              /\ S(i + 1) = 2 * S(i) + Bit(v, WordBits - (i + 1))
  <2>1. WordBits \in 0 .. CommandBits + WordBits /\ 0 \in Nat
    BY Sizes
  <2>. QED BY <2>1, ShiftedIs
<1>. HIDE DEF S
<1>2. \A i \in 0 .. WordBits : e[i] = Chip(CommandBits + i, 5, ad, S(i), 0, 1, en)
  OBVIOUS
<1>. HIDE DEF e
<1>3. ASSUME NEW i \in 0 .. WordBits, i < WordBits
      PROVE  e[i + 1] = Tick(e[i], Bit(v, WordBits - (i + 1)))
  <2>1. PICK b \in 0 .. 1 : b = Bit(v, WordBits - (i + 1)) /\ S(i + 1) = 2 * S(i) + b
    BY <1>1, <1>3
  <2>2. PICK w \in Nat : w = S(i)
    BY <1>1
  <2>3. PICK c \in Nat : c = CommandBits + i /\ c >= CommandBits
    BY <1>3, Sizes
  <2>4. e[i] = Chip(c, 5, ad, w, 0, 1, en)
    BY <1>2, <1>3, <2>2, <2>3
  <2>5. PICK x : x = e[i]
    OBVIOUS
  <2>6. /\ x \in Chips /\ x.count = c /\ x.opcode = 5 /\ x.address = ad /\ x.word = w
        /\ x.out = 0 /\ x.do = 1 /\ x.enabled = en /\ x.busy = <<>>
    BY <2>4, <2>5 DEF Chip, Chips, Flags
  <2>7. x.count >= CommandBits
    BY <2>3, <2>6
  <2>8. Tick(x, b) = Chip(x.count + 1, x.opcode, x.address, 2 * x.word + b, 0, 1, x.enabled)
    BY <2>6, <2>7, WordTick
  <2>9. Tick(x, b) = Chip(c + 1, 5, ad, S(i + 1), 0, 1, en)
    BY <2>1, <2>2, <2>6, <2>8, Zenon
  <2>10. PICK j \in 0 .. WordBits : j = i + 1 /\ CommandBits + j = c + 1
    BY <1>3, <2>3, Sizes
  <2>11. e[j] = Chip(c + 1, 5, ad, S(j), 0, 1, en)
    BY <1>2, <2>10, Zenon
  <2>. QED BY <2>1, <2>5, <2>9, <2>10, <2>11, Zenon
<1>4. shift_out_eec_bits(At(e[0], Pins(1, 0, 0), d), v, WordBits)
        = At(e[WordBits], Pins(1, 0, 0), d)
  BY <1>3, ShiftOutIs
<1>5. e[0] = Chip(CommandBits, 5, ad, 0, 0, 1, en)
  <2>1. 0 \in 0 .. WordBits /\ CommandBits + 0 = CommandBits
    BY Sizes
  <2>. QED BY <1>1, <1>2, <2>1, Zenon
<1>6. e[WordBits] = Chip(CommandBits + WordBits, 5, ad, v, 0, 1, en)
  <2>1. WordBits \in 0 .. WordBits
    OBVIOUS
  <2>2. S(WordBits) = v
    BY <1>1, Powers
  <2>. QED BY <1>2, <2>1, <2>2, Zenon
<1>. QED BY <1>4, <1>5, <1>6, Zenon

(* A clock shifts a bit out of the chip, and a word bit by bit.            *)
LEMMA DataTick ==
  ASSUME NEW c \in Chips, c.busy = <<>>, c.out > 0
  PROVE  Tick(c, 0) = [c EXCEPT !.do = Bit(c.word, c.out - 1), !.out = @ - 1]
BY DEF Tick, Clocked

(* After a read command the word that was addressed is shifted in.         *)
LEMMA WordIn ==
  ASSUME NEW c \in Chips, c.out = WordBits, c.busy = <<>>, c.word \in Values
  PROVE  \E e \in Chips :
           /\ e.out = 0 /\ e.enabled = c.enabled /\ e.busy = <<>>
           /\ shift_in_eec_bits(At(c, Pins(1, 0, 0), 0), WordBits)
                = At(e, Pins(1, 0, 0), c.word)
<1>. PICK v \in Values : v = c.word /\ v \in Nat
  BY Powers DEF Values
<1>. DEFINE B(i) == Bit(v, WordBits - i)
            e == [i \in 0 .. WordBits |->
                    IF i = 0 THEN c ELSE [c EXCEPT !.do = B(i), !.out = WordBits - i]]
            n == [i \in 0 .. WordBits |-> Shifted(0, v, WordBits, i)]
<1>0. WordBits \in Nat /\ WordBits > 0 /\ WordBits <= CommandBits + WordBits
  BY Sizes
<1>1. /\ Shifted(0, v, WordBits, 0) = 0
      /\ Shifted(0, v, WordBits, WordBits) = 0 * Pow2[WordBits] + v
      /\ \A i \in 0 .. WordBits :
           /\ Shifted(0, v, WordBits, i) \in Nat
           /\ i < WordBits =>
                /\ Bit(v, WordBits - (i + 1)) \in 0 .. 1
                /\ Shifted(0, v, WordBits, i + 1)
                     = 2 * Shifted(0, v, WordBits, i) + Bit(v, WordBits - (i + 1))
  BY WordShifted
<1>2. ASSUME NEW i \in 0 .. WordBits
      PROVE  /\ e[i] \in Chips /\ e[i].out = WordBits - i /\ e[i].busy = <<>>
             /\ e[i].word = v /\ e[i].enabled = c.enabled
             /\ i > 0 => e[i].do = B(i)
             /\ i > 0 => e[i] = [c EXCEPT !.do = B(i), !.out = WordBits - i]
  <2>1. CASE i = 0
    <3>1. e[i] = c /\ WordBits - i = WordBits /\ ~ (i > 0)
      BY <1>0, <2>1
    <3>. QED BY <3>1, Zenon
  <2>2. CASE i # 0
    <3>1. PICK b \in 0 .. 1, o \in Nat : b = B(i) /\ o = WordBits - i
      <4>1. WordBits - i \in Nat /\ WordBits - i < CommandBits + WordBits
        BY <1>0, <2>2, Sizes
      <4>. QED BY <1>0, <4>1, NextBit
    <3>2. e[i] = [c EXCEPT !.do = b, !.out = o]
      BY <2>2, <3>1, Zenon
    <3>3. PICK x : x = [c EXCEPT !.do = b, !.out = o]
      OBVIOUS
    <3>4. /\ x \in Chips /\ x.out = o /\ x.do = b /\ x.busy = c.busy
          /\ x.word = c.word /\ x.enabled = c.enabled
      BY <3>3 DEF Chips
    <3>. QED BY <3>1, <3>2, <3>3, <3>4, Zenon
  <2>. QED BY <2>1, <2>2
<1>3. \A i \in 0 .. WordBits : n[i] = Shifted(0, v, WordBits, i)
  OBVIOUS
<1>4. e[0] = c /\ n[0] = 0
  BY <1>0, <1>1
<1>. HIDE DEF e, n
<1>5. ASSUME NEW i \in 0 .. WordBits, i < WordBits
      PROVE  e[i + 1] = Tick(e[i], 0) /\ n[i + 1] = 2 * n[i] + e[i + 1].do
  <2>1. PICK j \in 0 .. WordBits : j = i + 1 /\ j > 0 /\ WordBits - i - 1 = WordBits - j
    BY <1>0, <1>5
  <2>2. PICK x \in Chips : x = e[i] /\ x.out = WordBits - i /\ x.busy = <<>> /\ x.word = v
    BY <1>2
  <2>3. x.out > 0 /\ x.out - 1 = WordBits - j
    BY <1>0, <1>5, <2>1, <2>2
  <2>4. Tick(x, 0) = [x EXCEPT !.do = Bit(x.word, x.out - 1), !.out = x.out - 1]
    BY <2>2, <2>3, DataTick
  <2>5. PICK b, o : b = B(j) /\ o = WordBits - j
    OBVIOUS
  <2>6. Tick(x, 0) = [x EXCEPT !.do = b, !.out = o]
    BY <2>2, <2>3, <2>4, <2>5, Zenon
  <2>7. [x EXCEPT !.do = b, !.out = o] = [c EXCEPT !.do = b, !.out = o]
    <3>1. CASE i = 0
      BY <1>4, <2>2, <3>1
    <3>2. CASE i # 0
      <4>0. i > 0
        BY <3>2
      <4>1. PICK b2, o2 : b2 = B(i) /\ o2 = WordBits - i
        OBVIOUS
      <4>2. x = [c EXCEPT !.do = b2, !.out = o2]
        BY <1>2, <2>2, <4>0, <4>1, Zenon
      <4>. QED BY <4>2 DEF Chips
    <3>. QED BY <3>1, <3>2
  <2>8. e[j] = [c EXCEPT !.do = b, !.out = o] /\ e[j].do = b
    BY <1>2, <2>1, <2>5, Zenon
  <2>9. e[j] = Tick(e[i], 0)
    BY <2>2, <2>6, <2>7, <2>8, Zenon
  <2>10. n[j] = 2 * n[i] + b
    <3>1. n[j] = 2 * n[i] + Bit(v, WordBits - j)
      BY <1>1, <1>3, <1>5, <2>1, Zenon
    <3>. QED BY <2>5, <3>1
  <2>. QED BY <2>1, <2>8, <2>9, <2>10, Zenon
<1>6. shift_in_eec_bits(At(e[0], Pins(1, 0, 0), 0), WordBits)
        = At(e[WordBits], Pins(1, 0, 0), n[WordBits])
  BY <1>0, <1>4, <1>5, ShiftInIs
<1>7. WordBits \in 0 .. WordBits /\ WordBits - WordBits = 0 /\ 0 * Pow2[WordBits] + v = v
  BY <1>0, Powers
<1>8. n[WordBits] = c.word
  BY <1>1, <1>3, <1>7
<1>. QED BY <1>2, <1>4, <1>6, <1>7, <1>8, Zenon

(* A pair is not the empty sequence.                                       *)
LEMMA NoPair ==
  ASSUME NEW a, NEW b
  PROVE  <<a, b>> # <<>>
<1>1. Len(<<a, b>>) = 2 /\ Len(<<>>) = 0
  OBVIOUS
<1>. QED BY <1>1

(* Deselection leaves the chip as it was at first but for the write enable *)
(* bit, unless a complete WRITE begins to be programmed.                   *)
Programming(en, busy) ==
  [count |-> 0, opcode |-> 0, address |-> 0, word |-> 0, out |-> 0,
   do |-> 0, enabled |-> en, busy |-> busy]

(* Deselected, the chip is idle, or programs the word it was given.        *)
LEMMA DeselectedChip ==
  ASSUME NEW c, Registers(c), c.busy = <<>>
  PROVE  /\ ~IsWrite(c) => Deselected(c) = Idle0(c.enabled)
         /\ IsWrite(c) => Deselected(c) = Programming(c.enabled, <<c.address, c.word>>)
<1>1. ~IsWrite(c) => Deselected(c) = Idle0(c.enabled)
  <2>1. ~IsWrite(c) => Deselected(c) = [NewChip EXCEPT !.do = 1, !.enabled = c.enabled, !.busy = <<>>]
    BY DEF Deselected
  <2>. QED BY <2>1 DEF Idle0, Chip, NewChip
<1>2. IsWrite(c) => Deselected(c) = Programming(c.enabled, <<c.address, c.word>>)
  <2>. PICK busy : busy = <<c.address, c.word>> /\ busy # <<>>
    BY NoPair
  <2>1. IsWrite(c) => Deselected(c) = [NewChip EXCEPT !.do = 0, !.enabled = c.enabled, !.busy = busy]
    BY DEF Deselected
  <2>2. [NewChip EXCEPT !.do = 0, !.enabled = c.enabled, !.busy = busy]
          = Programming(c.enabled, busy)
    <3>. PICK en : en = c.enabled
      OBVIOUS
    <3>1. [NewChip EXCEPT !.do = 0] = Chip(0, 0, 0, 0, 0, 0, FALSE)
      <4>. PICK no : no = FALSE
        OBVIOUS
      <4>1. NewChip = Chip(0, 0, 0, 0, 0, 1, no)
        BY Zenon DEF Chip, NewChip
      <4>2. [Chip(0, 0, 0, 0, 0, 1, no) EXCEPT !.do = 0] = Chip(0, 0, 0, 0, 0, 0, no)
        BY DEF Chip
      <4>. QED BY <4>1, <4>2, Zenon
    <3>2. [Chip(0, 0, 0, 0, 0, 0, FALSE) EXCEPT !.enabled = en] = Chip(0, 0, 0, 0, 0, 0, en)
      BY DEF Chip
    <3>3. [Chip(0, 0, 0, 0, 0, 0, en) EXCEPT !.busy = busy] = Programming(en, busy)
      BY DEF Chip, Programming
    <3>4. [NewChip EXCEPT !.do = 0, !.enabled = en, !.busy = busy]
            = [[[NewChip EXCEPT !.do = 0] EXCEPT !.enabled = en] EXCEPT !.busy = busy]
      OBVIOUS
    <3>. QED BY <3>1, <3>2, <3>3, <3>4, Zenon
  <2>. QED BY <2>1, <2>2
<1>. QED BY <1>1, <1>2

-----------------------------------------------------------------------------
Names == {"acquire", "grant", "ready", "shift_out", "shift_in", "standby", "written",
          "stop", "release"}
Routines == [name : Names, value : Nat, count : Nat]

(* The head and the tail of a sequence that begins with one element.       *)
LEMMA Behead ==
  ASSUME NEW R, NEW a \in R, NEW t \in Seq(R), NEW s \in Seq(R)
  PROVE  /\ (<<a>> \o t) \o s \in Seq(R) /\ (<<a>> \o t) \o s # <<>>
         /\ Head((<<a>> \o t) \o s) = a /\ Tail((<<a>> \o t) \o s) = t \o s
<1>1. <<a>> \in Seq(R) /\ Len(<<a>>) = 1
  OBVIOUS
<1>2. PICK u \in Seq(R) : u = t \o s /\ Len(u) \in Nat
  BY ConcatProperties, LenProperties
<1>3. PICK v \in Seq(R) : v = (<<a>> \o t) \o s
  BY <1>1, ConcatProperties
<1>4. v = <<a>> \o u
  BY <1>1, <1>2, <1>3, ConcatAssociative
<1>5. /\ Len(v) = 1 + Len(u)
      /\ \A i \in 1 .. 1 + Len(u) : v[i] = IF i <= 1 THEN <<a>>[i] ELSE u[i - 1]
  BY <1>1, <1>2, <1>4, ConcatProperties
<1>6. v # <<>>
  BY <1>2, <1>5, EmptySeq
<1>7. Head(v) = a
  <2>1. Head(v) = v[1]
    OBVIOUS
  <2>2. v[1] = <<a>>[1]
    BY <1>2, <1>5
  <2>. QED BY <2>1, <2>2
<1>8. Tail(v) = u
  <2>1. /\ Tail(v) \in Seq(R) /\ Len(Tail(v)) = Len(u)
        /\ \A i \in 1 .. Len(Tail(v)) : Tail(v)[i] = v[i + 1]
    BY <1>2, <1>5, <1>6, HeadTailProperties
  <2>2. ASSUME NEW i \in 1 .. Len(u) PROVE Tail(v)[i] = u[i]
    <3>1. i + 1 \in 1 .. 1 + Len(u) /\ ~ (i + 1 <= 1) /\ i + 1 - 1 = i
      BY <1>2
    <3>. QED BY <1>5, <2>1, <3>1
  <2>. QED BY <2>1, <2>2, SeqEqual
<1>. QED BY <1>2, <1>3, <1>6, <1>7, <1>8

-----------------------------------------------------------------------------
(* The programs of the calls.                                              *)

RestLoop(s, block, n, last) ==
  s = [k \in 0 .. n |-> IF k = 0 THEN last ELSE block[n - k + 1] \o s[k - 1]]

(* A program made of blocks, from the last one backwards.                  *)
LEMMA RestIs ==
  ASSUME NEW n \in Nat, NEW block, NEW last \in Seq(Routines),
         \A i \in 1 .. n : block[i] \in Seq(Routines)
  PROVE  /\ Rest(block, n, last)[0] = last
         /\ \A k \in 0 .. n : Rest(block, n, last)[k] \in Seq(Routines)
         /\ \A k \in 1 .. n : Rest(block, n, last)[k]
                                = block[n - k + 1] \o Rest(block, n, last)[k - 1]
<1>. DEFINE F == [k \in 1 .. n |-> [x \in Seq(Routines) |-> block[n - k + 1] \o x]]
            R == [k \in 0 .. n |-> Seq(Routines)]
<1>1. \A k \in 1 .. n : \A x \in Seq(Routines) : F[k][x] = block[n - k + 1] \o x
  OBVIOUS
<1>2. \A k \in 0 .. n : R[k] = Seq(Routines)
  OBVIOUS
<1>. HIDE DEF F, R
<1>3. ASSUME NEW k \in 0 .. n, k < n, NEW x \in Seq(Routines)
      PROVE  /\ F[k + 1][x] = block[n - (k + 1) + 1] \o x
             /\ F[k + 1][x] \in Seq(Routines)
  <2>1. PICK j \in 1 .. n : j = k + 1 /\ n - j + 1 \in 1 .. n
    BY <1>3
  <2>2. F[j][x] = block[n - j + 1] \o x /\ block[n - j + 1] \in Seq(Routines)
    BY <1>1, <2>1
  <2>3. block[n - j + 1] \o x \in Seq(Routines)
    BY <2>2, ConcatProperties
  <2>. QED BY <2>1, <2>2, <2>3
<1>4. last \in R[0]
  BY <1>2
<1>5. ASSUME NEW k \in 0 .. n, NEW x \in R[k], k < n
      PROVE  F[k + 1][x] \in R[k + 1]
  <2>1. k + 1 \in 0 .. n /\ x \in Seq(Routines)
    BY <1>2, <1>5
  <2>. QED BY <1>2, <1>3, <1>5, <2>1
<1>6. PICK s : Follows(s, n, last, F)
  BY FollowsExists
<1>7. \A k \in 0 .. n : s[k] \in Seq(Routines)
  BY <1>2, <1>4, <1>5, <1>6, FollowsIn
<1>8. RestLoop(s, block, n, last)
  <2>1. s = [k \in 0 .. n |-> s[k]]
    BY <1>6 DEF Follows
  <2>2. s[0] = last /\ \A k \in 0 .. n : k < n => s[k + 1] = F[k + 1][s[k]]
    BY <1>6, FollowsSteps
  <2>3. ASSUME NEW k \in 0 .. n,
               k # 0 PROVE s[k] = block[n - k + 1] \o s[k - 1]
    <3>1. PICK j \in 0 .. n : j = k - 1 /\ j < n /\ j + 1 = k
      BY <2>3
    <3>2. s[j] \in Seq(Routines) /\ s[j + 1] = F[j + 1][s[j]]
      BY <1>7, <2>2, <3>1
    <3>3. F[j + 1][s[j]] = block[n - (j + 1) + 1] \o s[j]
      BY <1>3, <3>1, <3>2
    <3>. QED BY <3>1, <3>2, <3>3, Zenon
  <2>4. \A k \in 0 .. n : s[k] = IF k = 0 THEN last ELSE block[n - k + 1] \o s[k - 1]
    BY <2>2, <2>3
  <2>5. s = [k \in 0 .. n |-> IF k = 0 THEN last ELSE block[n - k + 1] \o s[k - 1]]
    BY <2>1, <2>4, Zenon
  <2>. QED BY <2>5 DEF RestLoop
<1>9. PICK c : RestLoop(c, block, n, last) /\ Rest(block, n, last) = c
  <2>. DEFINE c == CHOOSE t : RestLoop(t, block, n, last)
  <2>1. RestLoop(c, block, n, last)
    BY <1>8, Zenon
  <2>2. Rest(block, n, last) = c
    BY DEF Rest, RestLoop
  <2>. QED BY <2>1, <2>2
<1>10. \A k \in 0 .. n : c[k] = IF k = 0 THEN last ELSE block[n - k + 1] \o c[k - 1]
  BY <1>9 DEF RestLoop
<1>. DEFINE T == {k \in 0 .. n : c[k] \in Seq(Routines)}
<1>11. 0 \in T /\ c[0] = last
  BY <1>10
<1>12. ASSUME NEW k \in 1 .. n PROVE c[k] = block[n - k + 1] \o c[k - 1]
  <2>1. k \in 0 .. n /\ k # 0
    OBVIOUS
  <2>. QED BY <1>10, <2>1, Zenon
<1>13. ASSUME NEW k \in 0 .. n, k < n, k \in T PROVE k + 1 \in T
  <2>1. PICK j \in 1 .. n : j = k + 1 /\ n - j + 1 \in 1 .. n /\ j - 1 = k
    BY <1>13
  <2>2. c[j] = block[n - j + 1] \o c[k] /\ block[n - j + 1] \in Seq(Routines)
    BY <1>12, <2>1
  <2>3. c[j] \in Seq(Routines)
    BY <1>13, <2>2, ConcatProperties
  <2>. QED BY <2>1, <2>3
<1>14. \A k \in T : c[k] \in Seq(Routines)
  OBVIOUS
<1>. HIDE DEF T
<1>15. \A k \in 0 .. n : c[k] \in Seq(Routines)
  BY <1>11, <1>13, <1>14, UpTo
<1>. QED BY <1>9, <1>11, <1>12, <1>15

(* A call that goes on: its parameters are in bounds.                      *)
CallOK(c) ==
  /\ c \in [op : {"read", "write"}, offset : Nat, vals : Seq(Values), n : Nat]
  /\ InBounds(c.offset, c.n) /\ (c.op = "write" => c.n = Len(c.vals))

Words(c) == IF c.op = "read" THEN reads(c.offset, c.n) ELSE writes(c.offset, c.vals)

(* Its routines for the word that has k - 1 after it.                      *)
Address(c, k) == Out(c.offset + (c.n - k), AddressBits)
Word(c, k)    == Out(c.vals[c.n - k + 1], WordBits)
Block(c, k) ==
  IF c.op = "read" THEN <<Out(6, opcode_bits), Address(c, k), In, Plain("standby")>>
  ELSE <<Out(5, opcode_bits), Address(c, k), Word(c, k),
         Plain("standby"), Plain("written"), Plain("standby")>>

(* The routines are what they are built as.                                *)
LEMMA RoutineIn ==
  ASSUME NEW v \in Nat, NEW n \in Nat
  PROVE  /\ Out(v, n) \in Routines /\ In \in Routines
         /\ \A x \in Names : Plain(x) \in Routines
         /\ opcode_bits \in Nat /\ opcode_bits + 2 \in Nat /\ AddressBits \in Nat
         /\ AddressBits - 2 \in Nat /\ WordBits \in Nat
<1>1. WordBits \in Nat /\ AddressBits \in Nat /\ AddressBits > 2 /\ opcode_bits = 3
  BY Sizes DEF opcode_bits
<1>2. \A x \in Names : \A w \in Nat : \A m \in Nat : Routine(x, w, m) \in Routines
  BY DEF Routine, Routines
<1>3. 0 \in Nat /\ "shift_out" \in Names /\ "shift_in" \in Names
  BY DEF Names
<1>4. Out(v, n) \in Routines /\ In \in Routines /\ \A x \in Names : Plain(x) \in Routines
  BY <1>1, <1>2, <1>3, Zenon DEF Out, In, Plain
<1>5. opcode_bits \in Nat /\ opcode_bits + 2 \in Nat /\ AddressBits - 2 \in Nat
  BY <1>1
<1>. QED BY <1>1, <1>4, <1>5

(* A call stays within the EEPROM.                                         *)
LEMMA CallIs ==
  ASSUME NEW c, CallOK(c)
  PROVE  /\ c.op \in {"read", "write"} /\ c.offset \in Nat /\ c.n \in Nat /\ c.n > 0
         /\ c.offset + c.n <= WordSize
         /\ \A k \in 1 .. c.n : c.offset + (c.n - k) \in Offsets /\ c.offset + (c.n - k) \in Nat
         /\ c.op = "write" => \A k \in 1 .. c.n : /\ c.vals[c.n - k + 1] \in Values
                                                  /\ c.vals[c.n - k + 1] \in Nat
<1>1. c.op \in {"read", "write"} /\ c.offset \in Nat /\ c.n \in Nat /\ c.n > 0
      /\ c.offset < WordSize /\ c.n <= WordSize - c.offset
      /\ c.vals \in Seq(Values) /\ (c.op = "write" => c.n = Len(c.vals))
  BY DEF CallOK, InBounds
<1>2. PICK o \in Nat, n \in Nat, w \in Nat : o = c.offset /\ n = c.n /\ w = WordSize
  BY <1>1, Powers
<1>3. o + n <= w /\ \A k \in 1 .. n : o + (n - k) \in 0 .. w - 1 /\ o + (n - k) \in Nat
                                      /\ n - k + 1 \in 1 .. n
  <2>1. o + n <= w
    BY <1>1, <1>2
  <2>. QED BY <2>1
<1>4. c.op = "write" => \A k \in 1 .. n : c.vals[n - k + 1] \in Values
  BY <1>1, <1>2, <1>3, ElementOfSeq
<1>5. Values \subseteq Nat
  BY DEF Values
<1>. QED BY <1>1, <1>2, <1>3, <1>4, <1>5 DEF Offsets

Ending(c) == IF c.op = "read" THEN Stop ELSE ewds \o Stop

(* Tuples of elements are sequences of them.                               *)
LEMMA TupleSeqs ==
  ASSUME NEW R, NEW a \in R
  PROVE  /\ <<a>> \in Seq(R) /\ <<>> \in Seq(R)
         /\ \A b \in R : <<a, b>> \in Seq(R)
         /\ \A b, c, d \in R : <<a, b, c>> \in Seq(R) /\ <<a, b, c, d>> \in Seq(R)
         /\ \A b, c, d, e, f \in R : <<a, b, c, d, e>> \in Seq(R)
                                     /\ <<a, b, c, d, e, f>> \in Seq(R)
OBVIOUS

(* The blocks of a call are sequences of routines.                         *)
LEMMA TuplesIn ==
  ASSUME NEW c, CallOK(c)
  PROVE  /\ \A k \in 1 .. c.n : Block(c, k) \in Seq(Routines) /\ Address(c, k) \in Routines
                                /\ (c.op = "write" => Word(c, k) \in Routines)
         /\ Ending(c) \in Seq(Routines) /\ Stop \in Seq(Routines) /\ ewds \in Seq(Routines)
<1>1. \A v \in Nat : \A n \in Nat : Out(v, n) \in Routines
  BY RoutineIn
<1>2. /\ In \in Routines /\ \A x \in Names : Plain(x) \in Routines
      /\ opcode_bits \in Nat /\ opcode_bits + 2 \in Nat /\ AddressBits \in Nat
      /\ AddressBits - 2 \in Nat /\ WordBits \in Nat
  <2>1. 0 \in Nat
    OBVIOUS
  <2>. QED BY <2>1, RoutineIn
<1>3. Plain("standby") \in Routines /\ Plain("written") \in Routines
      /\ Plain("stop") \in Routines /\ Plain("release") \in Routines
  BY <1>2 DEF Names
<1>4. Stop \in Seq(Routines)
  BY <1>3 DEF Stop
<1>5. ewds \in Seq(Routines)
  <2>1. Out(16, opcode_bits + 2) \in Routines /\ Out(0, AddressBits - 2) \in Routines
    BY <1>1, <1>2
  <2>. QED BY <2>1 DEF ewds
<1>6. ASSUME NEW k \in 1 .. c.n
      PROVE  Block(c, k) \in Seq(Routines) /\ Address(c, k) \in Routines
             /\ (c.op = "write" => Word(c, k) \in Routines)
  <2>1. Address(c, k) \in Routines /\ Out(6, opcode_bits) \in Routines
        /\ Out(5, opcode_bits) \in Routines
    BY <1>1, <1>2, CallIs DEF Address
  <2>2. c.op = "write" => Word(c, k) \in Routines
    BY <1>1, <1>2, CallIs DEF Word
  <2>3. c.op = "read" => Block(c, k) \in Seq(Routines)
    BY <1>2, <1>3, <2>1, TupleSeqs DEF Block
  <2>4. c.op # "read" => Block(c, k) \in Seq(Routines)
    BY <1>2, <1>3, <2>1, <2>2, CallIs, TupleSeqs DEF Block
  <2>. QED BY <2>1, <2>2, <2>3, <2>4
<1>7. Ending(c) \in Seq(Routines)
  BY <1>4, <1>5, ConcatProperties DEF Ending
<1>. QED BY <1>4, <1>5, <1>6, <1>7

(* What is left for k words is the block of one and what is left for the   *)
(* others.                                                                 *)
LEMMA WordsIs ==
  ASSUME NEW c, CallOK(c)
  PROVE  /\ Words(c)[0] = Ending(c)
         /\ \A k \in 0 .. c.n : Words(c)[k] \in Seq(Routines)
         /\ \A k \in 1 .. c.n : Words(c)[k] = Block(c, k) \o Words(c)[k - 1]
<1>1. c.op \in {"read", "write"} /\ c.offset \in Nat /\ c.n \in Nat
      /\ (c.op = "write" => c.n = Len(c.vals))
  BY CallIs DEF CallOK
<1>. DEFINE rb == [i \in 1 .. c.n |->
                     <<Out(6, opcode_bits), Out(c.offset + i - 1, AddressBits),
                       In, Plain("standby")>>]
            wb == [i \in 1 .. c.n |->
                     <<Out(5, opcode_bits), Out(c.offset + i - 1, AddressBits),
                       Out(c.vals[i], WordBits),
                       Plain("standby"), Plain("written"), Plain("standby")>>]
            b  == IF c.op = "read" THEN rb ELSE wb
<1>2. Words(c) = Rest(b, c.n, Ending(c))
  <2>1. c.op = "read" => Words(c) = Rest(rb, c.n, Ending(c))
    BY DEF Words, reads, Ending
  <2>2. c.op = "write" => Words(c) = Rest(wb, c.n, Ending(c))
    BY <1>1, Zenon DEF Words, writes, Ending
  <2>. QED BY <1>1, <2>1, <2>2
<1>3. ASSUME NEW k \in 1 .. c.n
      PROVE  b[c.n - k + 1] = Block(c, k)
  <2>1. PICK i \in 1 .. c.n : i = c.n - k + 1 /\ c.offset + i - 1 = c.offset + (c.n - k)
    BY <1>1
  <2>2. rb[i] = <<Out(6, opcode_bits), Address(c, k), In, Plain("standby")>>
    BY <2>1, Zenon DEF Address
  <2>3. wb[i] = <<Out(5, opcode_bits), Address(c, k), Word(c, k),
                  Plain("standby"), Plain("written"), Plain("standby")>>
    BY <2>1, Zenon DEF Address, Word
  <2>. HIDE DEF rb, wb
  <2>. QED BY <2>1, <2>2, <2>3, Zenon DEF Block
<1>. HIDE DEF b
<1>4. ASSUME NEW i \in 1 .. c.n PROVE b[i] \in Seq(Routines)
  <2>1. PICK k \in 1 .. c.n : k = c.n - i + 1 /\ c.n - k + 1 = i
    BY SMTT(30), <1>1
  <2>. QED BY <1>3, <2>1, TuplesIn
<1>5. Ending(c) \in Seq(Routines)
  BY TuplesIn
<1>6. /\ Rest(b, c.n, Ending(c))[0] = Ending(c)
      /\ \A k \in 0 .. c.n : Rest(b, c.n, Ending(c))[k] \in Seq(Routines)
      /\ \A k \in 1 .. c.n : Rest(b, c.n, Ending(c))[k]
                            = b[c.n - k + 1] \o Rest(b, c.n, Ending(c))[k - 1]
  <2>1. PICK n \in Nat, last \in Seq(Routines) : n = c.n /\ last = Ending(c)
    BY <1>1, <1>5
  <2>2. \A i \in 1 .. n : b[i] \in Seq(Routines)
    BY <1>4, <2>1
  <2>3. /\ Rest(b, n, last)[0] = last
        /\ \A k \in 0 .. n : Rest(b, n, last)[k] \in Seq(Routines)
        /\ \A k \in 1 .. n : Rest(b, n, last)[k] = b[n - k + 1] \o Rest(b, n, last)[k - 1]
    BY ZenonT(30), <2>2, RestIs
  <2>. QED BY <2>1, <2>3
<1>. QED BY <1>2, <1>3, <1>6

-----------------------------------------------------------------------------
(* Where a call is: what it does there, and what it has left after the     *)
(* routines of its word; k words are still to be moved.                    *)
ReadPlaces  == {"address", "in", "end"}
WritePlaces == {"w address", "w word", "w end", "written", "w again"}
Openings    == {"acquire", "grant", "ready"}
Enabling    == {"ewen", "ewen low", "enabled"}
Closings    == {"ewds low", "stop", "release"}
CallPlaces  == Openings \cup Enabling \cup {"words"} \cup ReadPlaces \cup WritePlaces
                 \cup Closings

PlaceOK(c, p, k) ==
  /\ k \in 0 .. c.n
  /\ p \in ReadPlaces \cup WritePlaces => k > 0
  /\ p \in Openings \cup Enabling => k = c.n
  /\ p \in ReadPlaces => c.op = "read"
  /\ p \in WritePlaces \cup Enabling \cup {"ewds low"} => c.op = "write"
  /\ p \in Closings => k = 0
  /\ p = "words" /\ k = 0 => c.op = "write"

Standby == Plain("standby")
Prelude(c) == IF c.op = "read" THEN <<>> ELSE ewen \o <<Standby>>

Now(c, p, k) ==
  CASE p = "acquire"   -> <<Plain("acquire"), Plain("grant"), Plain("ready")>> \o Prelude(c)
    [] p = "grant"     -> <<Plain("grant"), Plain("ready")>> \o Prelude(c)
    [] p = "ready"     -> <<Plain("ready")>> \o Prelude(c)
    [] p = "ewen"      -> ewen \o <<Standby>>
    [] p = "ewen low"  -> <<Out(0, AddressBits - 2), Standby>>
    [] p = "enabled"   -> <<Standby>>
    [] p = "words"     -> IF k > 0 THEN Block(c, k) ELSE ewds \o Stop
    [] p = "address"   -> <<Address(c, k), In, Standby>>
    [] p = "in"        -> <<In, Standby>>
    [] p = "end"       -> <<Standby>>
    [] p = "w address" -> <<Address(c, k), Word(c, k), Standby, Plain("written"), Standby>>
    [] p = "w word"    -> <<Word(c, k), Standby, Plain("written"), Standby>>
    [] p = "w end"     -> <<Standby, Plain("written"), Standby>>
    [] p = "written"   -> <<Plain("written"), Standby>>
    [] p = "w again"   -> <<Standby>>
    [] p = "ewds low"  -> <<Out(0, AddressBits - 2)>> \o Stop
    [] p = "stop"      -> Stop
    [] p = "release"   -> <<Plain("release")>>

Later(c, p, k) ==
  CASE p \in Openings \cup Enabling -> Words(c)[k]
    [] p \in ReadPlaces \cup WritePlaces \cup {"words"} /\ k > 0 -> Words(c)[k - 1]
    [] OTHER -> <<>>

Left(c, p, k) == IF p = "done" THEN <<>> ELSE Now(c, p, k) \o Later(c, p, k)

(* What it does first there, and where it is then.                         *)
First(c, p, k) ==
  CASE p \in {"acquire", "grant", "ready", "written", "stop", "release"} -> Plain(p)
    [] p = "ewen"                       -> Out(19, opcode_bits + 2)
    [] p \in {"ewen low", "ewds low"}   -> Out(0, AddressBits - 2)
    [] p \in {"enabled", "end", "w end", "w again"} -> Standby
    [] p = "words"     -> IF k = 0 THEN Out(16, opcode_bits + 2)
                          ELSE IF c.op = "read" THEN Out(6, opcode_bits)
                          ELSE Out(5, opcode_bits)
    [] p \in {"address", "w address"}   -> Address(c, k)
    [] p = "in"                         -> In
    [] p = "w word"                     -> Word(c, k)

Then(c, p, k) ==
  CASE p = "acquire"   -> "grant"
    [] p = "grant"     -> "ready"
    [] p = "ready"     -> IF c.op = "read" THEN "words" ELSE "ewen"
    [] p = "ewen"      -> "ewen low"
    [] p = "ewen low"  -> "enabled"
    [] p = "enabled"   -> "words"
    [] p = "words"     -> IF k = 0 THEN "ewds low"
                          ELSE IF c.op = "read" THEN "address" ELSE "w address"
    [] p = "address"   -> "in"
    [] p = "in"        -> "end"
    [] p = "end"       -> IF k = 1 THEN "stop" ELSE "words"
    [] p = "w address" -> "w word"
    [] p = "w word"    -> "w end"
    [] p = "w end"     -> "written"
    [] p = "written"   -> "w again"
    [] p = "w again"   -> "words"
    [] p = "ewds low"  -> "stop"
    [] p = "stop"      -> "release"
    [] p = "release"   -> "done"

ThenLeft(p, k) == IF p \in {"end", "w again"} THEN k - 1 ELSE k

(* To take a routine off a program leaves the rest of it.                  *)
LEMMA StepIs ==
  ASSUME NEW a \in Routines, NEW t \in Seq(Routines), NEW s \in Seq(Routines),
         NEW x, x = (<<a>> \o t) \o s, NEW y, y = t \o s
  PROVE  x \in Seq(Routines) /\ x # <<>> /\ Head(x) = a /\ Tail(x) = y
<1>1. PICK R : R = Routines
  OBVIOUS
<1>2. a \in R /\ t \in Seq(R) /\ s \in Seq(R)
  BY <1>1, Zenon
<1>. HIDE <1>1
<1>3. /\ (<<a>> \o t) \o s \in Seq(R) /\ (<<a>> \o t) \o s # <<>>
      /\ Head((<<a>> \o t) \o s) = a /\ Tail((<<a>> \o t) \o s) = t \o s
  BY <1>2, Behead
<1>. QED BY <1>1, <1>3, Zenon

(* The tuples that the blocks are made of, cut after their first element.  *)
LEMMA OneCut ==
  ASSUME NEW a
  PROVE  <<a>> = <<a>> \o <<>>
OBVIOUS

(* See OneCut.                                                             *)
LEMMA TwoCut ==
  ASSUME NEW a, NEW b
  PROVE  <<a, b>> = <<a>> \o <<b>>
<1>. DEFINE R == {a, b}
<1>1. <<a>> \in Seq(R) /\ <<b>> \in Seq(R) /\ <<a, b>> \in Seq(R)
  OBVIOUS
<1>2. <<a>>[1] = a /\ <<b>>[1] = b /\ Len(<<a>>) = 1 /\ Len(<<b>>) = 1
      /\ <<a, b>>[1] = a /\ <<a, b>>[2] = b /\ Len(<<a, b>>) = 2
  OBVIOUS
<1>3. PICK s \in Seq(R), t \in Seq(R), u \in Seq(R) : s = <<a>> /\ t = <<b>> /\ u = <<a, b>>
  BY <1>1
<1>. HIDE DEF R
<1>4. s \o t = u
  <2>1. s \o t \in Seq(R) /\ Len(s \o t) = 2 /\ (s \o t)[1] = a /\ (s \o t)[2] = b
    BY <1>2, <1>3, ConcatProperties
  <2>2. u[1] = a /\ u[2] = b /\ Len(u) = 2
    BY <1>2, <1>3
  <2>3. \A i \in 1 .. Len(u) : (s \o t)[i] = u[i]
    BY <2>1, <2>2
  <2>. QED BY <2>1, <2>2, <2>3, SeqEqual
<1>. QED BY <1>3, <1>4, Zenon

(* See OneCut.                                                             *)
LEMMA ThreeCut ==
  ASSUME NEW a, NEW b, NEW c
  PROVE  <<a, b, c>> = <<a>> \o <<b, c>>
OBVIOUS

(* See OneCut.                                                             *)
LEMMA FourCut ==
  ASSUME NEW a, NEW b, NEW c, NEW d
  PROVE  <<a, b, c, d>> = <<a>> \o <<b, c, d>>
OBVIOUS

(* See OneCut.                                                             *)
LEMMA LongCut ==
  ASSUME NEW a, NEW b, NEW c, NEW d, NEW e
  PROVE  <<a, b, c, d, e>> = <<a>> \o <<b, c, d, e>>
OBVIOUS

(* See OneCut.                                                             *)
LEMMA LongerCut ==
  ASSUME NEW a, NEW b, NEW c, NEW d, NEW e, NEW f
  PROVE  <<a, b, c, d, e, f>> = <<a>> \o <<b, c, d, e, f>>
OBVIOUS

(* The empty sequence is one of any elements.                              *)
LEMMA EmptyIn ==
  ASSUME NEW R
  PROVE  <<>> \in Seq(R)
OBVIOUS

(* The empty sequence adds nothing.                                        *)
LEMMA NoMore ==
  ASSUME NEW s \in Seq(Routines)
  PROVE  s \o <<>> = s /\ <<>> \o s = s
<1>1. PICK R : R = Routines
  OBVIOUS
<1>2. s \in Seq(R)
  BY <1>1, Zenon
<1>. HIDE <1>1
<1>. QED BY <1>2, ConcatEmptySeq

(* The routines of a call are routines.                                    *)
LEMMA PartsIn ==
  ASSUME NEW c, CallOK(c)
  PROVE  /\ \A x \in Names : Plain(x) \in Routines
         /\ Standby \in Routines /\ In \in Routines
         /\ Out(19, opcode_bits + 2) \in Routines /\ Out(16, opcode_bits + 2) \in Routines
         /\ Out(0, AddressBits - 2) \in Routines
         /\ Out(6, opcode_bits) \in Routines /\ Out(5, opcode_bits) \in Routines
<1>1. \A v \in Nat : \A n \in Nat : Out(v, n) \in Routines
  BY RoutineIn
<1>2. /\ In \in Routines /\ \A x \in Names : Plain(x) \in Routines
      /\ opcode_bits \in Nat /\ opcode_bits + 2 \in Nat
      /\ AddressBits - 2 \in Nat
  <2>1. 0 \in Nat
    OBVIOUS
  <2>. QED BY <2>1, RoutineIn
<1>3. Standby \in Routines
  BY <1>2 DEF Names, Standby
<1>. QED BY <1>1, <1>2, <1>3

(* At the beginning of a word. *)
LEMMA WordsLeft ==
  ASSUME NEW c, CallOK(c), NEW k, PlaceOK(c, "words", k)
  PROVE  Left(c, "words", k) = Words(c)[k]
<1>1. k \in 0 .. c.n /\ c.n \in Nat
  BY CallIs DEF PlaceOK
<1>2. CASE k = 0
  <2>1. c.op = "write"
    BY <1>2 DEF PlaceOK
  <2>2. Words(c)[k] = ewds \o Stop /\ ewds \o Stop \in Seq(Routines)
    BY <1>1, <1>2, <2>1, WordsIs, TuplesIn DEF Ending
  <2>3. Left(c, "words", k) = (ewds \o Stop) \o <<>>
    BY <1>2 DEF Left, Now, Later, Openings, Enabling, ReadPlaces, WritePlaces
  <2>. QED BY <2>2, <2>3, NoMore
<1>3. CASE k # 0
  <2>1. k \in 1 .. c.n /\ k > 0
    BY <1>1, <1>3
  <2>2. Left(c, "words", k) = Block(c, k) \o Words(c)[k - 1]
    BY <2>1 DEF Left, Now, Later, Openings, Enabling, ReadPlaces, WritePlaces
  <2>. QED BY <2>1, <2>2, WordsIs
<1>. QED BY <1>2, <1>3

(* What comes after a place is a program.                                  *)
LEMMA LaterIn ==
  ASSUME NEW c, CallOK(c), NEW k, NEW p, PlaceOK(c, p, k)
  PROVE  Later(c, p, k) \in Seq(Routines)
<1>1. c.n \in Nat /\ k \in 0 .. c.n
  BY CallIs DEF PlaceOK
<1>2. \A i \in 0 .. c.n : Words(c)[i] \in Seq(Routines)
  BY WordsIs
<1>3. <<>> \in Seq(Routines)
  OBVIOUS
<1>4. CASE p \in Openings \cup Enabling
  BY <1>1, <1>2, <1>4 DEF Later
<1>5. CASE p \in ReadPlaces \cup WritePlaces \cup {"words"} /\ k > 0
  <2>1. k - 1 \in 0 .. c.n
    <3>1. k > 0
      BY <1>5 DEF PlaceOK
    <3>. QED BY <1>1, <3>1
  <2>2. p \notin Openings \cup Enabling
    BY <1>5 DEF Openings, Enabling, ReadPlaces, WritePlaces
  <2>3. Later(c, p, k) = Words(c)[k - 1]
    BY <1>5, <2>2, Zenon DEF Later
  <2>. QED BY <1>2, <2>1, <2>3
<1>6. CASE ~ (p \in Openings \cup Enabling)
           /\ ~ (p \in ReadPlaces \cup WritePlaces \cup {"words"} /\ k > 0)
  BY <1>3, <1>6, Zenon DEF Later
<1>. QED BY <1>4, <1>5, <1>6

(* One step of the call.                                                   *)
Steps(c, p, k, q, j) ==
  /\ Left(c, p, k) \in Seq(Routines) /\ Left(c, p, k) # <<>>
  /\ Head(Left(c, p, k)) = First(c, p, k)
  /\ Tail(Left(c, p, k)) = Left(c, q, j)

(* A step within a block.                                                  *)
LEMMA Within ==
  ASSUME NEW c, CallOK(c), NEW k, NEW p \in CallPlaces, PlaceOK(c, p, k),
         NEW q \in CallPlaces, Later(c, q, k) = Later(c, p, k),
         First(c, p, k) \in Routines, Now(c, q, k) \in Seq(Routines),
         Now(c, p, k) = <<First(c, p, k)>> \o Now(c, q, k)
  PROVE  Steps(c, p, k, q, k)
<1>1. "done" \notin CallPlaces
  BY DEF CallPlaces, Openings, Enabling, Closings, ReadPlaces, WritePlaces
<1>2. PICK a \in Routines, t \in Seq(Routines), s \in Seq(Routines) :
        a = First(c, p, k) /\ t = Now(c, q, k) /\ s = Later(c, p, k)
  BY LaterIn
<1>3. Left(c, p, k) = (<<a>> \o t) \o s
  BY <1>1, <1>2, Zenon DEF Left
<1>4. Left(c, q, k) = t \o s
  BY <1>1, <1>2, Zenon DEF Left
<1>. QED BY SMTT(30), <1>2, <1>3, <1>4, StepIs DEF Steps

(* A step that ends a block.                                               *)
LEMMA Ends ==
  ASSUME NEW c, CallOK(c), NEW k, NEW p \in CallPlaces, PlaceOK(c, p, k),
         NEW q, NEW j, Left(c, q, j) = Later(c, p, k),
         First(c, p, k) \in Routines, Now(c, p, k) = <<First(c, p, k)>>
  PROVE  Steps(c, p, k, q, j)
<1>1. "done" \notin CallPlaces
  BY DEF CallPlaces, Openings, Enabling, Closings, ReadPlaces, WritePlaces
<1>2. PICK a \in Routines, s \in Seq(Routines) :
        a = First(c, p, k) /\ s = Later(c, p, k)
  BY LaterIn
<1>3. Left(c, p, k) = (<<a>> \o <<>>) \o s
  <2>1. <<a>> = <<a>> \o <<>>
    BY OneCut
  <2>. QED BY <1>1, <1>2, <2>1, Zenon DEF Left
<1>4. Left(c, q, j) = <<>> \o s /\ <<>> \in Seq(Routines)
  BY <1>2, NoMore
<1>. QED BY <1>2, <1>3, <1>4, StepIs DEF Steps

(* While a call opens, all its words are to come.                          *)
LEMMA OpeningLater ==
  ASSUME NEW c, NEW k, NEW p \in Openings \cup Enabling
  PROVE  Later(c, p, k) = Words(c)[k]
BY DEF Later, Openings, Enabling, ReadPlaces, WritePlaces

(* The first routine of a block is the first of the program.               *)
LEMMA FirstOf ==
  ASSUME NEW x \in Routines, NEW t \in Seq(Routines), NEW p \in Seq(Routines),
         NEW s,
         s = <<x>> \o t
  PROVE  s \o p = <<x>> \o (t \o p) /\ t \o p \in Seq(Routines)
<1>1. PICK R : R = Routines
  OBVIOUS
<1>2. PICK u \in Seq(R), v \in Seq(R), w \in Seq(R) : u = <<x>> /\ v = t /\ w = p
  BY <1>1, TupleSeqs
<1>. HIDE <1>1
<1>3. (u \o v) \o w = u \o (v \o w)
  BY SMTT(30), ConcatAssociative
<1>4. v \o w \in Seq(R)
  BY ConcatProperties
<1>. QED BY <1>1, <1>2, <1>3, <1>4, Zenon

(* The steps that open a call: acquire, grant, ready and the enable        *)
(* command.                                                                *)
LEMMA OpeningSteps ==
  ASSUME NEW c, CallOK(c), NEW k, NEW p \in Openings \cup Enabling,
         PlaceOK(c, p, k)
  PROVE  Steps(c, p, k, Then(c, p, k), ThenLeft(p, k))
<1>1. /\ Plain("acquire") \in Routines /\ Plain("grant") \in Routines
      /\ Plain("ready") \in Routines /\ Standby \in Routines
      /\ Out(19, opcode_bits + 2) \in Routines /\ Out(0, AddressBits - 2) \in Routines
  BY PartsIn DEF Names
<1>2. c.op \in {"read", "write"} /\ c.n \in Nat /\ c.n > 0 /\ k = c.n /\ ThenLeft(p, k) = k
      /\ p \in CallPlaces
  BY CallIs DEF PlaceOK, ThenLeft, CallPlaces, Openings, Enabling
<1>3. ewen = <<Out(19, opcode_bits + 2), Out(0, AddressBits - 2)>>
  BY DEF ewen
<1>4. PICK a \in Routines, b \in Routines, s \in Routines :
        a = Out(19, opcode_bits + 2) /\ b = Out(0, AddressBits - 2) /\ s = Standby
  BY <1>1
<1>5. ewen \o <<Standby>> = <<a>> \o <<b, s>> /\ ewen \o <<Standby>> \in Seq(Routines)
  <2>1. ewen = <<a>> \o <<b>> /\ <<b, s>> = <<b>> \o <<s>>
    BY <1>3, <1>4, TwoCut
  <2>2. PICK R : R = Routines
    OBVIOUS
  <2>3. <<a>> \in Seq(R) /\ <<b>> \in Seq(R) /\ <<s>> \in Seq(R)
    BY <2>2, TupleSeqs
  <2>. HIDE <2>2
  <2>4. PICK u \in Seq(R), v \in Seq(R), w \in Seq(R) :
          u = <<a>> /\ v = <<b>> /\ w = <<s>>
    BY <2>3
  <2>5. (u \o v) \o w = u \o (v \o w) /\ (u \o v) \o w \in Seq(R)
    <3>1. u \o v \in Seq(R)
      BY ConcatProperties
    <3>2. (u \o v) \o w \in Seq(R)
      BY <3>1, ConcatProperties
    <3>. QED BY SMTT(30), <3>2, ConcatAssociative
  <2>. QED BY <1>4, <2>1, <2>2, <2>4, <2>5, Zenon
<1>6. Prelude(c) \in Seq(Routines)
  <2>1. <<>> \in Seq(Routines)
    BY EmptyIn
  <2>. QED BY <1>5, <2>1, Zenon DEF Prelude
<1>7. \A x \in Openings \cup Enabling : Later(c, x, k) = Words(c)[k]
  BY OpeningLater
<1>8. PlaceOK(c, "words", k)
  <2>1. k \in 0 .. c.n /\ k # 0
    <3>1. PICK n \in Nat : n = c.n /\ n > 0
      BY <1>2
    <3>2. n \in 0 .. n /\ n # 0
      BY <3>1
    <3>. QED BY <1>2, <3>1, <3>2, Zenon
  <2>. QED BY <2>1 DEF PlaceOK, Closings, ReadPlaces, WritePlaces, Openings,
              Enabling
<1>9. Left(c, "words", k) = Words(c)[k]
  BY <1>8, WordsLeft
<1>10. CASE p = "acquire"
  <2>1. First(c, p, k) = Plain("acquire") /\ Then(c, p, k) = "grant"
    BY <1>10 DEF First, Then
  <2>2. Now(c, "grant", k) = <<Plain("grant"), Plain("ready")>> \o Prelude(c)
    BY DEF Now
  <2>3. Now(c, p, k) = <<Plain("acquire"), Plain("grant"), Plain("ready")>> \o Prelude(c)
    BY <1>10 DEF Now
  <2>4. PICK x \in Routines, y \in Routines, z \in Routines, u \in Seq(Routines) :
          x = Plain("acquire") /\ y = Plain("grant") /\ z = Plain("ready") /\ u = Prelude(c)
    BY <1>1, <1>6
  <2>5. <<x, y, z>> = <<x>> \o <<y, z>> /\ <<y, z>> \in Seq(Routines)
    BY ThreeCut, TupleSeqs
  <2>6. <<x, y, z>> \o u = <<x>> \o (<<y, z>> \o u) /\ <<y, z>> \o u \in Seq(Routines)
    BY <2>5, FirstOf
  <2>7. "grant" \in CallPlaces /\ Later(c, p, k) = Later(c, "grant", k)
    BY <1>7 DEF CallPlaces, Openings
  <2>. QED BY <1>1, <1>2, <2>1, <2>2, <2>3, <2>4, <2>6, <2>7, Within
<1>11. CASE p = "grant"
  <2>1. First(c, p, k) = Plain("grant") /\ Then(c, p, k) = "ready"
    BY <1>11 DEF First, Then
  <2>2. Now(c, "ready", k) = <<Plain("ready")>> \o Prelude(c)
    BY DEF Now
  <2>3. Now(c, p, k) = <<Plain("grant"), Plain("ready")>> \o Prelude(c)
    BY <1>11 DEF Now
  <2>4. PICK y \in Routines, z \in Routines, u \in Seq(Routines) :
          y = Plain("grant") /\ z = Plain("ready") /\ u = Prelude(c)
    BY <1>1, <1>6
  <2>5. <<y, z>> = <<y>> \o <<z>> /\ <<z>> \in Seq(Routines)
    BY TwoCut, TupleSeqs
  <2>6. <<y, z>> \o u = <<y>> \o (<<z>> \o u) /\ <<z>> \o u \in Seq(Routines)
    BY <2>5, FirstOf
  <2>7. "ready" \in CallPlaces /\ Later(c, p, k) = Later(c, "ready", k)
    BY <1>7 DEF CallPlaces, Openings
  <2>. QED BY <1>1, <1>2, <2>1, <2>2, <2>3, <2>4, <2>6, <2>7, Within
<1>12. CASE p = "ready"
  <2>1. First(c, p, k) = Plain("ready")
    BY <1>12 DEF First
  <2>2. Now(c, p, k) = <<Plain("ready")>> \o Prelude(c)
    BY <1>12 DEF Now
  <2>3. CASE c.op = "read"
    <3>1. Then(c, p, k) = "words"
      BY <1>12, <2>3 DEF Then
    <3>2. Prelude(c) = <<>>
      BY <2>3 DEF Prelude
    <3>3. Now(c, p, k) = <<First(c, p, k)>>
      BY <2>1, <2>2, <3>2, OneCut
    <3>4. Later(c, p, k) = Left(c, "words", k)
      BY <1>7, <1>9
    <3>. QED BY <1>1, <1>2, <2>1, <3>1, <3>3, <3>4, Ends
  <2>4. CASE c.op = "write"
    <3>1. Then(c, p, k) = "ewen" /\ "ewen" \in CallPlaces
      BY <1>12, <2>4 DEF Then, CallPlaces, Enabling
    <3>2. Prelude(c) = Now(c, "ewen", k)
      BY <2>4 DEF Prelude, Now
    <3>3. Later(c, p, k) = Later(c, "ewen", k)
      BY <1>7 DEF Enabling
    <3>. QED BY <1>1, <1>2, <1>6, <2>1, <2>2, <3>1, <3>2, <3>3, Within
  <2>. QED BY <1>2, <2>3, <2>4
<1>13. CASE p = "ewen"
  <2>1. First(c, p, k) = a /\ Then(c, p, k) = "ewen low" /\ "ewen low" \in CallPlaces
    BY <1>4, <1>13 DEF First, Then, CallPlaces, Enabling
  <2>2. Now(c, "ewen low", k) = <<b, s>>
    BY <1>4 DEF Now
  <2>3. Now(c, p, k) = <<a>> \o <<b, s>>
    BY <1>5, <1>13 DEF Now
  <2>4. Later(c, p, k) = Later(c, "ewen low", k)
    BY <1>7 DEF Enabling
  <2>5. <<b, s>> \in Seq(Routines)
    BY TupleSeqs
  <2>. QED BY <1>1, <1>2, <2>1, <2>2, <2>3, <2>4, <2>5, Within
<1>14. CASE p = "ewen low"
  <2>1. First(c, p, k) = b /\ Then(c, p, k) = "enabled" /\ "enabled" \in CallPlaces
    BY <1>4, <1>14 DEF First, Then, CallPlaces, Enabling
  <2>2. Now(c, "enabled", k) = <<s>>
    BY <1>4 DEF Now
  <2>3. Now(c, p, k) = <<b, s>>
    BY <1>4, <1>14 DEF Now
  <2>4. Later(c, p, k) = Later(c, "enabled", k)
    BY <1>7 DEF Enabling
  <2>5. <<s>> \in Seq(Routines)
    BY TupleSeqs
  <2>. QED BY <1>1, <1>2, <2>1, <2>2, <2>3, <2>4, <2>5, TwoCut, Within
<1>15. CASE p = "enabled"
  <2>1. First(c, p, k) = Standby /\ Then(c, p, k) = "words"
    BY <1>15 DEF First, Then
  <2>2. Now(c, p, k) = <<Standby>>
    BY <1>15 DEF Now
  <2>3. Later(c, p, k) = Left(c, "words", k)
    BY <1>7, <1>9
  <2>. QED BY <1>1, <1>2, <2>1, <2>2, <2>3, Ends
<1>. QED BY <1>10, <1>11, <1>12, <1>13, <1>14, <1>15 DEF Openings, Enabling

(* How many words may be left at a place.                                  *)
LEMMA KIs ==
  ASSUME NEW c, CallOK(c), NEW p, NEW k, PlaceOK(c, p, k)
  PROVE  /\ c.op \in {"read", "write"} /\ c.n \in Nat /\ c.n # 0 /\ k \in 0 .. c.n
         /\ k # 0 => k \in 1 .. c.n /\ k > 0 /\ k - 1 \in 0 .. c.n
         /\ p \in ReadPlaces \cup WritePlaces => k # 0
         /\ k # 1 => k - 1 # 0
<1>1. c.op \in {"read", "write"} /\ c.n \in Nat /\ c.n > 0 /\ k \in 0 .. c.n
      /\ (p \in ReadPlaces \cup WritePlaces => k > 0)
  BY CallIs DEF PlaceOK
<1>2. PICK n \in Nat, j \in Nat : n = c.n /\ j = k /\ n > 0 /\ j \in 0 .. n
  BY <1>1
<1>3. /\ n # 0
      /\ j # 0 => j \in 1 .. n /\ j > 0 /\ j - 1 \in 0 .. n
      /\ j > 0 => j # 0
      /\ j # 1 => j - 1 # 0
  BY <1>2
<1>. QED BY <1>1, <1>2, <1>3, Zenon

(* The steps that close a call.                                            *)
LEMMA ClosingSteps ==
  ASSUME NEW c, CallOK(c), NEW k, NEW p \in Closings \cup {"words"},
         PlaceOK(c, p, k), k = 0
  PROVE  Steps(c, p, k, Then(c, p, k), ThenLeft(p, k))
<1>1. /\ Plain("stop") \in Routines /\ Plain("release") \in Routines
      /\ Out(16, opcode_bits + 2) \in Routines /\ Out(0, AddressBits - 2) \in Routines
  BY PartsIn DEF Names
<1>2. p \in CallPlaces /\ ThenLeft(p, k) = k
  BY DEF CallPlaces, Closings, ThenLeft
<1>3. PICK a \in Routines, b \in Routines, s \in Routines, t \in Routines :
        /\ a = Out(16, opcode_bits + 2) /\ b = Out(0, AddressBits - 2)
        /\ s = Plain("stop") /\ t = Plain("release")
  BY <1>1
<1>4. Stop = <<s>> \o <<t>> /\ Stop = <<s, t>> /\ <<t>> \in Seq(Routines)
  BY <1>3, TwoCut, TupleSeqs DEF Stop
<1>5. Stop \in Seq(Routines)
  BY TupleSeqs, <1>4
<1>6. ewds \o Stop = <<a>> \o (<<b>> \o Stop) /\ <<b>> \o Stop \in Seq(Routines)
  <2>1. ewds = <<a>> \o <<b>> /\ <<b>> \in Seq(Routines)
    BY <1>3, TwoCut, TupleSeqs DEF ewds
  <2>. QED BY <1>5, <2>1, FirstOf
<1>7. ASSUME NEW x \in Closings \cup {"words"} PROVE Later(c, x, k) = <<>>
  <2>1. x \notin Openings \cup Enabling \cup ReadPlaces \cup WritePlaces
    BY DEF Openings, Enabling, ReadPlaces, WritePlaces, Closings
  <2>2. ~ (k > 0)
    OBVIOUS
  <2>. QED BY <2>1, <2>2 DEF Later
<1>8. CASE p = "words"
  <2>1. First(c, p, k) = a /\ Then(c, p, k) = "ewds low" /\ "ewds low" \in CallPlaces
    BY <1>3, <1>8 DEF First, Then, CallPlaces, Closings
  <2>2. Now(c, p, k) = ewds \o Stop
    BY <1>8 DEF Now
  <2>3. Now(c, "ewds low", k) = <<b>> \o Stop
    BY <1>3 DEF Now
  <2>4. Later(c, p, k) = Later(c, "ewds low", k)
    BY <1>7 DEF Closings
  <2>. QED BY <1>2, <1>6, <2>1, <2>2, <2>3, <2>4, Within
<1>9. CASE p = "ewds low"
  <2>1. First(c, p, k) = b /\ Then(c, p, k) = "stop" /\ "stop" \in CallPlaces
    BY <1>3, <1>9 DEF First, Then, CallPlaces, Closings
  <2>2. Now(c, p, k) = <<b>> \o Stop
    BY <1>3, <1>9 DEF Now
  <2>3. Now(c, "stop", k) = Stop
    BY DEF Now
  <2>4. Later(c, p, k) = Later(c, "stop", k)
    BY <1>7 DEF Closings
  <2>. QED BY <1>2, <1>5, <2>1, <2>2, <2>3, <2>4, Within
<1>10. CASE p = "stop"
  <2>1. First(c, p, k) = s /\ Then(c, p, k) = "release" /\ "release" \in CallPlaces
    BY <1>3, <1>10 DEF First, Then, CallPlaces, Closings
  <2>2. Now(c, p, k) = <<s>> \o <<t>>
    BY <1>4, <1>10 DEF Now
  <2>3. Now(c, "release", k) = <<t>>
    BY <1>3 DEF Now
  <2>4. Later(c, p, k) = Later(c, "release", k)
    BY <1>7 DEF Closings
  <2>. QED BY <1>2, <1>4, <2>1, <2>2, <2>3, <2>4, Within
<1>11. CASE p = "release"
  <2>1. First(c, p, k) = t /\ Then(c, p, k) = "done"
    BY <1>3, <1>11 DEF First, Then
  <2>2. Now(c, p, k) = <<t>>
    BY <1>3, <1>11 DEF Now
  <2>3. Left(c, "done", k) = Later(c, p, k)
    BY <1>7 DEF Left
  <2>. QED BY <1>2, <2>1, <2>2, <2>3, Ends
<1>. QED BY <1>8, <1>9, <1>10, <1>11 DEF Closings

(* While a word is transferred, those after it are to come.                *)
LEMMA WordLater ==
  ASSUME NEW c, NEW k, NEW p, k > 0,
         p \in ReadPlaces \cup WritePlaces \cup {"words"}
  PROVE  Later(c, p, k) = Words(c)[k - 1]
BY DEF Later, Openings, Enabling, ReadPlaces, WritePlaces

(* The steps that read a word.                                             *)
LEMMA ReadSteps ==
  ASSUME NEW c, CallOK(c), NEW k, PlaceOK(c, "words", k), k # 0, c.op = "read",
         NEW p \in {"words", "address", "in"}
  PROVE  Steps(c, p, k, Then(c, p, k), ThenLeft(p, k))
<1>1. k \in 1 .. c.n /\ c.n \in Nat /\ k > 0
  BY KIs
<1>2. p \in CallPlaces /\ ThenLeft(p, k) = k /\ PlaceOK(c, p, k)
  BY <1>1 DEF CallPlaces, ReadPlaces, WritePlaces, Closings, Openings,
     Enabling,
              ThenLeft, PlaceOK
<1>3. PICK a \in Routines, b \in Routines, i \in Routines, s \in Routines :
        a = Out(6, opcode_bits) /\ b = Address(c, k) /\ i = In /\ s = Standby
  BY <1>1, PartsIn, TuplesIn
<1>4. \A x \in ReadPlaces \cup {"words"} : Later(c, x, k) = Words(c)[k - 1]
  BY <1>1, WordLater
<1>5. CASE p = "words"
  <2>1. First(c, p, k) = a /\ Then(c, p, k) = "address" /\ "address" \in CallPlaces
    BY <1>1, <1>3, <1>5 DEF First, Then, CallPlaces, ReadPlaces
  <2>2. Now(c, p, k) = <<a, b, i, s>>
    BY <1>1, <1>3, <1>5 DEF Now, Block, Standby
  <2>3. Now(c, "address", k) = <<b, i, s>> /\ <<b, i, s>> \in Seq(Routines)
    BY <1>3, TupleSeqs DEF Now
  <2>4. Later(c, p, k) = Later(c, "address", k)
    BY <1>4, <1>5 DEF ReadPlaces
  <2>5. <<a, b, i, s>> = <<a>> \o <<b, i, s>>
    BY FourCut
  <2>. QED BY <1>2, <2>1, <2>2, <2>3, <2>4, <2>5, Within
<1>6. CASE p = "address"
  <2>1. First(c, p, k) = b /\ Then(c, p, k) = "in" /\ "in" \in CallPlaces
    BY <1>3, <1>6 DEF First, Then, CallPlaces, ReadPlaces
  <2>2. Now(c, p, k) = <<b, i, s>>
    BY <1>3, <1>6 DEF Now
  <2>3. Now(c, "in", k) = <<i, s>> /\ <<i, s>> \in Seq(Routines)
    BY <1>3, TupleSeqs DEF Now
  <2>4. Later(c, p, k) = Later(c, "in", k)
    BY <1>4, <1>6 DEF ReadPlaces
  <2>5. <<b, i, s>> = <<b>> \o <<i, s>>
    BY ThreeCut
  <2>. QED BY <1>2, <2>1, <2>2, <2>3, <2>4, <2>5, Within
<1>7. CASE p = "in"
  <2>1. First(c, p, k) = i /\ Then(c, p, k) = "end" /\ "end" \in CallPlaces
    BY <1>3, <1>7 DEF First, Then, CallPlaces, ReadPlaces
  <2>2. Now(c, p, k) = <<i, s>>
    BY <1>3, <1>7 DEF Now
  <2>3. Now(c, "end", k) = <<s>> /\ <<s>> \in Seq(Routines)
    BY <1>3, TupleSeqs DEF Now
  <2>4. Later(c, p, k) = Later(c, "end", k)
    BY <1>4, <1>7 DEF ReadPlaces
  <2>. QED BY <1>2, <2>1, <2>2, <2>3, <2>4, TwoCut, Within
<1>. QED BY <1>5, <1>6, <1>7

(* The steps that write a word.                                            *)
LEMMA WriteSteps ==
  ASSUME NEW c, CallOK(c), NEW k, PlaceOK(c, "words", k), k # 0,
         c.op = "write",
         NEW p \in {"words"} \cup (WritePlaces \ {"w again"})
  PROVE  Steps(c, p, k, Then(c, p, k), ThenLeft(p, k))
<1>1. k \in 1 .. c.n /\ c.n \in Nat /\ k > 0
  BY KIs
<1>2. p \in CallPlaces /\ ThenLeft(p, k) = k /\ PlaceOK(c, p, k)
  BY <1>1 DEF CallPlaces, ReadPlaces, WritePlaces, Closings, Openings,
     Enabling,
              ThenLeft, PlaceOK
<1>3. PICK a \in Routines, b \in Routines, w \in Routines, s \in Routines, d \in Routines :
        /\ a = Out(5, opcode_bits) /\ b = Address(c, k) /\ w = Word(c, k) /\ s = Standby
        /\ d = Plain("written")
  BY <1>1, PartsIn, TuplesIn DEF Names
<1>4. \A x \in WritePlaces \cup {"words"} : Later(c, x, k) = Words(c)[k - 1]
  BY <1>1, WordLater
<1>5. CASE p = "words"
  <2>1. First(c, p, k) = a /\ Then(c, p, k) = "w address" /\ "w address" \in CallPlaces
    BY <1>1, <1>3, <1>5 DEF First, Then, CallPlaces, WritePlaces
  <2>2. Now(c, p, k) = <<a, b, w, s, d, s>>
    BY <1>1, <1>3, <1>5 DEF Now, Block, Standby
  <2>3. Now(c, "w address", k) = <<b, w, s, d, s>> /\ <<b, w, s, d, s>> \in Seq(Routines)
    BY <1>3, TupleSeqs DEF Now
  <2>4. Later(c, p, k) = Later(c, "w address", k)
    BY <1>4, <1>5 DEF WritePlaces
  <2>5. <<a, b, w, s, d, s>> = <<a>> \o <<b, w, s, d, s>>
    BY LongerCut
  <2>. QED BY <1>2, <2>1, <2>2, <2>3, <2>4, <2>5, Within
<1>6. CASE p = "w address"
  <2>1. First(c, p, k) = b /\ Then(c, p, k) = "w word" /\ "w word" \in CallPlaces
    BY <1>3, <1>6 DEF First, Then, CallPlaces, WritePlaces
  <2>2. Now(c, p, k) = <<b, w, s, d, s>>
    BY <1>3, <1>6 DEF Now
  <2>3. Now(c, "w word", k) = <<w, s, d, s>> /\ <<w, s, d, s>> \in Seq(Routines)
    BY <1>3, TupleSeqs DEF Now
  <2>4. Later(c, p, k) = Later(c, "w word", k)
    BY <1>4, <1>6 DEF WritePlaces
  <2>5. <<b, w, s, d, s>> = <<b>> \o <<w, s, d, s>>
    BY LongCut
  <2>. QED BY <1>2, <2>1, <2>2, <2>3, <2>4, <2>5, Within
<1>7. CASE p = "w word"
  <2>1. First(c, p, k) = w /\ Then(c, p, k) = "w end" /\ "w end" \in CallPlaces
    BY <1>3, <1>7 DEF First, Then, CallPlaces, WritePlaces
  <2>2. Now(c, p, k) = <<w, s, d, s>>
    BY <1>3, <1>7 DEF Now
  <2>3. Now(c, "w end", k) = <<s, d, s>> /\ <<s, d, s>> \in Seq(Routines)
    BY <1>3, TupleSeqs DEF Now
  <2>4. Later(c, p, k) = Later(c, "w end", k)
    BY <1>4, <1>7 DEF WritePlaces
  <2>5. <<w, s, d, s>> = <<w>> \o <<s, d, s>>
    BY FourCut
  <2>. QED BY <1>2, <2>1, <2>2, <2>3, <2>4, <2>5, Within
<1>8. CASE p = "w end"
  <2>1. First(c, p, k) = s /\ Then(c, p, k) = "written" /\ "written" \in CallPlaces
    BY <1>3, <1>8 DEF First, Then, CallPlaces, WritePlaces
  <2>2. Now(c, p, k) = <<s, d, s>>
    BY <1>3, <1>8 DEF Now
  <2>3. Now(c, "written", k) = <<d, s>> /\ <<d, s>> \in Seq(Routines)
    BY <1>3, TupleSeqs DEF Now
  <2>4. Later(c, p, k) = Later(c, "written", k)
    BY <1>4, <1>8 DEF WritePlaces
  <2>. QED BY ZenonT(30), <1>2, <2>1, <2>2, <2>3, <2>4, ThreeCut, Within
<1>9. CASE p = "written"
  <2>1. First(c, p, k) = d /\ Then(c, p, k) = "w again" /\ "w again" \in CallPlaces
    BY <1>3, <1>9 DEF First, Then, CallPlaces, WritePlaces
  <2>2. Now(c, p, k) = <<d, s>>
    BY <1>3, <1>9 DEF Now
  <2>3. Now(c, "w again", k) = <<s>> /\ <<s>> \in Seq(Routines)
    BY <1>3, TupleSeqs DEF Now
  <2>4. Later(c, p, k) = Later(c, "w again", k)
    BY <1>4, <1>9 DEF WritePlaces
  <2>. QED BY <1>2, <2>1, <2>2, <2>3, <2>4, TwoCut, Within
<1>. QED BY <1>5, <1>6, <1>7, <1>8, <1>9 DEF WritePlaces

(* The end of a word. *)
LEMMA EndSteps ==
  ASSUME NEW c, CallOK(c), NEW k, NEW p \in {"end", "w again"},
         PlaceOK(c, p, k)
  PROVE  Steps(c, p, k, Then(c, p, k), ThenLeft(p, k))
<1>1. k \in 1 .. c.n /\ c.n \in Nat /\ k > 0 /\ k - 1 \in 0 .. c.n
  BY KIs DEF ReadPlaces, WritePlaces
<1>2. p \in CallPlaces /\ ThenLeft(p, k) = k - 1
  BY DEF CallPlaces, ReadPlaces, WritePlaces, ThenLeft
<1>3. Later(c, p, k) = Words(c)[k - 1]
  BY <1>1, WordLater DEF ReadPlaces, WritePlaces
<1>4. First(c, p, k) = Standby /\ Standby \in Routines /\ Now(c, p, k) = <<Standby>>
  BY PartsIn DEF First, Now
<1>5. CASE p = "end" /\ k = 1
  <2>1. Then(c, p, k) = "stop" /\ c.op = "read"
    BY <1>5 DEF Then, PlaceOK, ReadPlaces
  <2>2. Left(c, "stop", k - 1) = Stop \o <<>>
    BY <1>5 DEF Left, Now, Later, Openings, Enabling, ReadPlaces, WritePlaces
  <2>3. Words(c)[k - 1] = Stop /\ Stop \in Seq(Routines)
    BY <1>5, <2>1, WordsIs, TuplesIn DEF Ending
  <2>4. Left(c, "stop", k - 1) = Later(c, p, k)
    BY <1>3, <2>2, <2>3, NoMore
  <2>. QED BY <1>2, <1>4, <2>1, <2>4, Ends
<1>6. CASE p = "w again" \/ k # 1
  <2>1. Then(c, p, k) = "words"
    BY <1>6 DEF Then
  <2>2. PlaceOK(c, "words", k - 1)
    <3>1. k - 1 = 0 => c.op = "write"
      <4>1. p = "w again" => c.op = "write"
        BY DEF PlaceOK, WritePlaces
      <4>. QED BY <1>6, <4>1, KIs
    <3>. QED BY <1>1, <3>1 DEF PlaceOK, ReadPlaces, WritePlaces, Closings,
                Openings, Enabling
  <2>3. Left(c, "words", k - 1) = Later(c, p, k)
    BY <1>3, <2>2, WordsLeft
  <2>. QED BY <1>2, <1>4, <2>1, <2>3, Ends
<1>. QED BY <1>5, <1>6

(* The routines that a call has left at a place begin with the one it is   *)
(* to do there.                                                            *)
LEMMA CallSteps ==
  ASSUME NEW c, CallOK(c), NEW k, NEW p \in CallPlaces, PlaceOK(c, p, k)
  PROVE  Steps(c, p, k, Then(c, p, k), ThenLeft(p, k))
<1>1. CASE p \in Openings \cup Enabling
  BY <1>1, OpeningSteps
<1>2. CASE k = 0 /\ p \in Closings \cup {"words"}
  BY <1>2, ClosingSteps
<1>3. CASE p \in {"end", "w again"}
  BY <1>3, EndSteps
<1>4. c.op \in {"read", "write"} /\ k \in 0 .. c.n /\ c.n \in Nat
      /\ (p \in ReadPlaces \cup WritePlaces => k # 0) /\ (k # 0 => k > 0)
  BY KIs
<1>5. CASE p \in {"address", "in"} \/ p \in WritePlaces \ {"w again"} \/ (p = "words" /\ k # 0)
  <2>1. k # 0 /\ PlaceOK(c, "words", k)
    <3>1. k # 0
      BY <1>4, <1>5 DEF ReadPlaces, WritePlaces
    <3>. QED BY <1>4, <3>1 DEF PlaceOK, ReadPlaces, WritePlaces, Closings,
                Openings, Enabling
  <2>2. CASE c.op = "read"
    <3>1. p \in {"words", "address", "in"}
      BY <1>5, <2>2 DEF PlaceOK, WritePlaces
    <3>. QED BY <2>1, <2>2, <3>1, ReadSteps
  <2>3. CASE c.op = "write"
    <3>1. p \in {"words"} \cup (WritePlaces \ {"w again"})
      BY <1>5, <2>3 DEF PlaceOK, ReadPlaces
    <3>. QED BY <2>1, <2>3, <3>1, WriteSteps
  <2>. QED BY <1>4, <2>2, <2>3
<1>6. p \in Closings => k = 0
  BY DEF PlaceOK
<1>. QED BY <1>1, <1>2, <1>3, <1>5, <1>6 DEF CallPlaces, ReadPlaces,
            WritePlaces

(* ... and leaves it at the next place.                                    *)
LEMMA PlaceMoves ==
  ASSUME NEW c, CallOK(c), NEW k, NEW p \in CallPlaces, PlaceOK(c, p, k)
  PROVE  /\ Then(c, p, k) \in CallPlaces \cup {"done"}
         /\ PlaceOK(c, Then(c, p, k), ThenLeft(p, k))
         /\ Then(c, p, k) = "done" <=> p = "release"
<1>1. c.op \in {"read", "write"} /\ k \in 0 .. c.n /\ c.n # 0
  BY KIs
<1>2. p \notin {"end", "w again"} => ThenLeft(p, k) = k
  BY DEF ThenLeft
<1>3. Then(c, p, k) \in CallPlaces \cup {"done"} /\ (Then(c, p, k) = "done" <=> p = "release")
  BY ZenonT(30), <1>1 DEF Then, CallPlaces, ReadPlaces, WritePlaces, Closings, Openings,
     Enabling
<1>4. CASE p \in {"end", "w again"}
  <2>1. k - 1 \in 0 .. c.n /\ (k # 1 => k - 1 # 0) /\ ThenLeft(p, k) = k - 1
    BY <1>4, KIs DEF ReadPlaces, WritePlaces, ThenLeft
  <2>2. CASE p = "end" /\ k = 1
    <3>1. k - 1 = 0 /\ Then(c, p, k) = "stop"
      BY <2>2 DEF Then
    <3>. QED
      BY <1>3, <2>1, <3>1
      DEF PlaceOK, ReadPlaces, WritePlaces, Closings, Openings, Enabling
  <2>3. CASE p = "w again" \/ k # 1
    <3>1. Then(c, p, k) = "words" /\ (p = "w again" => c.op = "write")
      BY <1>4, <2>3 DEF Then, PlaceOK, WritePlaces
    <3>2. k - 1 = 0 => c.op = "write"
      BY <2>1, <2>3, <3>1
    <3>. QED
      BY <1>3, <2>1, <3>1, <3>2
      DEF PlaceOK, ReadPlaces, WritePlaces, Closings, Openings, Enabling
  <2>. QED BY <1>4, <2>2, <2>3
<1>5. CASE p \notin {"end", "w again"}
  <2>1. ThenLeft(p, k) = k
    BY <1>2, <1>5
  <2>2. k # 0 => k > 0
    BY KIs
  <2>3. CASE p \in Openings \cup Enabling
    <3>1. k # 0 /\ k = c.n /\ (p \in Enabling => c.op = "write")
      BY <1>1, <2>3 DEF PlaceOK
    <3>2. CASE p = "acquire"
      BY <1>1, <1>3, <2>1, <3>1, <3>2
      DEF PlaceOK, Then, ReadPlaces, WritePlaces, Closings, Openings, Enabling
    <3>3. CASE p = "grant"
      BY <1>1, <1>3, <2>1, <3>1, <3>3
      DEF PlaceOK, Then, ReadPlaces, WritePlaces, Closings, Openings, Enabling
    <3>4. CASE p = "ready"
      BY <1>1, <1>3, <2>1, <3>1, <3>4
      DEF PlaceOK, Then, ReadPlaces, WritePlaces, Closings, Openings, Enabling
    <3>5. CASE p \in Enabling
      BY <1>1, <1>3, <2>1, <3>1, <3>5
      DEF PlaceOK, Then, ReadPlaces, WritePlaces, Closings, Openings, Enabling
    <3>. QED BY <2>3, <3>2, <3>3, <3>4, <3>5 DEF Openings
  <2>4. CASE p \in Closings
    <3>1. k = 0
      BY <2>4 DEF PlaceOK
    <3>. QED
      BY <1>1, <1>3, <2>1, <2>4, <3>1
      DEF PlaceOK, Then, ReadPlaces, WritePlaces, Closings, Openings, Enabling
  <2>5. CASE p = "words" /\ k = 0
    <3>1. c.op = "write"
      BY <2>5 DEF PlaceOK
    <3>. QED
      BY <1>1, <1>3, <2>1, <2>5, <3>1
      DEF PlaceOK, Then, ReadPlaces, WritePlaces, Closings, Openings, Enabling
  <2>6. CASE p = "words" /\ k # 0
    <3>1. k > 0
      BY <2>2, <2>6
    <3>. QED
      BY <1>1, <1>3, <2>1, <2>6, <3>1
      DEF PlaceOK, Then, ReadPlaces, WritePlaces, Closings, Openings, Enabling
  <2>7. CASE p \in {"address", "in"}
    <3>1. k > 0 /\ c.op = "read" /\ Then(c, p, k) \in {"in", "end"}
      BY <2>7 DEF PlaceOK, Then, ReadPlaces
    <3>. QED
      BY <1>1, <1>3, <2>1, <3>1
      DEF PlaceOK, ReadPlaces, WritePlaces, Closings, Openings, Enabling
  <2>8. CASE p \in WritePlaces \ {"w again"}
    <3>1. k > 0 /\ c.op = "write" /\ Then(c, p, k) \in WritePlaces
      BY <2>8 DEF PlaceOK, Then, WritePlaces
    <3>. QED
      BY <1>1, <1>3, <2>1, <3>1
      DEF PlaceOK, ReadPlaces, WritePlaces, Closings, Openings, Enabling
  <2>. QED
    BY <1>5, <2>3, <2>4, <2>5, <2>6, <2>7, <2>8 DEF CallPlaces, ReadPlaces,
       WritePlaces
<1>. QED BY <1>4, <1>5

-----------------------------------------------------------------------------
(* What a routine of a call makes of the chip.                             *)

(* Where a call has not been granted the EEPROM, where it keeps the chip   *)
(* deselected, and where it drives the pins.                               *)
Outside == {"done", "acquire", "grant"}
Lowered == Outside \cup {"ready", "release"}
Shifting == {"ewen", "ewen low", "words", "address", "w address", "w word", "ewds low"}
Standing == {"enabled", "end", "w end", "w again"}
Driving == Shifting \cup Standing \cup {"ready", "in", "stop"}

PinsAt(p) == Pins(IF p \in Lowered THEN 0 ELSE 1, 0, 0)

(* The bits the call will clock before it deselects the chip.              *)
Budget(p, k) ==
  CASE p = "words" -> IF k = 0 THEN CommandBits ELSE CommandBits + WordBits
    [] p = "ewen" -> CommandBits
    [] p \in {"ready", "written", "release"} -> CommandBits + WordBits
    [] p \in {"address", "w address"} -> AddressBits + WordBits
    [] p \in {"in", "w word"} -> WordBits
    [] p \in {"ewen low", "ewds low"} -> AddressBits - 2
    [] p \in {"enabled", "end", "w end", "w again", "stop"} -> 0

(* The bits that may still be clocked at each place.                       *)
LEMMA BudgetIs ==
  ASSUME NEW k
  PROVE  /\ Budget("words", k) = IF k = 0 THEN CommandBits ELSE CommandBits + WordBits
         /\ Budget("ewen", k) = CommandBits
         /\ \A p \in {"ready", "written", "release"} : Budget(p, k) = CommandBits + WordBits
         /\ \A p \in {"address", "w address"} : Budget(p, k) = AddressBits + WordBits
         /\ \A p \in {"in", "w word"} : Budget(p, k) = WordBits
         /\ \A p \in {"ewen low", "ewds low"} : Budget(p, k) = AddressBits - 2
         /\ \A p \in {"enabled", "end", "w end", "w again", "stop"} : Budget(p, k) = 0
BY DEF Budget

(* What each routine does to the bus.                                      *)
LEMMA DrivenIs ==
  ASSUME NEW at
  PROVE  /\ \A v, n : Driven(at, Out(v, n)) = shift_out_eec_bits(at, v, n)
         /\ Driven(at, In) = shift_in_eec_bits(at, WordBits)
         /\ Driven(at, Plain("standby")) = standby_nvm(at)
         /\ Driven(at, Plain("stop")) = stop_nvm(at)
         /\ Driven(at, Plain("ready")) = ready_nvm_eeprom(at)
<1>1. ASSUME NEW x, NEW v, NEW n
      PROVE  Routine(x, v, n).name = x /\ Routine(x, v, n).value = v /\ Routine(x, v, n).count = n
  BY DEF Routine
<1>2. \A v, n : Driven(at, Out(v, n)) = shift_out_eec_bits(at, v, n)
  BY <1>1 DEF Driven, Out
<1>3. Driven(at, In) = shift_in_eec_bits(at, WordBits)
  BY <1>1 DEF Driven, In
<1>4. Driven(at, Plain("standby")) = standby_nvm(at)
  BY <1>1 DEF Driven, Plain
<1>5. Driven(at, Plain("stop")) = stop_nvm(at)
  BY <1>1 DEF Driven, Plain
<1>6. Driven(at, Plain("ready")) = ready_nvm_eeprom(at)
  BY <1>1 DEF Driven, Plain
<1>. QED BY <1>2, <1>3, <1>4, <1>5, <1>6

(* What is shifted out, and the room it takes.                             *)
LEMMA ShiftingFirst ==
  ASSUME NEW c, CallOK(c), NEW k, NEW p \in Shifting, PlaceOK(c, p, k)
  PROVE  \E v \in Nat, n \in Nat :
           /\ First(c, p, k) = Out(v, n) /\ n <= CommandBits + WordBits
           /\ Budget(p, k) = Budget(Then(c, p, k), ThenLeft(p, k)) + n
           /\ Budget(Then(c, p, k), ThenLeft(p, k)) \in Nat
           /\ Then(c, p, k) \in CallPlaces \ Lowered
<1>1. /\ CommandBits = 3 + AddressBits /\ AddressBits \in Nat /\ WordBits \in Nat
      /\ AddressBits > 2 /\ opcode_bits = 3 /\ CommandBits \in Nat
  BY Sizes DEF opcode_bits, CommandBits
<1>2. c.op \in {"read", "write"} /\ k \in 0 .. c.n /\ c.n \in Nat
      /\ (p \in ReadPlaces \cup WritePlaces => k # 0) /\ (k # 0 => k \in 1 .. c.n)
  BY KIs
<1>. USE DEF Lowered, Outside, CallPlaces, Openings, Enabling, ReadPlaces, WritePlaces,
             Closings, ThenLeft
<1>3. CASE p = "ewen"
  <2>1. First(c, p, k) = Out(19, opcode_bits + 2) /\ Then(c, p, k) = "ewen low"
    BY <1>3 DEF First, Then
  <2>2. Budget(p, k) = CommandBits /\ Budget("ewen low", k) = AddressBits - 2
    BY <1>3, BudgetIs
  <2>3. 19 \in Nat /\ opcode_bits + 2 \in Nat /\ opcode_bits + 2 <= CommandBits + WordBits
        /\ CommandBits = AddressBits - 2 + (opcode_bits + 2) /\ AddressBits - 2 \in Nat
    BY <1>1
  <2>. QED BY <1>3, <2>1, <2>2, <2>3
<1>4. CASE p \in {"ewen low", "ewds low"}
  <2>1. First(c, p, k) = Out(0, AddressBits - 2) /\ Then(c, p, k) \in {"enabled", "stop"}
    BY <1>4 DEF First, Then
  <2>2. Budget(p, k) = AddressBits - 2 /\ \A j : Budget("stop", j) = 0 /\ Budget("enabled", j) = 0
    BY <1>4, BudgetIs
  <2>3. 0 \in Nat /\ AddressBits - 2 \in Nat /\ AddressBits - 2 <= CommandBits + WordBits
        /\ AddressBits - 2 = 0 + (AddressBits - 2)
    BY <1>1
  <2>. QED BY <1>4, <2>1, <2>2, <2>3
<1>5. CASE p = "words" /\ k = 0
  <2>1. First(c, p, k) = Out(16, opcode_bits + 2) /\ Then(c, p, k) = "ewds low"
    BY <1>5 DEF First, Then
  <2>2. Budget(p, k) = CommandBits /\ Budget("ewds low", k) = AddressBits - 2
    BY <1>5, BudgetIs
  <2>3. 16 \in Nat /\ opcode_bits + 2 \in Nat /\ opcode_bits + 2 <= CommandBits + WordBits
        /\ CommandBits = AddressBits - 2 + (opcode_bits + 2) /\ AddressBits - 2 \in Nat
    BY <1>1
  <2>. QED BY <1>5, <2>1, <2>2, <2>3
<1>6. CASE p = "words" /\ k # 0
  <2>1. PICK v \in Nat : First(c, p, k) = Out(v, opcode_bits)
    BY <1>6 DEF First
  <2>2. Then(c, p, k) \in {"address", "w address"}
    BY <1>6 DEF Then
  <2>3. Budget(p, k) = CommandBits + WordBits
        /\ \A x \in {"address", "w address"} : Budget(x, k) = AddressBits + WordBits
    BY <1>6, BudgetIs
  <2>4. opcode_bits \in Nat /\ opcode_bits <= CommandBits + WordBits
        /\ CommandBits + WordBits = AddressBits + WordBits + opcode_bits
        /\ AddressBits + WordBits \in Nat
    BY <1>1
  <2>. QED BY <1>6, <2>1, <2>2, <2>3, <2>4
<1>7. CASE p \in {"address", "w address"}
  <2>1. PICK v \in Nat : First(c, p, k) = Out(v, AddressBits)
    <3>1. c.offset + (c.n - k) \in Nat
      BY <1>2, <1>7, CallIs
    <3>. QED BY <1>7, <3>1 DEF First, Address
  <2>2. Then(c, p, k) \in {"in", "w word"}
    BY <1>7 DEF Then
  <2>3. Budget(p, k) = AddressBits + WordBits
        /\ \A x \in {"in", "w word"} : Budget(x, k) = WordBits
    BY <1>7, BudgetIs
  <2>4. AddressBits <= CommandBits + WordBits
        /\ AddressBits + WordBits = WordBits + AddressBits
    BY <1>1
  <2>. QED BY <1>1, <1>7, <2>1, <2>2, <2>3, <2>4
<1>8. CASE p = "w word"
  <2>1. PICK v \in Nat : First(c, p, k) = Out(v, WordBits)
    <3>1. c.op = "write"
      BY <1>8 DEF PlaceOK
    <3>2. c.vals[c.n - k + 1] \in Nat
      BY <1>2, <1>8, <3>1, CallIs
    <3>. QED BY <1>8, <3>2 DEF First, Word
  <2>2. Then(c, p, k) = "w end"
    BY <1>8 DEF Then
  <2>3. Budget(p, k) = WordBits /\ Budget("w end", k) = 0
    BY <1>8, BudgetIs
  <2>4. WordBits <= CommandBits + WordBits /\ WordBits = 0 + WordBits /\ 0 \in Nat
        /\ WordBits \in Nat
    BY <1>1
  <2>5. ThenLeft(p, k) = k /\ "w end" \in CallPlaces \ Lowered
    BY <1>8
  <2>. QED BY <2>1, <2>2, <2>3, <2>4, <2>5, Zenon
<1>. QED BY <1>3, <1>4, <1>5, <1>6, <1>7, <1>8 DEF Shifting

(* Whatever it drives, the chip has room for what the call still drives.   *)
LEMMA DriveFits ==
  ASSUME words \in [Offsets -> Values], NEW c, CallOK(c), NEW k,
         NEW p \in Driving,
         PlaceOK(c, p, k), NEW x, Fits(x, Budget(p, k))
  PROVE  \E e, n :
           /\ Driven(At(x, PinsAt(p), 0), First(c, p, k)) = At(e, PinsAt(Then(c, p, k)), n)
           /\ p = "in" => n \in Values
           /\ Then(c, p, k) \notin Outside
           /\ Fits(e, Budget(Then(c, p, k), ThenLeft(p, k)))
<1>1. /\ CommandBits \in Nat /\ AddressBits \in Nat /\ WordBits \in Nat
      /\ CommandBits + WordBits \in Nat /\ CommandBits <= CommandBits + WordBits
      /\ 0 <= CommandBits + WordBits
  BY Sizes DEF CommandBits
<1>2. ASSUME NEW e, NEW q, NEW j,
             q \in {"words", "ewen", "stop", "written", "release"},
             Fits(e, CommandBits + WordBits)
      PROVE  Fits(e, Budget(q, j))
  <2>1. \/ Budget(q, j) = CommandBits + WordBits \/ Budget(q, j) = CommandBits
        \/ Budget(q, j) = 0
    BY <1>2, BudgetIs
  <2>. QED BY <1>1, <1>2, <2>1, LessRoom
<1>3. CASE p \in Shifting
  <2>1. PICK v \in Nat, n \in Nat, b \in Nat :
           /\ First(c, p, k) = Out(v, n) /\ n <= CommandBits + WordBits
           /\ Budget(p, k) = b + n
           /\ b = Budget(Then(c, p, k), ThenLeft(p, k))
           /\ Then(c, p, k) \in CallPlaces \ Lowered
    BY <1>3, ShiftingFirst
  <2>2. PICK e : /\ Fits(e, b)
                 /\ shift_out_eec_bits(At(x, Pins(1, 0, 0), 0), v, n) = At(e, Pins(1, 0, 0), 0)
    <3>1. Fits(x, b + n) /\ 0 \in Nat
      BY <2>1
    <3>2. PICK r \in [value : Nat, count : Nat, room : Nat] :
            r.value = v /\ r.count = n /\ r.room = b
      <4>. DEFINE r == [value |-> v, count |-> n, room |-> b]
      <4>1. r \in [value : Nat, count : Nat, room : Nat]
            /\ r.value = v /\ r.count = n /\ r.room = b
        OBVIOUS
      <4>. QED BY <4>1
    <3>3. r.count <= CommandBits + WordBits /\ Fits(x, r.room + r.count)
      BY <2>1, <3>1, <3>2
    <3>4. \E e : /\ Fits(e, r.room)
                 /\ shift_out_eec_bits(At(x, Pins(1, 0, 0), 0), r.value, r.count)
                      = At(e, Pins(1, 0, 0), 0)
      BY <3>2, <3>3, OutFits
    <3>. QED BY <3>2, <3>4
  <2>3. PinsAt(p) = Pins(1, 0, 0) /\ PinsAt(Then(c, p, k)) = Pins(1, 0, 0) /\ p # "in"
    BY <1>3, <2>1 DEF PinsAt, Lowered, Outside, Shifting
  <2>4. Driven(At(x, PinsAt(p), 0), First(c, p, k)) = At(e, PinsAt(Then(c, p, k)), 0)
    BY <2>1, <2>2, <2>3, DrivenIs
  <2>. QED BY <2>1, <2>2, <2>3, <2>4 DEF Lowered
<1>4. CASE p = "in"
  <2>1. First(c, p, k) = In /\ Then(c, p, k) = "end" /\ ThenLeft(p, k) = k
    BY <1>4 DEF First, Then, ThenLeft
  <2>2. PinsAt(p) = Pins(1, 0, 0) /\ PinsAt("end") = Pins(1, 0, 0) /\ "end" \notin Outside
    BY <1>4 DEF PinsAt, Lowered, Outside
  <2>3. Budget(p, k) = 0 + WordBits /\ Budget("end", k) = 0
    <3>1. Budget(p, k) = WordBits
      BY <1>4, BudgetIs
    <3>2. 0 + WordBits = WordBits
      BY <1>1
    <3>. QED BY <3>1, <3>2, BudgetIs
  <2>4. PICK e, n : /\ Fits(e, 0) /\ n \in Nat /\ n < Pow2[WordBits]
                    /\ shift_in_eec_bits(At(x, Pins(1, 0, 0), 0), WordBits)
                         = At(e, Pins(1, 0, 0), n)
    <3>1. WordBits <= CommandBits + WordBits /\ 0 \in Nat
      BY <1>1
    <3>. QED BY <1>1, <2>3, <3>1, InFits
  <2>5. n \in Values
    BY <2>4, Powers DEF Values
  <2>6. Driven(At(x, PinsAt(p), 0), First(c, p, k)) = At(e, PinsAt("end"), n)
    BY <2>1, <2>2, <2>4, DrivenIs
  <2>. QED BY <2>1, <2>2, <2>3, <2>4, <2>5, <2>6
<1>5. CASE p \in Standing
  <2>1. First(c, p, k) = Plain("standby") /\ Then(c, p, k) \in {"words", "stop", "written"}
    BY <1>5 DEF First, Then, Standing, Standby
  <2>2. PinsAt(p) = Pins(1, 0, 0) /\ PinsAt(Then(c, p, k)) = Pins(1, 0, 0) /\ p # "in"
    BY <1>5, <2>1 DEF PinsAt, Lowered, Outside, Standing
  <2>3. PICK e : e = Deselected(x) /\ Fits(e, CommandBits + WordBits)
    BY DeselectedFits DEF Fits
  <2>4. Driven(At(x, PinsAt(p), 0), First(c, p, k)) = At(e, PinsAt(Then(c, p, k)), 0)
    BY <2>1, <2>2, <2>3, DrivenIs, StandbyIs
  <2>5. Fits(e, Budget(Then(c, p, k), ThenLeft(p, k)))
    BY <1>2, <2>1, <2>3
  <2>. QED BY <2>1, <2>2, <2>4, <2>5 DEF Outside
<1>6. CASE p = "stop"
  <2>1. First(c, p, k) = Plain("stop") /\ Then(c, p, k) = "release"
    BY <1>6 DEF First, Then
  <2>2. PinsAt(p) = Pins(1, 0, 0) /\ PinsAt("release") = Pins(0, 0, 0)
    BY <1>6 DEF PinsAt, Lowered, Outside
  <2>3. PICK e : e = Deselected(x) /\ Fits(e, CommandBits + WordBits)
    BY DeselectedFits DEF Fits
  <2>4. Driven(At(x, PinsAt(p), 0), First(c, p, k)) = At(e, PinsAt("release"), 0)
    BY <2>1, <2>2, <2>3, DrivenIs, StopIs
  <2>5. Fits(e, Budget("release", ThenLeft(p, k)))
    BY <1>2, <2>3
  <2>. QED BY <1>6, <2>1, <2>4, <2>5 DEF Outside
<1>7. CASE p = "ready"
  <2>1. First(c, p, k) = Plain("ready") /\ Then(c, p, k) \in {"words", "ewen"}
    BY <1>7 DEF First, Then
  <2>2. PinsAt(p) = Pins(0, 0, 0) /\ PinsAt(Then(c, p, k)) = Pins(1, 0, 0)
    BY <1>7, <2>1 DEF PinsAt, Lowered, Outside
  <2>3. Driven(At(x, PinsAt(p), 0), First(c, p, k)) = At(x, PinsAt(Then(c, p, k)), 0)
    BY <2>1, <2>2, DrivenIs, ReadyIs
  <2>4. Fits(x, CommandBits + WordBits)
    <3>1. Budget(p, k) = CommandBits + WordBits
      BY <1>7, BudgetIs
    <3>. QED BY <3>1
  <2>5. Fits(x, Budget(Then(c, p, k), ThenLeft(p, k)))
    BY <1>2, <2>1, <2>4
  <2>. QED BY <1>7, <2>1, <2>3, <2>5 DEF Outside
<1>. QED BY <1>3, <1>4, <1>5, <1>6, <1>7 DEF Driving

-----------------------------------------------------------------------------
(* What the chip holds at each place when no write was given up, and what  *)
(* the call has moved.                                                     *)
Offset(c, k) == c.offset + (c.n - k)

ChipAt(c, p, k, x, w) ==
  /\ p \in {"ready", "ewen", "release"} => x = Idle0(FALSE)
  /\ p = "ewen low" => x = Chip(5, 4, 3, 0, 0, 1, FALSE)
  /\ p = "enabled" => x.opcode = 4 /\ x.enabled = TRUE /\ x.busy = <<>>
  /\ p = "words" /\ c.op = "read" => x = Idle0(FALSE)
  /\ p = "words" /\ c.op = "write" => x = Idle0(TRUE)
  /\ p = "address" => x = Chip(3, 6, 0, 0, 0, 1, FALSE)
  /\ p = "in" => x = Chip(CommandBits, 6, Offset(c, k), w[Offset(c, k)], WordBits, 0, FALSE)
  /\ p \in {"end", "stop"} => x.enabled = FALSE /\ x.busy = <<>>
  /\ p = "w address" => x = Chip(3, 5, 0, 0, 0, 1, TRUE)
  /\ p = "w word" => x = Chip(CommandBits, 5, Offset(c, k), 0, 0, 1, TRUE)
  /\ p = "w end" => x = Chip(CommandBits + WordBits, 5, Offset(c, k), c.vals[c.n - k + 1], 0, 1, TRUE)
  /\ p = "written" =>
       \/ x = Programming(TRUE, <<Offset(c, k), c.vals[c.n - k + 1]>>)
       \/ x = Idle0(TRUE) /\ w[Offset(c, k)] = c.vals[c.n - k + 1]
  /\ p = "w again" => x = Idle0(TRUE)
  /\ p = "ewds low" => x = Chip(5, 4, 0, 0, 0, 1, TRUE)

(* Both truth values are flags.                                            *)
LEMMA FlagsAre == TRUE \in Flags /\ FALSE \in Flags
BY DEF Flags

(* A state of the bus has one chip, one set of pins and one value.         *)
LEMMA SameEnd ==
  ASSUME NEW e, NEW p, NEW n, NEW e2, NEW p2, NEW n2,
         At(e, p, n) = At(e2, p2, n2)
  PROVE  e = e2 /\ p = p2 /\ n = n2
<1>1. /\ At(e, p, n).chip = e /\ At(e, p, n).pins = p /\ At(e, p, n).data = n
      /\ At(e2, p2, n2).chip = e2 /\ At(e2, p2, n2).pins = p2 /\ At(e2, p2, n2).data = n2
  BY Zenon DEF At
<1>. QED BY <1>1

(* The rest of the addresses of EWEN and EWDS.                             *)
LEMMA EnableLow ==
  ASSUME NEW en \in Flags
  PROVE  /\ \E ad : shift_out_eec_bits(At(Chip(5, 4, 3, 0, 0, 1, en), Pins(1, 0, 0), 0),
                                      0, AddressBits - 2)
                     = At(Chip(CommandBits, 4, ad, 0, 0, 1, TRUE), Pins(1, 0, 0), 0)
         /\ \E ad : shift_out_eec_bits(At(Chip(5, 4, 0, 0, 0, 1, en), Pins(1, 0, 0), 0),
                                      0, AddressBits - 2)
                     = At(Chip(CommandBits, 4, ad, 0, 0, 1, FALSE), Pins(1, 0, 0), 0)
<1>1. PICK n \in Nat, q \in Nat : /\ n = AddressBits - 2 /\ n > 0 /\ n <= AddressBits
                                 /\ 5 = CommandBits - n /\ q = Pow2[n] /\ 0 < q
  <2>1. AddressBits - 2 \in 0 .. CommandBits + WordBits /\ AddressBits - 2 \in Nat
        /\ AddressBits - 2 > 0 /\ AddressBits - 2 <= AddressBits
        /\ 5 = CommandBits - (AddressBits - 2)
    BY Sizes
  <2>2. Pow2[AddressBits - 2] \in Nat /\ 0 < Pow2[AddressBits - 2]
    BY <2>1, Pow2Steps
  <2>. QED BY <2>1, <2>2
<1>2. ASSUME NEW a \in {0, 3}
      PROVE  shift_out_eec_bits(At(Chip(5, 4, a, 0, 0, 1, en), Pins(1, 0, 0), 0), 0, n)
               = At(Decoded(Chip(CommandBits, 4, a * q, 0, 0, 1, en)), Pins(1, 0, 0), 0)
  <2>1. PICK x : x = Chip(5, 4, a, 0, 0, 1, en)
    OBVIOUS
  <2>2. /\ x \in Chips /\ x.count = 5 /\ x.opcode = 4 /\ x.address = a /\ x.word = 0
        /\ x.out = 0 /\ x.do = 1 /\ x.enabled = en /\ x.busy = <<>>
    BY <2>1 DEF Chip, Chips, Flags
  <2>3. x.opcode \in {4, 5, 6} /\ 0 \in Nat /\ x.count = CommandBits - n /\ 0 < Pow2[n]
    BY <1>1, <2>2
  <2>4. shift_out_eec_bits(At(x, Pins(1, 0, 0), 0), 0, n)
          = At(Decoded(Chip(CommandBits, x.opcode, x.address * Pow2[n] + 0, 0, 0, 1, x.enabled)),
               Pins(1, 0, 0), 0)
    BY <1>1, <2>2, <2>3, AddressOut
  <2>5. a * q + 0 = a * q
    BY <1>1
  <2>. QED BY <1>1, <2>1, <2>2, <2>4, <2>5, Zenon
<1>3. CommandBits \in Nat /\ 0 * q = 0 /\ 0 \in Nat /\ 3 * q \in Nat /\ 3 * q >= 3 * q
  BY <1>1, Sizes
<1>4. /\ Decoded(Chip(CommandBits, 4, 3 * q, 0, 0, 1, en)) = Chip(CommandBits, 4, 3 * q, 0, 0, 1, TRUE)
      /\ Decoded(Chip(CommandBits, 4, 0, 0, 0, 1, en)) = Chip(CommandBits, 4, 0, 0, 0, 1, FALSE)
  <2>1. PICK m \in Nat, ad \in Nat : /\ m = CommandBits /\ ad = 3 * q
                                    /\ ad >= 3 * Pow2[AddressBits - 2] /\ 0 < Pow2[AddressBits - 2]
    BY <1>1, <1>3
  <2>2. Decoded(Chip(m, 4, ad, 0, 0, 1, en)) = Chip(m, 4, ad, 0, 0, 1, TRUE)
    BY <2>1, DecodedChip
  <2>3. Decoded(Chip(m, 4, 0, 0, 0, 1, en)) = Chip(m, 4, 0, 0, 0, 1, FALSE)
    BY <1>3, <2>1, DecodedChip
  <2>. QED BY <2>1, <2>2, <2>3, Zenon
<1>5. shift_out_eec_bits(At(Chip(5, 4, 3, 0, 0, 1, en), Pins(1, 0, 0), 0), 0, n)
        = At(Chip(CommandBits, 4, 3 * q, 0, 0, 1, TRUE), Pins(1, 0, 0), 0)
  BY <1>2, <1>4
<1>6. shift_out_eec_bits(At(Chip(5, 4, 0, 0, 0, 1, en), Pins(1, 0, 0), 0), 0, n)
        = At(Chip(CommandBits, 4, 0, 0, 0, 1, FALSE), Pins(1, 0, 0), 0)
  BY <1>2, <1>3, <1>4
<1>. QED BY <1>1, <1>5, <1>6, Zenon

(* The address of a READ or WRITE.                                         *)
LEMMA AddressChip ==
  ASSUME NEW op \in {5, 6}, NEW en \in Flags, NEW v \in Offsets
  PROVE  shift_out_eec_bits(At(Chip(3, op, 0, 0, 0, 1, en), Pins(1, 0, 0), 0), v, AddressBits)
           = At(IF op = 6 THEN Chip(CommandBits, 6, v, words[v], WordBits, 0, en)
                ELSE Chip(CommandBits, 5, v, 0, 0, 1, en), Pins(1, 0, 0), 0)
<1>1. PICK n \in Nat, q \in Nat : /\ n = AddressBits /\ n > 0 /\ n <= AddressBits
                                 /\ 3 = CommandBits - n /\ q = Pow2[n]
  BY Sizes, Powers
<1>2. v \in Nat /\ v < Pow2[n]
  BY <1>1, Powers DEF Offsets
<1>3. PICK x : x = Chip(3, op, 0, 0, 0, 1, en)
  OBVIOUS
<1>4. /\ x \in Chips /\ x.count = 3 /\ x.opcode = op /\ x.address = 0 /\ x.word = 0
      /\ x.out = 0 /\ x.do = 1 /\ x.enabled = en /\ x.busy = <<>>
  BY <1>3 DEF Chip, Chips, Flags
<1>5. x.opcode \in {4, 5, 6} /\ x.count = CommandBits - n
  BY <1>1, <1>4
<1>6. shift_out_eec_bits(At(x, Pins(1, 0, 0), 0), v, n)
        = At(Decoded(Chip(CommandBits, x.opcode, x.address * Pow2[n] + v, 0, 0, 1, x.enabled)),
             Pins(1, 0, 0), 0)
  BY <1>1, <1>2, <1>4, <1>5, AddressOut
<1>7. 0 * q + v = v /\ CommandBits \in Nat
  BY <1>1, <1>2, Sizes
<1>8. shift_out_eec_bits(At(x, Pins(1, 0, 0), 0), v, n)
        = At(Decoded(Chip(CommandBits, op, v, 0, 0, 1, en)), Pins(1, 0, 0), 0)
  BY <1>1, <1>4, <1>6, <1>7, Zenon
<1>9. /\ Decoded(Chip(CommandBits, 6, v, 0, 0, 1, en)) = Chip(CommandBits, 6, v, words[v], WordBits, 0, en)
      /\ Decoded(Chip(CommandBits, 5, v, 0, 0, 1, en)) = Chip(CommandBits, 5, v, 0, 0, 1, en)
  BY <1>2, <1>7, DecodedChip
<1>10. op = 6 \/ op = 5
  OBVIOUS
<1>11. CASE op = 6
  BY <1>1, <1>3, <1>8, <1>9, <1>11, Zenon
<1>12. CASE op = 5
  <2>1. op # 6
    BY <1>12
  <2>. QED BY <1>1, <1>3, <1>8, <1>9, <1>12, <2>1, Zenon
<1>. QED BY <1>10, <1>11, <1>12

(* One lemma for each place; the pins are low but for CS.                  *)
LEMMA ShiftedChip ==
  ASSUME words \in [Offsets -> Values], NEW c, CallOK(c), NEW k,
         NEW p \in Shifting,
         PlaceOK(c, p, k), NEW x, ChipAt(c, p, k, x, words)
  PROVE  \E e : /\ Driven(At(x, Pins(1, 0, 0), 0), First(c, p, k)) = At(e, Pins(1, 0, 0), 0)
                /\ ChipAt(c, Then(c, p, k), k, e, words)
<1>1. c.op \in {"read", "write"} /\ k \in 0 .. c.n /\ c.n \in Nat
      /\ (p \in ReadPlaces \cup WritePlaces => k # 0) /\ (k # 0 => k \in 1 .. c.n)
  BY KIs
<1>. DEFINE P == Pins(1, 0, 0)
<1>2. CASE p = "ewen"
  <2>1. First(c, p, k) = Out(19, opcode_bits + 2) /\ Then(c, p, k) = "ewen low"
    BY <1>2 DEF First, Then
  <2>2. x = Idle0(FALSE)
    BY <1>2 DEF ChipAt
  <2>3. shift_out_eec_bits(At(Idle0(FALSE), P, 0), 19, opcode_bits + 2)
          = At(Chip(5, 4, 3, 0, 0, 1, FALSE), P, 0)
    <3>1. 19 \in {19, 16} /\ 19 - 16 = 3
      OBVIOUS
    <3>. QED BY <3>1, FlagsAre, EnableOut
  <2>4. ChipAt(c, "ewen low", k, Chip(5, 4, 3, 0, 0, 1, FALSE), words)
    BY DEF ChipAt
  <2>. QED BY <2>1, <2>2, <2>3, <2>4, DrivenIs
<1>3. CASE p = "words" /\ k = 0
  <2>1. First(c, p, k) = Out(16, opcode_bits + 2) /\ Then(c, p, k) = "ewds low"
    BY <1>3 DEF First, Then
  <2>2. x = Idle0(TRUE)
    BY <1>3 DEF ChipAt, PlaceOK
  <2>3. shift_out_eec_bits(At(Idle0(TRUE), P, 0), 16, opcode_bits + 2)
          = At(Chip(5, 4, 0, 0, 0, 1, TRUE), P, 0)
    <3>1. 16 \in {19, 16} /\ 16 - 16 = 0
      OBVIOUS
    <3>. QED BY <3>1, FlagsAre, EnableOut
  <2>4. ChipAt(c, "ewds low", k, Chip(5, 4, 0, 0, 0, 1, TRUE), words)
    BY DEF ChipAt
  <2>. QED BY <2>1, <2>2, <2>3, <2>4, DrivenIs
<1>4. CASE p = "words" /\ k # 0 /\ c.op = "read"
  <2>1. First(c, p, k) = Out(6, opcode_bits) /\ Then(c, p, k) = "address"
    BY <1>4 DEF First, Then
  <2>2. x = Idle0(FALSE)
    BY <1>4 DEF ChipAt
  <2>3. shift_out_eec_bits(At(Idle0(FALSE), P, 0), 6, opcode_bits)
          = At(Chip(3, 6, 0, 0, 0, 1, FALSE), P, 0)
    BY FlagsAre, OpcodeOut
  <2>4. ChipAt(c, "address", k, Chip(3, 6, 0, 0, 0, 1, FALSE), words)
    BY DEF ChipAt
  <2>. QED BY <2>1, <2>2, <2>3, <2>4, DrivenIs
<1>5. CASE p = "words" /\ k # 0 /\ c.op = "write"
  <2>1. First(c, p, k) = Out(5, opcode_bits) /\ Then(c, p, k) = "w address"
    BY <1>5 DEF First, Then
  <2>2. x = Idle0(TRUE)
    BY <1>5 DEF ChipAt
  <2>3. shift_out_eec_bits(At(Idle0(TRUE), P, 0), 5, opcode_bits)
          = At(Chip(3, 5, 0, 0, 0, 1, TRUE), P, 0)
    BY FlagsAre, OpcodeOut
  <2>4. ChipAt(c, "w address", k, Chip(3, 5, 0, 0, 0, 1, TRUE), words)
    BY DEF ChipAt
  <2>. QED BY <2>1, <2>2, <2>3, <2>4, DrivenIs
<1>6. CASE p = "ewen low"
  <2>1. First(c, p, k) = Out(0, AddressBits - 2) /\ Then(c, p, k) = "enabled"
    BY <1>6 DEF First, Then
  <2>2. x = Chip(5, 4, 3, 0, 0, 1, FALSE)
    BY <1>6 DEF ChipAt
  <2>3. PICK ad : shift_out_eec_bits(At(x, P, 0), 0, AddressBits - 2)
                    = At(Chip(CommandBits, 4, ad, 0, 0, 1, TRUE), P, 0)
    BY <2>2, FlagsAre, EnableLow
  <2>4. PICK e : e = Chip(CommandBits, 4, ad, 0, 0, 1, TRUE)
    OBVIOUS
  <2>5. e.opcode = 4 /\ e.busy = <<>> /\ e.enabled = TRUE
    BY <2>4 DEF Chip
  <2>6. ChipAt(c, "enabled", k, e, words)
    BY <2>5 DEF ChipAt
  <2>. QED BY <2>1, <2>3, <2>4, <2>6, DrivenIs
<1>7. CASE p = "ewds low"
  <2>1. First(c, p, k) = Out(0, AddressBits - 2) /\ Then(c, p, k) = "stop"
    BY <1>7 DEF First, Then
  <2>2. x = Chip(5, 4, 0, 0, 0, 1, TRUE)
    BY <1>7 DEF ChipAt
  <2>3. PICK ad : shift_out_eec_bits(At(x, P, 0), 0, AddressBits - 2)
                    = At(Chip(CommandBits, 4, ad, 0, 0, 1, FALSE), P, 0)
    BY <2>2, FlagsAre, EnableLow
  <2>4. PICK e : e = Chip(CommandBits, 4, ad, 0, 0, 1, FALSE)
    OBVIOUS
  <2>5. e.busy = <<>> /\ e.enabled = FALSE
    BY <2>4 DEF Chip
  <2>6. ChipAt(c, "stop", k, e, words)
    BY <2>5 DEF ChipAt
  <2>. QED BY <2>1, <2>3, <2>4, <2>6, DrivenIs
<1>9. CASE p = "address"
  <2>1. First(c, p, k) = Out(Offset(c, k), AddressBits) /\ Then(c, p, k) = "in"
    BY <1>9 DEF First, Then, Address, Offset
  <2>2. x = Chip(3, 6, 0, 0, 0, 1, FALSE)
    BY <1>9 DEF ChipAt
  <2>3. PICK v \in Offsets : v = Offset(c, k)
    BY <1>1, <1>9, CallIs DEF Offset, ReadPlaces
  <2>4. PICK e : /\ e = Chip(CommandBits, 6, v, words[v], WordBits, 0, FALSE)
                 /\ shift_out_eec_bits(At(x, P, 0), v, AddressBits) = At(e, P, 0)
    BY <2>2, FlagsAre, AddressChip
  <2>5. ChipAt(c, "in", k, e, words)
    BY <2>3, <2>4 DEF ChipAt
  <2>. QED BY <2>1, <2>3, <2>4, <2>5, DrivenIs
<1>10. CASE p = "w address"
  <2>1. First(c, p, k) = Out(Offset(c, k), AddressBits) /\ Then(c, p, k) = "w word"
    BY <1>10 DEF First, Then, Address, Offset
  <2>2. x = Chip(3, 5, 0, 0, 0, 1, TRUE)
    BY <1>10 DEF ChipAt
  <2>3. PICK v \in Offsets : v = Offset(c, k)
    BY <1>1, <1>10, CallIs DEF Offset, WritePlaces
  <2>4. PICK e : /\ e = Chip(CommandBits, 5, v, 0, 0, 1, TRUE)
                 /\ shift_out_eec_bits(At(x, P, 0), v, AddressBits) = At(e, P, 0)
    <3>1. 5 \in {5, 6} /\ 5 # 6
      OBVIOUS
    <3>2. shift_out_eec_bits(At(Chip(3, 5, 0, 0, 0, 1, TRUE), P, 0), v, AddressBits)
            = At(Chip(CommandBits, 5, v, 0, 0, 1, TRUE), P, 0)
      BY <3>1, FlagsAre, AddressChip
    <3>. QED BY <2>2, <3>2
  <2>5. ChipAt(c, "w word", k, e, words)
    BY <2>3, <2>4 DEF ChipAt
  <2>. QED BY <2>1, <2>3, <2>4, <2>5, DrivenIs
<1>11. CASE p = "w word"
  <2>1. First(c, p, k) = Out(c.vals[c.n - k + 1], WordBits) /\ Then(c, p, k) = "w end"
    BY <1>11 DEF First, Then, Word
  <2>2. PICK ad \in Nat : ad = Offset(c, k)
    BY <1>1, <1>11, CallIs DEF Offset, WritePlaces
  <2>3. PICK v \in Values : v = c.vals[c.n - k + 1]
    BY <1>1, <1>11, CallIs DEF PlaceOK, WritePlaces
  <2>4. x = Chip(CommandBits, 5, ad, 0, 0, 1, TRUE)
    BY <1>11, <2>2 DEF ChipAt
  <2>5. PICK e : /\ e = Chip(CommandBits + WordBits, 5, ad, v, 0, 1, TRUE)
                 /\ shift_out_eec_bits(At(x, P, 0), v, WordBits) = At(e, P, 0)
    BY <2>4, FlagsAre, WordOut
  <2>6. ChipAt(c, "w end", k, e, words)
    BY <2>2, <2>3, <2>5 DEF ChipAt
  <2>. QED BY <2>1, <2>3, <2>5, <2>6, DrivenIs
<1>. QED BY <1>1, <1>2, <1>3, <1>4, <1>5, <1>6, <1>7, <1>9, <1>10, <1>11
            DEF Shifting

(* A word is complete, or the chip has been told to take writes: standby.  *)
LEMMA StandingChip ==
  ASSUME words \in [Offsets -> Values], NEW c, CallOK(c), NEW k,
         NEW p \in Standing,
         PlaceOK(c, p, k), NEW x, Registers(x), ChipAt(c, p, k, x, words)
  PROVE  ChipAt(c, Then(c, p, k), ThenLeft(p, k), Deselected(x), words)
<1>1. c.op \in {"read", "write"} /\ k \in 0 .. c.n /\ c.n \in Nat
      /\ (p \in ReadPlaces \cup WritePlaces => k # 0) /\ (k # 0 => k \in 1 .. c.n)
  BY KIs
<1>2. CASE p = "enabled"
  <2>1. Then(c, p, k) = "words" /\ ThenLeft(p, k) = k /\ c.op = "write"
    BY <1>2 DEF Then, ThenLeft, PlaceOK, Enabling
  <2>2. x.busy = <<>> /\ ~IsWrite(x) /\ x.enabled = TRUE
    BY <1>2 DEF ChipAt, IsWrite
  <2>3. Deselected(x) = Idle0(TRUE)
    BY <2>2, DeselectedChip
  <2>. QED BY <2>1, <2>3 DEF ChipAt
<1>3. CASE p = "end"
  <2>1. Then(c, p, k) \in {"words", "stop"} /\ c.op = "read"
    BY <1>3 DEF Then, PlaceOK, ReadPlaces
  <2>2. x.busy = <<>> /\ ~IsWrite(x) /\ x.enabled = FALSE
    BY <1>3 DEF ChipAt, IsWrite
  <2>3. Deselected(x) = Idle0(FALSE)
    BY <2>2, DeselectedChip
  <2>4. Idle0(FALSE).enabled = FALSE /\ Idle0(FALSE).busy = <<>>
    BY DEF Idle0, Chip
  <2>. QED BY <2>1, <2>3, <2>4 DEF ChipAt
<1>4. CASE p = "w end"
  <2>1. Then(c, p, k) = "written" /\ ThenLeft(p, k) = k
    BY <1>4 DEF Then, ThenLeft
  <2>2. PICK a, v : a = Offset(c, k) /\ v = c.vals[c.n - k + 1]
    OBVIOUS
  <2>3. x = Chip(CommandBits + WordBits, 5, a, v, 0, 1, TRUE)
    BY <1>4, <2>2 DEF ChipAt
  <2>4. /\ x.count = CommandBits + WordBits /\ x.opcode = 5 /\ x.enabled = TRUE
        /\ x.address = a /\ x.word = v /\ x.busy = <<>>
    BY <2>3 DEF Chip
  <2>5. IsWrite(x)
    BY <2>4 DEF IsWrite
  <2>6. Deselected(x) = Programming(TRUE, <<a, v>>)
    BY <2>4, <2>5, DeselectedChip
  <2>. QED BY <2>1, <2>2, <2>6 DEF ChipAt
<1>5. CASE p = "w again"
  <2>1. Then(c, p, k) = "words" /\ c.op = "write"
    BY <1>5 DEF Then, PlaceOK, WritePlaces
  <2>2. x = Idle0(TRUE)
    BY <1>5 DEF ChipAt
  <2>3. x.busy = <<>> /\ x.enabled = TRUE /\ x.opcode = 0
    BY <2>2 DEF Idle0, Chip
  <2>4. ~IsWrite(x)
    BY <2>3 DEF IsWrite
  <2>5. Deselected(x) = Idle0(TRUE)
    BY <2>3, <2>4, DeselectedChip
  <2>. QED BY <2>1, <2>5 DEF ChipAt
<1>. QED BY <1>2, <1>3, <1>4, <1>5 DEF Standing

(* A routine leaves the chip as the call expects it at its next place, and *)
(* what is shifted in is the word at the call's offset.                    *)
LEMMA DriveChip ==
  ASSUME words \in [Offsets -> Values], NEW c, CallOK(c), NEW k,
         NEW p \in Driving,
         PlaceOK(c, p, k), NEW x, Registers(x), ChipAt(c, p, k, x, words)
  PROVE  \E e, n :
           /\ Driven(At(x, PinsAt(p), 0), First(c, p, k)) = At(e, PinsAt(Then(c, p, k)), n)
           /\ ChipAt(c, Then(c, p, k), ThenLeft(p, k), e, words)
           /\ p = "in" => n = words[Offset(c, k)]
<1>1. CASE p \in Shifting
  <2>1. PICK e : /\ Driven(At(x, Pins(1, 0, 0), 0), First(c, p, k)) = At(e, Pins(1, 0, 0), 0)
                 /\ ChipAt(c, Then(c, p, k), k, e, words)
    BY <1>1, ShiftedChip
  <2>2. Then(c, p, k) \notin Lowered
    BY <1>1, ShiftingFirst
  <2>3. PinsAt(p) = Pins(1, 0, 0) /\ PinsAt(Then(c, p, k)) = Pins(1, 0, 0) /\ p # "in"
        /\ ThenLeft(p, k) = k
    BY <1>1, <2>2 DEF PinsAt, Lowered, Outside, Shifting, ThenLeft
  <2>. QED BY <2>1, <2>3
<1>2. CASE p \in Standing
  <2>1. First(c, p, k) = Plain("standby") /\ Then(c, p, k) \in {"words", "stop", "written"}
    BY <1>2 DEF First, Then, Standing, Standby
  <2>2. PinsAt(p) = Pins(1, 0, 0) /\ PinsAt(Then(c, p, k)) = Pins(1, 0, 0) /\ p # "in"
    BY <1>2, <2>1 DEF PinsAt, Lowered, Outside, Standing
  <2>3. Driven(At(x, PinsAt(p), 0), First(c, p, k))
          = At(Deselected(x), PinsAt(Then(c, p, k)), 0)
    BY <2>1, <2>2, DrivenIs, StandbyIs
  <2>4. ChipAt(c, Then(c, p, k), ThenLeft(p, k), Deselected(x), words)
    BY <1>2, StandingChip
  <2>. QED BY <2>2, <2>3, <2>4
<1>3. CASE p = "in"
  <2>1. First(c, p, k) = In /\ Then(c, p, k) = "end" /\ ThenLeft(p, k) = k
    BY <1>3 DEF First, Then, ThenLeft
  <2>2. PinsAt(p) = Pins(1, 0, 0) /\ PinsAt("end") = Pins(1, 0, 0)
    BY <1>3 DEF PinsAt, Lowered, Outside
  <2>3. Offset(c, k) \in Offsets
    BY <1>3, KIs, CallIs DEF Offset, ReadPlaces
  <2>4. PICK v \in Values : v = words[Offset(c, k)]
    BY <2>3
  <2>5. x = Chip(CommandBits, 6, Offset(c, k), v, WordBits, 0, FALSE)
    BY <1>3, <2>4 DEF ChipAt
  <2>6. x \in Chips /\ x.out = WordBits /\ x.busy = <<>> /\ x.word = v /\ x.enabled = FALSE
    BY <2>5 DEF Chip, Registers
  <2>7. PICK e \in Chips : /\ e.out = 0 /\ e.enabled = x.enabled /\ e.busy = <<>>
                           /\ shift_in_eec_bits(At(x, Pins(1, 0, 0), 0), WordBits)
                                = At(e, Pins(1, 0, 0), x.word)
    BY <2>6, WordIn
  <2>8. ChipAt(c, "end", k, e, words)
    BY <2>6, <2>7 DEF ChipAt
  <2>. QED BY <2>1, <2>2, <2>4, <2>6, <2>7, <2>8, DrivenIs
<1>4. CASE p = "ready"
  <2>1. First(c, p, k) = Plain("ready") /\ ThenLeft(p, k) = k
        /\ Then(c, p, k) = IF c.op = "read" THEN "words" ELSE "ewen"
    BY <1>4 DEF First, Then, ThenLeft
  <2>2. PinsAt(p) = Pins(0, 0, 0) /\ PinsAt(Then(c, p, k)) = Pins(1, 0, 0)
    BY <1>4, <2>1 DEF PinsAt, Lowered, Outside
  <2>3. Driven(At(x, PinsAt(p), 0), First(c, p, k)) = At(x, PinsAt(Then(c, p, k)), 0)
    BY <2>1, <2>2, DrivenIs, ReadyIs
  <2>4. x = Idle0(FALSE)
    BY <1>4 DEF ChipAt
  <2>5. ChipAt(c, Then(c, p, k), k, x, words)
    BY <2>1, <2>4 DEF ChipAt
  <2>. QED BY <1>4, <2>1, <2>3, <2>5
<1>5. CASE p = "stop"
  <2>1. First(c, p, k) = Plain("stop") /\ Then(c, p, k) = "release" /\ ThenLeft(p, k) = k
    BY <1>5 DEF First, Then, ThenLeft
  <2>2. PinsAt(p) = Pins(1, 0, 0) /\ PinsAt("release") = Pins(0, 0, 0)
    BY <1>5 DEF PinsAt, Lowered, Outside
  <2>3. x.busy = <<>> /\ ~IsWrite(x) /\ x.enabled = FALSE
    BY <1>5 DEF ChipAt, IsWrite
  <2>4. Deselected(x) = Idle0(FALSE)
    BY <2>3, DeselectedChip
  <2>5. Driven(At(x, PinsAt(p), 0), First(c, p, k)) = At(Idle0(FALSE), PinsAt("release"), 0)
    BY <2>1, <2>2, <2>4, DrivenIs, StopIs
  <2>6. ChipAt(c, "release", k, Idle0(FALSE), words)
    BY DEF ChipAt
  <2>. QED BY <1>5, <2>1, <2>5, <2>6
<1>. QED BY <1>1, <1>2, <1>3, <1>4, <1>5 DEF Driving

(* What the call has moved.                                                *)
Count(c, p, k) == IF p \in {"end", "w again"} THEN c.n - k + 1 ELSE c.n - k
Transferred(c, d, w, i) ==
  IF c.op = "read" THEN d = [j \in 1 .. i |-> w[c.offset + j - 1]]
  ELSE \A j \in 1 .. i : w[c.offset + j - 1] = c.vals[j]

(* The words that are done grow by one where a word ends, and nowhere      *)
(* else.                                                                   *)
LEMMA CountIs ==
  ASSUME NEW c, CallOK(c), NEW k, NEW p \in CallPlaces, PlaceOK(c, p, k)
  PROVE  /\ Count(c, p, k) \in 0 .. c.n /\ k \in Nat /\ c.n \in Nat /\ c.offset \in Nat
         /\ p \in Driving \ {"in"} => Count(c, Then(c, p, k), ThenLeft(p, k)) = Count(c, p, k)
         /\ p \in {"in", "written"} =>
              /\ Count(c, Then(c, p, k), ThenLeft(p, k)) = Count(c, p, k) + 1
              /\ Count(c, p, k) = c.n - k
<1>1. c.n \in Nat /\ c.offset \in Nat /\ k \in 0 .. c.n
      /\ (p \in ReadPlaces \cup WritePlaces => k # 0)
  BY KIs, CallIs
<1>2. PICK n \in Nat : n = c.n /\ k \in 0 .. n /\ k \in Nat
  BY <1>1
<1>3. n - k \in 0 .. n /\ (k # 0 => n - k + 1 \in 0 .. n /\ n - (k - 1) = n - k + 1)
  BY <1>2
<1>4. CASE p = "end" \/ p = "w again"
  <2>1. k # 0 /\ Then(c, p, k) \in {"words", "stop"} /\ ThenLeft(p, k) = k - 1
    BY <1>1, <1>4 DEF ReadPlaces, WritePlaces, Then, ThenLeft
  <2>2. Count(c, p, k) = n - k + 1 /\ Count(c, Then(c, p, k), ThenLeft(p, k)) = n - (k - 1)
    BY <1>2, <1>4, <2>1 DEF Count
  <2>. QED BY <1>1, <1>2, <1>3, <1>4, <2>1, <2>2
<1>5. CASE p \in {"in", "written"}
  <2>1. Then(c, p, k) \in {"end", "w again"} /\ ThenLeft(p, k) = k
    BY <1>5 DEF Then, ThenLeft
  <2>2. Count(c, p, k) = n - k /\ Count(c, Then(c, p, k), ThenLeft(p, k)) = n - k + 1
    BY <1>2, <1>5, <2>1 DEF Count
  <2>3. p \notin Driving \ {"in"}
    BY <1>5 DEF Driving, Shifting, Standing
  <2>. QED BY <1>1, <1>2, <1>3, <2>2, <2>3
<1>6. CASE p \notin {"end", "w again", "in", "written"}
  <2>1. Count(c, p, k) = n - k /\ ThenLeft(p, k) = k
    BY <1>2, <1>6 DEF Count, ThenLeft
  <2>2. p \in Driving => Then(c, p, k) \notin {"end", "w again"}
    BY <1>6 DEF Then, Driving, Shifting, Standing
  <2>3. p \in Driving => Count(c, Then(c, p, k), ThenLeft(p, k)) = n - k
    BY <1>2, <2>1, <2>2 DEF Count
  <2>. QED BY <1>1, <1>2, <1>3, <1>6, <2>1, <2>3
<1>. QED BY <1>4, <1>5, <1>6

(* A row of words grows by the next one.                                   *)
LEMMA OneMore ==
  ASSUME NEW i \in Nat, NEW f, NEW d \in Seq(Values),
         d = [j \in 1 .. i |-> f[j]],
         NEW n \in Values, f[i + 1] = n
  PROVE  Append(d, n) = [j \in 1 .. i + 1 |-> f[j]]
<1>1. Len(d) = i
  BY LenProperties
<1>2. PICK t \in Seq(Values) :
        /\ t = Append(d, n) /\ Len(t) = i + 1 /\ t[i + 1] = n
        /\ \A j \in 1 .. i : t[j] = d[j]
  <2>1. PICK V : V = Values
    OBVIOUS
  <2>2. d \in Seq(V) /\ n \in V
    BY <2>1, Zenon
  <2>. HIDE <2>1
  <2>3. /\ Append(d, n) \in Seq(V) /\ Len(Append(d, n)) = i + 1
        /\ Append(d, n)[i + 1] = n
        /\ \A j \in 1 .. i : Append(d, n)[j] = d[j]
    BY <1>1, <2>2, AppendProperties
  <2>4. Append(d, n) \in Seq(Values)
    BY <2>1, <2>3, Zenon
  <2>. QED BY <2>3, <2>4
<1>3. Len(t) = i + 1 /\ \A j \in 1 .. i + 1 : t[j] = IF j <= i THEN d[j] ELSE n
  BY <1>2
<1>4. ASSUME NEW j \in 1 .. i + 1 PROVE t[j] = f[j]
  <2>1. CASE j <= i
    <3>1. j \in 1 .. i
      BY <2>1
    <3>2. d[j] = f[j]
      BY <3>1
    <3>. QED BY <1>3, <2>1, <3>2
  <2>2. CASE ~ (j <= i)
    <3>1. j = i + 1
      BY <2>2
    <3>. QED BY <1>3, <2>2, <3>1
  <2>. QED BY <2>1, <2>2
<1>5. t = [j \in 1 .. i + 1 |-> t[j]]
  <2>1. t = [j \in 1 .. Len(t) |-> t[j]]
    BY LenProperties
  <2>. QED BY <1>3, <2>1
<1>. QED BY <1>2, <1>4, <1>5

(* The word that was shifted in, or was written, is one more.              *)
LEMMA MovesOn ==
  ASSUME NEW c, CallOK(c), NEW k, NEW p \in {"in", "written"},
         PlaceOK(c, p, k),
         NEW w \in [Offsets -> Values], NEW d \in Seq(Values),
         Transferred(c, d, w, Count(c, p, k)), NEW n,
         p = "in" => n = w[Offset(c, k)], p = "written" => w[Offset(c, k)] = c.vals[c.n - k + 1]
  PROVE  Transferred(c, IF p = "in" THEN Append(d, n) ELSE d, w,
                     Count(c, Then(c, p, k), ThenLeft(p, k)))
<1>1. PICK i \in Nat, o \in Nat, v \in Values :
        /\ i = Count(c, p, k) /\ o = c.offset /\ i = c.n - k /\ v = w[Offset(c, k)]
        /\ Count(c, Then(c, p, k), ThenLeft(p, k)) = i + 1
        /\ Offset(c, k) = o + i /\ o + (i + 1) - 1 = o + i /\ i + 1 - 1 = i
  <2>1. p \in CallPlaces
    BY DEF CallPlaces, ReadPlaces, WritePlaces
  <2>2. Count(c, p, k) \in Nat /\ c.offset \in Nat /\ Count(c, p, k) = c.n - k
        /\ Count(c, Then(c, p, k), ThenLeft(p, k)) = Count(c, p, k) + 1
    BY <2>1, CountIs
  <2>3. Offset(c, k) \in Offsets
    BY KIs, CallIs DEF Offset, ReadPlaces, WritePlaces
  <2>4. PICK v \in Values : v = w[Offset(c, k)]
    BY <2>3
  <2>5. PICK i \in Nat, o \in Nat : i = Count(c, p, k) /\ o = c.offset
    BY <2>2
  <2>6. o + (i + 1) - 1 = o + i /\ i + 1 - 1 = i
    OBVIOUS
  <2>. QED BY <2>2, <2>4, <2>5, <2>6 DEF Offset
<1>2. CASE p = "in"
  <2>1. c.op = "read" /\ n = v
    BY <1>1, <1>2 DEF PlaceOK, ReadPlaces
  <2>. DEFINE f == [j \in 1 .. i + 1 |-> w[o + j - 1]]
  <2>2. d = [j \in 1 .. i |-> w[o + j - 1]]
    BY <1>1, <2>1 DEF Transferred
  <2>3. d = [j \in 1 .. i |-> f[j]] /\ f[i + 1] = w[o + (i + 1) - 1] /\ i + 1 \in 1 .. i + 1
    BY <2>2
  <2>4. f = [j \in 1 .. i + 1 |-> f[j]] /\ f = [j \in 1 .. i + 1 |-> w[o + j - 1]]
    OBVIOUS
  <2>. HIDE DEF f
  <2>5. Append(d, v) = [j \in 1 .. i + 1 |-> f[j]]
    BY <1>1, <2>3, OneMore
  <2>6. Append(d, v) = [j \in 1 .. i + 1 |-> w[o + j - 1]]
    BY <2>4, <2>5
  <2>. QED BY <1>1, <1>2, <2>1, <2>6 DEF Transferred
<1>3. CASE p = "written"
  <2>1. c.op = "write"
    BY <1>3 DEF PlaceOK, WritePlaces
  <2>2. \A j \in 1 .. i : w[o + j - 1] = c.vals[j]
    BY <1>1, <2>1 DEF Transferred
  <2>3. w[o + (i + 1) - 1] = c.vals[i + 1]
    BY <1>1, <1>3
  <2>4. ASSUME NEW j \in 1 .. i + 1 PROVE w[o + j - 1] = c.vals[j]
    <3>1. j \in 1 .. i \/ j = i + 1
      OBVIOUS
    <3>. QED BY <2>2, <2>3, <3>1
  <2>. QED BY <1>1, <1>3, <2>1, <2>4 DEF Transferred
<1>. QED BY <1>2, <1>3

(* The program of a call is what is left at its first place.               *)
LEMMA ProgramIs ==
  ASSUME NEW c, CallOK(c)
  PROVE  /\ Left(c, "acquire", c.n)
              = IF c.op = "read" THEN read_nvm_microwire(c.offset, c.n)
                ELSE write_nvm_microwire(c.offset, c.vals)
         /\ PlaceOK(c, "acquire", c.n)
<1>. DEFINE A == <<Plain("acquire"), Plain("grant")>> R == <<Plain("ready")>>
            W == Words(c)[c.n]
<1>1. c.op \in {"read", "write"} /\ c.n \in Nat /\ c.n # 0 /\ c.n \in 0 .. c.n
      /\ (c.op = "write" => c.n = Len(c.vals))
  <2>1. PICK n \in Nat : n = c.n /\ n > 0
    BY CallIs
  <2>2. n # 0 /\ n \in 0 .. n
    BY <2>1
  <2>. QED BY <2>1, <2>2, CallIs DEF CallOK
<1>2. PlaceOK(c, "acquire", c.n)
  BY <1>1 DEF PlaceOK, ReadPlaces, WritePlaces, Openings, Enabling, Closings
<1>3. W \in Seq(Routines)
  BY <1>1, WordsIs
<1>4. Left(c, "acquire", c.n)
        = (<<Plain("acquire"), Plain("grant"), Plain("ready")>> \o Prelude(c)) \o W
  <2>1. Now(c, "acquire", c.n)
          = <<Plain("acquire"), Plain("grant"), Plain("ready")>> \o Prelude(c)
    BY DEF Now
  <2>2. Later(c, "acquire", c.n) = W
    <3>1. "acquire" \in Openings \cup Enabling
      BY DEF Openings
    <3>. QED BY <3>1, OpeningLater
  <2>3. Left(c, "acquire", c.n) = Now(c, "acquire", c.n) \o Later(c, "acquire", c.n)
    BY DEF Left
  <2>. QED BY <2>1, <2>2, <2>3, Zenon
<1>. HIDE DEF W
<1>5. PICK a, g, r, y :
        /\ a = Plain("acquire") /\ g = Plain("grant") /\ r = Plain("ready") /\ y = Standby
        /\ a \in Routines /\ g \in Routines /\ r \in Routines /\ y \in Routines
  <2>1. \A x \in Names : Plain(x) \in Routines
    BY PartsIn
  <2>2. "acquire" \in Names /\ "grant" \in Names /\ "ready" \in Names /\ "standby" \in Names
    BY DEF Names
  <2>. QED BY <2>1, <2>2, Zenon DEF Standby
<1>6. PICK S : S = Routines
  OBVIOUS
<1>7. ewen \in Seq(S)
  <2>1. ewen \in Seq(Routines)
    <3>1. Out(19, opcode_bits + 2) \in Routines /\ Out(0, AddressBits - 2) \in Routines
      BY PartsIn
    <3>. QED BY <3>1 DEF ewen
  <2>. QED BY <1>6, <2>1, Zenon
<1>8. a \in S /\ g \in S /\ r \in S /\ y \in S
  BY <1>5, <1>6, Zenon
<1>. HIDE <1>6
<1>9. /\ <<a>> \in Seq(S) /\ <<g>> \in Seq(S) /\ <<r>> \in Seq(S) /\ <<y>> \in Seq(S)
      /\ <<a, g>> \in Seq(S) /\ <<a, g, r>> \in Seq(S)
  BY <1>8
<1>10. <<a, g, r>> = <<a, g>> \o <<r>>
  <2>1. <<a, g, r>> = <<a>> \o (<<g>> \o <<r>>)
    <3>1. <<a, g, r>> = <<a>> \o <<g, r>>
      BY ThreeCut, Zenon
    <3>2. <<g, r>> = <<g>> \o <<r>>
      BY TwoCut, Zenon
    <3>. QED BY <3>1, <3>2, Zenon
  <2>2. <<a>> \o (<<g>> \o <<r>>) = (<<a>> \o <<g>>) \o <<r>>
    BY <1>9, ConcatAssociative
  <2>. QED BY <2>1, <2>2, TwoCut, Zenon
<1>11. <<a, g, r>> \o (ewen \o <<y>>) = (<<a, g, r>> \o ewen) \o <<y>>
  BY <1>7, <1>9, ConcatAssociative
<1>12. <<a, g, r>> \o <<>> = <<a, g, r>>
  BY <1>9, ConcatEmptySeq
<1>13. CASE c.op = "read"
  <2>1. read_nvm_microwire(c.offset, c.n) = (<<a, g>> \o <<r>>) \o W
    BY <1>5, <1>13, Zenon DEF read_nvm_microwire, Acquire, W, Words
  <2>2. Left(c, "acquire", c.n) = (<<a, g, r>> \o <<>>) \o W
    BY <1>4, <1>5, <1>13, Zenon DEF Prelude
  <2>. QED BY <1>2, <1>10, <1>12, <1>13, <2>1, <2>2, Zenon
<1>14. CASE c.op = "write"
  <2>1. c.op # "read"
    BY <1>14
  <2>2. write_nvm_microwire(c.offset, c.vals)
          = (((<<a, g>> \o <<r>>) \o ewen) \o <<y>>) \o W
    BY <1>1, <1>5, <1>14, <2>1, Zenon DEF write_nvm_microwire, Acquire, W,
       Words, Standby
  <2>3. Left(c, "acquire", c.n) = (<<a, g, r>> \o (ewen \o <<y>>)) \o W
    BY <1>4, <1>5, <2>1, Zenon DEF Prelude
  <2>. QED BY <1>2, <1>10, <1>11, <2>1, <2>2, <2>3, Zenon
<1>. QED BY <1>1, <1>13, <1>14

-----------------------------------------------------------------------------
(* The invariant of the bus: every call is at a place, at most one of them *)
(* has the EEPROM, and the chip is as that one expects it, or idle.        *)

BusTypes ==
  /\ words \in [Offsets -> Values] /\ data \in [Functions -> Seq(Values)]
  /\ call = [f \in Functions |-> call[f]] /\ todo = [f \in Functions |-> todo[f]]
  /\ pins = [f \in Functions |-> pins[f]]
  /\ req \in [Functions -> BOOLEAN] /\ gnt \in [Functions -> BOOLEAN]
  /\ status \in [Functions -> {"ok", "error"}] /\ timeouts \in [grant : Nat, write : Nat]

OneGranted == \A f, g \in Functions : gnt[f] /\ gnt[g] => f = g

(* Function f is at place p of its call, with k words to go.               *)
CallAt(f, p, k) ==
  /\ p \in CallPlaces \cup {"done"}
  /\ p # "done" => CallOK(call[f]) /\ PlaceOK(call[f], p, k)
  /\ todo[f] = Left(call[f], p, k) /\ pins[f] = PinsAt(p)
  /\ p \in {"done", "acquire"} => ~req[f] /\ ~gnt[f]
  /\ p \notin Outside => gnt[f]
  /\ p \in {"acquire", "grant"} => data[f] = <<>>

(* The chip as the call of its holder expects it, and when nobody has it.  *)
Held(c, p, k, x, w, d, gaveUp) ==
  /\ Fits(x, Budget(p, k))
  /\ gaveUp = 0 => ChipAt(c, p, k, x, w) /\ Transferred(c, d, w, Count(c, p, k))
Free(x, gaveUp) ==
  Fits(x, CommandBits + WordBits) /\ (gaveUp = 0 => x = Idle0(FALSE))
HolderAt(f, p, k) ==
  p \notin Outside => Held(call[f], p, k, chip, words, data[f], timeouts.write)

CallsAt(P, K) ==
  /\ \A f \in Functions : CallAt(f, P[f], K[f]) /\ HolderAt(f, P[f], K[f])
  /\ (\A f \in Functions : P[f] \in Outside) => Free(chip, timeouts.write)

BusInv == BusTypes /\ OneGranted /\ \E P, K : CallsAt(P, K)

(* A step of one function, whether or not it has the EEPROM.               *)
Others(f) ==
  \A g \in Functions \ {f} :
    /\ call'[g] = call[g] /\ todo'[g] = todo[g] /\ pins'[g] = pins[g]
    /\ req'[g] = req[g] /\ gnt'[g] = gnt[g] /\ data'[g] = data[g]

(* The invariant holds again when the call of f is at its new place and    *)
(* the others are still at theirs.                                         *)
LEMMA AtPlaces ==
  ASSUME NEW P, NEW K, NEW f \in Functions, NEW q, NEW j,
         CallAt(f, q, j)', HolderAt(f, q, j)',
         \A g \in Functions \ {f} : CallAt(g, P[g], K[g])' /\ HolderAt(g, P[g], K[g])',
         q \in Outside /\ (\A g \in Functions \ {f} : P[g] \in Outside)
           => Free(chip, timeouts.write)'
  PROVE  (\E R, L : CallsAt(R, L))'
<1>. DEFINE R == [g \in Functions |-> IF g = f THEN q ELSE P[g]]
            L == [g \in Functions |-> IF g = f THEN j ELSE K[g]]
<1>1. PICK M, N : M = R /\ N = L
  OBVIOUS
<1>2. M[f] = q /\ N[f] = j /\ \A g \in Functions \ {f} : M[g] = P[g] /\ N[g] = K[g]
  BY <1>1
<1>3. ASSUME NEW g \in Functions PROVE CallAt(g, M[g], N[g])' /\ HolderAt(g, M[g], N[g])'
  <2>1. CASE g = f
    BY <1>2, <2>1, Zenon
  <2>2. CASE g # f
    <3>1. g \in Functions \ {f}
      BY <2>2
    <3>. QED BY <1>2, <3>1, Zenon
  <2>. QED BY <2>1, <2>2
<1>4. (\A g \in Functions : M[g] \in Outside) => Free(chip, timeouts.write)'
  <2>1. SUFFICES ASSUME \A g \in Functions : M[g] \in Outside
                 PROVE  Free(chip, timeouts.write)'
    OBVIOUS
  <2>2. q \in Outside /\ \A g \in Functions \ {f} : P[g] \in Outside
    BY <1>2, <2>1
  <2>. QED BY <2>2
<1>5. CallsAt(M, N)'
  BY <1>3, <1>4, Zenon DEF CallsAt
<1>. QED BY <1>5

(* The calls of the others stay where they are.                            *)
LEMMA OthersStay ==
  ASSUME NEW f \in Functions, Others(f), NEW g \in Functions \ {f}, NEW p,
         NEW k,
         CallAt(g, p, k), HolderAt(g, p, k),
         p \in Outside \/ UNCHANGED <<chip, words, timeouts>>
  PROVE  CallAt(g, p, k)' /\ HolderAt(g, p, k)'
<1>1. CallAt(g, p, k)'
  BY Zenon DEF Others, CallAt
<1>2. HolderAt(g, p, k)'
  <2>1. CASE p \in Outside
    BY <2>1, Zenon DEF HolderAt
  <2>2. CASE UNCHANGED <<chip, words, timeouts>>
    <3>1. chip' = chip /\ words' = words /\ timeouts' = timeouts
      BY <2>2
    <3>. QED BY <3>1, Zenon DEF Others, HolderAt
  <2>. QED BY <2>1, <2>2
<1>. QED BY <1>1, <1>2

(* Only one is not outside.                                                *)
LEMMA OneHolder ==
  ASSUME OneGranted, NEW P, NEW K, CallsAt(P, K), NEW f \in Functions, gnt[f]
  PROVE  \A g \in Functions \ {f} : P[g] \in Outside
<1>1. ASSUME NEW g \in Functions \ {f}, P[g] \notin Outside PROVE FALSE
  <2>1. gnt[g] /\ g # f
    BY <1>1, Zenon DEF CallsAt, CallAt
  <2>. QED BY <2>1 DEF OneGranted
<1>. QED BY <1>1

(* A step of a function that has no say over the chip before or after.     *)
LEMMA StepOutside ==
  ASSUME BusInv, NEW P, NEW K, CallsAt(P, K), NEW f \in Functions,
         P[f] \in Outside,
         Others(f), UNCHANGED <<chip, words>>, timeouts'.write = timeouts.write,
         NEW q \in Outside, NEW j, CallAt(f, q, j)', BusTypes', OneGranted'
  PROVE  BusInv'
<1>1. HolderAt(f, q, j)'
  BY DEF HolderAt
<1>2. ASSUME NEW g \in Functions \ {f}
      PROVE  CallAt(g, P[g], K[g])' /\ HolderAt(g, P[g], K[g])'
  <2>1. CallAt(g, P[g], K[g]) /\ HolderAt(g, P[g], K[g])
    BY DEF CallsAt
  <2>2. CallAt(g, P[g], K[g])'
    BY <2>1, Zenon DEF Others, CallAt
  <2>3. HolderAt(g, P[g], K[g])'
    <3>1. chip' = chip /\ words' = words
      OBVIOUS
    <3>. QED BY <2>1, <3>1, Zenon DEF Others, HolderAt
  <2>. QED BY <2>2, <2>3
<1>3. (\A g \in Functions \ {f} : P[g] \in Outside) => Free(chip, timeouts.write)'
  <2>1. ASSUME \A g \in Functions \ {f} : P[g] \in Outside PROVE Free(chip, timeouts.write)
    <3>1. \A g \in Functions : P[g] \in Outside
      BY <2>1
    <3>. QED BY <3>1, Zenon DEF CallsAt
  <2>2. chip' = chip
    OBVIOUS
  <2>. QED BY <2>1, <2>2, Zenon
<1>4. (\E R, L : CallsAt(R, L))'
  BY <1>1, <1>2, <1>3, AtPlaces
<1>. QED BY <1>4 DEF BusInv

(* A step of the function that has the EEPROM.                             *)
LEMMA StepInside ==
  ASSUME BusInv, NEW P, NEW K, CallsAt(P, K), NEW f \in Functions, gnt[f],
         Others(f), NEW q, NEW j, CallAt(f, q, j)', HolderAt(f, q, j)',
         q \in Outside => Free(chip, timeouts.write)', BusTypes', OneGranted'
  PROVE  BusInv'
<1>1. \A g \in Functions \ {f} : P[g] \in Outside
  BY OneHolder DEF BusInv
<1>2. ASSUME NEW g \in Functions \ {f}
      PROVE  CallAt(g, P[g], K[g])' /\ HolderAt(g, P[g], K[g])'
  <2>1. CallAt(g, P[g], K[g]) /\ HolderAt(g, P[g], K[g])
    BY DEF CallsAt
  <2>. QED BY <1>1, <2>1, OthersStay
<1>3. (\E R, L : CallsAt(R, L))'
  BY <1>2, AtPlaces
<1>. QED BY <1>3 DEF BusInv

(* The name of the routine that comes at a place.                          *)
LEMMA NameIs ==
  ASSUME NEW c, NEW k, NEW p \in CallPlaces
  PROVE  First(c, p, k).name =
           IF p \in Openings \cup {"written", "stop", "release"} THEN p
           ELSE IF p \in Standing THEN "standby"
           ELSE IF p = "in" THEN "shift_in" ELSE "shift_out"
<1>1. ASSUME NEW x, NEW v, NEW n PROVE Routine(x, v, n).name = x
  BY DEF Routine
<1>2. CASE p \in Openings \cup {"written", "stop", "release"}
  <2>1. First(c, p, k) = Plain(p)
    BY <1>2 DEF First, Openings
  <2>2. First(c, p, k).name = p
    BY <1>1, <2>1, Zenon DEF Plain
  <2>. QED BY <1>2, <2>2
<1>3. CASE p \in Standing
  <2>1. First(c, p, k) = Plain("standby") /\ p \notin Openings \cup {"written", "stop", "release"}
    BY <1>3 DEF First, Standing, Standby, Openings
  <2>2. First(c, p, k).name = "standby"
    BY <1>1, <2>1, Zenon DEF Plain
  <2>. QED BY <1>3, <2>1, <2>2
<1>4. CASE p = "in"
  <2>1. First(c, p, k) = In /\ p \notin Standing
        /\ p \notin Openings \cup {"written", "stop", "release"}
    BY <1>4 DEF First, Standing, Openings
  <2>2. First(c, p, k).name = "shift_in"
    BY <1>1, <2>1, Zenon DEF In
  <2>. QED BY <1>4, <2>1, <2>2
<1>5. CASE p \in Shifting
  <2>1. (\E v, n : First(c, p, k) = Out(v, n)) /\ p \notin Standing /\ p # "in"
        /\ p \notin Openings \cup {"written", "stop", "release"}
    BY <1>5 DEF First, Standing, Shifting, Openings, Address, Word
  <2>2. First(c, p, k).name = "shift_out"
    BY <1>1, <2>1, Zenon DEF Out
  <2>. QED BY <2>1, <2>2
<1>. QED
  BY <1>2, <1>3, <1>4, <1>5
  DEF Standing, Shifting, Openings, CallPlaces, Enabling, ReadPlaces,
      WritePlaces, Closings

(* The place of a call that goes on.                                       *)
LEMMA PlaceOf ==
  ASSUME NEW f \in Functions, NEW p, NEW k, CallAt(f, p, k), todo[f] # <<>>
  PROVE  /\ p \in CallPlaces /\ CallOK(call[f]) /\ PlaceOK(call[f], p, k)
         /\ Head(todo[f]) = First(call[f], p, k)
         /\ Tail(todo[f]) = Left(call[f], Then(call[f], p, k), ThenLeft(p, k))
<1>1. p # "done"
  BY Zenon DEF CallAt, Left
<1>2. p \in CallPlaces /\ CallOK(call[f]) /\ PlaceOK(call[f], p, k)
      /\ todo[f] = Left(call[f], p, k)
  BY <1>1 DEF CallAt
<1>3. Steps(call[f], p, k, Then(call[f], p, k), ThenLeft(p, k))
  BY <1>2, CallSteps
<1>. QED BY <1>2, <1>3 DEF Steps

(* The routine a call has next says at what place it is.                   *)
LEMMA PlaceNamed ==
  ASSUME NEW f \in Functions, NEW p, NEW k, CallAt(f, p, k), NEW name,
         NextIs(f, name)
  PROVE  /\ name \in {"acquire", "grant", "written", "release"} => p = name
         /\ name \in {"shift_out", "shift_in", "standby", "stop", "ready"} => p \in Driving
         /\ name = "shift_in" <=> p = "in"
<1>1. p \in CallPlaces /\ First(call[f], p, k).name = name
  BY PlaceOf DEF NextIs
<1>2. name = IF p \in Openings \cup {"written", "stop", "release"} THEN p
             ELSE IF p \in Standing THEN "standby"
             ELSE IF p = "in" THEN "shift_in" ELSE "shift_out"
  BY <1>1, NameIs
<1>. QED
  BY <1>1, <1>2
  DEF Standing, Shifting, Driving, Openings, CallPlaces, Enabling, ReadPlaces,
      WritePlaces, Closings

(* A call with nothing left to do is done.                                 *)
LEMMA QuietDone ==
  ASSUME NEW f \in Functions, NEW p, NEW k, CallAt(f, p, k), todo[f] = <<>>
  PROVE  p = "done"
<1>1. ASSUME p # "done" PROVE FALSE
  <2>1. p \in CallPlaces /\ CallOK(call[f]) /\ PlaceOK(call[f], p, k)
        /\ todo[f] = Left(call[f], p, k)
    BY <1>1 DEF CallAt
  <2>2. Steps(call[f], p, k, Then(call[f], p, k), ThenLeft(p, k))
    BY <2>1, CallSteps
  <2>. QED BY <2>1, <2>2 DEF Steps
<1>. QED BY <1>1

-----------------------------------------------------------------------------
(* Each step of the bus keeps the invariant.                               *)

Calls == [op : {"read", "write"}, offset : Nat, vals : Seq(Values), n : Nat]

(* A call begins: at "acquire", or done at once when it is out of bounds.  *)
LEMMA BeginStep ==
  ASSUME BusInv, NEW f \in Functions, todo[f] = <<>>, NEW c \in Calls,
         c.op = "write" => c.n = Len(c.vals),
         Begin(f, c, IF c.op = "read" THEN read_nvm_microwire(c.offset, c.n)
                     ELSE write_nvm_microwire(c.offset, c.vals))
  PROVE  BusInv'
<1>1. PICK P, K : CallsAt(P, K)
  BY DEF BusInv
<1>2. CallAt(f, P[f], K[f])
  BY <1>1 DEF CallsAt
<1>3. P[f] = "done"
  BY <1>2, QuietDone
<1>4. pins[f] = PinsAt("done") /\ ~req[f] /\ ~gnt[f]
  BY <1>2, <1>3 DEF CallAt
<1>. DEFINE program == IF c.op = "read" THEN read_nvm_microwire(c.offset, c.n)
                       ELSE write_nvm_microwire(c.offset, c.vals)
            left == IF InBounds(c.offset, c.n) THEN program ELSE <<>>
            st == IF InBounds(c.offset, c.n) THEN "ok" ELSE "error"
<1>5. PICK l, s : /\ l = left /\ s = st /\ s \in {"ok", "error"}
                  /\ todo' = [todo EXCEPT ![f] = l] /\ status' = [status EXCEPT ![f] = s]
  BY DEF Begin
<1>6. /\ call' = [call EXCEPT ![f] = c] /\ data' = [data EXCEPT ![f] = <<>>]
      /\ UNCHANGED <<words, chip, pins, req, gnt, timeouts>>
  BY DEF Begin
<1>. HIDE DEF program
<1>7. BusTypes' /\ OneGranted'
  <2>1. OneGranted'
    BY <1>6 DEF BusInv, OneGranted
  <2>2. <<>> \in Seq(Values)
    BY EmptyIn
  <2>. QED BY <1>5, <1>6, <2>1, <2>2 DEF BusInv, BusTypes
<1>8. Others(f) /\ call'[f] = c /\ todo'[f] = l /\ data'[f] = <<>>
  BY <1>5, <1>6 DEF BusInv, BusTypes, Others
<1>9. /\ UNCHANGED <<chip, words>> /\ timeouts'.write = timeouts.write
      /\ P[f] \in Outside
  BY <1>3, <1>6 DEF Outside
<1>10. CASE InBounds(c.offset, c.n)
  <2>1. CallOK(c)
    BY <1>10 DEF CallOK, Calls
  <2>2. l = Left(c, "acquire", c.n) /\ PlaceOK(c, "acquire", c.n)
    BY <1>5, <1>10, <2>1, ProgramIs DEF program
  <2>3. PinsAt("acquire") = PinsAt("done")
    BY DEF PinsAt, Lowered, Outside
  <2>4. "acquire" \in CallPlaces /\ "acquire" \in Outside
    BY DEF CallPlaces, Openings, Outside
  <2>5. CallAt(f, "acquire", c.n)'
    BY <1>4, <1>6, <1>8, <2>1, <2>2, <2>3, <2>4 DEF CallAt
  <2>6. PICK n : n = c.n
    OBVIOUS
  <2>. QED BY <1>1, <1>7, <1>8, <1>9, <2>4, <2>5, <2>6, StepOutside
<1>11. CASE ~InBounds(c.offset, c.n)
  <2>1. l = <<>> /\ Left(c, "done", 0) = <<>>
    BY <1>5, <1>11 DEF Left
  <2>2. "done" \in Outside
    BY DEF Outside
  <2>3. CallAt(f, "done", 0)'
    BY <1>4, <1>6, <1>8, <2>1, <2>2 DEF CallAt
  <2>. QED BY <1>1, <1>7, <1>8, <1>9, <2>2, <2>3, StepOutside
<1>. QED BY <1>10, <1>11

(* The results of a call that is done are taken.                           *)
LEMMA IdleStep ==
  ASSUME BusInv, NEW f \in Functions, todo[f] = <<>>,
         data' = [data EXCEPT ![f] = <<>>], status' = [status EXCEPT ![f] = "ok"],
         UNCHANGED <<words, chip, pins, req, gnt, todo, call, timeouts>>
  PROVE  BusInv'
<1>1. PICK P, K : CallsAt(P, K)
  BY DEF BusInv
<1>2. CallAt(f, P[f], K[f])
  BY <1>1 DEF CallsAt
<1>3. P[f] = "done" /\ "done" \in Outside
  BY <1>2, QuietDone DEF Outside
<1>4. /\ data' = [data EXCEPT ![f] = <<>>] /\ status' = [status EXCEPT ![f] = "ok"]
      /\ UNCHANGED <<words, chip, pins, req, gnt, todo, call, timeouts>>
  OBVIOUS
<1>5. BusTypes' /\ OneGranted'
  <2>1. OneGranted'
    BY <1>4 DEF BusInv, OneGranted
  <2>2. <<>> \in Seq(Values)
    BY EmptyIn
  <2>. QED BY <1>4, <2>1, <2>2 DEF BusInv, BusTypes
<1>6. Others(f)
  BY <1>4 DEF BusInv, BusTypes, Others
<1>7. CallAt(f, "done", K[f])'
  BY <1>2, <1>3, <1>4 DEF CallAt
<1>8. PICK k : k = K[f]
  OBVIOUS
<1>. QED BY <1>1, <1>3, <1>4, <1>5, <1>6, <1>7, <1>8, StepOutside

(* The arbiter grants the EEPROM to one that waits, when none has it.      *)
LEMMA GrantStep ==
  ASSUME BusInv, NEW f \in Functions, Grant(f)
  PROVE  BusInv'
<1>1. PICK P, K : CallsAt(P, K)
  BY DEF BusInv
<1>2. CallAt(f, P[f], K[f]) /\ req[f] /\ \A g \in Functions : ~gnt[g]
  BY <1>1 DEF CallsAt, Grant
<1>3. P[f] = "grant" /\ "grant" \in Outside
  BY <1>2 DEF CallAt, Outside
<1>4. /\ gnt' = [gnt EXCEPT ![f] = TRUE]
      /\ UNCHANGED <<words, chip, pins, req, todo, data, call, status, timeouts>>
  BY DEF Grant
<1>5. BusTypes' /\ OneGranted'
  BY <1>2, <1>4 DEF BusInv, BusTypes, OneGranted
<1>6. Others(f)
  BY <1>4 DEF BusInv, BusTypes, Others
<1>7. CallAt(f, "grant", K[f])'
  BY <1>2, <1>3, <1>4 DEF CallAt
<1>8. PICK k : k = K[f]
  OBVIOUS
<1>. QED BY <1>1, <1>3, <1>4, <1>5, <1>6, <1>7, <1>8, StepOutside

(* A call asks for the EEPROM.                                             *)
LEMMA RequestStep ==
  ASSUME BusInv, NEW f \in Functions, Request(f)
  PROVE  BusInv'
<1>1. PICK P, K : CallsAt(P, K)
  BY DEF BusInv
<1>2. PICK p, k : p = P[f] /\ k = K[f] /\ CallAt(f, p, k) /\ NextIs(f, "acquire")
  BY <1>1 DEF CallsAt, Request
<1>3. p = "acquire" /\ "acquire" \in Outside /\ "grant" \in Outside
  BY <1>2, PlaceNamed DEF Outside
<1>4. /\ todo' = [todo EXCEPT ![f] = Tail(todo[f])] /\ req' = [req EXCEPT ![f] = TRUE]
      /\ UNCHANGED <<words, chip, pins, gnt, data, call, status, timeouts>>
  BY DEF Request, Consume
<1>5. BusTypes' /\ OneGranted'
  BY <1>4 DEF BusInv, BusTypes, OneGranted
<1>6. Others(f) /\ todo'[f] = Tail(todo[f])
  BY <1>4 DEF BusInv, BusTypes, Others
<1>7. /\ CallOK(call[f]) /\ Tail(todo[f]) = Left(call[f], "grant", k)
      /\ PlaceOK(call[f], "grant", k)
  <2>1. Then(call[f], p, k) = "grant" /\ ThenLeft(p, k) = k
    BY <1>3 DEF Then, ThenLeft
  <2>2. /\ CallOK(call[f]) /\ PlaceOK(call[f], p, k) /\ p \in CallPlaces
        /\ Tail(todo[f]) = Left(call[f], Then(call[f], p, k), ThenLeft(p, k))
    BY <1>2, PlaceOf DEF NextIs
  <2>. QED BY <2>1, <2>2, PlaceMoves
<1>8. CallAt(f, "grant", k)'
  <2>1. "grant" \in CallPlaces /\ PinsAt("grant") = PinsAt("acquire")
    BY DEF CallPlaces, Openings, PinsAt, Lowered, Outside
  <2>. QED BY <1>2, <1>3, <1>4, <1>6, <1>7, <2>1 DEF CallAt
<1>. QED BY <1>1, <1>2, <1>3, <1>4, <1>5, <1>6, <1>8, StepOutside

(* The two counters of timeouts.                                           *)
LEMMA TimeoutIs ==
  ASSUME NEW t \in [grant : Nat, write : Nat]
  PROVE  /\ LET u == [t EXCEPT !["grant"] = t["grant"] + 1] IN
              u \in [grant : Nat, write : Nat] /\ u.write = t.write
         /\ LET u == [t EXCEPT !["write"] = t["write"] + 1] IN
              u \in [grant : Nat, write : Nat] /\ u.write # 0
<1>1. PICK g, w \in Nat : g = t["grant"] + 1 /\ w = t["write"] + 1 /\ w # 0
  <2>1. t["grant"] \in Nat /\ t["write"] \in Nat
    OBVIOUS
  <2>. QED BY <2>1
<1>2. LET u == [t EXCEPT !["grant"] = g] IN
        u \in [grant : Nat, write : Nat] /\ u.write = t.write
  OBVIOUS
<1>3. LET u == [t EXCEPT !["write"] = w] IN
        u \in [grant : Nat, write : Nat] /\ u.write # 0
  BY <1>1
<1>. QED BY <1>1, <1>2, <1>3, Zenon

(* A call that was not granted the EEPROM in time withdraws its request.   *)
LEMMA GrantTimeoutStep ==
  ASSUME BusInv, NEW f \in Functions, GrantTimeout(f)
  PROVE  BusInv'
<1>1. PICK P, K : CallsAt(P, K)
  BY DEF BusInv
<1>2. PICK p, k : p = P[f] /\ k = K[f] /\ CallAt(f, p, k) /\ NextIs(f, "grant")
  BY <1>1 DEF CallsAt, GrantTimeout
<1>3. p = "grant" /\ "grant" \in Outside /\ "done" \in Outside
  BY <1>2, PlaceNamed DEF Outside
<1>4. /\ todo' = [todo EXCEPT ![f] = <<>>] /\ req' = [req EXCEPT ![f] = FALSE]
      /\ gnt' = [gnt EXCEPT ![f] = FALSE] /\ status' = [status EXCEPT ![f] = "error"]
      /\ timeouts' = [timeouts EXCEPT !["grant"] = timeouts["grant"] + 1]
      /\ UNCHANGED <<words, chip, pins, data, call>>
  BY DEF GrantTimeout, Timeout
<1>5. BusTypes' /\ OneGranted' /\ timeouts'.write = timeouts.write
  <2>1. timeouts' \in [grant : Nat, write : Nat] /\ timeouts'.write = timeouts.write
    <3>1. PICK t \in [grant : Nat, write : Nat] :
            t = timeouts /\ timeouts' = [t EXCEPT !["grant"] = t["grant"] + 1]
      BY <1>4 DEF BusInv, BusTypes
    <3>. QED BY <3>1, TimeoutIs
  <2>. QED BY <1>4, <2>1 DEF BusInv, BusTypes, OneGranted
<1>6. Others(f) /\ todo'[f] = <<>> /\ ~req'[f] /\ ~gnt'[f]
  BY <1>4 DEF BusInv, BusTypes, Others
<1>7. CallAt(f, "done", k)'
  <2>1. PinsAt("grant") = PinsAt("done") /\ Left(call[f], "done", k) = <<>>
    BY DEF PinsAt, Lowered, Outside, Left
  <2>. QED BY <1>2, <1>3, <1>4, <1>6, <2>1 DEF CallAt
<1>. QED BY <1>1, <1>2, <1>3, <1>4, <1>5, <1>6, <1>7, StepOutside

(* The call has been granted the EEPROM: the chip is idle.                 *)
LEMMA GrantedStep ==
  ASSUME BusInv, NEW f \in Functions, Granted(f)
  PROVE  BusInv'
<1>1. PICK P, K : CallsAt(P, K)
  BY DEF BusInv
<1>2. PICK p, k : p = P[f] /\ k = K[f] /\ CallAt(f, p, k) /\ NextIs(f, "grant") /\ gnt[f]
  BY <1>1 DEF CallsAt, Granted
<1>3. p = "grant" /\ "grant" \in Outside /\ "ready" \notin Outside
  BY <1>2, PlaceNamed DEF Outside
<1>4. /\ todo' = [todo EXCEPT ![f] = Tail(todo[f])]
      /\ UNCHANGED <<words, chip, pins, req, gnt, data, call, status, timeouts>>
  BY DEF Granted, Consume
<1>5. BusTypes' /\ OneGranted'
  BY <1>4 DEF BusInv, BusTypes, OneGranted
<1>6. Others(f) /\ todo'[f] = Tail(todo[f])
  BY <1>4 DEF BusInv, BusTypes, Others
<1>7. /\ CallOK(call[f]) /\ Tail(todo[f]) = Left(call[f], "ready", k)
      /\ PlaceOK(call[f], "ready", k) /\ data[f] = <<>>
  <2>1. Then(call[f], p, k) = "ready" /\ ThenLeft(p, k) = k
    BY <1>3 DEF Then, ThenLeft
  <2>2. /\ CallOK(call[f]) /\ PlaceOK(call[f], p, k) /\ p \in CallPlaces
        /\ Tail(todo[f]) = Left(call[f], Then(call[f], p, k), ThenLeft(p, k))
    BY <1>2, PlaceOf DEF NextIs
  <2>3. data[f] = <<>>
    BY <1>2, <1>3 DEF CallAt
  <2>. QED BY <2>1, <2>2, <2>3, PlaceMoves
<1>8. CallAt(f, "ready", k)'
  <2>1. "ready" \in CallPlaces /\ PinsAt("ready") = PinsAt("grant")
    BY DEF CallPlaces, Openings, PinsAt, Lowered, Outside
  <2>. QED BY <1>2, <1>3, <1>4, <1>6, <1>7, <2>1 DEF CallAt
<1>9. Free(chip, timeouts.write)
  <2>1. \A g \in Functions \ {f} : P[g] \in Outside
    BY <1>1, <1>2, OneHolder DEF BusInv
  <2>2. \A g \in Functions : P[g] \in Outside
    BY <1>2, <1>3, <2>1
  <2>. QED BY <1>1, <2>2, Zenon DEF CallsAt
<1>10. Held(call[f], "ready", k, chip, words, data[f], timeouts.write)
  <2>1. Fits(chip, Budget("ready", k))
    <3>1. Budget("ready", k) = CommandBits + WordBits
      BY BudgetIs
    <3>. QED BY <1>9, <3>1 DEF Free
  <2>2. ChipAt(call[f], "ready", k, Idle0(FALSE), words)
    BY DEF ChipAt
  <2>3. Count(call[f], "ready", k) = 0
    <3>1. k = call[f].n /\ call[f].n \in Nat
      BY <1>7, CallIs DEF PlaceOK, Openings
    <3>. QED BY <3>1 DEF Count
  <2>4. Transferred(call[f], <<>>, words, 0)
    <3>1. \A F : [j \in 1 .. 0 |-> F[j]] = <<>>
      OBVIOUS
    <3>. QED BY <3>1 DEF Transferred
  <2>. QED BY <1>7, <1>9, <2>1, <2>2, <2>3, <2>4 DEF Held, Free
<1>11. HolderAt(f, "ready", k)'
  BY <1>4, <1>10 DEF HolderAt
<1>. QED BY <1>1, <1>2, <1>3, <1>5, <1>6, <1>8, <1>11, StepInside

(* A call gives the EEPROM back, with the chip deselected.                 *)
LEMMA ReleaseStep ==
  ASSUME BusInv, NEW f \in Functions, Release(f)
  PROVE  BusInv'
<1>1. PICK P, K : CallsAt(P, K)
  BY DEF BusInv
<1>2. PICK p, k : /\ p = P[f] /\ k = K[f] /\ CallAt(f, p, k) /\ HolderAt(f, p, k)
                  /\ NextIs(f, "release")
  BY <1>1 DEF CallsAt, Release
<1>3. p = "release" /\ "release" \notin Outside /\ "done" \in Outside /\ gnt[f]
  <2>1. p = "release" /\ "release" \notin Outside /\ "done" \in Outside
    BY <1>2, PlaceNamed DEF Outside
  <2>. QED BY <1>2, <2>1 DEF CallAt
<1>4. /\ todo' = [todo EXCEPT ![f] = Tail(todo[f])]
      /\ req' = [req EXCEPT ![f] = FALSE] /\ gnt' = [gnt EXCEPT ![f] = FALSE]
      /\ UNCHANGED <<words, chip, pins, data, call, status, timeouts>>
  BY DEF Release, Consume
<1>5. BusTypes' /\ OneGranted'
  BY <1>4 DEF BusInv, BusTypes, OneGranted
<1>6. Others(f) /\ todo'[f] = Tail(todo[f]) /\ ~req'[f] /\ ~gnt'[f]
  BY <1>4 DEF BusInv, BusTypes, Others
<1>7. Tail(todo[f]) = Left(call[f], "done", k)
  <2>1. Then(call[f], p, k) = "done" /\ ThenLeft(p, k) = k
    BY <1>3 DEF Then, ThenLeft
  <2>. QED BY <1>2, <2>1, PlaceOf DEF NextIs
<1>8. CallAt(f, "done", k)'
  <2>1. PinsAt("done") = PinsAt("release")
    BY DEF PinsAt, Lowered, Outside
  <2>. QED BY <1>2, <1>3, <1>4, <1>6, <1>7, <2>1 DEF CallAt
<1>9. Free(chip, timeouts.write)'
  <2>1. Held(call[f], p, k, chip, words, data[f], timeouts.write)
    BY <1>2, <1>3 DEF HolderAt
  <2>2. Budget("release", k) = CommandBits + WordBits
    BY BudgetIs
  <2>3. Free(chip, timeouts.write)
    BY <1>3, <2>1, <2>2 DEF Held, Free, ChipAt
  <2>. QED BY <1>4, <2>3
<1>10. HolderAt(f, "done", k)'
  BY <1>3 DEF HolderAt
<1>. QED BY <1>1, <1>3, <1>5, <1>6, <1>8, <1>9, <1>10, StepInside

(* DO tells that the word is in the EEPROM: one more was moved.            *)
LEMMA WrittenStep ==
  ASSUME BusInv, NEW f \in Functions, Written(f)
  PROVE  BusInv'
<1>1. PICK P, K : CallsAt(P, K)
  BY DEF BusInv
<1>2. PICK p, k : /\ p = P[f] /\ k = K[f] /\ CallAt(f, p, k) /\ HolderAt(f, p, k)
                  /\ NextIs(f, "written") /\ chip.do = 1
  BY <1>1 DEF CallsAt, Written
<1>3. /\ p = "written" /\ "written" \notin Outside /\ "w again" \notin Outside
      /\ gnt[f] /\ Held(call[f], p, k, chip, words, data[f], timeouts.write)
  <2>1. p = "written" /\ "written" \notin Outside /\ "w again" \notin Outside
    BY <1>2, PlaceNamed DEF Outside
  <2>. QED BY <1>2, <2>1 DEF CallAt, HolderAt
<1>4. /\ todo' = [todo EXCEPT ![f] = Tail(todo[f])]
      /\ UNCHANGED <<words, chip, pins, req, gnt, data, call, status, timeouts>>
  BY DEF Written, Consume
<1>5. BusTypes' /\ OneGranted'
  BY <1>4 DEF BusInv, BusTypes, OneGranted
<1>6. Others(f) /\ todo'[f] = Tail(todo[f])
  BY <1>4 DEF BusInv, BusTypes, Others
<1>7. /\ CallOK(call[f]) /\ Tail(todo[f]) = Left(call[f], "w again", k)
      /\ PlaceOK(call[f], "written", k) /\ PlaceOK(call[f], "w again", k)
      /\ Then(call[f], p, k) = "w again" /\ ThenLeft(p, k) = k
  <2>1. Then(call[f], p, k) = "w again" /\ ThenLeft(p, k) = k
    BY <1>3 DEF Then, ThenLeft
  <2>2. /\ CallOK(call[f]) /\ PlaceOK(call[f], p, k) /\ p \in CallPlaces
        /\ Tail(todo[f]) = Left(call[f], Then(call[f], p, k), ThenLeft(p, k))
    BY <1>2, PlaceOf DEF NextIs
  <2>. QED BY <1>3, <2>1, <2>2, PlaceMoves
<1>8. CallAt(f, "w again", k)'
  <2>1. "w again" \in CallPlaces /\ PinsAt("w again") = PinsAt("written")
    BY DEF CallPlaces, WritePlaces, PinsAt, Lowered, Outside
  <2>. QED BY <1>2, <1>3, <1>4, <1>6, <1>7, <2>1 DEF CallAt, Outside
<1>9. Held(call[f], "w again", k, chip, words, data[f], timeouts.write)
  <2>1. PICK c, x : c = call[f] /\ x = chip
    OBVIOUS
  <2>2. Fits(x, Budget("w again", k))
    <3>1. Budget("w again", k) = 0 /\ Budget("written", k) = CommandBits + WordBits
      BY BudgetIs
    <3>2. Fits(x, CommandBits + WordBits)
      BY <1>3, <2>1, <3>1 DEF Held
    <3>3. 0 \in Nat /\ CommandBits + WordBits \in Nat /\ 0 <= CommandBits + WordBits
      BY Sizes
    <3>. QED BY <3>1, <3>2, <3>3, LessRoom
  <2>3. ASSUME timeouts.write = 0
        PROVE  ChipAt(c, "w again", k, x, words)
               /\ Transferred(c, data[f], words, Count(c, "w again", k))
    <3>1. ChipAt(c, "written", k, x, words) /\ Transferred(c, data[f], words, Count(c, "written", k))
      BY <1>3, <2>1, <2>3 DEF Held
    <3>2. x = Idle0(TRUE) /\ words[Offset(c, k)] = c.vals[c.n - k + 1]
      <4>1. Programming(TRUE, <<Offset(c, k), c.vals[c.n - k + 1]>>).do = 0
        BY DEF Programming
      <4>2. \/ x = Programming(TRUE, <<Offset(c, k), c.vals[c.n - k + 1]>>)
            \/ x = Idle0(TRUE) /\ words[Offset(c, k)] = c.vals[c.n - k + 1]
        BY <3>1, Zenon DEF ChipAt
      <4>3. x.do = 1
        BY <1>2, <2>1
      <4>4. x # Programming(TRUE, <<Offset(c, k), c.vals[c.n - k + 1]>>)
        <5>1. PICK y : y = Programming(TRUE, <<Offset(c, k), c.vals[c.n - k + 1]>>)
          OBVIOUS
        <5>2. y.do = 0
          BY <4>1, <5>1, Zenon
        <5>3. x # y
          BY ONLY <4>3, <5>2
        <5>. QED BY <5>1, <5>3, Zenon
      <4>. QED BY <4>2, <4>4, Zenon
    <3>3. ChipAt(c, "w again", k, x, words)
      BY <3>2 DEF ChipAt
    <3>4. PICK w \in [Offsets -> Values], d \in Seq(Values) : w = words /\ d = data[f]
      BY DEF BusInv, BusTypes
    <3>5. CallOK(c) /\ PlaceOK(c, "written", k) /\ "written" \in {"in", "written"}
          /\ "written" # "in"
      BY <1>7, <2>1
    <3>6. Transferred(c, d, w, Count(c, "written", k)) /\ w[Offset(c, k)] = c.vals[c.n - k + 1]
      BY <3>1, <3>2, <3>4
    <3>7. Transferred(c, IF "written" = "in" THEN Append(d, 0) ELSE d, w,
                      Count(c, Then(c, "written", k), ThenLeft("written", k)))
      BY <3>5, <3>6, MovesOn
    <3>8. Then(c, "written", k) = "w again" /\ ThenLeft("written", k) = k
      BY <1>3, <1>7, <2>1
    <3>. QED BY <3>3, <3>4, <3>5, <3>7, <3>8, Zenon
  <2>. QED BY <2>1, <2>2, <2>3 DEF Held
<1>10. HolderAt(f, "w again", k)'
  BY <1>4, <1>9 DEF HolderAt
<1>. QED BY <1>1, <1>3, <1>5, <1>6, <1>8, <1>10, StepInside

(* The word was not written in time: the call goes to its end.             *)
LEMMA WriteTimeoutStep ==
  ASSUME BusInv, NEW f \in Functions, WriteTimeout(f)
  PROVE  BusInv'
<1>1. PICK P, K : CallsAt(P, K)
  BY DEF BusInv
<1>2. PICK p, k : /\ p = P[f] /\ k = K[f] /\ CallAt(f, p, k) /\ HolderAt(f, p, k)
                  /\ NextIs(f, "written")
  BY <1>1 DEF CallsAt, WriteTimeout
<1>3. /\ p = "written" /\ "written" \notin Outside /\ "stop" \notin Outside
      /\ gnt[f] /\ Held(call[f], p, k, chip, words, data[f], timeouts.write)
  <2>1. p = "written" /\ "written" \notin Outside /\ "stop" \notin Outside
    BY <1>2, PlaceNamed DEF Outside
  <2>. QED BY <1>2, <2>1 DEF CallAt, HolderAt
<1>4. /\ todo' = [todo EXCEPT ![f] = Stop] /\ status' = [status EXCEPT ![f] = "error"]
      /\ timeouts' = [timeouts EXCEPT !["write"] = timeouts["write"] + 1]
      /\ UNCHANGED <<words, chip, pins, req, gnt, data, call>>
  BY DEF WriteTimeout, Timeout
<1>5. BusTypes' /\ OneGranted' /\ timeouts'.write # 0
  <2>1. timeouts' \in [grant : Nat, write : Nat] /\ timeouts'.write # 0
    <3>1. PICK t \in [grant : Nat, write : Nat] :
            t = timeouts /\ timeouts' = [t EXCEPT !["write"] = t["write"] + 1]
      BY <1>4 DEF BusInv, BusTypes
    <3>. QED BY <3>1, TimeoutIs
  <2>. QED BY <1>4, <2>1 DEF BusInv, BusTypes, OneGranted
<1>6. Others(f) /\ todo'[f] = Stop
  BY <1>4 DEF BusInv, BusTypes, Others
<1>7. CallOK(call[f]) /\ PlaceOK(call[f], "written", k)
  BY <1>2, <1>3, PlaceOf DEF NextIs
<1>8. Left(call[f], "stop", 0) = Stop
  <2>1. Now(call[f], "stop", 0) = Stop
    BY DEF Now
  <2>2. Later(call[f], "stop", 0) = <<>>
    BY DEF Later, Openings, Enabling, ReadPlaces, WritePlaces
  <2>3. Stop \in Seq(Routines)
    BY <1>7, TuplesIn
  <2>4. Stop \o <<>> = Stop
    BY <2>3, NoMore
  <2>5. Left(call[f], "stop", 0) = Stop \o <<>>
    BY <2>1, <2>2, Zenon DEF Left
  <2>. QED BY <2>4, <2>5
<1>9. PlaceOK(call[f], "stop", 0)
  <2>1. 0 \in 0 .. call[f].n
    BY <1>7, CallIs
  <2>. QED BY <2>1 DEF PlaceOK, ReadPlaces, WritePlaces, Openings, Enabling,
              Closings
<1>10. CallAt(f, "stop", 0)'
  <2>1. "stop" \in CallPlaces /\ PinsAt("stop") = PinsAt("written")
    BY DEF CallPlaces, Closings, PinsAt, Lowered, Outside
  <2>. QED BY <1>2, <1>3, <1>4, <1>6, <1>7, <1>8, <1>9, <2>1 DEF CallAt,
              Outside
<1>11. Fits(chip, Budget("stop", 0))
  <2>1. PICK x : x = chip
    OBVIOUS
  <2>2. Budget("stop", 0) = 0 /\ Budget("written", k) = CommandBits + WordBits
    BY BudgetIs
  <2>3. Fits(x, CommandBits + WordBits)
    BY <1>3, <2>1, <2>2 DEF Held
  <2>4. 0 \in Nat /\ CommandBits + WordBits \in Nat /\ 0 <= CommandBits + WordBits
    BY Sizes
  <2>. QED BY <2>1, <2>2, <2>3, <2>4, LessRoom
<1>12. HolderAt(f, "stop", 0)'
  BY <1>4, <1>5, <1>11 DEF HolderAt, Held
<1>. QED BY <1>1, <1>3, <1>5, <1>6, <1>10, <1>12, StepInside

(* A routine that drives the pins brings the call to its next place.       *)
LEMMA DrivePinsStep ==
  ASSUME BusInv, NEW f \in Functions, DrivePins(f)
  PROVE  BusInv'
<1>1. PICK P, K : CallsAt(P, K)
  BY DEF BusInv
<1>2. PICK p, k, name :
        /\ p = P[f] /\ k = K[f] /\ CallAt(f, p, k) /\ HolderAt(f, p, k)
        /\ name \in {"shift_out", "shift_in", "standby", "stop", "ready"}
        /\ NextIs(f, name)
  BY <1>1 DEF CallsAt, DrivePins
<1>3. p \in Driving /\ (NextIs(f, "shift_in") <=> p = "in")
  BY <1>2, PlaceNamed DEF NextIs
<1>4. p \notin Outside
  BY <1>3 DEF Driving, Shifting, Standing, Outside
<1>5. gnt[f] /\ Held(call[f], p, k, chip, words, data[f], timeouts.write)
      /\ pins[f] = PinsAt(p)
  BY <1>2, <1>4 DEF CallAt, HolderAt
<1>6. PICK c, x, q, j : /\ c = call[f] /\ x = chip
                        /\ q = Then(c, p, k) /\ j = ThenLeft(p, k)
  OBVIOUS
<1>7. /\ p \in CallPlaces /\ CallOK(c) /\ PlaceOK(c, p, k)
      /\ Head(todo[f]) = First(c, p, k) /\ Tail(todo[f]) = Left(c, q, j)
  BY <1>2, <1>6, PlaceOf DEF NextIs
<1>8. words \in [Offsets -> Values] /\ data[f] \in Seq(Values) /\ timeouts.write \in Nat
  BY DEF BusInv, BusTypes
<1>9. Fits(x, Budget(p, k)) /\ Registers(x)
  BY <1>5, <1>6 DEF Held, Fits
<1>10. PICK e, n :
         /\ Driven(At(x, PinsAt(p), 0), First(c, p, k)) = At(e, PinsAt(q), n)
         /\ p = "in" => n \in Values
         /\ q \notin Outside /\ Fits(e, Budget(q, j))
  BY <1>3, <1>6, <1>7, <1>8, <1>9, DriveFits
<1>11. /\ chip' = e /\ pins' = [pins EXCEPT ![f] = PinsAt(q)]
       /\ data' = IF p = "in" THEN [data EXCEPT ![f] = Append(data[f], n)] ELSE data
  <2>1. At(e, PinsAt(q), n).chip = e /\ At(e, PinsAt(q), n).pins = PinsAt(q)
        /\ At(e, PinsAt(q), n).data = n
    BY AtIs
  <2>2. Driven(At(chip, pins[f], 0), Head(todo[f])) = At(e, PinsAt(q), n)
    BY <1>5, <1>6, <1>7, <1>10, Zenon
  <2>3. LET end == Driven(At(chip, pins[f], 0), Head(todo[f]))
        IN /\ chip' = end.chip /\ pins' = [pins EXCEPT ![f] = end.pins]
           /\ data' = IF NextIs(f, "shift_in")
                        THEN [data EXCEPT ![f] = Append(data[f], end.data)] ELSE data
    BY Zenon DEF DrivePins
  <2>4. CASE p = "in"
    BY <1>3, <2>1, <2>2, <2>3, <2>4, Zenon
  <2>5. CASE p # "in"
    BY <1>3, <2>1, <2>2, <2>3, <2>5, Zenon
  <2>. QED BY <2>4, <2>5
<1>12. /\ todo' = [todo EXCEPT ![f] = Tail(todo[f])]
       /\ UNCHANGED <<words, req, gnt, call, status, timeouts>>
  BY DEF DrivePins, Consume
<1>13. PICK d \in Seq(Values) :
         /\ d = IF p = "in" THEN Append(data[f], n) ELSE data[f]
         /\ data' = [data EXCEPT ![f] = d]
  <2>1. data = [data EXCEPT ![f] = data[f]]
    BY DEF BusInv, BusTypes
  <2>2. p = "in" => Append(data[f], n) \in Seq(Values)
    BY <1>8, <1>10, AppendProperties
  <2>3. CASE p = "in"
    BY <1>11, <2>2, <2>3
  <2>4. CASE p # "in"
    BY <1>8, <1>11, <2>1, <2>4
  <2>. QED BY <2>3, <2>4
<1>14. BusTypes' /\ OneGranted'
  BY ZenonT(30), <1>11, <1>12, <1>13 DEF BusInv, BusTypes, OneGranted
<1>15. /\ Others(f) /\ todo'[f] = Tail(todo[f]) /\ pins'[f] = PinsAt(q)
       /\ data'[f] = d /\ call'[f] = c
  BY <1>6, <1>11, <1>12, <1>13 DEF BusInv, BusTypes, Others
<1>16. q \in CallPlaces /\ PlaceOK(c, q, j)
  <2>1. q \in CallPlaces \cup {"done"} /\ PlaceOK(c, q, j)
    BY <1>6, <1>7, PlaceMoves
  <2>. QED BY <1>10, <2>1 DEF Outside
<1>17. CallAt(f, q, j)'
  BY <1>5, <1>7, <1>10, <1>12, <1>15, <1>16 DEF CallAt, Outside
<1>18. ASSUME timeouts.write = 0
       PROVE  ChipAt(c, q, j, e, words) /\ Transferred(c, d, words, Count(c, q, j))
  <2>1. ChipAt(c, p, k, x, words) /\ Transferred(c, data[f], words, Count(c, p, k))
    BY <1>5, <1>6, <1>18 DEF Held
  <2>2. PICK e2, n2 :
          /\ Driven(At(x, PinsAt(p), 0), First(c, p, k)) = At(e2, PinsAt(q), n2)
          /\ ChipAt(c, q, j, e2, words)
          /\ p = "in" => n2 = words[Offset(c, k)]
    BY <1>3, <1>6, <1>7, <1>8, <1>9, <2>1, DriveChip
  <2>3. e = e2 /\ n = n2
    <3>1. At(e, PinsAt(q), n) = At(e2, PinsAt(q), n2)
      BY <1>10, <2>2, Zenon
    <3>. QED BY <3>1, SameEnd
  <2>4. Transferred(c, d, words, Count(c, q, j))
    <3>1. CASE p = "in"
      <4>1. PICK w \in [Offsets -> Values], b \in Seq(Values) : w = words /\ b = data[f]
        BY <1>8
      <4>2. Transferred(c, b, w, Count(c, p, k)) /\ p \in {"in", "written"}
            /\ n = w[Offset(c, k)] /\ p # "written"
        BY <2>1, <2>2, <2>3, <3>1, <4>1
      <4>3. Transferred(c, IF p = "in" THEN Append(b, n) ELSE b, w,
                        Count(c, Then(c, p, k), ThenLeft(p, k)))
        BY <1>7, <4>2, MovesOn
      <4>. QED BY <1>6, <1>13, <3>1, <4>1, <4>3, Zenon
    <3>2. CASE p # "in"
      <4>1. Count(c, q, j) = Count(c, p, k)
        BY <1>3, <1>6, <1>7, <3>2, CountIs
      <4>2. d = data[f]
        BY <1>13, <3>2
      <4>. QED BY <2>1, <4>1, <4>2, Zenon
    <3>. QED BY <3>1, <3>2
  <2>. QED BY <2>2, <2>3, <2>4
<1>19. Held(c, q, j, e, words, d, timeouts.write)
  BY <1>10, <1>18 DEF Held
<1>20. HolderAt(f, q, j)'
  <2>1. words' = words /\ timeouts' = timeouts
    BY <1>12
  <2>. QED BY <1>11, <1>15, <1>19, <2>1 DEF HolderAt
<1>. QED BY <1>1, <1>5, <1>10, <1>14, <1>15, <1>17, <1>20, StepInside

-----------------------------------------------------------------------------
(* The chip programs a word.                                               *)

(* A chip that has programmed its word is no longer busy.                  *)
LEMMA ProgrammedChip ==
  ASSUME NEW x, Registers(x), x.busy # <<>>
  PROVE  LET y == [x EXCEPT !.busy = <<>>, !.do = 1] IN
         /\ x.busy[1] \in Offsets /\ x.busy[2] \in Values
         /\ Registers(y) /\ \A b : Room(x, b) => Room(y, b)
<1>1. x \in Chips /\ x.busy \in {<<>>} \cup (Offsets \X Values)
  BY DEF Registers, Chips
<1>2. x.busy[1] \in Offsets /\ x.busy[2] \in Values
  BY <1>1
<1>3. PICK y : y = [x EXCEPT !.busy = <<>>, !.do = 1]
  OBVIOUS
<1>4. /\ y \in Chips /\ y.count = x.count /\ y.opcode = x.opcode /\ y.address = x.address
      /\ y.word = x.word /\ y.out = x.out
  <2>1. PICK e \in {<<>>} \cup (Offsets \X Values) : e = <<>>
    OBVIOUS
  <2>2. PICK z : z = [x EXCEPT !.busy = e]
    OBVIOUS
  <2>3. /\ z \in Chips /\ z.count = x.count /\ z.opcode = x.opcode
        /\ z.address = x.address /\ z.word = x.word /\ z.out = x.out
    <3>1. PICK B : B = {<<>>} \cup (Offsets \X Values)
      OBVIOUS
    <3>2. /\ e \in B
          /\ x \in [count : Nat, opcode : Nat, address : Nat, word : Nat, out : Nat,
                     do : 0 .. 1, enabled : BOOLEAN, busy : B]
      BY <1>1, <3>1, Zenon DEF Chips
    <3>3. /\ z \in [count : Nat, opcode : Nat, address : Nat, word : Nat, out : Nat,
                     do : 0 .. 1, enabled : BOOLEAN, busy : B]
          /\ z.count = x.count /\ z.opcode = x.opcode
          /\ z.address = x.address /\ z.word = x.word /\ z.out = x.out
      BY ONLY <2>2, <3>2
    <3>. QED BY <3>1, <3>3, Zenon DEF Chips
  <2>4. y = [z EXCEPT !.do = 1]
    <3>1. [x EXCEPT !.busy = e, !.do = 1] = [[x EXCEPT !.busy = e] EXCEPT !.do = 1]
      OBVIOUS
    <3>. QED BY <1>3, <2>1, <2>2, <3>1, Zenon
  <2>5. /\ y \in Chips /\ y.count = z.count /\ y.opcode = z.opcode
        /\ y.address = z.address /\ y.word = z.word /\ y.out = z.out
    BY ONLY <2>3, <2>4 DEF Chips
  <2>. QED BY <2>3, <2>5
<1>5. Registers(y)
  BY <1>4 DEF Registers
<1>6. \A b : Room(x, b) => Room(y, b)
  BY <1>4 DEF Room
<1>. QED BY <1>2, <1>3, <1>5, <1>6, Zenon

(* Only the call that waits for its word has the chip busy.                *)
LEMMA BusyPlace ==
  ASSUME NEW c, CallOK(c), NEW k, NEW p \in CallPlaces \ Outside,
         PlaceOK(c, p, k),
         NEW x, NEW w,
         ChipAt(c, p, k, x, w), x.busy # <<>>
  PROVE  p = "written" /\ x = Programming(TRUE, <<Offset(c, k), c.vals[c.n - k + 1]>>)
<1>1. \A en : Idle0(en).busy = <<>>
  BY DEF Idle0, Chip
<1>2. \A n, op, ad, wd, out, do, en : Chip(n, op, ad, wd, out, do, en).busy = <<>>
  BY DEF Chip
<1>3. CASE p \in {"enabled", "end", "stop"}
  BY <1>3 DEF ChipAt
<1>4. CASE p \in {"ready", "ewen", "release", "w again"}
  <2>1. x = Idle0(FALSE) \/ x = Idle0(TRUE)
    BY <1>4 DEF ChipAt
  <2>. QED BY <1>1, <2>1
<1>5. CASE p = "words"
  <2>1. x = Idle0(FALSE) \/ x = Idle0(TRUE)
    <3>1. c.op \in {"read", "write"}
      BY CallIs
    <3>. QED BY <1>5, <3>1 DEF ChipAt
  <2>. QED BY <1>1, <2>1
<1>6. CASE p \in {"ewen low", "ewds low", "address", "w address"}
  <2>1. \E n, op, ad, wd, out, do, en : x = Chip(n, op, ad, wd, out, do, en)
    BY <1>6 DEF ChipAt
  <2>. QED BY <1>2, <2>1, Zenon
<1>7. CASE p \in {"in", "w word", "w end"}
  <2>1. \E n, op, ad, wd, out, do, en : x = Chip(n, op, ad, wd, out, do, en)
    BY <1>7, Zenon DEF ChipAt
  <2>. QED BY <1>2, <2>1, Zenon
<1>8. CASE p = "written"
  <2>1. \/ x = Programming(TRUE, <<Offset(c, k), c.vals[c.n - k + 1]>>)
        \/ x = Idle0(TRUE)
    BY <1>8, Zenon DEF ChipAt
  <2>. QED BY <1>1, <1>8, <2>1, Zenon
<1>. QED
  BY <1>3, <1>4, <1>5, <1>6, <1>7, <1>8
  DEF CallPlaces, Openings, Enabling, ReadPlaces, WritePlaces, Closings,
      Outside

(* The chip programs the word it was given: a word that is written has     *)
(* what it was to have.                                                    *)
LEMMA ProgrammedStep ==
  ASSUME BusInv, Programmed
  PROVE  BusInv'
<1>1. PICK P, K : CallsAt(P, K)
  BY DEF BusInv
<1>2. PICK x, y, a, v : /\ x = chip /\ a = x.busy[1] /\ v = x.busy[2]
                        /\ y = [x EXCEPT !.busy = <<>>, !.do = 1]
  OBVIOUS
<1>3. /\ x.busy # <<>> /\ words' = [words EXCEPT ![a] = v] /\ chip' = y
      /\ UNCHANGED <<pins, req, gnt, todo, data, call, status, timeouts>>
  BY <1>2 DEF Programmed
<1>4. Registers(x)
  <2>1. CASE \A f \in Functions : P[f] \in Outside
    BY <1>1, <1>2, <2>1 DEF CallsAt, Free, Fits
  <2>2. CASE \E f \in Functions : P[f] \notin Outside
    BY <1>1, <1>2, <2>2 DEF CallsAt, HolderAt, Held, Fits
  <2>. QED BY <2>1, <2>2
<1>5. a \in Offsets /\ v \in Values /\ Registers(y) /\ \A b : Room(x, b) => Room(y, b)
  BY <1>2, <1>3, <1>4, ProgrammedChip
<1>6. BusTypes' /\ OneGranted'
  BY <1>3, <1>5 DEF BusInv, BusTypes, OneGranted
<1>7. ASSUME NEW f \in Functions
      PROVE  CallAt(f, P[f], K[f])' /\ HolderAt(f, P[f], K[f])'
  <2>1. PICK p, k, c, d : /\ p = P[f] /\ k = K[f] /\ c = call[f] /\ d = data[f]
                          /\ CallAt(f, p, k) /\ HolderAt(f, p, k)
    BY <1>1 DEF CallsAt
  <2>2. CallAt(f, p, k)'
    BY <1>3, <2>1, Zenon DEF CallAt
  <2>3. ASSUME p \notin Outside PROVE Held(c, p, k, y, words', d, timeouts.write)
    <3>1. Held(c, p, k, x, words, d, timeouts.write)
      BY <1>2, <2>1, <2>3 DEF HolderAt
    <3>2. Fits(y, Budget(p, k))
      BY <1>5, <3>1 DEF Held, Fits
    <3>3. ASSUME timeouts.write = 0
          PROVE  ChipAt(c, p, k, y, words') /\ Transferred(c, d, words', Count(c, p, k))
      <4>1. ChipAt(c, p, k, x, words) /\ Transferred(c, d, words, Count(c, p, k))
        BY <3>1, <3>3 DEF Held
      <4>2. p \in CallPlaces /\ CallOK(c) /\ PlaceOK(c, p, k)
        BY <2>1, <2>3 DEF CallAt, Outside
      <4>3. p = "written" /\ x = Programming(TRUE, <<Offset(c, k), c.vals[c.n - k + 1]>>)
        BY <1>3, <2>3, <4>1, <4>2, BusyPlace
      <4>4. a = Offset(c, k) /\ v = c.vals[c.n - k + 1] /\ y = Idle0(TRUE)
        <5>1. PICK u, z : u = Offset(c, k) /\ z = c.vals[c.n - k + 1]
          OBVIOUS
        <5>2. PICK b : b = <<u, z>> /\ b[1] = u /\ b[2] = z
          <6>1. <<u, z>>[1] = u /\ <<u, z>>[2] = z
            OBVIOUS
          <6>. QED BY <6>1
        <5>3. x = Programming(TRUE, b)
          BY <4>3, <5>1, <5>2, Zenon
        <5>4. x.busy = b
          BY <5>3 DEF Programming
        <5>5. y = Idle0(TRUE)
          <6>1. PICK e : e = <<>> /\ y = [x EXCEPT !.busy = e, !.do = 1]
            BY <1>2
          <6>2. y = [[x EXCEPT !.busy = e] EXCEPT !.do = 1]
            BY <6>1
          <6>3. Idle0(TRUE) = [count |-> 0, opcode |-> 0, address |-> 0, word |-> 0,
                               out |-> 0, do |-> 1, enabled |-> TRUE, busy |-> e]
            BY <6>1, Zenon DEF Idle0, Chip
          <6>4. PICK yes : yes = TRUE
            OBVIOUS
          <6>5. [Programming(yes, b) EXCEPT !.busy = e] = Programming(yes, e)
            BY DEF Programming
          <6>6. [Programming(yes, e) EXCEPT !.do = 1]
                  = [count |-> 0, opcode |-> 0, address |-> 0, word |-> 0,
                     out |-> 0, do |-> 1, enabled |-> yes, busy |-> e]
            BY DEF Programming
          <6>. QED BY <5>3, <6>2, <6>3, <6>4, <6>5, <6>6, Zenon
        <5>. QED BY <1>2, <5>1, <5>2, <5>4, <5>5, Zenon
      <4>5. words'[a] = v /\ \A i \in Offsets \ {a} : words'[i] = words[i]
        BY <1>3, <1>5 DEF BusInv, BusTypes
      <4>6. ChipAt(c, p, k, y, words')
        BY <4>3, <4>4, <4>5 DEF ChipAt
      <4>7. c.op = "write"
        BY <4>2, <4>3 DEF PlaceOK, WritePlaces
      <4>8. PICK o \in Nat, n \in Nat, i \in Nat :
              /\ o = c.offset /\ n = c.n /\ i = Count(c, p, k) /\ i = n - k /\ i <= n
              /\ a = o + i /\ o + n <= WordSize /\ WordSize \in Nat
        <5>1. /\ Count(c, p, k) \in Nat /\ Count(c, p, k) = c.n - k /\ c.n \in Nat
              /\ c.offset \in Nat /\ Count(c, p, k) <= c.n
          BY <4>2, <4>3, CountIs
        <5>2. a = c.offset + (c.n - k) /\ c.offset + c.n <= WordSize /\ WordSize \in Nat
          BY <4>2, <4>4, CallIs, Powers DEF Offset
        <5>. QED BY <5>1, <5>2
      <4>9. ASSUME NEW m \in 1 .. i PROVE words'[o + m - 1] = c.vals[m]
        <5>1. o + m - 1 \in Offsets \ {a}
          BY <4>8 DEF Offsets
        <5>2. words[o + m - 1] = c.vals[m]
          BY <4>1, <4>7, <4>8 DEF Transferred
        <5>. QED BY <4>5, <5>1, <5>2
      <4>. QED BY <4>6, <4>7, <4>8, <4>9 DEF Transferred
    <3>. QED BY <3>2, <3>3, Zenon DEF Held
  <2>4. HolderAt(f, p, k)'
    <3>1. call' = call /\ data' = data /\ timeouts' = timeouts
      BY <1>3
    <3>. QED BY <1>3, <2>1, <2>3, <3>1, Zenon DEF HolderAt
  <2>. QED BY <2>1, <2>2, <2>4, Zenon
<1>8. (\A f \in Functions : P[f] \in Outside) => Free(chip, timeouts.write)'
  <2>1. SUFFICES ASSUME \A f \in Functions : P[f] \in Outside
                 PROVE  Free(y, timeouts.write)
    BY <1>3
  <2>2. Fits(x, CommandBits + WordBits) /\ (timeouts.write = 0 => x = Idle0(FALSE))
    BY <1>1, <1>2, <2>1 DEF CallsAt, Free
  <2>3. Idle0(FALSE).busy = <<>>
    BY DEF Idle0, Chip
  <2>4. timeouts.write # 0
    BY <1>3, <2>2, <2>3
  <2>5. Fits(y, CommandBits + WordBits)
    BY <1>5, <2>2 DEF Fits
  <2>. QED BY <2>4, <2>5 DEF Free
<1>9. CallsAt(P, K)'
  BY <1>7, <1>8, Zenon DEF CallsAt
<1>. QED BY <1>6, <1>9 DEF BusInv

-----------------------------------------------------------------------------
(* What follows from the invariant.                                        *)

(* The bus starts with no calls and an idle chip.                          *)
LEMMA BusInitial ==
  ASSUME NEW c \in [Offsets -> Values], BusInit(c)
  PROVE  BusInv
<1>1. BusTypes /\ OneGranted
  <2>1. <<>> \in Seq(Values)
    BY EmptyIn
  <2>2. [grant |-> 0, write |-> 0] \in [grant : Nat, write : Nat]
    OBVIOUS
  <2>. QED BY <2>1, <2>2 DEF BusInit, BusTypes, OneGranted
<1>. DEFINE P == [f \in Functions |-> "done"] K == [f \in Functions |-> 0]
<1>2. ASSUME NEW f \in Functions PROVE CallAt(f, P[f], K[f]) /\ HolderAt(f, P[f], K[f])
  BY DEF BusInit, CallAt, HolderAt, Outside, Left, PinsAt, Lowered
<1>3. chip = Idle0(FALSE)
  BY Zenon DEF BusInit, NewChip, Idle0, Chip
<1>4. Fits(Idle0(FALSE), CommandBits + WordBits)
  <2>1. PICK no \in BOOLEAN, e \in {<<>>} : no = FALSE /\ e = <<>>
    OBVIOUS
  <2>2. PICK x : x = [count |-> 0, opcode |-> 0, address |-> 0, word |-> 0, out |-> 0,
                      do |-> 1, enabled |-> no, busy |-> e]
    OBVIOUS
  <2>3. x = Idle0(FALSE)
    BY <2>1, <2>2, Zenon DEF Idle0, Chip
  <2>4. /\ x \in Chips /\ x.count = 0 /\ x.opcode = 0 /\ x.address = 0 /\ x.word = 0
        /\ x.out = 0
    BY <2>1, <2>2 DEF Chips
  <2>5. Registers(x)
    BY <2>4, Powers, Sizes DEF Registers, OpcodeBits, AddressedBits
  <2>6. Room(x, CommandBits + WordBits)
    BY <2>4, Powers, Sizes DEF Room, GatheredBits
  <2>. QED BY <2>3, <2>5, <2>6, Zenon DEF Fits
<1>5. CallsAt(P, K)
  BY <1>2, <1>3, <1>4 DEF CallsAt, Free
<1>. QED BY <1>1, <1>5 DEF BusInv

(* Registers that have room have their types.                              *)
LEMMA RegistersTyped ==
  ASSUME NEW x, Registers(x)
  PROVE  /\ x.do \in 0 .. 1 /\ x.enabled \in BOOLEAN
         /\ x.count <= CommandBits + WordBits /\ x.out <= WordBits
         /\ x.opcode \in 0 .. 7 /\ x.address \in Offsets /\ x.word \in Values
         /\ x.busy = <<>> \/ x.busy \in Offsets \X Values
<1>1. /\ x.do \in 0 .. 1 /\ x.enabled \in BOOLEAN
      /\ x.count \in Nat /\ x.opcode \in Nat /\ x.address \in Nat /\ x.word \in Nat
      /\ x.count <= CommandBits + WordBits /\ x.out <= WordBits
      /\ x.busy = <<>> \/ x.busy \in Offsets \X Values
      /\ x.opcode < Pow2[OpcodeBits(x.count)] /\ x.address < Pow2[AddressedBits(x.count)]
      /\ x.word < Pow2[WordBits]
  BY DEF Registers, Chips
<1>2. PICK o, a \in 0 .. CommandBits + WordBits :
        /\ o = OpcodeBits(x.count) /\ a = AddressedBits(x.count) /\ o <= 3 /\ a <= AddressBits
        /\ 3 \in 0 .. CommandBits + WordBits /\ AddressBits \in 0 .. CommandBits + WordBits
  <2>1. PICK n \in Nat : n = x.count
    BY <1>1
  <2>2. /\ OpcodeBits(n) \in Nat /\ AddressedBits(n) \in Nat /\ OpcodeBits(n) <= 3
        /\ AddressedBits(n) <= AddressBits /\ 3 <= CommandBits + WordBits
        /\ AddressBits <= CommandBits + WordBits /\ AddressBits \in Nat
        /\ CommandBits + WordBits \in Nat
    BY Sizes DEF OpcodeBits, AddressedBits
  <2>. QED BY <2>1, <2>2
<1>3. Pow2[o] <= Pow2[3] /\ Pow2[a] <= Pow2[AddressBits] /\ Pow2[o] \in Nat /\ Pow2[a] \in Nat
  <2>1. 3 \in Nat /\ AddressBits \in Nat /\ o \in Nat /\ a \in Nat
        /\ 3 <= CommandBits + WordBits /\ AddressBits <= CommandBits + WordBits
    BY <1>2, Sizes
  <2>. QED BY <1>2, <2>1, Pow2Grows, Pow2Steps
<1>4. x.opcode \in 0 .. 7
  <2>1. PICK u, v \in Nat : u = x.opcode /\ v = Pow2[o] /\ u < v /\ v <= 8
    BY <1>1, <1>2, <1>3, Powers
  <2>. QED BY <2>1
<1>5. x.address \in Offsets
  BY SMTT(30), <1>1, <1>2, <1>3, Powers DEF Offsets
<1>6. x.word \in Values
  BY <1>1, Powers DEF Values
<1>. QED BY <1>1, <1>4, <1>5, <1>6

(* The chip has registers, whoever drives it.                              *)
LEMMA ChipRegisters ==
  ASSUME BusInv
  PROVE  Registers(chip)
<1>1. PICK P, K : CallsAt(P, K)
  BY DEF BusInv
<1>2. CASE \A f \in Functions : P[f] \in Outside
  BY <1>1, <1>2 DEF CallsAt, Free, Fits
<1>3. CASE \E f \in Functions : P[f] \notin Outside
  BY <1>1, <1>3 DEF CallsAt, HolderAt, Held, Fits
<1>. QED BY <1>2, <1>3

(* The invariant has the types of the bus.                                 *)
LEMMA BusTyped ==
  ASSUME BusInv
  PROVE  BusTypeOK
<1>1. PICK P, K : CallsAt(P, K)
  BY DEF BusInv
<1>2. ASSUME NEW f \in Functions PROVE pins[f] \in [cs : 0 .. 1, sk : 0 .. 1, di : 0 .. 1]
  <2>1. pins[f] = PinsAt(P[f])
    BY <1>1, <1>2 DEF CallsAt, CallAt
  <2>2. \A cs \in 0 .. 1 : Pins(cs, 0, 0) \in [cs : 0 .. 1, sk : 0 .. 1, di : 0 .. 1]
    BY DEF Pins
  <2>3. PICK b \in 0 .. 1 : b = IF P[f] \in Lowered THEN 0 ELSE 1
    OBVIOUS
  <2>. QED BY <2>1, <2>2, <2>3, Zenon DEF PinsAt
<1>3. pins \in [Functions -> [cs : 0 .. 1, sk : 0 .. 1, di : 0 .. 1]]
  BY <1>2 DEF BusInv, BusTypes
<1>4. /\ chip.do \in 0 .. 1 /\ chip.enabled \in BOOLEAN
      /\ chip.count <= CommandBits + WordBits /\ chip.out <= WordBits
      /\ chip.opcode \in 0 .. 7 /\ chip.address \in Offsets /\ chip.word \in Values
      /\ chip.busy = <<>> \/ chip.busy \in Offsets \X Values
  BY ChipRegisters, RegistersTyped
<1>5. /\ words \in [Offsets -> Values] /\ req \in [Functions -> BOOLEAN]
      /\ gnt \in [Functions -> BOOLEAN] /\ status \in [Functions -> {"ok", "error"}]
      /\ timeouts \in [grant : Nat, write : Nat]
  BY DEF BusInv, BusTypes
<1>. QED BY <1>3, <1>4, <1>5, Zenon DEF BusTypeOK

(* The invariant says that the transfers are true.                         *)
LEMMA BusTransfers ==
  ASSUME BusInv
  PROVE  TransfersAreTrue
<1>1. PICK P, K : CallsAt(P, K)
  BY DEF BusInv
<1>2. SUFFICES ASSUME NEW f \in Functions, NextIs(f, "release"),
                      timeouts.write = 0
               PROVE  /\ (IF call[f].op = "read" THEN data[f] ELSE call[f].vals)
                           = [i \in 1 .. call[f].n |-> words[call[f].offset + i - 1]]
                      /\ ~chip.enabled /\ chip.busy = <<>> /\ pins[f].cs = 0
  BY Zenon DEF TransfersAreTrue
<1>3. PICK p, k, c : p = P[f] /\ k = K[f] /\ c = call[f] /\ CallAt(f, p, k) /\ HolderAt(f, p, k)
  BY <1>1 DEF CallsAt
<1>4. p = "release" /\ CallOK(c) /\ PlaceOK(c, "release", k)
  BY <1>2, <1>3, PlaceNamed, PlaceOf DEF NextIs
<1>5. Held(c, "release", k, chip, words, data[f], 0)
  BY <1>2, <1>3, <1>4, Zenon DEF HolderAt, Outside
<1>6. chip = Idle0(FALSE) /\ Transferred(c, data[f], words, Count(c, "release", k))
  BY <1>5 DEF Held, ChipAt
<1>7. Count(c, "release", k) = c.n
  <2>1. k = 0 /\ c.n \in Nat
    BY <1>4, CallIs DEF PlaceOK, Closings
  <2>. QED BY <2>1 DEF Count
<1>8. (IF c.op = "read" THEN data[f] ELSE c.vals)
        = [i \in 1 .. c.n |-> words[c.offset + i - 1]]
  <2>1. CASE c.op = "read"
    BY <1>6, <1>7, <2>1 DEF Transferred
  <2>2. CASE c.op = "write"
    <3>1. c.vals \in Seq(Values) /\ Len(c.vals) = c.n
      BY <1>4, <2>2 DEF CallOK
    <3>2. \A i \in 1 .. c.n : words[c.offset + i - 1] = c.vals[i]
      BY <1>6, <1>7, <2>2 DEF Transferred
    <3>3. c.vals = [i \in 1 .. c.n |-> c.vals[i]]
      <4>1. c.vals = [i \in 1 .. Len(c.vals) |-> c.vals[i]]
        BY <3>1, LenProperties
      <4>. QED BY <3>1, <4>1
    <3>4. [i \in 1 .. c.n |-> c.vals[i]] = [i \in 1 .. c.n |-> words[c.offset + i - 1]]
      BY <3>2
    <3>. QED BY <2>2, <3>3, <3>4
  <2>. QED BY <1>4, <2>1, <2>2, CallIs
<1>9. ~chip.enabled /\ chip.busy = <<>>
  BY <1>6 DEF Idle0, Chip
<1>10. pins[f].cs = 0
  <2>1. PinsAt("release") = Pins(0, 0, 0)
    BY DEF PinsAt, Lowered
  <2>. QED BY <1>3, <1>4, <2>1 DEF CallAt, Pins
<1>. QED BY <1>3, <1>8, <1>9, <1>10
===============================================================================
