------------------------ MODULE SendRefinementProofs ------------------------
(***************************************************************************)
(* Proof that SendPath implements SendService as long as NDIS maps at      *)
(* once, and neither pauses nor resets the adapter, nor cancels sends, and *)
(* nothing fails.                                                          *)
(*                                                                         *)
(* The frames that are pending in the service are those in the ring, those *)
(* of the list in the send loop and those in the queue.  For each of the   *)
(* three there is what every step makes of it; the queue needs facts about *)
(* FlattenSeq, which are proved by induction on its length.                *)
(***************************************************************************)
EXTENDS SendRefinement, SendPathProofs

(* A set of natural numbers has a least element; so induction over a set.  *)
LEMMA NatMin ==
  ASSUME NEW T, T \subseteq Nat, T # {}
  PROVE  \E m \in T : \A n \in T : m <= n
<1>1. PICK m \in T : \A n \in T : ~ (<<n, m>> \in OpToRel(<, Nat))
  BY NatLessThanWellFounded, WFMin, Zenon
<1>2. \A n \in T : ~ (n < m)
  BY <1>1 DEF OpToRel
<1>. HIDE <1>1
<1>3. m \in T
  BY Zenon
<1>. QED BY <1>2, <1>3

(* A set that has 0 and, with a number, the next, has them all.            *)
LEMMA NatInd ==
  ASSUME NEW T, 0 \in T, \A n \in Nat : n \in T => n + 1 \in T
  PROVE  Nat \subseteq T
<1>. SUFFICES ASSUME Nat \ T # {} PROVE FALSE
  OBVIOUS
<1>1. PICK m \in Nat \ T : \A n \in Nat \ T : m <= n
  <2>1. Nat \ T \subseteq Nat
    OBVIOUS
  <2>. QED BY <2>1, NatMin
<1>2. m # 0 /\ m - 1 \in Nat /\ m - 1 + 1 = m /\ ~ (m <= m - 1)
  OBVIOUS
<1>3. m - 1 \in T
  BY <1>1, <1>2
<1>. QED BY <1>2, <1>3

(* f holds what the first sequences of s, up to the n-th, make.            *)
Joined(f, s, n) ==
  f = [i \in 1 .. n |-> IF i = 1 THEN s[i] ELSE f[i - 1] \o s[i]]

(* Such a function can be extended by the next sequence.                   *)
LEMMA JoinedStep ==
  ASSUME NEW s, NEW n \in Nat, NEW f, Joined(f, s, n), n >= 1
  PROVE  \E g : Joined(g, s, n + 1)
<1>. DEFINE g == [i \in 1 .. n + 1 |->
                   IF i = n + 1 THEN f[n] \o s[n + 1] ELSE f[i]]
<1>1. \A i \in 1 .. n : f[i] = IF i = 1 THEN s[i] ELSE f[i - 1] \o s[i]
  BY DEF Joined
<1>2. \A i \in 1 .. n : g[i] = f[i]
  OBVIOUS
<1>3. g[n + 1] = g[n] \o s[n + 1] /\ n + 1 # 1 /\ n + 1 - 1 = n
  <2>1. n \in 1 .. n /\ n + 1 \in 1 .. n + 1 /\ n + 1 # 1 /\ n + 1 - 1 = n
    OBVIOUS
  <2>2. g[n + 1] = f[n] \o s[n + 1]
    BY <2>1, Zenon
  <2>3. g[n] = f[n]
    BY <1>2, <2>1
  <2>. QED BY <2>1, <2>2, <2>3
<1>4. ASSUME NEW i \in 1 .. n + 1
      PROVE  g[i] = IF i = 1 THEN s[i] ELSE g[i - 1] \o s[i]
  <2>1. CASE i = n + 1
    <3>1. i # 1 /\ i - 1 = n
      BY <2>1
    <3>. HIDE DEF g
    <3>. QED BY <1>3, <2>1, <3>1, Zenon
  <2>2. CASE i \in 1 .. n
    <3>1. i # 1 => i - 1 \in 1 .. n
      BY <2>2
    <3>2. g[i] = f[i] /\ (i # 1 => g[i - 1] = f[i - 1])
      BY <1>2, <2>2, <3>1
    <3>. HIDE DEF g
    <3>. QED BY <1>1, <2>2, <3>2
  <2>. QED BY <2>1, <2>2
<1>5. g = [i \in 1 .. n + 1 |-> g[i]]
  OBVIOUS
<1>. HIDE DEF g
<1>6. g = [i \in 1 .. n + 1 |-> IF i = 1 THEN s[i] ELSE g[i - 1] \o s[i]]
  BY <1>4, <1>5
<1>. QED BY <1>6 DEF Joined

(* So there is one for every n: FlattenSeq chooses it.                     *)
LEMMA JoinedExists ==
  ASSUME NEW s, NEW n \in Nat
  PROVE  \E f : Joined(f, s, n)
<1>. DEFINE T == {m \in Nat : \E f : Joined(f, s, m)}
<1>1. 0 \in T
  <2>1. Joined([i \in 1 .. 0 |-> s[i]], s, 0)
    BY DEF Joined
  <2>. QED BY <2>1
<1>2. ASSUME NEW m \in Nat, m \in T
      PROVE  m + 1 \in T
  <2>1. CASE m = 0
    <3>1. Joined([i \in 1 .. 1 |-> s[i]], s, 1)
      BY DEF Joined
    <3>. QED BY <2>1, <3>1
  <2>2. CASE m >= 1
    BY <1>2, <2>2, JoinedStep
  <2>. QED BY <2>1, <2>2
<1>. HIDE DEF T
<1>3. n \in T
  BY <1>1, <1>2, NatInd
<1>. QED BY <1>3 DEF T

(* The recursion, without its condition.                                   *)
LEMMA JoinedIs ==
  ASSUME NEW s, NEW n \in Nat \ {0}, NEW f, Joined(f, s, n)
  PROVE  /\ f[1] = s[1]
         /\ \A i \in 1 .. n - 1 : f[i + 1] = f[i] \o s[i + 1]
<1>1. \A i \in 1 .. n : f[i] = IF i = 1 THEN s[i] ELSE f[i - 1] \o s[i]
  BY Zenon DEF Joined
<1>2. f[1] = s[1]
  <2>1. 1 \in 1 .. n
    OBVIOUS
  <2>. QED BY <1>1, <2>1, Zenon
<1>3. ASSUME NEW i \in 1 .. n - 1
      PROVE  f[i + 1] = f[i] \o s[i + 1]
  <2>1. PICK j : j = i + 1
    OBVIOUS
  <2>2. j \in 1 .. n /\ j # 1 /\ j - 1 = i
    BY <2>1
  <2>3. f[j] = f[j - 1] \o s[j]
    BY <1>1, <2>2, Zenon
  <2>. QED BY <2>1, <2>2, <2>3
<1>. QED BY <1>2, <1>3

(* FlattenSeq is the last value of such a function.                        *)
LEMMA FlattenIs ==
  ASSUME NEW s, Len(s) \in Nat, Len(s) # 0
  PROVE  \E f : Joined(f, s, Len(s)) /\ FlattenSeq(s) = f[Len(s)]
<1>. DEFINE g == CHOOSE f : Joined(f, s, Len(s))
<1>1. Joined(g, s, Len(s))
  BY JoinedExists, Zenon
<1>2. FlattenSeq(s) = g[Len(s)]
  BY DEF FlattenSeq, Joined
<1>. QED BY <1>1, <1>2

(* What it makes of two sequences that begin alike.                        *)
LEMMA JoinedAlike ==
  ASSUME NEW S, NEW s \in Seq(Seq(S)), NEW t \in Seq(Seq(S)), NEW n \in Nat,
         n <= Len(s), n <= Len(t), \A i \in 1 .. n : s[i] = t[i],
         NEW m \in Nat, NEW k \in Nat, n <= m, n <= k,
         m <= Len(s), k <= Len(t),
         NEW f, NEW g, Joined(f, s, m), Joined(g, t, k)
  PROVE  \A i \in 1 .. n : f[i] = g[i] /\ f[i] \in Seq(S)
<1>. DEFINE T == {i \in Nat : i \in 1 .. n => f[i] = g[i] /\ f[i] \in Seq(S)}
<1>1. 0 \in T
  OBVIOUS
<1>2. ASSUME NEW i \in Nat, i \in T, i + 1 \in 1 .. n
      PROVE  f[i + 1] = g[i + 1] /\ f[i + 1] \in Seq(S)
  <2>1. /\ m \in Nat \ {0} /\ k \in Nat \ {0}
        /\ Joined(f, s, m) /\ Joined(g, t, k)
    BY <1>2
  <2>2. /\ f[1] = s[1]
        /\ \A j \in 1 .. m - 1 : f[j + 1] = f[j] \o s[j + 1]
    BY ONLY <2>1, JoinedIs, Zenon
  <2>3. /\ g[1] = t[1]
        /\ \A j \in 1 .. k - 1 : g[j + 1] = g[j] \o t[j + 1]
    BY ONLY <2>1, JoinedIs, Zenon
  <2>4. s[i + 1] = t[i + 1] /\ s[i + 1] \in Seq(S)
    BY <1>2
  <2>5. CASE i = 0
    BY <2>2, <2>3, <2>4, <2>5
  <2>6. CASE i # 0
    <3>1. f[i] = g[i] /\ f[i] \in Seq(S)
      BY <1>2, <2>6
    <3>2. i \in 1 .. m - 1 /\ i \in 1 .. k - 1
      BY <1>2, <2>6
    <3>3. f[i + 1] = f[i] \o s[i + 1] /\ g[i + 1] = g[i] \o t[i + 1]
      BY <2>2, <2>3, <3>2
    <3>. QED BY <2>4, <3>1, <3>3
  <2>. QED BY <2>5, <2>6
<1>3. Nat \subseteq T
  <2>1. \A i \in Nat : i \in T => i + 1 \in T
    BY <1>2
  <2>. HIDE DEF T
  <2>. QED BY <1>1, <2>1, NatInd
<1>. QED BY <1>3

(* All its values are sequences.                                           *)
LEMMA JoinedType ==
  ASSUME NEW S, NEW s \in Seq(Seq(S)), NEW n \in Nat, n = Len(s),
         NEW f, Joined(f, s, n)
  PROVE  \A i \in 1 .. n : f[i] \in Seq(S)
<1>1. n <= n /\ n <= Len(s) /\ \A i \in 1 .. n : s[i] = s[i]
  OBVIOUS
<1>2. \A i \in 1 .. n : f[i] = f[i] /\ f[i] \in Seq(S)
  BY <1>1, JoinedAlike
<1>. QED BY <1>2

(* The parts of a sequence of sequences are sequences.                     *)
LEMMA ListParts ==
  ASSUME NEW S, NEW s \in Seq(Seq(S))
  PROVE  \A i \in 1 .. Len(s) : s[i] \in Seq(S)
OBVIOUS

(* FlattenSeq of s and one sequence more, at either end.                   *)
LEMMA FlattenEmpty == FlattenSeq(<<>>) = <<>>
BY DEF FlattenSeq

(* FlattenSeq gives a sequence of the same elements.                       *)
LEMMA FlattenType ==
  ASSUME NEW S, NEW s \in Seq(Seq(S))
  PROVE  FlattenSeq(s) \in Seq(S)
<1>1. CASE s = <<>>
  <2>1. <<>> \in Seq(S)
    OBVIOUS
  <2>. QED BY <1>1, <2>1, FlattenEmpty, Zenon
<1>2. CASE s # <<>>
  <2>1. Len(s) \in Nat /\ Len(s) # 0
    BY <1>2
  <2>2. PICK f : Joined(f, s, Len(s)) /\ FlattenSeq(s) = f[Len(s)]
    BY <2>1, FlattenIs
  <2>3. \A i \in 1 .. Len(s) : f[i] \in Seq(S)
    BY <2>1, <2>2, JoinedType
  <2>. QED BY <2>1, <2>2, <2>3
<1>. QED BY <1>1, <1>2

(* FlattenSeq of a sequence with one part more at the end.                 *)
LEMMA FlattenAppend ==
  ASSUME NEW S, NEW s \in Seq(Seq(S)), NEW x \in Seq(S)
  PROVE  FlattenSeq(Append(s, x)) = FlattenSeq(s) \o x
<1>. DEFINE t == Append(s, x)
<1>1. /\ t \in Seq(Seq(S)) /\ Len(t) = Len(s) + 1 /\ Len(s) \in Nat
      /\ t[Len(s) + 1] = x /\ \A i \in 1 .. Len(s) : s[i] = t[i]
  OBVIOUS
<1>. HIDE DEF t
<1>2. PICK g : Joined(g, t, Len(t)) /\ FlattenSeq(t) = g[Len(t)]
  <2>1. Len(t) \in Nat /\ Len(t) # 0
    BY <1>1
  <2>. QED BY <2>1, FlattenIs, Zenon
<1>3. /\ g[1] = t[1]
      /\ \A i \in 1 .. Len(t) - 1 : g[i + 1] = g[i] \o t[i + 1]
  <2>1. Len(t) \in Nat \ {0}
    BY <1>1
  <2>. QED BY <1>2, <2>1, JoinedIs
<1>4. CASE s = <<>>
  BY <1>1, <1>2, <1>3, <1>4, FlattenEmpty DEF t
<1>5. CASE s # <<>>
  <2>1. Len(s) # 0 /\ Len(s) \in 1 .. Len(t) - 1
    BY <1>1, <1>5
  <2>2. PICK f : Joined(f, s, Len(s)) /\ FlattenSeq(s) = f[Len(s)]
    BY <1>1, <2>1, FlattenIs
  <2>3. Len(s) <= Len(t) /\ Len(t) \in Nat
    BY <1>1
  <2>4. \A i \in 1 .. Len(s) : f[i] = g[i] /\ f[i] \in Seq(S)
    <3>1. PICK n \in Nat, m \in Nat : n = Len(s) /\ m = Len(t)
      BY <2>3, <1>1
    <3>2. /\ n <= Len(s) /\ n <= Len(t) /\ n <= m /\ n <= n /\ m <= Len(t)
          /\ \A i \in 1 .. n : s[i] = t[i]
      BY <1>1, <3>1
    <3>3. Joined(f, s, n) /\ Joined(g, t, m)
      BY <1>2, <2>2, <3>1
    <3>4. \A i \in 1 .. n : f[i] = g[i] /\ f[i] \in Seq(S)
      BY <1>1, <3>2, <3>3, JoinedAlike
    <3>. QED BY <3>1, <3>4
  <2>5. g[Len(s) + 1] = g[Len(s)] \o t[Len(s) + 1]
    BY <1>3, <2>1
  <2>6. f[Len(s)] = g[Len(s)]
    BY <1>1, <2>1, <2>4
  <2>7. FlattenSeq(t) = FlattenSeq(s) \o x
    BY <1>1, <1>2, <2>2, <2>5, <2>6
  <2>. QED BY <2>7 DEF t
<1>. QED BY <1>4, <1>5 DEF t

(* FlattenSeq of a sequence with one part more at the front.               *)
LEMMA FlattenCons ==
  ASSUME NEW S, NEW s \in Seq(Seq(S)), NEW x \in Seq(S)
  PROVE  FlattenSeq(<<x>> \o s) = x \o FlattenSeq(s)
<1>. DEFINE t == <<x>> \o s
<1>1. /\ t \in Seq(Seq(S)) /\ Len(t) = Len(s) + 1 /\ Len(s) \in Nat
      /\ t[1] = x /\ \A i \in 1 .. Len(s) : t[i + 1] = s[i]
  OBVIOUS
<1>. HIDE DEF t
<1>2. PICK g : Joined(g, t, Len(t)) /\ FlattenSeq(t) = g[Len(t)]
  <2>1. Len(t) \in Nat /\ Len(t) # 0
    BY <1>1
  <2>. QED BY <2>1, FlattenIs, Zenon
<1>3. /\ g[1] = t[1]
      /\ \A i \in 1 .. Len(t) - 1 : g[i + 1] = g[i] \o t[i + 1]
  <2>1. Len(t) \in Nat \ {0}
    BY <1>1
  <2>. QED BY <1>2, <2>1, JoinedIs
<1>4. CASE s = <<>>
  BY <1>1, <1>2, <1>3, <1>4, FlattenEmpty
<1>5. CASE s # <<>>
  <2>1. Len(s) # 0 /\ Len(s) \in Nat \ {0}
    BY <1>1, <1>5
  <2>2. PICK f : Joined(f, s, Len(s)) /\ FlattenSeq(s) = f[Len(s)]
    BY <1>1, <2>1, FlattenIs
  <2>3. /\ f[1] = s[1]
        /\ \A i \in 1 .. Len(s) - 1 : f[i + 1] = f[i] \o s[i + 1]
    BY <2>1, <2>2, JoinedIs
  <2>4. \A i \in 1 .. Len(s) : f[i] \in Seq(S)
    BY <1>1, <2>2, JoinedType
  <2>. DEFINE T == {i \in Nat : i \in 1 .. Len(s) => g[i + 1] = x \o f[i]}
  <2>5. 0 \in T
    OBVIOUS
  <2>6. ASSUME NEW i \in Nat, i \in T, i + 1 \in 1 .. Len(s)
        PROVE  g[i + 1 + 1] = x \o f[i + 1]
    <3>1. g[i + 1 + 1] = g[i + 1] \o t[i + 1 + 1] /\ t[i + 1 + 1] = s[i + 1]
      <4>1. i + 1 \in 1 .. Len(t) - 1
        BY <1>1, <2>6
      <4>. QED BY <1>1, <1>3, <2>6, <4>1
    <3>2. s[i + 1] \in Seq(S)
      BY <2>6
    <3>3. CASE i = 0
      <4>1. g[1] = x /\ f[1] = s[1]
        BY <1>1, <1>3, <2>3
      <4>2. g[0 + 1 + 1] = g[0 + 1] \o s[0 + 1]
        BY <3>1, <3>3, Zenon
      <4>3. 0 + 1 = 1
        OBVIOUS
      <4>. QED BY <3>3, <4>1, <4>2, <4>3, Zenon
    <3>4. CASE i # 0
      <4>1. i \in 1 .. Len(s) /\ i \in 1 .. Len(s) - 1
        BY <2>1, <2>6, <3>4
      <4>2. g[i + 1] = x \o f[i] /\ f[i] \in Seq(S)
        BY <2>4, <2>6, <4>1
      <4>3. f[i + 1] = f[i] \o s[i + 1]
        BY <2>3, <4>1
      <4>4. (x \o f[i]) \o s[i + 1] = x \o (f[i] \o s[i + 1])
        <5>1. PICK y, z : y = f[i] /\ z = s[i + 1]
          OBVIOUS
        <5>2. y \in Seq(S) /\ z \in Seq(S)
          BY <3>2, <4>2, <5>1
        <5>3. (x \o y) \o z = x \o (y \o z)
          BY <5>2
        <5>. QED BY <5>1, <5>3
      <4>. QED BY <3>1, <4>2, <4>3, <4>4
    <3>. QED BY <3>3, <3>4
  <2>7. Nat \subseteq T
    <3>1. \A i \in Nat : i \in T => i + 1 \in T
      <4>. SUFFICES ASSUME NEW i \in Nat, i \in T PROVE i + 1 \in T
        OBVIOUS
      <4>1. i + 1 \in 1 .. Len(s) => g[i + 1 + 1] = x \o f[i + 1]
        BY <2>6
      <4>. QED BY <4>1
    <3>. HIDE DEF T
    <3>. QED BY <2>5, <3>1, NatInd
  <2>8. g[Len(s) + 1] = x \o f[Len(s)]
    BY <2>1, <2>7
  <2>. QED BY <1>1, <1>2, <2>2, <2>8 DEF t
<1>. QED BY <1>4, <1>5 DEF t

(* What is in a flattened sequence is in one of its parts.                 *)
LEMMA InConcat ==
  ASSUME NEW S, NEW y \in Seq(S), NEW z \in Seq(S), NEW e, In(y \o z, e)
  PROVE  In(y, e) \/ In(z, e)
<1>1. PICK k \in 1 .. Len(y \o z) : (y \o z)[k] = e
  BY DEF In
<1>2. /\ Len(y) \in Nat /\ Len(z) \in Nat
      /\ Len(y \o z) = Len(y) + Len(z)
  OBVIOUS
<1>3. CASE k \in 1 .. Len(y)
  BY <1>1, <1>2, <1>3 DEF In
<1>4. CASE k \notin 1 .. Len(y)
  <2>1. k - Len(y) \in 1 .. Len(z) /\ z[k - Len(y)] = e
    BY <1>1, <1>2, <1>4
  <2>. QED BY <2>1 DEF In
<1>. QED BY <1>3, <1>4

(* What is in the flattened sequence is in one of the parts.               *)
LEMMA FlattenParts ==
  ASSUME NEW S, NEW s \in Seq(Seq(S)), NEW e, In(FlattenSeq(s), e)
  PROVE  \E i \in 1 .. Len(s) : In(s[i], e)
<1>1. s # <<>>
  BY FlattenEmpty DEF In
<1>2. Len(s) # 0 /\ Len(s) \in Nat \ {0}
  BY <1>1
<1>3. PICK f : Joined(f, s, Len(s)) /\ FlattenSeq(s) = f[Len(s)]
  BY <1>2, FlattenIs
<1>4. /\ f[1] = s[1]
      /\ \A i \in 1 .. Len(s) - 1 : f[i + 1] = f[i] \o s[i + 1]
  BY <1>2, <1>3, JoinedIs
<1>5. \A i \in 1 .. Len(s) : f[i] \in Seq(S)
  BY <1>2, <1>3, JoinedType
<1>. DEFINE Part == \E i \in 1 .. Len(s) : In(s[i], e)
            T == {n \in Nat : n \in 1 .. Len(s) /\ In(f[n], e) => Part}
<1>6. 0 \in T
  OBVIOUS
<1>7. ASSUME NEW n \in Nat, n \in T, n + 1 \in 1 .. Len(s), In(f[n + 1], e)
      PROVE  Part
  <2>. SUFFICES ASSUME ~ Part PROVE FALSE
    OBVIOUS
  <2>1. PICK z : z = s[n + 1]
    OBVIOUS
  <2>2. z \in Seq(S) /\ ~ In(z, e)
    BY <1>7, <2>1
  <2>3. CASE n = 0
    <3>1. f[n + 1] = z
      BY <1>4, <2>1, <2>3
    <3>. QED BY <1>7, <2>2, <3>1
  <2>4. CASE n # 0
    <3>1. n \in 1 .. Len(s) /\ n \in 1 .. Len(s) - 1
      BY <1>2, <1>7, <2>4
    <3>2. PICK y : y = f[n]
      OBVIOUS
    <3>3. f[n + 1] = y \o z /\ y \in Seq(S) /\ ~ In(y, e)
      BY <1>4, <1>5, <1>7, <2>1, <3>1, <3>2
    <3>. QED BY <1>7, <2>2, <3>3, InConcat
  <2>. QED BY <2>3, <2>4
<1>8. Nat \subseteq T
  <2>1. ASSUME NEW n \in Nat, n \in T PROVE n + 1 \in T
    <3>1. n + 1 \in 1 .. Len(s) /\ In(f[n + 1], e) => Part
      BY <1>7, <2>1
    <3>. HIDE DEF Part
    <3>. QED BY <3>1
  <2>. HIDE DEF T
  <2>. QED BY <1>6, <2>1, NatInd
<1>9. In(f[Len(s)], e) => Part
  <2>1. Len(s) \in Nat /\ Len(s) \in 1 .. Len(s)
    BY <1>2
  <2>. HIDE DEF Part
  <2>. QED BY <1>8, <2>1
<1>. QED BY <1>3, <1>9

---------------------------------------------------------------------------
(* The NET_BUFFERs of the lists in a queue, from the next one of each on.  *)
QueueOf(q, next) == FlattenSeq(FramesOf(q, next))
Fits(q, next) ==
  /\ q \in Seq(Nbls) /\ next \in [Nbls -> Nat]
  /\ \A x \in Nbls : In(q, x) => next[x] \in 1 .. NbCount[x]

(* The NET_BUFFERs of l from the k-th on.                                  *)
LEMMA FromParts ==
  ASSUME NEW l \in Nbls, NEW k \in 1 .. NbCount[l] + 1
  PROVE  /\ From(l, k) \in Seq(Nbs)
         /\ \A e : In(From(l, k), e) => e[1] = l /\ k <= NbCount[l]
         /\ k <= NbCount[l] => From(l, k) = <<<<l, k>>>> \o From(l, k + 1)
         /\ k = NbCount[l] + 1 => From(l, k) = <<>>
<1>. DEFINE n == NbCount[l] - k + 1
<1>1. NbCount[l] \in Nat /\ k \in Nat /\ n \in Nat
  BY Sizes
<1>2. \A d \in 1 .. n : <<l, k + d - 1>> \in Nbs
  BY <1>1 DEF Nbs
<1>3. From(l, k) = [d \in 1 .. n |-> <<l, k + d - 1>>]
  BY DEF From
<1>. HIDE DEF n
<1>4. From(l, k) \in Seq(Nbs) /\ Len(From(l, k)) = n
  <2>1. From(l, k) \in [1 .. n -> Nbs]
    BY <1>2, <1>3
  <2>. QED BY <1>1, <2>1
<1>5. ASSUME NEW e, In(From(l, k), e) PROVE e[1] = l /\ k <= NbCount[l]
  <2>1. PICK d \in 1 .. n : e = <<l, k + d - 1>>
    BY <1>3, <1>4, <1>5 DEF In
  <2>. QED BY <1>1, <2>1 DEF n
<1>6. ASSUME k <= NbCount[l]
      PROVE  From(l, k) = <<<<l, k>>>> \o From(l, k + 1)
  <2>1. From(l, k + 1) = [d \in 1 .. n - 1 |-> <<l, k + 1 + d - 1>>]
    <3>1. NbCount[l] - (k + 1) + 1 = n - 1
      BY <1>1 DEF n
    <3>. QED BY <3>1 DEF From
  <2>2. n - 1 \in Nat /\ \A d \in 1 .. n - 1 : <<l, k + 1 + d - 1>> \in Nbs
    BY <1>1, <1>6 DEF n, Nbs
  <2>3. From(l, k + 1) \in Seq(Nbs) /\ Len(From(l, k + 1)) = n - 1
    BY <2>1, <2>2
  <2>4. <<l, k>> \in Nbs
    BY <1>1 DEF Nbs
  <2>. DEFINE r == <<<<l, k>>>> \o From(l, k + 1)
  <2>5. /\ r \in Seq(Nbs) /\ Len(r) = n /\ r[1] = <<l, k>>
        /\ \A d \in 2 .. n : r[d] = From(l, k + 1)[d - 1]
    BY <1>1, <2>2, <2>3, <2>4
  <2>6. ASSUME NEW d \in 1 .. n PROVE r[d] = From(l, k)[d]
    <3>. HIDE DEF r
    <3>1. CASE d = 1
      BY <1>1, <1>3, <2>5, <3>1
    <3>2. CASE d # 1
      <4>1. /\ d - 1 \in 1 .. n - 1 /\ d \in 2 .. n
            /\ k + 1 + (d - 1) - 1 = k + d - 1
        BY <1>1, <3>2
      <4>2. From(l, k + 1)[d - 1] = <<l, k + 1 + (d - 1) - 1>>
        BY <2>1, <4>1
      <4>. QED BY <1>3, <2>5, <4>1, <4>2
    <3>. QED BY <3>1, <3>2
  <2>. HIDE DEF r
  <2>7. From(l, k) = r
    BY <1>4, <2>5, <2>6, SeqEqual
  <2>. QED BY <2>7 DEF r
<1>7. k = NbCount[l] + 1 => From(l, k) = <<>>
  BY <1>1, <1>4 DEF n
<1>. QED BY <1>4, <1>5, <1>6, <1>7

(* Their sequences, list by list.                                          *)
LEMMA FramesType ==
  ASSUME NEW q, NEW next, Fits(q, next)
  PROVE  /\ FramesOf(q, next) \in Seq(Seq(Nbs))
         /\ Len(FramesOf(q, next)) = Len(q)
         /\ \A k \in 1 .. Len(q) :
              FramesOf(q, next)[k] = From(q[k], next[q[k]])
<1>1. q \in Seq(Nbls) /\ Len(q) \in Nat
  BY DEF Fits
<1>2. ASSUME NEW k \in 1 .. Len(q)
      PROVE  From(q[k], next[q[k]]) \in Seq(Nbs)
  <2>1. PICK l : l = q[k]
    OBVIOUS
  <2>2. l \in Nbls /\ In(q, l)
    BY <1>1, <2>1 DEF In
  <2>3. next[l] \in 1 .. NbCount[l] + 1
    BY <2>2, Sizes DEF Fits
  <2>. QED BY <2>1, <2>2, <2>3, FromParts
<1>3. FramesOf(q, next) = [k \in 1 .. Len(q) |-> From(q[k], next[q[k]])]
  BY DEF FramesOf
<1>. QED BY <1>1, <1>2, <1>3

(* The frames of a queue are a sequence of frames.                         *)
LEMMA QueueType ==
  ASSUME NEW q, NEW next, Fits(q, next) PROVE QueueOf(q, next) \in Seq(Nbs)
BY FramesType, FlattenType DEF QueueOf

(* An empty queue has no frames.                                           *)
LEMMA QueueEmpty == ASSUME NEW next PROVE QueueOf(<<>>, next) = <<>>
<1>1. FramesOf(<<>>, next) = <<>>
  BY DEF FramesOf
<1>. QED BY <1>1, FlattenEmpty DEF QueueOf

(* Only the NextSend of the lists in the queue matter.                     *)
LEMMA QueueSameNext ==
  ASSUME NEW q, NEW next, NEW next2, Fits(q, next), next2 \in [Nbls -> Nat],
         \A x \in Nbls : In(q, x) => next2[x] = next[x]
  PROVE  Fits(q, next2) /\ QueueOf(q, next2) = QueueOf(q, next)
<1>1. Fits(q, next2)
  BY DEF Fits
<1>2. q \in Seq(Nbls) /\ \A k \in 1 .. Len(q) : next2[q[k]] = next[q[k]]
  BY DEF In, Fits
<1>3. FramesOf(q, next2) = FramesOf(q, next)
  BY <1>2 DEF FramesOf
<1>. QED BY <1>1, <1>3 DEF QueueOf

(* A list at the end of the queue, or at its head, adds its NET_BUFFERs    *)
(* there.                                                                  *)
LEMMA QueueAppend ==
  ASSUME NEW q, NEW next, NEW l \in Nbls, Fits(q, next),
         next[l] \in 1 .. NbCount[l]
  PROVE  /\ Fits(Append(q, l), next)
         /\ QueueOf(Append(q, l), next) = QueueOf(q, next) \o From(l, next[l])
<1>1. q \in Seq(Nbls)
  BY DEF Fits
<1>2. Fits(Append(q, l), next)
  BY <1>1, InAppend DEF Fits
<1>. DEFINE t == FramesOf(Append(q, l), next)
            s == FramesOf(q, next)
            x == From(l, next[l])
<1>3. x \in Seq(Nbs)
  <2>1. next[l] \in 1 .. NbCount[l] + 1
    BY Sizes
  <2>. QED BY <2>1, FromParts
<1>4. /\ s \in Seq(Seq(Nbs)) /\ Len(s) = Len(q) /\ Len(q) \in Nat
      /\ \A k \in 1 .. Len(q) : s[k] = From(q[k], next[q[k]])
  BY <1>1, FramesType
<1>5. /\ t \in Seq(Seq(Nbs)) /\ Len(t) = Len(q) + 1
      /\ t[Len(q) + 1] = x
      /\ \A k \in 1 .. Len(q) : t[k] = From(q[k], next[q[k]])
  <2>1. PICK a : a = Append(q, l)
    OBVIOUS
  <2>2. /\ Len(a) = Len(q) + 1 /\ a[Len(q) + 1] = l /\ Len(q) \in Nat
        /\ \A k \in 1 .. Len(q) : a[k] = q[k]
    BY <1>1, <2>1
  <2>3. /\ FramesOf(a, next) \in Seq(Seq(Nbs))
        /\ Len(FramesOf(a, next)) = Len(a)
        /\ \A k \in 1 .. Len(a) :
             FramesOf(a, next)[k] = From(a[k], next[a[k]])
    BY <1>2, <2>1, FramesType
  <2>4. Len(q) + 1 \in 1 .. Len(a) /\ \A k \in 1 .. Len(q) : k \in 1 .. Len(a)
    BY <2>2
  <2>. QED BY <2>1, <2>2, <2>3, <2>4
<1>. HIDE DEF t, s, x
<1>6. t = Append(s, x)
  <2>1. /\ Append(s, x) \in Seq(Seq(Nbs)) /\ Len(Append(s, x)) = Len(q) + 1
        /\ Append(s, x)[Len(q) + 1] = x
        /\ \A k \in 1 .. Len(q) : Append(s, x)[k] = s[k]
    BY <1>3, <1>4
  <2>2. ASSUME NEW k \in 1 .. Len(t) PROVE t[k] = Append(s, x)[k]
    <3>1. k \in 1 .. Len(q) \/ k = Len(q) + 1
      BY <1>4, <1>5
    <3>. QED BY <1>4, <1>5, <2>1, <3>1
  <2>. QED BY <1>5, <2>1, <2>2, SeqEqual
<1>7. FlattenSeq(t) = FlattenSeq(s) \o x
  BY <1>3, <1>4, <1>6, FlattenAppend
<1>. QED BY <1>2, <1>7 DEF QueueOf, t, s, x

(* A list put in front of the queue puts its frames in front.              *)
LEMMA QueueCons ==
  ASSUME NEW q, NEW next, NEW l \in Nbls, Fits(q, next),
         next[l] \in 1 .. NbCount[l]
  PROVE  /\ Fits(<<l>> \o q, next)
         /\ QueueOf(<<l>> \o q, next) = From(l, next[l]) \o QueueOf(q, next)
<1>1. q \in Seq(Nbls)
  BY DEF Fits
<1>2. Fits(<<l>> \o q, next)
  BY <1>1, InCons DEF Fits
<1>. DEFINE t == FramesOf(<<l>> \o q, next)
            s == FramesOf(q, next)
            x == From(l, next[l])
<1>3. x \in Seq(Nbs)
  <2>1. next[l] \in 1 .. NbCount[l] + 1
    BY Sizes
  <2>. QED BY <2>1, FromParts
<1>4. /\ s \in Seq(Seq(Nbs)) /\ Len(s) = Len(q) /\ Len(q) \in Nat
      /\ \A k \in 1 .. Len(q) : s[k] = From(q[k], next[q[k]])
  BY <1>1, FramesType
<1>5. /\ t \in Seq(Seq(Nbs)) /\ Len(t) = Len(q) + 1
      /\ t[1] = x
      /\ \A k \in 1 .. Len(q) : t[k + 1] = From(q[k], next[q[k]])
  <2>1. PICK a : a = <<l>> \o q
    OBVIOUS
  <2>2. /\ Len(a) = Len(q) + 1 /\ a[1] = l /\ Len(q) \in Nat
        /\ \A k \in 1 .. Len(q) : a[k + 1] = q[k]
    BY <1>1, <2>1
  <2>3. /\ FramesOf(a, next) \in Seq(Seq(Nbs))
        /\ Len(FramesOf(a, next)) = Len(a)
        /\ \A k \in 1 .. Len(a) :
             FramesOf(a, next)[k] = From(a[k], next[a[k]])
    BY <1>2, <2>1, FramesType
  <2>4. 1 \in 1 .. Len(a) /\ \A k \in 1 .. Len(q) : k + 1 \in 1 .. Len(a)
    BY <2>2
  <2>. QED BY <2>1, <2>2, <2>3, <2>4
<1>. HIDE DEF t, s, x
<1>6. t = <<x>> \o s
  <2>1. /\ <<x>> \o s \in Seq(Seq(Nbs)) /\ Len(<<x>> \o s) = Len(q) + 1
        /\ (<<x>> \o s)[1] = x
        /\ \A k \in 1 .. Len(q) : (<<x>> \o s)[k + 1] = s[k]
    BY <1>3, <1>4
  <2>2. ASSUME NEW k \in 1 .. Len(t) PROVE t[k] = (<<x>> \o s)[k]
    <3>1. CASE k = 1
      BY <1>5, <2>1, <3>1
    <3>2. CASE k # 1
      <4>1. k - 1 \in 1 .. Len(q) /\ k - 1 + 1 = k
        BY <1>4, <1>5, <3>2
      <4>. QED BY <1>4, <1>5, <2>1, <4>1
    <3>. QED BY <3>1, <3>2
  <2>. QED BY <1>5, <2>1, <2>2, SeqEqual
<1>7. FlattenSeq(t) = x \o FlattenSeq(s)
  BY <1>3, <1>4, <1>6, FlattenCons
<1>. QED BY <1>2, <1>7 DEF QueueOf, t, s, x

(* Nothing else is in the queue.                                           *)
LEMMA QueueParts ==
  ASSUME NEW q, NEW next, Fits(q, next), NEW e, In(QueueOf(q, next), e)
  PROVE  \E l \in Nbls : In(q, l) /\ e[1] = l
<1>1. q \in Seq(Nbls)
  BY DEF Fits
<1>2. PICK k \in 1 .. Len(q) : In(From(q[k], next[q[k]]), e)
  <2>1. PICK s : s = FramesOf(q, next)
    OBVIOUS
  <2>2. /\ s \in Seq(Seq(Nbs)) /\ Len(s) = Len(q)
        /\ \A k \in 1 .. Len(q) : s[k] = From(q[k], next[q[k]])
    BY <2>1, FramesType
  <2>3. \E k \in 1 .. Len(s) : In(s[k], e)
    BY <2>1, <2>2, FlattenParts DEF QueueOf
  <2>. QED BY <2>2, <2>3
<1>3. PICK l : l = q[k]
  OBVIOUS
<1>4. l \in Nbls /\ In(q, l)
  BY <1>1, <1>3 DEF In
<1>5. next[l] \in 1 .. NbCount[l] + 1
  BY <1>4, Sizes DEF Fits
<1>6. e[1] = l
  BY <1>2, <1>3, <1>4, <1>5, FromParts
<1>. QED BY <1>4, <1>6

---------------------------------------------------------------------------
(* The frames in the ring.  The first u busy TCBs are sent, in full.       *)
SentFirst(u) ==
  /\ u \in 0 .. nBusySend
  /\ \A d \in 0 .. nBusySend - 1 : Sent(BusyAt(d)) <=> d < u

(* Without a callback that comes late or fails, a busy TCB has descriptors *)
(* or is the one being mapped, and the last descriptor of each is marked.  *)
Given == \A i \in Busy : tcb[i].nTbds > 0 \/ <<i, tcb[i].nb>> \in maps
LastTbds ==
  \A t \in 0 .. nTbds - 1 : tbd[t].own =>
    (tbd[t].last <=> \E i \in Busy : tcb[i].nTbds > 0 /\ t = TbdEnd(i))

(* They are the NET_BUFFERs of the other busy TCBs.                        *)
RingRule ==
  \A u, L : RingState /\ SentFirst(u) /\ L = nBusySend - u =>
    /\ InRing = [d \in 1 .. L |-> tcb[BusyAt(u + d - 1)].nb]
    /\ InRing \in Seq(Nbs) /\ Len(InRing) = L
(* The rule holds of any ring whose oldest frames are the sent ones.       *)
LEMMA RingRuleHolds == RingRule
<1>. SUFFICES ASSUME NEW u, RingState, SentFirst(u), NEW L,
                     L = nBusySend - u
     PROVE  /\ InRing = [d \in 1 .. L |-> tcb[BusyAt(u + d - 1)].nb]
            /\ InRing \in Seq(Nbs) /\ Len(InRing) = L
  BY DEF RingRule
<1>1. /\ nBusySend \in 0 .. NumTcb /\ u \in 0 .. nBusySend
      /\ IndexTypes /\ TcbTypes /\ TcbRing
  BY DEF SentFirst, RingState, TcbRing, SendTypes
<1>2. {d \in 0 .. nBusySend - 1 : Sent(NthTcb(CurrSendHead, d))} = 0 .. u - 1
  <2>1. {d \in 0 .. nBusySend - 1 : Sent(BusyAt(d))} = 0 .. u - 1
    BY <1>1, Sizes DEF SentFirst
  <2>. QED BY <2>1 DEF BusyAt
<1>3. Cardinality(0 .. u - 1) = u
  <2>1. 0 \in Int /\ u - 1 \in Int
    BY <1>1
  <2>2. Cardinality(0 .. u - 1) = IF 0 > u - 1 THEN 0 ELSE u - 1 - 0 + 1
    BY <2>1, FS_Interval
  <2>. QED BY <1>1, <2>2
<1>4. nSent = u
  BY <1>2, <1>3, Zenon DEF nSent
<1>5. InRing = [d \in 1 .. L |-> tcb[BusyAt(u + d - 1)].nb]
  BY <1>4 DEF InRing, BusyAt
<1>6. ASSUME NEW d \in 1 .. L
      PROVE  tcb[BusyAt(u + d - 1)].nb \in Nbs
  <2>1. u + d - 1 \in 0 .. nBusySend - 1
    BY <1>1, Sizes
  <2>2. BusyAt(u + d - 1) \in Tcbs /\ tcb[BusyAt(u + d - 1)].inUse
    BY <1>1, <2>1, BusySteps
  <2>. QED BY <1>1, <2>2 DEF TcbRing, TcbTypes, MP_TCB
<1>7. L \in Nat
  BY <1>1, Sizes
<1>. DEFINE r == [d \in 1 .. L |-> tcb[BusyAt(u + d - 1)].nb]
<1>8. r \in [1 .. L -> Nbs]
  BY <1>6
<1>. HIDE DEF r
<1>9. r \in Seq(Nbs) /\ Len(r) = L
  BY <1>7, <1>8
<1>. QED BY <1>5, <1>9 DEF r

(* Where the frame of a busy TCB ends, counted from the first of all.      *)
LEMMA EndAt ==
  ASSUME RingState, NEW s, NEW off, Layout(s, off),
         NEW d \in 0 .. nBusySend - 1, tcb[BusyAt(d)].nTbds > 0
  PROVE  /\ TbdEnd(BusyAt(d)) = NthTbd(s, off[d + 1] - 1)
         /\ off[d + 1] - 1 \in 0 .. nTbds - 1 /\ off[d] < off[d + 1]
<1>. USE Sizes
<1>. DEFINE n == tcb[BusyAt(d)].nTbds
<1>1. IndexTypes /\ TcbTypes /\ TcbRing
  BY DEF RingState, SendTypes
<1>2. n \in Nat /\ n # 0
  BY <1>1, BusySteps DEF TcbTypes, MP_TCB
<1>3. off[d] \in 0 .. nTbds /\ off[d + 1] \in 0 .. nTbds
  BY TbdsOfBusy
<1>4. /\ tcb[BusyAt(d)].TbdStart = NthTbd(s, off[d]) /\ off[d + 1] = off[d] + n
  BY DEF Layout
<1>5. s \in 0 .. nTbds - 1
  BY OffsetsAre
<1>6. TbdEnd(BusyAt(d)) = NthTbd(NthTbd(s, off[d]), n - 1)
  BY <1>4 DEF TbdEnd
<1>. HIDE DEF n
<1>7. /\ off[d] \in 0 .. nTbds /\ n - 1 \in 0 .. nTbds
      /\ off[d] + (n - 1) <= nTbds /\ off[d] + (n - 1) = off[d + 1] - 1
  BY <1>2, <1>3, <1>4
<1>8. \A o, x \in 0 .. nTbds :
        o + x <= nTbds => NthTbd(NthTbd(s, o), x) = NthTbd(s, o + x)
  BY <1>5, TbdSteps
<1>9. NthTbd(NthTbd(s, off[d]), n - 1) = NthTbd(s, off[d] + (n - 1))
  BY <1>7, <1>8
<1>. QED BY <1>2, <1>3, <1>4, <1>6, <1>7, <1>9

(* It ends in a descriptor of its own.                                     *)
LEMMA EndIsOwn ==
  ASSUME TcbTypes, NEW i \in Tcbs, tcb[i].nTbds > 0
  PROVE  TbdEnd(i) \in TbdsOf(i) /\ TbdEnd(i) \in 0 .. nTbds - 1
<1>1. tcb[i].nTbds - 1 \in 0 .. tcb[i].nTbds - 1
  BY DEF TcbTypes, MP_TCB
<1>2. tcb[i].nTbds - 1 \in 0 .. NIC_MAX_PHYS_BUF_COUNT
  BY Sizes DEF TcbTypes, MP_TCB
<1>. QED BY <1>1, <1>2, SglStep DEF TbdEnd, TbdsOf

(* What the NIC has passed is sent.                                        *)
LEMMA SentAt ==
  ASSUME RingState, NEW s, NEW off, NEW k, Layout(s, off), Owned(s, off, k),
         NEW d \in 0 .. nBusySend - 1
  PROVE  Sent(BusyAt(d)) <=> tcb[BusyAt(d)].nTbds > 0 /\ off[d + 1] <= k
<1>. USE Sizes
<1>. SUFFICES ASSUME tcb[BusyAt(d)].nTbds > 0
              PROVE  ~ tbd[TbdEnd(BusyAt(d))].own <=> off[d + 1] <= k
  BY DEF Sent
<1>1. /\ TbdEnd(BusyAt(d)) = NthTbd(s, off[d + 1] - 1)
      /\ off[d + 1] - 1 \in 0 .. nTbds - 1
  BY EndAt
<1>2. nBusySend \in 0 .. NumTcb
  BY DEF RingState, TcbRing
<1>3. off[d + 1] <= off[nBusySend] /\ off[nBusySend] \in 0 .. nTbds
  <2>1. d + 1 \in 0 .. nBusySend /\ nBusySend \in 0 .. nBusySend
        /\ d + 1 <= nBusySend
    BY <1>2
  <2>2. off[d + 1] <= off[nBusySend]
    BY <2>1 DEF Layout
  <2>. QED BY <1>2, <2>2, OffsetsAre
<1>4. k \in 0 .. off[nBusySend] /\ OwnedPart(s, off, k)
  BY OwnedParts
<1>5. tbd[TbdEnd(BusyAt(d))].own <=>
        k <= off[d + 1] - 1 /\ off[d + 1] - 1 < off[nBusySend]
  BY <1>1, <1>4, Zenon DEF OwnedPart
<1>6. off[d + 1] \in Nat /\ k \in Nat /\ off[nBusySend] \in Nat
  <2>1. off[d + 1] \in 0 .. nTbds
    BY TbdsOfBusy
  <2>. QED BY <1>3, <1>4, <2>1
<1>. QED BY <1>3, <1>5, <1>6

(* All busy TCBs but the last have descriptors, so each ends before the    *)
(* next.                                                                   *)
LEMMA EndsGrow ==
  ASSUME RingState, "async" \notin Env, Given, NEW s, NEW off, Layout(s, off),
         NEW d \in 0 .. nBusySend - 1, NEW e \in 0 .. nBusySend - 1, d < e
  PROVE  /\ tcb[BusyAt(d)].nTbds > 0
         /\ off[d + 1] <= off[e] /\ off[d + 1] \in Nat /\ off[e] \in Nat
<1>. USE Sizes
<1>1. IndexTypes /\ TcbTypes /\ TcbRing /\ nBusySend \in 0 .. NumTcb
  BY DEF RingState, SendTypes, TcbRing
<1>2. BusyAt(d) \in Busy
  BY <1>1, BusySteps DEF Busy
<1>3. ASSUME <<BusyAt(d), tcb[BusyAt(d)].nb>> \in maps PROVE FALSE
  <2>1. BusyAt(d) = BusyAt(nBusySend - 1)
    BY <1>3, WaitsLast
  <2>2. nBusySend - 1 \in 0 .. nBusySend - 1 /\ d # nBusySend - 1
    BY <1>1
  <2>. QED BY <1>1, <2>1, <2>2, BusySteps
<1>4. tcb[BusyAt(d)].nTbds > 0
  BY <1>2, <1>3 DEF Given
<1>5. off[d + 1] <= off[e]
  <2>1. d + 1 \in 0 .. nBusySend /\ e \in 0 .. nBusySend /\ d + 1 <= e
    BY <1>1
  <2>. QED BY <2>1 DEF Layout
<1>6. off[d + 1] \in Nat /\ off[e] \in Nat
  BY TbdsOfBusy
<1>. QED BY <1>4, <1>5, <1>6

(* The NIC sends in the order of the ring.                                 *)
LEMMA InOrder ==
  ASSUME RingState, "async" \notin Env, Given,
         NEW s, NEW off, NEW k, Layout(s, off), Owned(s, off, k)
  PROVE  \E u : SentFirst(u)
<1>. USE Sizes
<1>1. nBusySend \in 0 .. NumTcb
  BY DEF RingState, TcbRing
<1>. DEFINE T == {d \in 0 .. nBusySend : d < nBusySend => ~ Sent(BusyAt(d))}
<1>2. T \subseteq Nat /\ T # {}
  <2>1. nBusySend \in T
    BY <1>1
  <2>. QED BY <1>1, <2>1
<1>3. PICK u \in T : \A d \in T : u <= d
  <2>. HIDE DEF T
  <2>. QED BY <1>2, NatMin
<1>4. u \in 0 .. nBusySend
  OBVIOUS
<1>5. ASSUME NEW d \in 0 .. nBusySend - 1, d < u PROVE Sent(BusyAt(d))
  BY <1>1, <1>3, <1>4, <1>5
<1>6. ASSUME NEW d \in 0 .. nBusySend - 1, ~ (d < u), Sent(BusyAt(d))
      PROVE  FALSE
  <2>1. u < d
    BY <1>1, <1>4, <1>6
  <2>2. u \in 0 .. nBusySend - 1
    BY <1>1, <1>4, <2>1
  <2>3. /\ tcb[BusyAt(u)].nTbds > 0 /\ off[u + 1] <= off[d]
        /\ off[u + 1] \in Nat /\ off[d] \in Nat
    BY <2>1, <2>2, EndsGrow
  <2>4. tcb[BusyAt(d)].nTbds > 0 /\ off[d + 1] <= k
    BY <1>6, SentAt
  <2>5. off[d] < off[d + 1] /\ off[d + 1] - 1 \in 0 .. nTbds - 1
    BY <2>4, EndAt
  <2>6. k \in Int /\ off[d + 1] \in Int
    <3>1. k \in 0 .. off[nBusySend]
      BY OwnedParts
    <3>2. off[d + 1] \in 0 .. nTbds
      BY TbdsOfBusy
    <3>. QED BY <3>1, <3>2
  <2>7. off[u + 1] <= k
    BY <2>3, <2>4, <2>5, <2>6
  <2>8. Sent(BusyAt(u))
    BY <2>2, <2>3, <2>7, SentAt
  <2>9. u < nBusySend
    BY <1>1, <2>2
  <2>. QED BY <2>8, <2>9
<1>7. SentFirst(u)
  BY <1>4, <1>5, <1>6, Zenon DEF SentFirst
<1>. QED BY <1>7

---------------------------------------------------------------------------
(* How the steps change the frames in the ring.                            *)
LEMMA RingSame ==
  ASSUME UNCHANGED <<tcbVars, tbdVars>> PROVE InRing' = InRing
BY DEF tcbVars, tbdVars, InRing, nSent, Sent, TbdEnd

(* Steps that leave one TCB alone.                                         *)
LEMMA SentSame ==
  ASSUME NEW i, tcb'[i].nTbds = tcb[i].nTbds,
         tcb'[i].TbdStart = tcb[i].TbdStart,
         tcb[i].nTbds > 0 => (tbd'[TbdEnd(i)].own <=> tbd[TbdEnd(i)].own)
  PROVE  TbdEnd(i)' = TbdEnd(i) /\ (Sent(i)' <=> Sent(i))
<1>1. TbdEnd(i)' = TbdEnd(i)
  BY DEF TbdEnd
<1>2. Sent(i)' <=> tcb'[i].nTbds > 0 /\ ~ tbd'[TbdEnd(i)'].own
  BY DEF Sent
<1>. QED BY <1>1, <1>2 DEF Sent

(* No frame ends where the next one begins.                                *)
LEMMA EndIsBefore ==
  ASSUME RingState, NEW s, NEW off, Layout(s, off), NEW n, n = nBusySend,
         NEW d \in 0 .. n - 1, tcb[BusyAt(d)].nTbds > 0
  PROVE  /\ \A o \in off[n] .. nTbds - 1 : TbdEnd(BusyAt(d)) # NthTbd(s, o)
         /\ off[d] < off[d + 1] /\ off[d + 1] <= off[n]
         /\ off[d] \in Nat /\ off[d + 1] \in Nat /\ off[n] \in Nat
         /\ s \in 0 .. nTbds - 1
         /\ TbdEnd(BusyAt(d)) = NthTbd(s, off[d + 1] - 1)
         /\ off[d + 1] - 1 \in 0 .. nTbds - 1
<1>. USE Sizes
<1>1. /\ TbdEnd(BusyAt(d)) = NthTbd(s, off[d + 1] - 1)
      /\ off[d + 1] - 1 \in 0 .. nTbds - 1 /\ off[d] < off[d + 1]
  BY EndAt
<1>2. n \in 0 .. NumTcb
  BY DEF RingState, TcbRing
<1>3. s \in 0 .. nTbds - 1 /\ off[n] \in 0 .. nTbds
  BY <1>2, OffsetsAre
<1>4. off[d + 1] <= off[n]
  <2>1. d + 1 \in 0 .. nBusySend /\ n \in 0 .. nBusySend /\ d + 1 <= n
    BY <1>2
  <2>. QED BY <2>1 DEF Layout
<1>5. off[d] \in 0 .. nTbds /\ off[d + 1] \in 0 .. nTbds
  BY TbdsOfBusy
<1>6. ASSUME NEW o \in off[n] .. nTbds - 1, TbdEnd(BusyAt(d)) = NthTbd(s, o)
      PROVE  FALSE
  <2>1. \A a, b \in 0 .. nTbds - 1 : NthTbd(s, a) = NthTbd(s, b) => a = b
    BY <1>3, TbdSteps
  <2>2. o \in 0 .. nTbds - 1
    BY <1>3
  <2>3. off[d + 1] - 1 = o
    BY <1>1, <1>6, <2>1, <2>2
  <2>. QED BY <1>3, <1>4, <1>5, <2>2, <2>3
<1>7. off[d] \in Nat /\ off[d + 1] \in Nat /\ off[n] \in Nat
  BY <1>3, <1>5
<1>. QED BY <1>1, <1>3, <1>4, <1>6, <1>7

(* A new TCB adds its NET_BUFFER at the end.                               *)
LEMMA RingAllocate ==
  ASSUME RingState, RingState', NEW s, NEW off, Layout(s, off),
         XmitAllocateTcb, NEW n \in 0 .. NumTcb - 1, n = nBusySend,
         NEW u, SentFirst(u)
  PROVE  InRing' = Append(InRing, <<xmit.nbl, xmit.nb>>)
<1>. USE Sizes
<1>. DEFINE nb == <<xmit.nbl, xmit.nb>>
<1>1. /\ nBusySend' = n + 1
      /\ tbd' = [tbd EXCEPT ![NextFreeTbd] = ZeroTbd]
      /\ tcb' = [tcb EXCEPT ![CurrSendTail] =
                   [inUse |-> TRUE, waiting |-> TRUE, nbl |-> xmit.nbl,
                    nb |-> nb, TbdStart |-> NextFreeTbd, nTbds |-> 0]]
  BY DEF XmitAllocateTcb
<1>2. IndexTypes /\ TcbTypes /\ TcbRing /\ TbdTypes
  BY DEF RingState, SendTypes
<1>3. CurrSendTail = BusyAt(n) /\ CurrSendTail \in Tcbs
  BY <1>2 DEF TcbRing, BusyAt, IndexTypes
<1>4. \A d \in 0 .. n : BusyAt(d)' = BusyAt(d)
  BY DEF XmitAllocateTcb, BusyAt
<1>5. \A d \in 0 .. n - 1 : tcb'[BusyAt(d)] = tcb[BusyAt(d)]
  BY LayoutAllocate
<1>6. tcb'[BusyAt(n)].nTbds = 0 /\ tcb'[BusyAt(n)].nb = nb
  BY <1>1, <1>2, <1>3 DEF TcbTypes
<1>7. off[n] \in 0 .. nTbds - 1 /\ NextFreeTbd = NthTbd(s, off[n])
  <2>1. n <= nBusySend
    OBVIOUS
  <2>2. off[n] \in 0 .. nTbds - 1
    BY <2>1, RoomIsLeft
  <2>. QED BY <2>2 DEF Layout
<1>8. ASSUME NEW d \in 0 .. n - 1
      PROVE  Sent(BusyAt(d))' <=> Sent(BusyAt(d))
  <2>1. PICK i : i = BusyAt(d)
    OBVIOUS
  <2>2. BusyAt(d)' = i /\ tcb'[i] = tcb[i]
    BY <1>4, <1>5, <2>1
  <2>3. ASSUME tcb[i].nTbds > 0
        PROVE  tbd'[TbdEnd(i)] = tbd[TbdEnd(i)]
    <3>1. \A o \in off[n] .. nTbds - 1 : TbdEnd(i) # NthTbd(s, o)
      BY <2>1, <2>3, EndIsBefore
    <3>2. off[n] \in off[n] .. nTbds - 1
      BY <1>7
    <3>3. TbdEnd(i) # NextFreeTbd
      BY <1>7, <3>1, <3>2
    <3>. QED BY <1>1, <1>2, <3>3 DEF TbdTypes
  <2>4. Sent(i)' <=> Sent(i)
    BY <2>2, <2>3, SentSame
  <2>. QED BY <2>1, <2>2, <2>4
<1>9. ~ Sent(BusyAt(n))'
  BY <1>4, <1>6 DEF Sent
<1>10. SentFirst(u)'
  <2>1. u \in 0 .. n /\ \A d \in 0 .. n - 1 : Sent(BusyAt(d)) <=> d < u
    BY DEF SentFirst
  <2>2. u \in 0 .. n + 1
    BY <2>1
  <2>3. \A d \in 0 .. n : Sent(BusyAt(d))' <=> d < u
    <3>1. ASSUME NEW d \in 0 .. n PROVE Sent(BusyAt(d))' <=> d < u
      <4>1. CASE d = n
        BY <1>9, <2>1, <4>1
      <4>2. CASE d # n
        <5>1. d \in 0 .. n - 1
          BY <4>2
        <5>. QED BY <1>8, <2>1, <5>1
      <4>. QED BY <4>1, <4>2
    <3>. QED BY <3>1
  <2>4. nBusySend' - 1 = n
    BY <1>1
  <2>. QED BY <1>1, <2>2, <2>3, <2>4, Zenon DEF SentFirst
<1>11. /\ InRing = [d \in 1 .. n - u |-> tcb[BusyAt(u + d - 1)].nb]
       /\ InRing \in Seq(Nbs) /\ Len(InRing) = n - u
  BY RingRuleHolds DEF RingRule
<1>12. RingRule'
  BY RingRuleHolds, PTL
<1>13. /\ InRing' =
            [d \in 1 .. n + 1 - u |-> tcb'[BusyAt(u + d - 1)'].nb]
       /\ InRing' \in Seq(Nbs) /\ Len(InRing') = n + 1 - u
  <2>0. nBusySend' = n + 1
    BY <1>1
  <2>1. n + 1 - u = nBusySend' - u
    BY <2>0 DEF SentFirst
  <2>. QED BY <1>10, <1>12, <2>1 DEF RingRule
<1>14. u \in 0 .. n
  BY DEF SentFirst
<1>15. nb \in Nbs
  BY DEF RingState, SendTypes, XmitTypes, Nbs, Control, XmitAllocateTcb
<1>16. ASSUME NEW d \in 1 .. n - u PROVE InRing'[d] = InRing[d]
  <2>1. u + d - 1 \in 0 .. n - 1 /\ d \in 1 .. n + 1 - u
    BY <1>14
  <2>2. InRing'[d] = tcb'[BusyAt(u + d - 1)'].nb
    BY <1>13, <2>1
  <2>. QED BY <1>4, <1>5, <1>11, <2>1, <2>2
<1>17. InRing'[n + 1 - u] = nb
  <2>1. n + 1 - u \in 1 .. n + 1 - u /\ u + (n + 1 - u) - 1 = n
    BY <1>14
  <2>2. InRing'[n + 1 - u] = tcb'[BusyAt(n)'].nb
    BY <1>13, <2>1
  <2>. QED BY <1>4, <1>6, <2>2
<1>. HIDE DEF nb
<1>. DEFINE r == Append(InRing, nb)
<1>18. /\ r \in Seq(Nbs) /\ Len(r) = n + 1 - u /\ r[n + 1 - u] = nb
       /\ \A d \in 1 .. n - u : r[d] = InRing[d]
  BY <1>11, <1>14, <1>15
<1>. HIDE DEF r
<1>19. \A d \in 1 .. n + 1 - u : InRing'[d] = r[d]
  <2>1. \A d \in 1 .. n + 1 - u : d \in 1 .. n - u \/ d = n + 1 - u
    BY <1>14
  <2>. QED BY <1>16, <1>17, <1>18, <2>1
<1>20. InRing' = r
  BY <1>13, <1>18, <1>19, SeqEqual
<1>. QED BY <1>20 DEF r, nb

(* To give it descriptors changes nothing: it is still to be sent.         *)
LEMMA RingGive ==
  ASSUME RingState, RingState', "async" \notin Env,
         NEW s, NEW off, Layout(s, off),
         NEW m \in maps, NEW j \in 1 .. NIC_MAX_PHYS_BUF_COUNT,
         MpProcessSGList(m[1], m[2], j), NEW u, SentFirst(u)
  PROVE  InRing' = InRing
<1>. USE Sizes
<1>1. PICK n : n = nBusySend
  OBVIOUS
<1>2. /\ n \in 1 .. NumTcb /\ m[1] = BusyAt(n - 1)
      /\ \A d \in 0 .. n - 1 : /\ BusyAt(d)' = BusyAt(d)
                               /\ tcb'[BusyAt(d)].nb = tcb[BusyAt(d)].nb
  <2>1. n \in 1 .. NumTcb /\ m[1] = BusyAt(n - 1)
    BY <1>1, LayoutGive
  <2>2. \A d \in 0 .. n - 1 : tcb'[BusyAt(d)].nb = tcb[BusyAt(d)].nb
    BY <1>1, LayoutGive
  <2>3. \A d \in 0 .. n - 1 : BusyAt(d)' = BusyAt(d)
    BY DEF MpProcessSGList, BusyAt
  <2>. QED BY <2>1, <2>2, <2>3
<1>3. off[n] = off[n - 1] /\ off[n] + j \in 0 .. nTbds
  <2>1. tcb[BusyAt(n - 1)].nTbds = 0
    BY <1>2, WaitsLast
  <2>2. n - 1 \in 0 .. nBusySend - 1 /\ (n - 1) + 1 = n
    BY <1>1, <1>2
  <2>3. off[(n - 1) + 1] = off[n - 1] + 0
    BY <2>1, <2>2 DEF Layout
  <2>4. off[n] + j \in 0 .. nTbds
    BY Zenon, <1>1, LayoutGive
  <2>. QED BY <1>2, <2>2, <2>3, <2>4, OffsetsAre
<1>4. /\ nBusySend' = n
      /\ tcb' = [tcb EXCEPT ![m[1]].waiting = FALSE, ![m[1]].nTbds = j]
      /\ tbd' = [t \in DOMAIN tbd |->
           IF \E d \in 0 .. j - 1 : t = NthTbd(tcb[m[1]].TbdStart, d)
           THEN [own |-> TRUE, frame |-> tcb[m[1]].nb,
                 last |-> t = NthTbd(tcb[m[1]].TbdStart, j - 1)]
           ELSE tbd[t]]
  BY <1>1 DEF MpProcessSGList
<1>5. IndexTypes /\ TcbTypes /\ TcbRing /\ TbdTypes
  BY DEF RingState, SendTypes
<1>6. m[1] \in Tcbs /\ tcb[m[1]].nTbds = 0
  BY WaitsLast
<1>7. /\ \A i \in Tcbs : i # m[1] => tcb'[i] = tcb[i]
      /\ tcb'[m[1]].TbdStart = tcb[m[1]].TbdStart
      /\ tcb'[m[1]].nTbds = j
  <2>1. j \in 0 .. NIC_MAX_PHYS_BUF_COUNT
    OBVIOUS
  <2>. QED BY <1>4, <1>5, <1>6, <2>1, TcbGiven
<1>8. tcb[m[1]].TbdStart = NthTbd(s, off[n])
  <2>1. n - 1 \in 0 .. nBusySend - 1
    BY <1>1, <1>2
  <2>. QED BY <1>2, <1>3, <2>1 DEF Layout
<1>9. ASSUME NEW d \in 0 .. n - 2
      PROVE  Sent(BusyAt(d))' <=> Sent(BusyAt(d))
  <2>0. d \in 0 .. n - 1 /\ n - 1 \in 0 .. n - 1 /\ d # n - 1
    BY <1>2
  <2>1. PICK i : i = BusyAt(d)
    OBVIOUS
  <2>2. i # m[1] /\ i \in Tcbs
    <3>1. \A a, b \in 0 .. n - 1 : BusyAt(a) = BusyAt(b) => a = b
      BY <1>1, <1>5, BusySteps
    <3>2. BusyAt(d) \in Tcbs
      BY <1>1, <1>5, <2>0, BusySteps
    <3>. QED BY <1>2, <2>0, <2>1, <3>1, <3>2
  <2>3. BusyAt(d)' = i /\ tcb'[i] = tcb[i]
    BY <1>2, <1>7, <2>0, <2>1, <2>2
  <2>4. ASSUME tcb[i].nTbds > 0
        PROVE  tbd'[TbdEnd(i)] = tbd[TbdEnd(i)]
    <3>1. /\ \A o \in off[n] .. nTbds - 1 : TbdEnd(i) # NthTbd(s, o)
          /\ s \in 0 .. nTbds - 1 /\ off[n] \in Nat
      BY <1>1, <2>0, <2>1, <2>4, EndIsBefore
    <3>2. TbdEnd(i) \in 0 .. nTbds - 1
      BY <1>5, <2>2, <2>4, EndIsOwn
    <3>3. \A o, x \in 0 .. nTbds :
            o + x <= nTbds => NthTbd(NthTbd(s, o), x) = NthTbd(s, o + x)
      BY <3>1, TbdSteps
    <3>4. ASSUME NEW x \in 0 .. j - 1,
                 TbdEnd(i) = NthTbd(tcb[m[1]].TbdStart, x)
          PROVE  FALSE
      <4>1. /\ off[n] \in 0 .. nTbds /\ x \in 0 .. nTbds
            /\ off[n] + x <= nTbds /\ off[n] + x \in off[n] .. nTbds - 1
        BY <1>3, <3>1
      <4>2. NthTbd(NthTbd(s, off[n]), x) = NthTbd(s, off[n] + x)
        BY <3>3, <4>1
      <4>. QED BY <1>8, <3>1, <3>4, <4>1, <4>2
    <3>. QED BY <1>4, <1>5, <3>2, <3>4 DEF TbdTypes
  <2>5. Sent(i)' <=> Sent(i)
    BY <2>3, <2>4, SentSame
  <2>. QED BY <2>1, <2>3, <2>5
<1>10. ~ Sent(BusyAt(n - 1)) /\ ~ Sent(BusyAt(n - 1))'
  <2>1. ~ Sent(m[1])
    BY <1>6 DEF Sent
  <2>2. PICK i : i = m[1]
    OBVIOUS
  <2>3. PICK t : t = NthTbd(tcb[i].TbdStart, j - 1)
    OBVIOUS
  <2>4. TbdEnd(i)' = t
    BY <1>7, <2>2, <2>3 DEF TbdEnd
  <2>5. t \in 0 .. nTbds - 1
    <3>1. j - 1 \in 0 .. NIC_MAX_PHYS_BUF_COUNT
      OBVIOUS
    <3>. QED BY <1>5, <1>6, <2>2, <2>3, <3>1, SglStep
  <2>6. j - 1 \in 0 .. j - 1
    OBVIOUS
  <2>7. tbd'[t].own
    BY <1>4, <1>5, <2>2, <2>3, <2>5, <2>6 DEF TbdTypes
  <2>8. ~ Sent(i)'
    BY <2>4, <2>7 DEF Sent
  <2>9. BusyAt(n - 1)' = i
    BY <1>2, <2>2
  <2>. QED BY <1>2, <2>1, <2>8, <2>9
<1>11. u \in 0 .. n /\ \A d \in 0 .. n - 1 : Sent(BusyAt(d)) <=> d < u
  BY <1>1 DEF SentFirst
<1>12. \A d \in 0 .. n - 1 : Sent(BusyAt(d))' <=> d < u
  <2>1. ASSUME NEW d \in 0 .. n - 1 PROVE Sent(BusyAt(d))' <=> d < u
    <3>1. CASE d = n - 1
      BY <1>10, <1>11, <3>1
    <3>2. CASE d # n - 1
      <4>1. d \in 0 .. n - 2
        BY <1>2, <3>2
      <4>. QED BY <1>9, <1>11, <4>1
    <3>. QED BY <3>1, <3>2
  <2>. QED BY <2>1
<1>13. nBusySend' = n
  BY <1>4
<1>14. SentFirst(u)'
  BY <1>11, <1>12, <1>13, Zenon DEF SentFirst
<1>15. InRing = [d \in 1 .. n - u |-> tcb[BusyAt(u + d - 1)].nb]
  BY <1>1, RingRuleHolds, Zenon DEF RingRule
<1>16. InRing' = [d \in 1 .. n - u |-> tcb'[BusyAt(u + d - 1)'].nb]
  <2>1. RingRule'
    BY RingRuleHolds, PTL
  <2>2. n - u = nBusySend' - u
    BY <1>13
  <2>. QED BY <1>14, <2>1, <2>2 DEF RingRule
<1>17. \A d \in 1 .. n - u :
         tcb'[BusyAt(u + d - 1)'].nb = tcb[BusyAt(u + d - 1)].nb
  <2>1. \A d \in 1 .. n - u : u + d - 1 \in 0 .. n - 1
    BY <1>2, <1>11
  <2>. QED BY <1>2, <2>1
<1>. QED BY <1>15, <1>16, <1>17

(* To free a TCB that was sent changes nothing.                            *)
LEMMA RingFree ==
  ASSUME RingState, RingState', DpcFreeTcb, NEW u, SentFirst(u)
  PROVE  InRing' = InRing
<1>. USE Sizes
<1>1. PICK n : n = nBusySend
  OBVIOUS
<1>2. IndexTypes /\ TcbTypes /\ TcbRing /\ n \in 1 .. NumTcb
  BY <1>1 DEF RingState, SendTypes, TcbRing, DpcFreeTcb
<1>3. CurrSendHead \in Tcbs /\ BusyAt(0) = CurrSendHead
  BY <1>2 DEF IndexTypes, BusyAt, NthTcb, Tcbs
<1>4. nBusySend' = n - 1 /\ Sent(BusyAt(0)) /\ UNCHANGED tbd
  BY <1>1, <1>3 DEF DpcFreeTcb, tbdVars
<1>5. \A d \in 0 .. n - 2 : BusyAt(d)' = BusyAt(d + 1)
  BY <1>2, <1>3 DEF DpcFreeTcb, BusyAt, NthTcb, NextTcb, Tcbs
<1>6. \A i \in Tcbs : i # CurrSendHead => tcb'[i] = tcb[i]
  BY <1>2, <1>3, TcbFreed DEF DpcFreeTcb
<1>7. ASSUME NEW d \in 0 .. n - 2
      PROVE  /\ Sent(BusyAt(d))' <=> Sent(BusyAt(d + 1))
             /\ tcb'[BusyAt(d + 1)] = tcb[BusyAt(d + 1)]
  <2>1. PICK i : i = BusyAt(d + 1)
    OBVIOUS
  <2>2. d + 1 \in 0 .. n - 1 /\ 0 \in 0 .. n - 1 /\ d + 1 # 0
    BY <1>2
  <2>3. i \in Tcbs /\ i # CurrSendHead
    <3>1. \A a, b \in 0 .. n - 1 : BusyAt(a) = BusyAt(b) => a = b
      BY <1>1, <1>2, BusySteps
    <3>2. BusyAt(d + 1) \in Tcbs
      BY <1>1, <1>2, <2>2, BusySteps
    <3>. QED BY <1>3, <2>1, <2>2, <3>1, <3>2
  <2>4. BusyAt(d)' = i /\ tcb'[i] = tcb[i]
    BY <1>5, <1>6, <2>1, <2>3
  <2>5. Sent(i)' <=> Sent(i)
    BY <1>4, <2>4, SentSame
  <2>. QED BY <2>1, <2>4, <2>5
<1>8. u \in 0 .. n /\ \A d \in 0 .. n - 1 : Sent(BusyAt(d)) <=> d < u
  BY <1>1 DEF SentFirst
<1>9. u - 1 \in 0 .. n - 1
  <2>1. 0 \in 0 .. n - 1
    BY <1>2
  <2>2. 0 < u
    BY <1>4, <1>8, <2>1
  <2>. QED BY <1>2, <1>8, <2>2
<1>10. \A d \in 0 .. n - 2 : Sent(BusyAt(d))' <=> d < u - 1
  <2>1. \A d \in 0 .. n - 2 :
          d + 1 \in 0 .. n - 1 /\ (d + 1 < u <=> d < u - 1)
    BY <1>2, <1>8
  <2>. QED BY <1>7, <1>8, <2>1
<1>11. SentFirst(u - 1)'
  <2>1. nBusySend' - 1 = n - 2
    BY <1>2, <1>4
  <2>. QED BY <1>4, <1>9, <1>10, <2>1, Zenon DEF SentFirst
<1>12. InRing = [d \in 1 .. n - u |-> tcb[BusyAt(u + d - 1)].nb]
  BY <1>1, RingRuleHolds, Zenon DEF RingRule
<1>13. InRing' = [d \in 1 .. n - u |-> tcb'[BusyAt(u - 1 + d - 1)'].nb]
  <2>1. RingRule'
    BY RingRuleHolds, PTL
  <2>2. n - u = nBusySend' - (u - 1)
    BY <1>2, <1>4, <1>8
  <2>. QED BY <1>11, <2>1, <2>2 DEF RingRule
<1>14. \A d \in 1 .. n - u :
         tcb'[BusyAt(u - 1 + d - 1)'].nb = tcb[BusyAt(u + d - 1)].nb
  <2>1. ASSUME NEW d \in 1 .. n - u
        PROVE  tcb'[BusyAt(u - 1 + d - 1)'].nb = tcb[BusyAt(u + d - 1)].nb
    <3>1. PICK e : e = u - 1 + d - 1
      OBVIOUS
    <3>2. e \in 0 .. n - 2 /\ u + d - 1 = e + 1
      BY <1>2, <1>8, <1>9, <3>1
    <3>3. /\ BusyAt(e)' = BusyAt(e + 1)
          /\ tcb'[BusyAt(e + 1)] = tcb[BusyAt(e + 1)]
      BY <1>5, <1>7, <3>2
    <3>. QED BY <3>1, <3>2, <3>3, Zenon
  <2>. QED BY <2>1
<1>. QED BY <1>12, <1>13, <1>14

(* Where the NIC is, if it owns the descriptor there.                      *)
LEMMA NicAt ==
  ASSUME RingState, NEW s, NEW off, NEW k, Layout(s, off), Owned(s, off, k),
         tbd[txNext].own
  PROVE  /\ txNext = NthTbd(s, k) /\ k \in 0 .. nTbds - 1
         /\ \A o \in 0 .. nTbds - 1 : txNext = NthTbd(s, o) => o = k
<1>. USE Sizes
<1>1. /\ k \in 0 .. off[nBusySend] /\ txNext = NthTbd(s, k)
      /\ OwnedPart(s, off, k)
  BY OwnedParts
<1>2. nBusySend \in 0 .. NumTcb
  BY DEF RingState, TcbRing
<1>3. s \in 0 .. nTbds - 1 /\ off[nBusySend] \in 0 .. nTbds
  BY <1>2, OffsetsAre
<1>4. k \in 0 .. nTbds - 1
  <2>1. CASE k = nTbds
    <3>1. NthTbd(s, k) = NthTbd(s, 0)
      BY <1>3, <2>1, TbdSteps
    <3>2. 0 \in 0 .. nTbds - 1
      OBVIOUS
    <3>3. k <= 0
      BY <1>1, <3>1, <3>2 DEF OwnedPart
    <3>. QED BY <2>1, <3>3
  <2>. QED BY <1>1, <1>3, <2>1
<1>5. \A a, b \in 0 .. nTbds - 1 : NthTbd(s, a) = NthTbd(s, b) => a = b
  BY <1>3, TbdSteps
<1>. QED BY <1>1, <1>4, <1>5

(* The last descriptor of the first unsent frame takes that frame away.    *)
LEMMA RingTransmit ==
  ASSUME RingState, RingState', "async" \notin Env, Given, LastTbds,
         NEW s, NEW off, NEW k, Layout(s, off), Owned(s, off, k),
         NicTransmit, NEW u, SentFirst(u)
  PROVE  IF tbd[txNext].last
         THEN /\ InRing # <<>> /\ tbd[txNext].frame = Head(InRing)
              /\ InRing' = Tail(InRing)
         ELSE InRing' = InRing
<1>. USE Sizes
<1>1. PICK n : n = nBusySend
  OBVIOUS
<1>2. IndexTypes /\ TcbTypes /\ TcbRing /\ TbdTypes /\ n \in 0 .. NumTcb
  BY <1>1 DEF RingState, SendTypes, TcbRing
<1>3. PICK x : x = txNext
  OBVIOUS
<1>4. /\ x \in 0 .. nTbds - 1 /\ tbd[x].own
      /\ tbd' = [tbd EXCEPT ![x] = [@ EXCEPT !.own = FALSE]]
      /\ UNCHANGED tcbVars
  <2>1. x \in 0 .. nTbds - 1
    BY <1>2, <1>3 DEF IndexTypes
  <2>2. tbd' = [tbd EXCEPT ![x] = [@ EXCEPT !.own = FALSE]]
    BY <1>3, Zenon DEF NicTransmit
  <2>. QED BY <1>3, <2>1, <2>2 DEF NicTransmit
<1>5. /\ \A t \in 0 .. nTbds - 1 : t # x => tbd'[t] = tbd[t]
      /\ ~ tbd'[x].own
  <2>1. tbd'[x] = [tbd[x] EXCEPT !.own = FALSE]
    BY <1>2, <1>4 DEF TbdTypes
  <2>. QED BY <1>2, <1>4, <2>1 DEF TbdTypes
<1>6. /\ nBusySend' = n /\ tcb' = tcb
      /\ \A d : BusyAt(d)' = BusyAt(d)
  BY <1>1, <1>4 DEF tcbVars, BusyAt
<1>7. ASSUME NEW d \in 0 .. n - 1
      PROVE  Sent(BusyAt(d))' <=>
               \/ Sent(BusyAt(d))
               \/ tcb[BusyAt(d)].nTbds > 0 /\ TbdEnd(BusyAt(d)) = x
  <2>1. PICK i : i = BusyAt(d)
    OBVIOUS
  <2>2. i \in Tcbs
    BY <1>1, <1>2, <2>1, BusySteps
  <2>3. BusyAt(d)' = i /\ tcb' = tcb /\ TbdEnd(i)' = TbdEnd(i)
    BY <1>6, <2>1 DEF TbdEnd
  <2>4. ASSUME tcb[i].nTbds > 0
        PROVE  ~ tbd'[TbdEnd(i)].own <=>
                 ~ tbd[TbdEnd(i)].own \/ TbdEnd(i) = x
    <3>1. TbdEnd(i) \in 0 .. nTbds - 1
      BY <1>2, <2>2, <2>4, EndIsOwn
    <3>. QED BY <1>5, <3>1
  <2>5. Sent(i)' <=> tcb[i].nTbds > 0 /\ ~ tbd'[TbdEnd(i)].own
    BY <2>3 DEF Sent
  <2>6. Sent(i)' <=> Sent(i) \/ (tcb[i].nTbds > 0 /\ TbdEnd(i) = x)
    BY <2>4, <2>5 DEF Sent
  <2>. QED BY <2>1, <2>3, <2>6
<1>8. u \in 0 .. n /\ \A d \in 0 .. n - 1 : Sent(BusyAt(d)) <=> d < u
  BY <1>1 DEF SentFirst
<1>9. RingRule /\ RingRule'
  <2>1. RingRule'
    BY RingRuleHolds, PTL
  <2>. QED BY <2>1, RingRuleHolds
<1>10. /\ InRing = [d \in 1 .. n - u |-> tcb[BusyAt(u + d - 1)].nb]
       /\ InRing \in Seq(Nbs) /\ Len(InRing) = n - u
  BY <1>1, <1>9 DEF RingRule
<1>11. CASE ~ tbd[x].last
  <2>1. ASSUME NEW d \in 0 .. n - 1, tcb[BusyAt(d)].nTbds > 0,
               TbdEnd(BusyAt(d)) = x
        PROVE  FALSE
    <3>1. BusyAt(d) \in Busy
      BY <1>1, <1>2, BusySteps DEF Busy
    <3>. QED BY <1>4, <1>11, <2>1, <3>1 DEF LastTbds
  <2>2. \A d \in 0 .. n - 1 : Sent(BusyAt(d))' <=> d < u
    BY <1>7, <1>8, <2>1
  <2>3. SentFirst(u)'
    BY <1>6, <1>8, <2>2, Zenon DEF SentFirst
  <2>4. n - u = nBusySend' - u
    BY <1>6
  <2>5. InRing' = [d \in 1 .. n - u |-> tcb'[BusyAt(u + d - 1)'].nb]
    BY <1>9, <2>3, <2>4 DEF RingRule
  <2>6. InRing' = InRing
    BY <1>6, <1>10, <2>5
  <2>. QED BY <1>3, <1>11, <2>6
<1>12. CASE tbd[x].last
  <2>1. PICK i \in Busy : tcb[i].nTbds > 0 /\ x = TbdEnd(i)
    BY <1>4, <1>12 DEF LastTbds
  <2>2. PICK e \in 0 .. n - 1 : i = BusyAt(e)
    BY <1>1, <1>2, BusySteps DEF Busy
  <2>3. e >= u
    <3>1. ~ Sent(i)
      BY <1>4, <2>1 DEF Sent
    <3>. QED BY <1>8, <2>2, <3>1
  <2>4. u \in 0 .. n - 1
    BY <1>2, <1>8, <2>3
  <2>5. /\ off[e] < off[e + 1] /\ off[e] \in Nat /\ off[e + 1] \in Nat
        /\ k = off[e + 1] - 1 /\ k \in 0 .. nTbds - 1
    <3>1. /\ off[e] < off[e + 1] /\ off[e] \in Nat /\ off[e + 1] \in Nat
          /\ TbdEnd(BusyAt(e)) = NthTbd(s, off[e + 1] - 1)
          /\ off[e + 1] - 1 \in 0 .. nTbds - 1
      BY <1>1, <2>1, <2>2, EndIsBefore
    <3>2. /\ k \in 0 .. nTbds - 1
          /\ \A o \in 0 .. nTbds - 1 : txNext = NthTbd(s, o) => o = k
      BY <1>3, <1>4, NicAt
    <3>. QED BY <1>3, <2>1, <2>2, <3>1, <3>2
  <2>6. e = u
    <3>. SUFFICES ASSUME u < e PROVE FALSE
      BY <1>8, <2>3
    <3>1. /\ tcb[BusyAt(u)].nTbds > 0 /\ off[u + 1] <= off[e]
          /\ off[u + 1] \in Nat
      BY <1>1, <2>4, EndsGrow
    <3>2. ~ (off[u + 1] <= k)
      <4>1. ~ Sent(BusyAt(u))
        BY <1>8, <2>4
      <4>. QED BY <1>1, <2>4, <3>1, <4>1, SentAt
    <3>. QED BY <2>5, <3>1, <3>2
  <2>7. ASSUME NEW d \in 0 .. n - 1, u < d, tcb[BusyAt(d)].nTbds > 0,
               TbdEnd(BusyAt(d)) = x
        PROVE  FALSE
    <3>1. off[u + 1] <= off[d] /\ off[u + 1] \in Nat
      BY <1>1, <2>4, <2>7, EndsGrow
    <3>2. /\ off[d] < off[d + 1] /\ off[d] \in Nat /\ off[d + 1] \in Nat
          /\ TbdEnd(BusyAt(d)) = NthTbd(s, off[d + 1] - 1)
          /\ off[d + 1] - 1 \in 0 .. nTbds - 1
      BY <1>1, <2>7, EndIsBefore
    <3>3. off[d + 1] - 1 = k
      <4>1. \A o \in 0 .. nTbds - 1 : txNext = NthTbd(s, o) => o = k
        BY <1>3, <1>4, NicAt
      <4>. QED BY <1>3, <2>7, <3>2, <4>1
    <3>. QED BY <2>5, <2>6, <3>1, <3>2, <3>3
  <2>8. ASSUME NEW d \in 0 .. n - 1
        PROVE  Sent(BusyAt(d))' <=> d < u + 1
    <3>1. CASE d < u
      BY <1>7, <1>8, <3>1
    <3>2. CASE d = u
      BY <1>7, <1>8, <2>1, <2>2, <2>6, <3>2
    <3>3. CASE u < d
      BY <1>7, <1>8, <2>7, <3>3
    <3>. QED BY <1>8, <3>1, <3>2, <3>3
  <2>9. SentFirst(u + 1)'
    <3>1. u + 1 \in 0 .. n
      BY <1>2, <2>4
    <3>. QED BY <1>6, <2>8, <3>1, Zenon DEF SentFirst
  <2>10. /\ InRing' = [d \in 1 .. n - u - 1 |->
                         tcb'[BusyAt(u + 1 + d - 1)'].nb]
         /\ InRing' \in Seq(Nbs) /\ Len(InRing') = n - u - 1
    <3>1. n - u - 1 = nBusySend' - (u + 1)
      BY <1>2, <1>6, <1>8
    <3>. QED BY <1>9, <2>9, <3>1 DEF RingRule
  <2>11. InRing # <<>> /\ Head(InRing) = tcb[BusyAt(u)].nb
    <3>1. 1 \in 1 .. n - u /\ u + 1 - 1 = u
      BY <1>2, <2>4
    <3>2. InRing[1] = tcb[BusyAt(u)].nb
      BY <1>10, <3>1
    <3>. QED BY <1>10, <3>1, <3>2
  <2>12. InRing' = Tail(InRing)
    <3>. DEFINE r == Tail(InRing)
    <3>1. /\ r \in Seq(Nbs) /\ Len(r) = n - u - 1
          /\ \A d \in 1 .. n - u - 1 : r[d] = InRing[d + 1]
      <4>1. n - u \in Nat \ {0} /\ InRing \in Seq(Nbs) /\ Len(InRing) = n - u
        BY <1>2, <1>10, <2>4
      <4>. QED BY <2>11, <4>1
    <3>. HIDE DEF r
    <3>2. ASSUME NEW d \in 1 .. n - u - 1 PROVE InRing'[d] = r[d]
      <4>1. PICK a : a = u + d
        OBVIOUS
      <4>2. d + 1 \in 1 .. n - u /\ u + (d + 1) - 1 = a /\ u + 1 + d - 1 = a
        BY <1>2, <2>4, <4>1
      <4>3. InRing'[d] = tcb[BusyAt(a)].nb
        BY <1>6, <2>10, <4>2
      <4>4. InRing[d + 1] = tcb[BusyAt(a)].nb
        BY <1>10, <4>2
      <4>. QED BY <3>1, <4>3, <4>4
    <3>3. InRing' = r
      BY <2>10, <3>1, <3>2, SeqEqual
    <3>. QED BY <3>3 DEF r
  <2>13. tbd[x].frame = tcb[BusyAt(u)].nb
    <3>1. PICK j \in Busy : x \in TbdsOf(j) /\ tbd[x].frame = tcb[j].nb
      BY <1>4, OwnedBusy DEF NicOwnsBusyFrames
    <3>2. x \in TbdsOf(i)
      BY <1>2, <2>1, EndIsOwn DEF Busy
    <3>3. i = j
      BY <3>1, <3>2, LayoutApart DEF TbdsApart
    <3>. QED BY <2>2, <2>6, <3>1, <3>3
  <2>. QED BY <1>3, <1>12, <2>11, <2>12, <2>13
<1>. QED BY <1>3, <1>11, <1>12

---------------------------------------------------------------------------
(* NDIS neither pauses nor resets the adapter, nor cancels sends, it maps  *)
(* at once, and nothing fails; the cable and interrupts do what they like. *)
ServiceEnv == Env \subseteq {"link", "other"}
Calm ==
  /\ pause = "none" /\ reset = "none" /\ AdapterState = "NicRunning"
  /\ xmit.pc # "failed" /\ orderly

(* These steps change nothing the service has.                             *)
Silent ==
  UNCHANGED <<tcbVars, tbdVars, txNext, wire, maps, SendWaitQueue, NextSend,
              xmit, owed, entered, pause, reset, AdapterState, orderly>>

(* The steps that are left.                                                *)
LEMMA ServiceSteps ==
  ASSUME ServiceEnv, RingState, SendState, Calm, [Next]_sendVars
  PROVE  \/ Silent
         \/ \E l \in Nbls : \/ MPSendEnter(l) \/ MPSendNoLink(l)
                            \/ MPSendQueue(l) \/ MPSendStart(l)
         \/ XmitAllocateTcb \/ XmitMapped \/ XmitNoTcb \/ XmitDone
         \/ \E m \in maps, n \in 1 .. NIC_MAX_PHYS_BUF_COUNT :
              MpProcessSGList(m[1], m[2], n)
         \/ NicTransmit \/ DpcFreeTcb \/ DpcComplete \/ DpcDequeue
<1>. USE DEF stateVars, resetVars, dpcVars, nicVars, nblVars, waitVars
<1>1. CASE Enter \/ SendLocked
  BY <1>1, Zenon DEF Enter, SendLocked
<1>2. CASE Xmit
  <2>1. ~ XmitMapFailed
    BY DEF ServiceEnv, XmitMapFailed
  <2>2. ~ XmitFailed
    BY DEF Calm, XmitFailed
  <2>3. ~ XmitBugCheck
    <3>1. ASSUME XmitBugCheck PROVE DpcSends /\ SendWaitQueue = <<>>
      BY <3>1, SentIsInHand DEF XmitBugCheck
    <3>. QED BY <3>1 DEF SendState, QueueInv
  <2>. QED BY <1>2, <2>1, <2>2, <2>3, Zenon DEF Xmit
<1>3. CASE ProcessSGList
  <2>1. PICK m \in maps :
          \/ \E n \in 1 .. NIC_MAX_PHYS_BUF_COUNT :
               MpProcessSGList(m[1], m[2], n)
          \/ MpProcessSGListCopyFailed(m[1], m[2])
          \/ MpProcessSGListEmpty(m[1], m[2])
          \/ MpProcessSGListLate(m[1], m[2])
          \/ MpProcessSGListBugCheck(m[1], m[2])
    BY <1>3 DEF ProcessSGList
  <2>2. tcb[m[1]].inUse
    BY DEF RingState, Waiting
  <2>3. ~ MpProcessSGListCopyFailed(m[1], m[2])
    BY DEF ServiceEnv, MpProcessSGListCopyFailed
  <2>4. ~ MpProcessSGListLate(m[1], m[2])
    BY <2>2 DEF MpProcessSGListLate
  <2>5. ~ MpProcessSGListBugCheck(m[1], m[2])
    BY <2>2 DEF MpProcessSGListBugCheck, ZeroTcb
  <2>6. ~ MpProcessSGListEmpty(m[1], m[2])
    BY DEF ServiceEnv, MpProcessSGListEmpty
  <2>. QED BY <2>1, <2>3, <2>4, <2>5, <2>6, Zenon
<1>4. CASE CableChange \/ OtherInterrupt
  BY <1>4 DEF CableChange, OtherInterrupt, Silent
<1>5. CASE Dpc
  <2>1. CASE DpcAck \/ DpcLinkState \/ DpcLinkFlag \/ DpcRelock
    BY <2>1 DEF DpcAck, DpcLinkState, DpcLinkFlag, DpcRelock, Silent
  <2>2. CASE DpcSendIdle \/ DpcSendEnter \/ DpcFreeSGList
    BY <2>2 DEF DpcSendIdle, DpcSendEnter, DpcFreeSGList, Silent
  <2>3. CASE DpcReapEnd \/ DpcDequeueEnd
    BY <2>3 DEF DpcReapEnd, DpcDequeueEnd, Silent
  <2>. QED BY <1>5, <2>1, <2>2, <2>3, Zenon DEF Dpc
<1>6. ~ Ndis
  <2>1. ~ (MPPause \/ MPPauseQueue \/ MPPauseReturn \/ MPRestart)
    BY DEF ServiceEnv, Calm, MPPause, MPPauseQueue, MPPauseReturn, MPRestart
  <2>2. ~ \E S \in SUBSET Nbls : MPCancelSendNetBufferLists(S)
    BY DEF ServiceEnv, MPCancelSendNetBufferLists
  <2>. QED BY <2>1, <2>2, Zenon DEF Ndis
<1>7. ~ Reset
  BY DEF ServiceEnv, Calm, Reset, MPReset, MPResetQueue, MPResetFreeTcb,
         MPResetFreeSGList, MPResetFreed, MPResetComplete, MPResetInitSend,
         MPResetEnd
<1>8. CASE UNCHANGED sendVars
  BY <1>8 DEF sendVars, Silent
<1>. QED BY <1>1, <1>2, <1>3, <1>4, <1>5, <1>6, <1>7, <1>8, Zenon DEF Next

(* Nothing disturbs the calm.                                              *)
LEMMA CalmKeeps ==
  ASSUME ServiceEnv, RingState, SendState, Calm, [Next]_sendVars
  PROVE  Calm'
<1>. USE DEF stateVars, resetVars, Calm
<1>1. CASE Silent
  BY <1>1 DEF Silent
<1>2. CASE \E l \in Nbls : \/ MPSendEnter(l) \/ MPSendNoLink(l)
                           \/ MPSendQueue(l) \/ MPSendStart(l)
  <2>1. PICK l \in Nbls : \/ MPSendEnter(l) \/ MPSendNoLink(l)
                          \/ MPSendQueue(l) \/ MPSendStart(l)
    BY <1>2
  <2>2. CASE MPSendEnter(l) \/ MPSendNoLink(l) \/ MPSendQueue(l)
    BY <2>2 DEF MPSendEnter, MPSendNoLink, MPSendQueue
  <2>3. CASE MPSendStart(l)
    BY <2>3 DEF MPSendStart
  <2>. QED BY <2>1, <2>2, <2>3
<1>3. CASE XmitAllocateTcb \/ XmitMapped
  <2>1. xmit \in [pc : {"idle", "loop", "mapping", "failed"},
                  by : {"send", "dpc"}, nbl : Nbls \cup {NULL}, nb : Nat,
                  tcb : Tcbs]
    BY DEF RingState, SendTypes, XmitTypes
  <2>2. xmit'.pc \in {"loop", "mapping"}
    BY <1>3, <2>1 DEF XmitAllocateTcb, XmitMapped
  <2>. QED BY <1>3, <2>2 DEF XmitAllocateTcb, XmitMapped
<1>4. CASE XmitNoTcb \/ XmitDone
  <2>1. xmit' = NoXmit
    BY <1>4 DEF XmitNoTcb, XmitDone
  <2>2. xmit'.pc = "idle"
    BY <2>1 DEF NoXmit
  <2>3. UNCHANGED <<pause, reset, AdapterState, orderly>>
    BY <1>4 DEF XmitNoTcb, XmitDone
  <2>. QED BY <2>2, <2>3
<1>5. CASE \E m \in maps, n \in 1 .. NIC_MAX_PHYS_BUF_COUNT :
             MpProcessSGList(m[1], m[2], n)
  BY <1>5 DEF MpProcessSGList
<1>6. CASE NicTransmit \/ DpcFreeTcb \/ DpcComplete
  BY <1>6 DEF NicTransmit, DpcFreeTcb, DpcComplete
<1>7. CASE DpcDequeue
  BY <1>7 DEF DpcDequeue
<1>. QED BY <1>1, <1>2, <1>3, <1>4, <1>5, <1>6, <1>7, ServiceSteps, Zenon

(* The steps that leave the control blocks and the descriptors alone.      *)
LEMMA RingsLeft ==
  ASSUME \/ Silent
         \/ \E l \in Nbls : \/ MPSendEnter(l) \/ MPSendNoLink(l)
                            \/ MPSendQueue(l) \/ MPSendStart(l)
         \/ XmitMapped \/ XmitNoTcb \/ XmitDone \/ DpcComplete \/ DpcDequeue
  PROVE  UNCHANGED <<tcbVars, tbdVars, maps, wire>>
BY DEF Silent, MPSendEnter, MPSendNoLink, MPSendQueue, MPSendStart,
       XmitMapped, XmitNoTcb, XmitDone, DpcComplete, DpcDequeue, nicVars

(* Given is inductive, and so is LastTbds.                                 *)
LEMMA GivenKeeps ==
  ASSUME ServiceEnv, RingState, SendState, Calm, Given, [Next]_sendVars
  PROVE  Given'
<1>0. TcbTypes /\ IndexTypes
  BY DEF RingState, SendTypes
<1>1. CASE UNCHANGED <<tcb, maps>>
  BY <1>1 DEF Given, Busy
<1>2. CASE XmitAllocateTcb
  <2>1. PICK i : i = CurrSendTail
    OBVIOUS
  <2>2. PICK nb : nb = <<xmit.nbl, xmit.nb>>
    OBVIOUS
  <2>3. /\ maps' = maps \cup {<<i, nb>>}
        /\ tcb' = [tcb EXCEPT ![i] =
                     [inUse |-> TRUE, waiting |-> TRUE, nbl |-> xmit.nbl,
                      nb |-> nb, TbdStart |-> NextFreeTbd, nTbds |-> 0]]
    BY <1>2, <2>1, <2>2 DEF XmitAllocateTcb
  <2>4. tcb'[i].nb = nb /\ \A j \in Tcbs : j # i => tcb'[j] = tcb[j]
    BY <1>0, <2>1, <2>3 DEF TcbTypes, IndexTypes
  <2>. QED BY <2>3, <2>4 DEF Given, Busy
<1>3. ASSUME NEW m \in maps, NEW n \in 1 .. NIC_MAX_PHYS_BUF_COUNT,
             MpProcessSGList(m[1], m[2], n)
      PROVE  Given'
  <2>1. m \in Tcbs \X Nbs /\ n \in 0 .. NIC_MAX_PHYS_BUF_COUNT /\ n > 0
    BY Sizes DEF RingState, SendTypes, XmitTypes
  <2>2. /\ maps' = maps \ {<<m[1], m[2]>>}
        /\ tcb' = [tcb EXCEPT ![m[1]].waiting = FALSE, ![m[1]].nTbds = n]
    BY <1>3 DEF MpProcessSGList
  <2>3. /\ \A j \in Tcbs : j # m[1] => tcb'[j] = tcb[j]
        /\ tcb'[m[1]].nTbds = n
    BY <1>0, <2>1, <2>2, TcbGiven
  <2>4. ASSUME NEW i \in Tcbs, tcb'[i].inUse
        PROVE  tcb'[i].nTbds > 0 \/ <<i, tcb'[i].nb>> \in maps'
    <3>1. CASE i = m[1]
      BY <2>1, <2>3, <3>1
    <3>2. CASE i # m[1]
      <4>1. tcb'[i] = tcb[i] /\ i \in Busy
        BY <2>3, <2>4, <3>2 DEF Busy
      <4>2. <<i, tcb[i].nb>> # <<m[1], m[2]>>
        BY <3>2
      <4>3. tcb[i].nTbds > 0 \/ <<i, tcb[i].nb>> \in maps
        BY <4>1 DEF Given
      <4>4. \A e \in maps : e # <<m[1], m[2]>> => e \in maps'
        BY <2>2
      <4>. QED BY <4>1, <4>2, <4>3, <4>4, Zenon
    <3>. QED BY <3>1, <3>2
  <2>. QED BY <2>4 DEF Given, Busy
<1>4. CASE DpcFreeTcb
  <2>1. /\ CurrSendHead \in Tcbs /\ UNCHANGED maps
        /\ \A j \in Tcbs : j # CurrSendHead => tcb'[j] = tcb[j]
        /\ ~ tcb'[CurrSendHead].inUse
    BY <1>0, <1>4, TcbFreed DEF DpcFreeTcb, IndexTypes
  <2>. QED BY <2>1 DEF Given, Busy
<1>5. CASE NicTransmit
  BY <1>1, <1>5 DEF NicTransmit, tcbVars
<1>. QED BY <1>1, <1>2, <1>3, <1>4, <1>5, ServiceSteps, RingsLeft, Zenon
     DEF tcbVars

(* Every step keeps the last mark on the last descriptors of the frames.   *)
LEMMA LastKeeps ==
  ASSUME ServiceEnv, RingState, SendState, Calm, Given, LastTbds,
         [Next]_sendVars, NEW s, NEW off, Layout(s, off)
  PROVE  LastTbds'
<1>. USE Sizes
<1>0. TcbTypes /\ IndexTypes /\ TbdTypes /\ TcbRing
  BY DEF RingState, SendTypes
<1>1. CASE UNCHANGED <<tcb, tbd>>
  BY <1>1 DEF LastTbds, Busy, TbdEnd
<1>2. CASE XmitAllocateTcb
  <2>1. PICK i : i = CurrSendTail
    OBVIOUS
  <2>2. /\ tbd' = [tbd EXCEPT ![NextFreeTbd] = ZeroTbd]
        /\ tcb' = [tcb EXCEPT ![i] =
                     [inUse |-> TRUE, waiting |-> TRUE, nbl |-> xmit.nbl,
                      nb |-> <<xmit.nbl, xmit.nb>>,
                      TbdStart |-> NextFreeTbd, nTbds |-> 0]]
    BY <1>2, <2>1 DEF XmitAllocateTcb
  <2>3. tcb'[i].nTbds = 0 /\ \A j \in Tcbs : j # i => tcb'[j] = tcb[j]
    BY <1>0, <2>1, <2>2 DEF TcbTypes, IndexTypes
  <2>4. ~ tcb[i].inUse
    BY <1>0, <1>2, <2>1
    DEF TcbRing, TcbDist, NthTcb, IndexTypes, Tcbs, XmitAllocateTcb,
        MP_TCB_RESOURCES_AVAIABLE
  <2>5. ASSUME NEW t \in 0 .. nTbds - 1, tbd'[t].own
        PROVE  tbd'[t] = tbd[t]
    <3>1. ~ tbd'[NextFreeTbd].own
      BY <1>0, <2>2 DEF TbdTypes, IndexTypes, ZeroTbd
    <3>. QED BY <1>0, <2>2, <2>5, <3>1 DEF TbdTypes
  <2>6. \A j \in Tcbs : /\ tcb'[j].inUse /\ tcb'[j].nTbds > 0
                           <=> tcb[j].inUse /\ tcb[j].nTbds > 0 /\ j # i
                        /\ j # i => TbdEnd(j)' = TbdEnd(j)
    BY <2>3 DEF TbdEnd
  <2>7. ASSUME NEW t \in 0 .. nTbds - 1, tbd'[t].own
        PROVE  tbd'[t].last <=>
                 \E j \in Busy' : tcb'[j].nTbds > 0 /\ t = TbdEnd(j)'
    <3>1. tbd[t].last <=> \E j \in Busy : tcb[j].nTbds > 0 /\ t = TbdEnd(j)
      BY <2>5, <2>7 DEF LastTbds
    <3>. QED BY <2>4, <2>5, <2>6, <2>7, <3>1 DEF Busy
  <2>. QED BY <2>7 DEF LastTbds
<1>3. ASSUME NEW m \in maps, NEW k \in 1 .. NIC_MAX_PHYS_BUF_COUNT,
             MpProcessSGList(m[1], m[2], k)
      PROVE  LastTbds'
  <2>0. PICK i : i = m[1]
    OBVIOUS
  <2>1. /\ i \in Tcbs /\ tcb[i].nTbds = 0 /\ tcb[i].inUse
        /\ nBusySend \in 1 .. NumTcb /\ i = BusyAt(nBusySend - 1)
    BY <2>0, WaitsLast DEF ServiceEnv
  <2>2. PICK n : n = nBusySend
    OBVIOUS
  <2>3. PICK st : st = tcb[i].TbdStart
    OBVIOUS
  <2>4. /\ tcb' = [tcb EXCEPT ![i].waiting = FALSE, ![i].nTbds = k]
        /\ tbd' = [t \in DOMAIN tbd |->
             IF \E d \in 0 .. k - 1 : t = NthTbd(st, d)
             THEN [own |-> TRUE, frame |-> tcb[i].nb,
                   last |-> t = NthTbd(st, k - 1)]
             ELSE tbd[t]]
    BY <1>3, <2>0, <2>3 DEF MpProcessSGList
  <2>5. /\ \A j \in Tcbs : j # i => tcb'[j] = tcb[j]
        /\ tcb'[i].nTbds = k /\ tcb'[i].TbdStart = st
        /\ tcb'[i].inUse
    <3>1. k \in 0 .. NIC_MAX_PHYS_BUF_COUNT
      OBVIOUS
    <3>. QED BY <1>0, <2>1, <2>3, <2>4, <3>1, TcbGiven
  <2>6. off[n] = off[n - 1] /\ off[n] + k \in 0 .. nTbds
    <3>1. n - 1 \in 0 .. nBusySend - 1 /\ (n - 1) + 1 = n
      BY <2>1, <2>2
    <3>2. off[(n - 1) + 1] = off[n - 1] + 0
      BY <2>1, <2>2, <3>1 DEF Layout
    <3>3. off[n] + k \in 0 .. nTbds
      BY Zenon, <1>3, <2>2, LayoutGive DEF ServiceEnv
    <3>. QED BY <2>1, <2>2, <3>1, <3>2, <3>3, OffsetsAre
  <2>7. st = NthTbd(s, off[n])
    <3>1. n - 1 \in 0 .. nBusySend - 1
      BY <2>1, <2>2
    <3>. QED BY <2>1, <2>2, <2>3, <2>6, <3>1 DEF Layout
  <2>8. ASSUME NEW j \in Tcbs, j # i, tcb[j].inUse, tcb[j].nTbds > 0,
               NEW x \in 0 .. k - 1, TbdEnd(j) = NthTbd(st, x)
        PROVE  FALSE
    <3>1. PICK d \in 0 .. n - 1 : j = BusyAt(d)
      BY <1>0, <2>2, <2>8, BusySteps
    <3>2. /\ \A o \in off[n] .. nTbds - 1 : TbdEnd(j) # NthTbd(s, o)
          /\ s \in 0 .. nTbds - 1 /\ off[n] \in Nat
      BY <2>2, <2>8, <3>1, EndIsBefore
    <3>3. \A o, y \in 0 .. nTbds :
            o + y <= nTbds => NthTbd(NthTbd(s, o), y) = NthTbd(s, o + y)
      BY <3>2, TbdSteps
    <3>4. /\ off[n] \in 0 .. nTbds /\ x \in 0 .. nTbds
          /\ off[n] + x <= nTbds /\ off[n] + x \in off[n] .. nTbds - 1
      BY <2>6, <3>2
    <3>5. NthTbd(NthTbd(s, off[n]), x) = NthTbd(s, off[n] + x)
      BY <3>3, <3>4
    <3>. QED BY <2>7, <2>8, <3>2, <3>4, <3>5
  <2>9. /\ TbdEnd(i)' = NthTbd(st, k - 1)
        /\ \A j \in Tcbs : j # i => TbdEnd(j)' = TbdEnd(j)
    BY <2>5 DEF TbdEnd
  <2>10. ASSUME NEW t \in 0 .. nTbds - 1, tbd'[t].own
         PROVE  tbd'[t].last <=>
                  \E j \in Busy' : tcb'[j].nTbds > 0 /\ t = TbdEnd(j)'
    <3>1. CASE \E d \in 0 .. k - 1 : t = NthTbd(st, d)
      <4>1. tbd'[t].last <=> t = NthTbd(st, k - 1)
        BY <1>0, <2>4, <3>1 DEF TbdTypes
      <4>2. ASSUME NEW j \in Busy', tcb'[j].nTbds > 0, t = TbdEnd(j)'
            PROVE  j = i
        BY <2>5, <2>8, <2>9, <3>1, <4>2 DEF Busy
      <4>3. i \in Busy' /\ tcb'[i].nTbds > 0
        BY <2>1, <2>5 DEF Busy
      <4>. QED BY <2>9, <4>1, <4>2, <4>3
    <3>2. CASE ~ \E d \in 0 .. k - 1 : t = NthTbd(st, d)
      <4>1. tbd'[t] = tbd[t]
        BY <1>0, <2>4, <3>2 DEF TbdTypes
      <4>2. tbd[t].last <=> \E j \in Busy : tcb[j].nTbds > 0 /\ t = TbdEnd(j)
        BY <2>10, <4>1 DEF LastTbds
      <4>3. t # TbdEnd(i)'
        BY <2>9, <3>2
      <4>4. ~ (tcb[i].nTbds > 0)
        BY <2>1
      <4>5. \A j \in Tcbs :
              /\ j \in Busy' /\ tcb'[j].nTbds > 0 /\ t = TbdEnd(j)'
              <=> j \in Busy /\ tcb[j].nTbds > 0 /\ t = TbdEnd(j)
        <5>1. ASSUME NEW j \in Tcbs
              PROVE  /\ j \in Busy' /\ tcb'[j].nTbds > 0 /\ t = TbdEnd(j)'
                     <=> j \in Busy /\ tcb[j].nTbds > 0 /\ t = TbdEnd(j)
          <6>1. CASE j = i
            BY <4>3, <4>4, <6>1
          <6>2. CASE j # i
            BY <2>5, <2>9, <6>2 DEF Busy
          <6>. QED BY <6>1, <6>2
        <5>. QED BY <5>1
      <4>. QED BY <4>1, <4>2, <4>5 DEF Busy
    <3>. QED BY <3>1, <3>2
  <2>. QED BY <2>10 DEF LastTbds
<1>4. CASE DpcFreeTcb
  <2>1. /\ CurrSendHead \in Tcbs /\ UNCHANGED tbd /\ Sent(CurrSendHead)
        /\ \A j \in Tcbs : j # CurrSendHead => tcb'[j] = tcb[j]
        /\ ~ tcb'[CurrSendHead].inUse
    BY <1>0, <1>4, TcbFreed DEF DpcFreeTcb, IndexTypes, tbdVars
  <2>2. \A j \in Tcbs : j # CurrSendHead => TbdEnd(j)' = TbdEnd(j)
    BY <2>1 DEF TbdEnd
  <2>3. ASSUME NEW t \in 0 .. nTbds - 1, tbd[t].own
        PROVE  tbd[t].last <=>
                 \E j \in Busy' : tcb'[j].nTbds > 0 /\ t = TbdEnd(j)'
    <3>1. tbd[t].last <=> \E j \in Busy : tcb[j].nTbds > 0 /\ t = TbdEnd(j)
      BY <2>3 DEF LastTbds
    <3>2. t # TbdEnd(CurrSendHead)
      BY <2>1, <2>3 DEF Sent
    <3>. QED BY <2>1, <2>2, <3>1, <3>2 DEF Busy
  <2>. QED BY <2>1, <2>3 DEF LastTbds
<1>5. CASE NicTransmit
  <2>1. PICK x : x = txNext
    OBVIOUS
  <2>2. /\ x \in 0 .. nTbds - 1 /\ UNCHANGED tcb
        /\ tbd' = [tbd EXCEPT ![x] = [@ EXCEPT !.own = FALSE]]
    <3>1. x \in 0 .. nTbds - 1
      BY <1>0, <2>1 DEF IndexTypes
    <3>2. tbd' = [tbd EXCEPT ![x] = [@ EXCEPT !.own = FALSE]]
      BY <1>5, <2>1, Zenon DEF NicTransmit
    <3>. QED BY <1>5, <3>1, <3>2 DEF NicTransmit, tcbVars
  <2>3. ~ tbd'[x].own
    <3>1. tbd'[x] = [tbd[x] EXCEPT !.own = FALSE]
      BY <1>0, <2>2 DEF TbdTypes
    <3>. QED BY <1>0, <2>2, <3>1 DEF TbdTypes
  <2>4. \A t \in 0 .. nTbds - 1 : tbd'[t].own => tbd'[t] = tbd[t]
    BY <1>0, <2>2, <2>3 DEF TbdTypes
  <2>5. Busy' = Busy /\ \A j : TbdEnd(j)' = TbdEnd(j)
    BY <2>2 DEF Busy, TbdEnd
  <2>6. ASSUME NEW t \in 0 .. nTbds - 1, tbd'[t].own
        PROVE  tbd'[t].last <=>
                 \E j \in Busy' : tcb'[j].nTbds > 0 /\ t = TbdEnd(j)'
    BY <2>2, <2>4, <2>5, <2>6 DEF LastTbds
  <2>. QED BY <2>6 DEF LastTbds
<1>. QED BY <1>1, <1>2, <1>3, <1>4, <1>5, ServiceSteps, RingsLeft, Zenon
     DEF tcbVars, tbdVars

---------------------------------------------------------------------------
(* The frames that are not in the ring.                                    *)
LEMMA LoopType ==
  ASSUME RingState, SendState
  PROVE  /\ InLoop \in Seq(Nbs)
         /\ \A e : In(InLoop, e) => e[1] = xmit.nbl /\ Live(xmit.nbl)
<1>1. CASE xmit.pc = "loop"
  <2>1. /\ xmit.nbl \in Nbls /\ xmit.nb \in 1 .. NbCount[xmit.nbl] + 1
        /\ InLoop = From(xmit.nbl, xmit.nb)
    BY <1>1, SentIsInHand DEF InLoop, SendState, XmitNb
  <2>. QED BY <1>1, <2>1, FromParts DEF Live
<1>2. CASE xmit.pc = "mapping"
  <2>1. /\ xmit.nbl \in Nbls /\ xmit.nb \in 1 .. NbCount[xmit.nbl]
        /\ InLoop = From(xmit.nbl, xmit.nb + 1)
    BY <1>2, SentIsInHand DEF InLoop, SendState, XmitNb
  <2>2. /\ NbCount[xmit.nbl] \in Nat
        /\ xmit.nb + 1 \in 1 .. NbCount[xmit.nbl] + 1
        /\ xmit.nb + 1 <= NbCount[xmit.nbl] => xmit.nb < NbCount[xmit.nbl]
    BY <2>1, Sizes
  <2>3. PICK l, k : l = xmit.nbl /\ k = xmit.nb + 1
    OBVIOUS
  <2>4. /\ From(l, k) \in Seq(Nbs)
        /\ \A e : In(From(l, k), e) => e[1] = l /\ k <= NbCount[l]
    BY <2>1, <2>2, <2>3, FromParts
  <2>. QED BY <1>2, <2>1, <2>2, <2>3, <2>4 DEF Live
<1>3. CASE xmit.pc \notin {"loop", "mapping"}
  BY <1>3 DEF InLoop, In
<1>. QED BY <1>1, <1>2, <1>3

(* Those in the queue: the list the DPC sends is not among them.           *)
LEMMA NotBegunIs ==
  ASSUME RingState, SendState
  PROVE  /\ NotBegun = IF DpcSends THEN Tail(SendWaitQueue) ELSE SendWaitQueue
         /\ DpcSends => /\ SendWaitQueue # <<>>
                        /\ Head(SendWaitQueue) = xmit.nbl
                        /\ xmit.nbl \in Nbls /\ ~ In(NotBegun, xmit.nbl)
         /\ Fits(NotBegun, NextSend) /\ InQueue = QueueOf(NotBegun, NextSend)
         /\ InQueue \in Seq(Nbs)
         /\ \A l \in Nbls : In(NotBegun, l) => Queued(l)
<1>1. NotBegun = IF DpcSends THEN Tail(SendWaitQueue) ELSE SendWaitQueue
  BY DEF NotBegun, RingState, Control, SendState
<1>2. /\ SendWaitQueue \in Seq(Nbls) /\ NextSend \in [Nbls -> Nat]
      /\ Distinct(SendWaitQueue)
  BY DEF RingState, SendTypes, ListTypes, SendState, QueueInv
<1>3. DpcSends => /\ SendWaitQueue # <<>>
                  /\ Head(SendWaitQueue) = xmit.nbl
  BY DEF SendState, QueueInv
<1>4. DpcSends => /\ xmit.nbl \in Nbls /\ ~ In(NotBegun, xmit.nbl)
  BY <1>1, <1>2, <1>3, InTail
<1>5. /\ NotBegun \in Seq(Nbls)
      /\ \A l \in Nbls : In(NotBegun, l) => In(SendWaitQueue, l)
  BY <1>1, <1>2, <1>3, InTail
<1>6. ASSUME NEW l \in Nbls, In(NotBegun, l)
      PROVE  Queued(l) /\ NextSend[l] \in 1 .. NbCount[l]
  <2>1. Queued(l)
    BY <1>5, <1>6 DEF Queued, In
  <2>2. ~ (DpcSends /\ xmit.nbl = l)
    BY <1>4, <1>6
  <2>. QED BY <2>1, <2>2 DEF SendState, QueueInv
<1>7. Fits(NotBegun, NextSend)
  BY <1>2, <1>5, <1>6 DEF Fits
<1>8. InQueue = QueueOf(NotBegun, NextSend)
  BY DEF InQueue, QueueOf
<1>9. InQueue \in Seq(Nbs)
  BY <1>7, <1>8, QueueType
<1>. QED BY <1>1, <1>3, <1>4, <1>6, <1>7, <1>8, <1>9

(* Those in the ring belong to lists a TCB holds.                          *)
LEMMA RingType ==
  ASSUME RingState, NEW u, SentFirst(u)
  PROVE  /\ InRing \in Seq(Nbs)
         /\ \A e : In(InRing, e) => Held(e[1]) # {}
<1>1. PICK L : L = nBusySend - u
  OBVIOUS
<1>2. /\ InRing = [d \in 1 .. L |-> tcb[BusyAt(u + d - 1)].nb]
      /\ InRing \in Seq(Nbs) /\ Len(InRing) = L
  BY <1>1, RingRuleHolds DEF RingRule
<1>3. ASSUME NEW e, In(InRing, e) PROVE Held(e[1]) # {}
  <2>1. PICK d \in 1 .. L : e = tcb[BusyAt(u + d - 1)].nb
    BY <1>2, <1>3 DEF In
  <2>2. PICK i : i = BusyAt(u + d - 1)
    OBVIOUS
  <2>3. u + d - 1 \in 0 .. nBusySend - 1
    BY <1>1 DEF SentFirst, RingState, TcbRing
  <2>4. i \in Tcbs /\ tcb[i].inUse
    BY <2>2, <2>3, BusySteps DEF RingState, SendTypes
  <2>5. tcb[i].nb[1] = tcb[i].nbl
    BY <2>4 DEF RingState, TcbRing
  <2>. QED BY <2>1, <2>2, <2>4, <2>5 DEF Held
<1>. QED BY <1>2, <1>3

---------------------------------------------------------------------------
(* Each step is one of the service, or changes nothing there.              *)
Pending == InRing \o InLoop \o InQueue

(* What is pending is a sequence of frames, in the ring, loop and queue.   *)
LEMMA Typed ==
  ASSUME RingState, SendState, NEW u, SentFirst(u)
  PROVE  /\ InRing \in Seq(Nbs) /\ InLoop \in Seq(Nbs) /\ InQueue \in Seq(Nbs)
         /\ Pending \in Seq(Nbs)
<1>1. InRing \in Seq(Nbs) /\ InLoop \in Seq(Nbs) /\ InQueue \in Seq(Nbs)
  BY RingType, LoopType, NotBegunIs
<1>. QED BY <1>1 DEF Pending

(* The state of a list, from what SendPath keeps of it.                    *)
LEMMA StateIs ==
  ASSUME RingState, SendState
  PROVE  \A l \in Nbls :
           /\ ListState[l] = "ndis" <=> owed[l] = 0
           /\ ListState[l] = "called" <=> l \in entered
           /\ ListState[l] = "accepted" <=> Owing(l)
<1>1. ASSUME NEW l \in Nbls
      PROVE  /\ ListState[l] = "ndis" <=> owed[l] = 0
             /\ ListState[l] = "called" <=> l \in entered
             /\ ListState[l] = "accepted" <=> Owing(l)
  <2>1. owed[l] \in {0, 1} /\ (l \in entered => owed[l] = 1)
    BY DEF SendState, ListInv
  <2>. QED BY <2>1 DEF ListState, Owing
<1>. QED BY <1>1

(* A list's state looks only at what is owed and entered.                  *)
LEMMA StateSame ==
  ASSUME UNCHANGED <<owed, entered>> PROVE ListState' = ListState
BY DEF ListState

(* One list that changes changes only its own state.                       *)
LEMMA StateChange ==
  ASSUME NEW l \in Nbls, NEW v,
         \A x \in Nbls : x # l => /\ owed'[x] = owed[x]
                                 /\ (x \in entered' <=> x \in entered),
         v = IF owed'[l] = 0 THEN "ndis"
             ELSE IF l \in entered' THEN "called" ELSE "accepted"
  PROVE  ListState' = [ListState EXCEPT ![l] = v]
<1>1. /\ ListState = [x \in Nbls |-> ListState[x]]
      /\ ListState' = [x \in Nbls |-> ListState'[x]]
  BY DEF ListState
<1>2. ListState'[l] = v
  BY DEF ListState
<1>3. ASSUME NEW x \in Nbls, x # l PROVE ListState'[x] = ListState[x]
  <2>1. ListState'[x] = IF owed'[x] = 0 THEN "ndis"
                        ELSE IF x \in entered' THEN "called" ELSE "accepted"
    BY DEF ListState
  <2>2. owed'[x] = owed[x]
    BY <1>3, Zenon
  <2>3. x \in entered' <=> x \in entered
    BY <1>3, Zenon
  <2>. QED BY <2>1, <2>2, <2>3 DEF ListState
<1>. QED BY <1>1, <1>2, <1>3

(* Queue and loop look only at the sender, the queue and its marks.        *)
LEMMA QueueLeft ==
  ASSUME UNCHANGED <<xmit, SendWaitQueue, NextSend>>
  PROVE  InLoop' = InLoop /\ InQueue' = InQueue
BY DEF InLoop, InQueue, NotBegun

(* NDIS calls MPSendNetBufferLists.                                        *)
LEMMA EnterServes ==
  ASSUME RingState, SendState, NEW l \in Nbls, MPSendEnter(l)
  PROVE  Service!Call(l)
<1>1. /\ owed[l] = 0 /\ owed' = [owed EXCEPT ![l] = 1]
      /\ entered' = entered \cup {l} /\ owed \in [Nbls -> Int]
  BY DEF MPSendEnter, RingState, SendTypes, ListTypes
<1>2. ListState' = [ListState EXCEPT ![l] = "called"]
  <2>1. /\ owed'[l] = 1 /\ l \in entered'
        /\ \A x \in Nbls : x # l => /\ owed'[x] = owed[x]
                                    /\ (x \in entered' <=> x \in entered)
    BY <1>1
  <2>. QED BY <2>1, StateChange
<1>3. InRing' = InRing /\ InLoop' = InLoop /\ InQueue' = InQueue
  BY RingSame, QueueLeft DEF MPSendEnter, waitVars
<1>4. ListState[l] = "ndis"
  BY <1>1 DEF ListState
<1>5. wire' = wire
  BY DEF MPSendEnter, nicVars
<1>. QED BY <1>2, <1>3, <1>4, <1>5 DEF Service!Call

(* Without a link the list is given back: it was refused.                  *)
LEMMA NoLinkServes ==
  ASSUME RingState, SendState, NEW l \in Nbls, MPSendNoLink(l)
  PROVE  Service!Refuse(l)
<1>1. /\ l \in entered /\ owed' = Completed({l})
      /\ entered' = entered \ {l} /\ owed \in [Nbls -> Int] /\ owed[l] = 1
  BY EnteredIsNowhere
  DEF MPSendNoLink, RingState, SendTypes, ListTypes
<1>2. ListState' = [ListState EXCEPT ![l] = "ndis"]
  <2>1. /\ owed'[l] = 0
        /\ \A x \in Nbls : x # l => /\ owed'[x] = owed[x]
                                    /\ (x \in entered' <=> x \in entered)
    BY <1>1 DEF Completed
  <2>. QED BY <2>1, StateChange
<1>3. InRing' = InRing /\ InLoop' = InLoop /\ InQueue' = InQueue
  BY RingSame, QueueLeft DEF MPSendNoLink, waitVars
<1>4. ListState[l] = "called"
  BY <1>1 DEF ListState
<1>5. wire' = wire
  BY DEF MPSendNoLink, nicVars
<1>. QED BY <1>2, <1>3, <1>4, <1>5 DEF Service!Refuse

(* From its first frame on, a list is all of its frames.                   *)
LEMMA FromFirst ==
  ASSUME NEW l \in Nbls
  PROVE  /\ From(l, 1) = [k \in 1 .. NbCount[l] |-> <<l, k>>]
         /\ From(l, 1) \in Seq(Nbs)
<1>1. NbCount[l] \in Nat /\ 1 \in 1 .. NbCount[l] + 1
  BY Sizes
<1>2. From(l, 1) = [k \in 1 .. NbCount[l] |-> <<l, k>>]
  <2>1. NbCount[l] - 1 + 1 = NbCount[l]
    BY <1>1
  <2>2. \A k \in 1 .. NbCount[l] : 1 + k - 1 = k
    BY <1>1
  <2>. QED BY <2>1, <2>2 DEF From
<1>. QED BY <1>1, <1>2, FromParts

(* A list that is queued was accepted; so was one sent at once.            *)
LEMMA QueueServes ==
  ASSUME RingState, SendState, NEW u, SentFirst(u), NEW l \in Nbls,
         MPSendQueue(l)
  PROVE  Service!Accept(l)
<1>1. /\ l \in entered /\ ~ Queued(l) /\ owed[l] = 1
      /\ NextSend \in [Nbls -> Nat] /\ SendWaitQueue \in Seq(Nbls)
  BY EnteredIsNowhere DEF MPSendQueue, RingState, SendTypes, ListTypes
<1>2. /\ SendWaitQueue' = Append(SendWaitQueue, l) /\ xmit' = xmit
      /\ NextSend' = [NextSend EXCEPT ![l] = 1]
      /\ entered' = entered \ {l} /\ owed' = owed /\ wire' = wire
  BY DEF MPSendQueue, nicVars
<1>3. /\ Fits(NotBegun, NextSend) /\ InQueue = QueueOf(NotBegun, NextSend)
      /\ ~ In(NotBegun, l)
  BY <1>1, NotBegunIs
<1>4. NotBegun' = Append(NotBegun, l)
  <2>1. DpcSends => SendWaitQueue # <<>>
    BY NotBegunIs
  <2>2. xmit.pc # "idle" /\ xmit.by = "dpc" => SendWaitQueue # <<>>
    BY <2>1 DEF RingState, Control, SendState
  <2>3. SendWaitQueue # <<>> =>
          Tail(Append(SendWaitQueue, l)) = Append(Tail(SendWaitQueue), l)
    <3>. DEFINE q == SendWaitQueue
    <3>. SUFFICES ASSUME q # <<>>
                  PROVE  Tail(Append(q, l)) = Append(Tail(q), l)
      OBVIOUS
    <3>1. /\ Tail(Append(q, l)) \in Seq(Nbls)
          /\ Append(Tail(q), l) \in Seq(Nbls)
          /\ Len(Tail(Append(q, l))) = Len(q)
          /\ Len(Append(Tail(q), l)) = Len(q)
      BY <1>1
    <3>2. \A d \in 1 .. Len(q) : Tail(Append(q, l))[d] = Append(Tail(q), l)[d]
      BY <1>1
    <3>. QED BY <3>1, <3>2, SeqEqual
  <2>. QED BY <1>2, <2>2, <2>3 DEF NotBegun
<1>5. /\ Fits(NotBegun, NextSend')
      /\ QueueOf(NotBegun, NextSend') = InQueue
  <2>1. NextSend' \in [Nbls -> Nat]
    BY <1>1, <1>2
  <2>2. \A x \in Nbls : In(NotBegun, x) => NextSend'[x] = NextSend[x]
    BY <1>1, <1>2, <1>3
  <2>. QED BY <1>3, <2>1, <2>2, QueueSameNext
<1>6. NextSend'[l] = 1 /\ 1 \in 1 .. NbCount[l]
  <2>1. NextSend'[l] = 1
    BY <1>1, <1>2
  <2>. QED BY <2>1, Sizes
<1>7. InQueue' = InQueue \o From(l, 1)
  <2>1. QueueOf(Append(NotBegun, l), NextSend') = InQueue \o From(l, 1)
    BY <1>5, <1>6, QueueAppend
  <2>. QED BY <1>4, <2>1 DEF InQueue, QueueOf
<1>8. InRing' = InRing /\ InLoop' = InLoop
  <2>1. InRing' = InRing
    BY RingSame DEF MPSendQueue
  <2>. QED BY <1>2, <2>1 DEF InLoop
<1>9. (InRing \o InLoop \o InQueue)' =
        (InRing \o InLoop \o InQueue) \o [k \in 1 .. NbCount[l] |-> <<l, k>>]
  <2>1. PICK f : f = From(l, 1)
    OBVIOUS
  <2>2. f = [k \in 1 .. NbCount[l] |-> <<l, k>>] /\ f \in Seq(Nbs)
    BY <2>1, FromFirst
  <2>3. PICK a, b, c : a = InRing /\ b = InLoop /\ c = InQueue
    OBVIOUS
  <2>4. a \in Seq(Nbs) /\ b \in Seq(Nbs) /\ c \in Seq(Nbs)
    BY <2>3, Typed
  <2>5. a \o b \o (c \o f) = (a \o b \o c) \o f
    <3>. HIDE <2>1, <2>3
    <3>1. f \in Seq(Nbs)
      BY <2>2
    <3>. HIDE <2>2
    <3>. QED BY SMTT(30), <2>4, <3>1
  <2>. QED BY <1>7, <1>8, <2>1, <2>2, <2>3, <2>5, Zenon
<1>10. /\ ListState' = [ListState EXCEPT ![l] = "accepted"]
       /\ ListState[l] = "called"
  <2>1. /\ owed'[l] = 1 /\ l \notin entered'
        /\ \A x \in Nbls : x # l => /\ owed'[x] = owed[x]
                                    /\ (x \in entered' <=> x \in entered)
    BY <1>1, <1>2
  <2>2. ListState' = [ListState EXCEPT ![l] = "accepted"]
    BY <2>1, StateChange
  <2>. QED BY <1>1, <2>2 DEF ListState
<1>. QED BY <1>2, <1>9, <1>10, Zenon DEF Service!Accept

(* A send that starts is the service's acceptance of its list.             *)
LEMMA StartServes ==
  ASSUME RingState, SendState, NEW u, SentFirst(u), NEW l \in Nbls,
         MPSendStart(l)
  PROVE  Service!Accept(l)
<1>1. l \in entered /\ owed[l] = 1
  BY EnteredIsNowhere DEF MPSendStart
<1>2. SendWaitQueue = <<>> /\ xmit.pc = "idle"
  BY DEF MPSendStart, MustQueue, RingState, Control
<1>3. /\ SendWaitQueue' = <<>> /\ NextSend' = NextSend
      /\ xmit' = [pc |-> "loop", by |-> "send", nbl |-> l, nb |-> 1, tcb |-> 0]
      /\ entered' = entered \ {l} /\ owed' = owed /\ wire' = wire
  BY <1>2 DEF MPSendStart, nicVars
<1>4. InLoop = <<>> /\ InLoop' = From(l, 1)
  <2>1. InLoop = <<>>
    BY <1>2 DEF InLoop
  <2>2. xmit'.pc = "loop" /\ xmit'.nbl = l /\ xmit'.nb = 1
    BY <1>3
  <2>. QED BY <2>1, <2>2 DEF InLoop
<1>5. InQueue = <<>> /\ InQueue' = <<>>
  <2>1. NotBegun = <<>>
    BY <1>2 DEF NotBegun
  <2>2. xmit'.by = "send" /\ NotBegun' = <<>>
    BY <1>3 DEF NotBegun
  <2>3. /\ InQueue = QueueOf(<<>>, NextSend)
        /\ InQueue' = QueueOf(<<>>, NextSend')
    BY <2>1, <2>2 DEF InQueue, QueueOf
  <2>. QED BY <2>3, QueueEmpty
<1>6. InRing' = InRing
  BY RingSame DEF MPSendStart
<1>7. (InRing \o InLoop \o InQueue)' =
        (InRing \o InLoop \o InQueue) \o [k \in 1 .. NbCount[l] |-> <<l, k>>]
  <2>1. PICK f : f = From(l, 1)
    OBVIOUS
  <2>2. f = [k \in 1 .. NbCount[l] |-> <<l, k>>] /\ f \in Seq(Nbs)
    BY <2>1, FromFirst
  <2>3. PICK a : a = InRing
    OBVIOUS
  <2>4. a \in Seq(Nbs)
    BY <2>3, Typed
  <2>5. a \o f \o <<>> = (a \o <<>> \o <<>>) \o f
    <3>. HIDE <2>1, <2>3
    <3>1. f \in Seq(Nbs)
      BY <2>2
    <3>. HIDE <2>2
    <3>. QED BY <2>4, <3>1
  <2>. QED BY <1>4, <1>5, <1>6, <2>1, <2>2, <2>3, <2>5, Zenon
<1>8. /\ ListState' = [ListState EXCEPT ![l] = "accepted"]
      /\ ListState[l] = "called"
  <2>1. /\ owed'[l] = 1 /\ l \notin entered'
        /\ \A x \in Nbls : x # l => /\ owed'[x] = owed[x]
                                    /\ (x \in entered' <=> x \in entered)
    BY <1>1, <1>3
  <2>2. ListState' = [ListState EXCEPT ![l] = "accepted"]
    BY <2>1, StateChange
  <2>. QED BY <1>1, <2>2 DEF ListState
<1>. QED BY <1>3, <1>7, <1>8, Zenon DEF Service!Accept

(* A NET_BUFFER goes from the send loop to the ring.                       *)
LEMMA AllocateServes ==
  ASSUME RingState, RingState', SendState, NEW u, SentFirst(u),
         NEW s, NEW off, Layout(s, off), XmitAllocateTcb
  PROVE  UNCHANGED <<ListState, Pending, wire>>
<1>1. PICK n \in 0 .. NumTcb - 1 : n = nBusySend
  BY Sizes
  DEF XmitAllocateTcb, MP_TCB_RESOURCES_AVAIABLE, RingState, TcbRing
<1>2. PICK l, k : l = xmit.nbl /\ k = xmit.nb
  OBVIOUS
<1>3. /\ xmit.pc = "loop" /\ l \in Nbls /\ k \in 1 .. NbCount[l] + 1
      /\ k <= NbCount[l] /\ NbCount[l] \in Nat
  BY <1>2, SentIsInHand DEF XmitAllocateTcb, SendState, XmitNb
<1>4. /\ xmit'.pc = "mapping" /\ xmit'.by = xmit.by
      /\ xmit'.nbl = l /\ xmit'.nb = k
  BY <1>2 DEF XmitAllocateTcb, RingState, SendTypes, XmitTypes
<1>5. InRing' = Append(InRing, <<l, k>>)
  BY <1>1, <1>2, RingAllocate
<1>6. InLoop = <<<<l, k>>>> \o From(l, k + 1) /\ InLoop' = From(l, k + 1)
  <2>1. InLoop = From(l, k)
    BY <1>2, <1>3 DEF InLoop
  <2>2. InLoop' = From(l, k + 1)
    BY <1>4 DEF InLoop
  <2>. QED BY <1>3, <2>1, <2>2, FromParts
<1>7. InQueue' = InQueue
  <2>1. NotBegun' = NotBegun
    BY <1>3, <1>4 DEF NotBegun, XmitAllocateTcb, waitVars
  <2>. QED BY <2>1 DEF InQueue, XmitAllocateTcb, nblVars
<1>8. Pending' = Pending
  <2>1. PICK f, e : f = From(l, k + 1) /\ e = <<l, k>>
    OBVIOUS
  <2>2. f \in Seq(Nbs) /\ e \in Nbs
    <3>1. PICK j : j = k + 1
      OBVIOUS
    <3>2. j \in 1 .. NbCount[l] + 1
      BY <1>3, <3>1
    <3>3. From(l, j) \in Seq(Nbs)
      BY <1>3, <3>2, FromParts
    <3>4. e \in Nbs
      BY <1>3, <2>1 DEF Nbs
    <3>. QED BY <2>1, <3>1, <3>3, <3>4, Zenon
  <2>3. PICK a, c : a = InRing /\ c = InQueue
    OBVIOUS
  <2>4. a \in Seq(Nbs) /\ c \in Seq(Nbs)
    BY <2>3, Typed
  <2>5. Append(a, e) \o f \o c = a \o (<<e>> \o f) \o c
    <3>. HIDE <2>1, <2>3
    <3>. QED BY <2>2, <2>4
  <2>. QED BY <1>5, <1>6, <1>7, <2>1, <2>3, <2>5, Zenon DEF Pending
<1>9. UNCHANGED <<ListState, wire>>
  BY StateSame DEF XmitAllocateTcb, nblVars, nicVars
<1>. QED BY <1>8, <1>9

(* The send loop goes on.                                                  *)
LEMMA MappedServes ==
  ASSUME RingState, SendState, XmitMapped
  PROVE  UNCHANGED <<ListState, Pending, wire>>
<1>1. /\ xmit.pc = "mapping" /\ xmit'.pc = "loop" /\ xmit'.by = xmit.by
      /\ xmit'.nbl = xmit.nbl /\ xmit'.nb = xmit.nb + 1
  BY DEF XmitMapped, RingState, SendTypes, XmitTypes
<1>2. InLoop' = InLoop
  BY <1>1 DEF InLoop
<1>3. InQueue' = InQueue
  <2>1. NotBegun' = NotBegun
    BY <1>1 DEF NotBegun, XmitMapped, waitVars
  <2>. QED BY <2>1 DEF InQueue, XmitMapped, nblVars
<1>4. InRing' = InRing
  BY RingSame DEF XmitMapped
<1>5. UNCHANGED <<ListState, wire>>
  BY StateSame DEF XmitMapped, nblVars, nicVars
<1>. QED BY <1>2, <1>3, <1>4, <1>5 DEF Pending

(* What is left of the list goes back to the head of the queue.            *)
LEMMA NoTcbServes ==
  ASSUME RingState, SendState, NEW u, SentFirst(u), XmitNoTcb
  PROVE  UNCHANGED <<ListState, Pending, wire>>
<1>1. PICK l, k : l = xmit.nbl /\ k = xmit.nb
  OBVIOUS
<1>2. /\ xmit.pc = "loop" /\ l \in Nbls /\ k \in 1 .. NbCount[l] + 1
      /\ k \in 1 .. NbCount[l] /\ NbCount[l] \in Nat
      /\ xmit.by = "dpc" <=> DpcSends
      /\ xmit.by # "dpc" => xmit.by = "send"
  BY <1>1, SentIsInHand DEF XmitNoTcb, SendState, XmitNb
<1>3. /\ NextSend \in [Nbls -> Nat] /\ SendWaitQueue \in Seq(Nbls)
      /\ NextSend' = [NextSend EXCEPT ![l] = k]
      /\ SendWaitQueue' = PutBack(l) /\ xmit' = NoXmit
      /\ UNCHANGED <<owed, entered, wire>>
  BY <1>1 DEF XmitNoTcb, RingState, SendTypes, ListTypes, nicVars
<1>4. NotBegun' = SendWaitQueue'
  BY <1>3 DEF NotBegun, NoXmit
<1>5. SendWaitQueue' = <<l>> \o NotBegun /\ ~ In(NotBegun, l)
  <2>1. CASE DpcSends
    <3>1. /\ NotBegun = Tail(SendWaitQueue) /\ SendWaitQueue # <<>>
          /\ Head(SendWaitQueue) = l /\ ~ In(NotBegun, l)
      BY <1>1, <2>1, NotBegunIs
    <3>2. SendWaitQueue' = SendWaitQueue
      BY <1>2, <1>3, <2>1 DEF PutBack, bFromQueue
    <3>3. SendWaitQueue = <<Head(SendWaitQueue)>> \o Tail(SendWaitQueue)
      <4>1. PICK q : q = SendWaitQueue
        OBVIOUS
      <4>2. q \in Seq(Nbls) /\ q # <<>>
        BY <1>3, <3>1, <4>1
      <4>. HIDE <4>1
      <4>3. q = <<Head(q)>> \o Tail(q)
        BY <4>2
      <4>. QED BY <4>1, <4>3
    <3>. QED BY <3>1, <3>2, <3>3
  <2>2. CASE ~ DpcSends
    <3>1. NotBegun = SendWaitQueue
      BY <2>2, NotBegunIs
    <3>2. SendWaitQueue' = <<l>> \o SendWaitQueue
      BY <1>2, <1>3, <2>2 DEF PutBack, bFromQueue
    <3>3. ~ Queued(l)
      <4>1. Live(l) /\ xmit.by = "send"
        BY <1>1, <1>2, <2>2 DEF Live
      <4>. QED BY <1>2, <4>1 DEF SendState, ListInv
    <3>4. ~ In(NotBegun, l)
      BY <1>2, <3>3, NotBegunIs
    <3>. QED BY <3>1, <3>2, <3>4
  <2>. QED BY <2>1, <2>2
<1>6. /\ Fits(NotBegun, NextSend) /\ InQueue = QueueOf(NotBegun, NextSend)
  BY NotBegunIs
<1>7. NextSend'[l] = k /\ NextSend' \in [Nbls -> Nat]
  BY <1>2, <1>3
<1>8. /\ Fits(NotBegun, NextSend')
      /\ QueueOf(NotBegun, NextSend') = InQueue
  <2>1. \A x \in Nbls : In(NotBegun, x) => NextSend'[x] = NextSend[x]
    BY <1>3, <1>5
  <2>. QED BY <1>6, <1>7, <2>1, QueueSameNext
<1>9. InQueue' = From(l, k) \o InQueue
  <2>1. NextSend'[l] \in 1 .. NbCount[l]
    BY <1>2, <1>7
  <2>2. QueueOf(<<l>> \o NotBegun, NextSend') =
          From(l, NextSend'[l]) \o InQueue
    BY <1>2, <1>8, <2>1, QueueCons
  <2>. QED BY <1>4, <1>5, <1>7, <2>2 DEF InQueue, QueueOf
<1>10. InLoop = From(l, k) /\ InLoop' = <<>>
  <2>1. InLoop = From(l, k)
    BY <1>1, <1>2 DEF InLoop
  <2>2. xmit'.pc = "idle"
    BY <1>3 DEF NoXmit
  <2>. QED BY <2>1, <2>2 DEF InLoop
<1>11. InRing' = InRing
  BY RingSame DEF XmitNoTcb
<1>12. Pending' = Pending
  <2>1. PICK a, b, c : a = InRing /\ b = InLoop /\ c = InQueue
    OBVIOUS
  <2>2. a \in Seq(Nbs) /\ b \in Seq(Nbs) /\ c \in Seq(Nbs)
    BY <2>1, Typed
  <2>3. a \o <<>> \o (b \o c) = a \o b \o c
    <3>. HIDE <2>1
    <3>. QED BY <2>2
  <2>. QED BY <1>9, <1>10, <1>11, <2>1, <2>3, Zenon DEF Pending
<1>. QED BY <1>3, <1>12, StateSame

(* The list in the send loop has none left.                                *)
LEMMA DoneServes ==
  ASSUME RingState, SendState, XmitDone
  PROVE  UNCHANGED <<ListState, Pending, wire>>
<1>1. /\ xmit.pc = "loop" /\ xmit.nb = NbCount[xmit.nbl] + 1
      /\ xmit.nbl \in Nbls /\ (xmit.by = "dpc" <=> DpcSends)
      /\ xmit.nb \in 1 .. NbCount[xmit.nbl] + 1
  BY SentIsInHand DEF XmitDone, SendState, XmitNb
<1>2. /\ SendWaitQueue' = IF bFromQueue THEN Tail(SendWaitQueue)
                                        ELSE SendWaitQueue
      /\ xmit' = NoXmit /\ UNCHANGED <<NextSend, owed, entered, wire>>
  BY DEF XmitDone, nblVars, nicVars
<1>3. NotBegun' = NotBegun
  <2>1. NotBegun' = SendWaitQueue'
    BY <1>2 DEF NotBegun, NoXmit
  <2>. QED BY <1>1, <1>2, <2>1 DEF NotBegun, bFromQueue
<1>4. InQueue' = InQueue
  BY <1>2, <1>3 DEF InQueue
<1>5. InLoop = <<>> /\ InLoop' = <<>>
  <2>1. InLoop = From(xmit.nbl, xmit.nb)
    BY <1>1 DEF InLoop
  <2>2. InLoop = <<>>
    BY <1>1, <2>1, FromParts
  <2>3. xmit'.pc = "idle"
    BY <1>2 DEF NoXmit
  <2>. QED BY <2>2, <2>3 DEF InLoop
<1>6. InRing' = InRing
  BY RingSame DEF XmitDone
<1>. QED BY <1>2, <1>4, <1>5, <1>6, StateSame DEF Pending

(* The head of the queue goes into the send loop.                          *)
LEMMA DequeueServes ==
  ASSUME RingState, SendState, NEW u, SentFirst(u), DpcDequeue
  PROVE  UNCHANGED <<ListState, Pending, wire>>
<1>1. PICK l : l = Head(SendWaitQueue)
  OBVIOUS
<1>2. PICK k : k = NextSend[l]
  OBVIOUS
<1>3. /\ SendWaitQueue # <<>> /\ xmit.pc = "idle" /\ ~ DpcSends
      /\ SendWaitQueue \in Seq(Nbls) /\ NextSend \in [Nbls -> Nat]
  BY DEF DpcDequeue, CanDequeue, RingState, Control, SendTypes, ListTypes,
         DpcSends
<1>4. /\ xmit' = [pc |-> "loop", by |-> "dpc", nbl |-> l, nb |-> k,
                  tcb |-> 0]
      /\ NextSend' = [NextSend EXCEPT ![l] = 0]
      /\ UNCHANGED <<SendWaitQueue, owed, entered, wire>>
  BY <1>1, <1>2 DEF DpcDequeue, nicVars
<1>5. PICK q : q = Tail(SendWaitQueue)
  OBVIOUS
<1>6. NotBegun = SendWaitQueue /\ NotBegun' = q
  BY <1>3, <1>4, <1>5 DEF NotBegun
<1>7. /\ l \in Nbls /\ q \in Seq(Nbls) /\ ~ In(q, l)
      /\ \A x \in Nbls : In(q, x) => In(SendWaitQueue, x)
      /\ In(SendWaitQueue, l)
  BY <1>1, <1>3, <1>5, InTail DEF SendState, QueueInv
<1>8. /\ Fits(SendWaitQueue, NextSend)
      /\ InQueue = QueueOf(SendWaitQueue, NextSend)
  BY <1>6, NotBegunIs
<1>9. Fits(q, NextSend) /\ k \in 1 .. NbCount[l]
  BY <1>2, <1>3, <1>7, <1>8 DEF Fits
<1>10. SendWaitQueue = <<l>> \o q
  <2>1. PICK w : w = SendWaitQueue
    OBVIOUS
  <2>2. w \in Seq(Nbls) /\ w # <<>>
    BY <1>3, <2>1
  <2>. HIDE <2>1, <1>1, <1>5
  <2>3. w = <<Head(w)>> \o Tail(w)
    BY <2>2
  <2>. QED BY <1>1, <1>5, <2>1, <2>3
<1>11. InQueue = From(l, k) \o QueueOf(q, NextSend)
  BY <1>2, <1>7, <1>8, <1>9, <1>10, QueueCons
<1>12. InQueue' = QueueOf(q, NextSend)
  <2>1. NextSend' \in [Nbls -> Nat]
    BY <1>3, <1>4
  <2>2. \A x \in Nbls : In(q, x) => NextSend'[x] = NextSend[x]
    BY <1>3, <1>4, <1>7
  <2>3. QueueOf(q, NextSend') = QueueOf(q, NextSend)
    BY <1>9, <2>1, <2>2, QueueSameNext
  <2>. QED BY <1>6, <2>3 DEF InQueue, QueueOf
<1>13. InLoop = <<>> /\ InLoop' = From(l, k)
  <2>1. InLoop = <<>>
    BY <1>3 DEF InLoop
  <2>2. xmit'.pc = "loop" /\ xmit'.nbl = l /\ xmit'.nb = k
    BY <1>4
  <2>. QED BY <2>1, <2>2 DEF InLoop
<1>14. InRing' = InRing
  BY RingSame DEF DpcDequeue
<1>15. Pending' = Pending
  <2>1. PICK f, c : f = From(l, k) /\ c = QueueOf(q, NextSend)
    OBVIOUS
  <2>2. f \in Seq(Nbs) /\ c \in Seq(Nbs)
    <3>1. k \in 1 .. NbCount[l] + 1
      <4>1. NbCount[l] \in Nat
        BY <1>7, Sizes
      <4>. QED BY <1>9, <4>1
    <3>. QED BY <1>7, <1>9, <2>1, <3>1, FromParts, QueueType
  <2>3. PICK a : a = InRing
    OBVIOUS
  <2>4. a \in Seq(Nbs)
    BY <2>3, Typed
  <2>5. a \o f \o c = a \o <<>> \o (f \o c)
    <3>. HIDE <2>1, <2>3
    <3>. QED BY <2>2, <2>4
  <2>. QED BY <1>11, <1>12, <1>13, <1>14, <2>1, <2>3, <2>5, Zenon DEF Pending
<1>. QED BY <1>4, <1>15, StateSame

(* The lists that are completed have no frame that is pending.             *)
LEMMA CompleteServes ==
  ASSUME RingState, SendState, Calm, NEW u, SentFirst(u), DpcComplete
  PROVE  \/ UNCHANGED <<ListState, Pending, wire>>
         \/ \E S \in SUBSET Nbls : Service!Complete(S)
<1>. DEFINE done == CompleteNetBufferLists
            S == {done[k] : k \in 1 .. Len(done)}
<1>1. done \in Seq(Nbls) /\ owed \in [Nbls -> Int]
  BY DEF RingState, SendTypes, ListTypes
<1>2. /\ owed' = Completed(S) /\ entered' = entered /\ wire' = wire
      /\ UNCHANGED <<tcbVars, tbdVars, xmit, SendWaitQueue, NextSend>>
      /\ ~ DpcSends
  BY DEF DpcComplete, nicVars, waitVars, DpcSends
<1>3. S \subseteq Nbls /\ \A l \in S : In(done, l)
  BY <1>1 DEF In
<1>4. \A l \in S : /\ owed[l] = 1 /\ l \notin entered /\ Held(l) = {}
                   /\ ~ Queued(l) /\ ~ Live(l)
  BY <1>2, <1>3, DoneIsNowhere DEF Done
<1>. HIDE DEF S, done
<1>5. Pending' = Pending
  <2>1. InRing' = InRing
    BY <1>2, RingSame
  <2>2. InLoop' = InLoop /\ InQueue' = InQueue
    BY <1>2, QueueLeft
  <2>. QED BY <2>1, <2>2 DEF Pending
<1>6. CASE S = {}
  <2>1. owed' = owed
    BY <1>1, <1>2, <1>6 DEF Completed
  <2>. QED BY <1>2, <1>5, <2>1, StateSame
<1>7. CASE S # {}
  <2>1. \A l \in S : ListState[l] = "accepted"
    BY <1>3, <1>4 DEF ListState
  <2>2. ASSUME NEW e, In(Pending, e), e[1] \in S PROVE FALSE
    <3>1. PICK a, b, c : a = InRing /\ b = InLoop /\ c = InQueue
      OBVIOUS
    <3>2. a \in Seq(Nbs) /\ b \in Seq(Nbs) /\ c \in Seq(Nbs)
      BY <3>1, Typed
    <3>3. In(a \o b \o c, e)
      BY <2>2, <3>1, Zenon DEF Pending
    <3>4. In(a, e) \/ In(b, e) \/ In(c, e)
      <4>. HIDE <3>1
      <4>1. PICK y : y = a \o b
        OBVIOUS
      <4>2. y \in Seq(Nbs)
        BY <3>2, <4>1
      <4>3. In(y \o c, e)
        BY <3>3, <4>1, Zenon
      <4>4. In(y, e) \/ In(c, e)
        BY <3>2, <4>2, <4>3, InConcat
      <4>5. In(a \o b, e) => In(a, e) \/ In(b, e)
        BY <3>2, InConcat
      <4>. QED BY <4>1, <4>4, <4>5, Zenon
    <3>5. ~ In(InRing, e)
      BY <1>4, <2>2, RingType
    <3>6. ~ In(InLoop, e)
      <4>1. In(InLoop, e) => e[1] = xmit.nbl /\ Live(xmit.nbl)
        BY LoopType
      <4>. QED BY <1>4, <2>2, <4>1
    <3>7. ~ In(InQueue, e)
      <4>1. ASSUME In(InQueue, e)
            PROVE  \E l \in Nbls : In(NotBegun, l) /\ e[1] = l
        <5>1. Fits(NotBegun, NextSend) /\ InQueue = QueueOf(NotBegun, NextSend)
          BY NotBegunIs
        <5>. QED BY <4>1, <5>1, QueueParts
      <4>2. \A l \in Nbls : In(NotBegun, l) => Queued(l)
        BY NotBegunIs
      <4>. QED BY <1>4, <2>2, <4>1, <4>2
    <3>. QED BY <3>1, <3>4, <3>5, <3>6, <3>7, Zenon
  <2>3. \A k \in 1 .. Len(Pending) : Pending[k][1] \notin S
    BY <2>2 DEF In
  <2>4. ListState' = [l \in Nbls |-> IF l \in S THEN "ndis" ELSE ListState[l]]
    <3>1. ASSUME NEW l \in Nbls
          PROVE  ListState'[l] = IF l \in S THEN "ndis" ELSE ListState[l]
      <4>1. owed'[l] = IF l \in S THEN 0 ELSE owed[l]
        BY <1>1, <1>2, <1>4 DEF Completed
      <4>. QED BY <1>2, <4>1 DEF ListState
    <3>2. ListState' = [l \in Nbls |-> ListState'[l]]
      BY DEF ListState
    <3>. QED BY <3>1, <3>2, Zenon
  <2>5. Service!Complete(S)
    BY <1>2, <1>5, <1>7, <2>1, <2>3, <2>4, Zenon
    DEF Service!Complete, Pending
  <2>. QED BY <1>3, <2>5
<1>. QED BY <1>6, <1>7

(* The NIC sends the frame that is pending first.                          *)
LEMMA TransmitServes ==
  ASSUME RingState, RingState', SendState, "async" \notin Env, Given, LastTbds,
         NEW s, NEW off, NEW k, Layout(s, off), Owned(s, off, k),
         NEW u, SentFirst(u), NicTransmit
  PROVE  \/ UNCHANGED <<ListState, Pending, wire>>
         \/ Service!Transmit
<1>1. ListState' = ListState
  BY StateSame DEF NicTransmit, nblVars
<1>2. InLoop' = InLoop /\ InQueue' = InQueue
  BY QueueLeft DEF NicTransmit, waitVars, nblVars
<1>3. CASE tbd[txNext].last
  <2>1. /\ InRing # <<>> /\ InRing' = Tail(InRing)
        /\ tbd[txNext].frame = Head(InRing)
    BY <1>3, RingTransmit
  <2>2. wire' = tbd[txNext].frame
    BY <1>3 DEF NicTransmit
  <2>3. PICK a, b, c : a = InRing /\ b = InLoop /\ c = InQueue
    OBVIOUS
  <2>4. a \in Seq(Nbs) /\ b \in Seq(Nbs) /\ c \in Seq(Nbs) /\ a # <<>>
    BY <2>1, <2>3, Typed
  <2>5. /\ a \o b \o c # <<>> /\ Head(a \o b \o c) = Head(a)
        /\ Tail(a \o b \o c) = Tail(a) \o b \o c
    <3>. HIDE <2>1, <2>2, <2>3
    <3>1. PICK y : y = b \o c
      OBVIOUS
    <3>2. y \in Seq(Nbs) /\ a \o b \o c = a \o y
      BY <2>4, <3>1
    <3>3. Tail(a) \o b \o c = Tail(a) \o y
      BY <2>4, <3>1
    <3>4. PICK w : w = a \o y
      OBVIOUS
    <3>5. /\ w \in Seq(Nbs) /\ Len(w) = Len(a) + Len(y) /\ w # <<>>
          /\ Head(w) = Head(a)
      BY <2>4, <3>2, <3>4
    <3>6. Tail(w) = Tail(a) \o y
      BY <2>4, <3>2, <3>4, <3>5
    <3>. QED BY <3>2, <3>3, <3>4, <3>5, <3>6, Zenon
  <2>6. /\ InRing \o InLoop \o InQueue # <<>>
        /\ wire' = Head(InRing \o InLoop \o InQueue)
        /\ (InRing \o InLoop \o InQueue)' = Tail(InRing \o InLoop \o InQueue)
    BY <1>2, <2>1, <2>2, <2>3, <2>5, Zenon
  <2>. QED BY <1>1, <2>6, Zenon DEF Service!Transmit
<1>4. CASE ~ tbd[txNext].last
  <2>1. InRing' = InRing
    BY <1>4, RingTransmit
  <2>2. wire' = wire
    BY <1>4 DEF NicTransmit
  <2>. QED BY <1>1, <1>2, <2>1, <2>2 DEF Pending
<1>. QED BY <1>3, <1>4

(* Steps that the service does not see leave all it sees alone.            *)
LEMMA StillServes ==
  ASSUME RingState, RingState', "async" \notin Env,
         NEW s, NEW off, Layout(s, off), NEW u, SentFirst(u),
         \/ Silent \/ DpcFreeTcb
         \/ \E m \in maps, n \in 1 .. NIC_MAX_PHYS_BUF_COUNT :
              MpProcessSGList(m[1], m[2], n)
  PROVE  UNCHANGED <<ListState, Pending, wire>>
<1>1. UNCHANGED <<xmit, SendWaitQueue, NextSend, owed, entered, wire>>
  BY DEF Silent, DpcFreeTcb, MpProcessSGList, waitVars, nblVars, nicVars
<1>2. InRing' = InRing
  <2>1. CASE Silent
    BY <2>1, RingSame DEF Silent
  <2>2. CASE DpcFreeTcb
    BY <2>2, RingFree
  <2>3. CASE \E m \in maps, n \in 1 .. NIC_MAX_PHYS_BUF_COUNT :
               MpProcessSGList(m[1], m[2], n)
    BY <2>3, RingGive
  <2>. QED BY <2>1, <2>2, <2>3
<1>. QED BY <1>1, <1>2, QueueLeft, StateSame DEF Pending

(* At first nothing is pending.                                            *)
LEMMA InitServes == Init => Service!Init
<1>. SUFFICES ASSUME Init PROVE Service!Init
  OBVIOUS
<1>1. RingState
  BY RingInvInit
<1>2. SentFirst(0) /\ nBusySend - 0 = 0
  BY DEF SentFirst, Init
<1>3. InRing = <<>>
  <2>1. InRing \in Seq(Nbs) /\ Len(InRing) = 0
    BY <1>1, <1>2, RingRuleHolds, Zenon DEF RingRule
  <2>. QED BY <2>1
<1>4. InLoop = <<>>
  BY DEF InLoop, Init, NoXmit
<1>5. InQueue = <<>>
  <2>1. NotBegun = <<>>
    BY DEF NotBegun, Init, NoXmit
  <2>. QED BY <2>1, QueueEmpty DEF InQueue, QueueOf
<1>6. InRing \o InLoop \o InQueue = <<>>
  BY <1>3, <1>4, <1>5
<1>7. ListState = [l \in Nbls |-> "ndis"] /\ wire = NULL
  BY DEF ListState, Init
<1>. QED BY <1>6, <1>7, Zenon DEF Service!Init

(* Together.                                                               *)
LEMMA StepServes ==
  ASSUME ServiceEnv, RingState, RingState', SendState, Calm, Given, LastTbds,
         NicInv, [Next]_sendVars
  PROVE  [Service!Next]_(Service!serviceVars)
<1>1. PICK s, off, k : Layout(s, off) /\ Owned(s, off, k)
  BY DEF NicInv
<1>2. "async" \notin Env
  BY DEF ServiceEnv
<1>3. PICK u : SentFirst(u)
  BY <1>1, <1>2, InOrder
<1>4. UNCHANGED <<ListState, Pending, wire>> =>
        UNCHANGED Service!serviceVars
  BY DEF Pending, Service!serviceVars
<1>5. ASSUME NEW l \in Nbls, \/ MPSendEnter(l) \/ MPSendNoLink(l)
                             \/ MPSendQueue(l) \/ MPSendStart(l)
      PROVE  Service!Next
  BY <1>3, <1>5, EnterServes, NoLinkServes, QueueServes, StartServes
  DEF Service!Next
<1>6. CASE XmitAllocateTcb \/ XmitMapped \/ XmitNoTcb \/ XmitDone \/ DpcDequeue
  BY <1>1, <1>3, <1>4, <1>6, AllocateServes, MappedServes, NoTcbServes,
     DoneServes, DequeueServes
<1>7. CASE NicTransmit
  BY <1>1, <1>2, <1>3, <1>4, <1>7, TransmitServes DEF Service!Next
<1>8. CASE DpcComplete
  BY <1>3, <1>4, <1>8, CompleteServes DEF Service!Next
<1>9. CASE \/ Silent \/ DpcFreeTcb
           \/ \E m \in maps, n \in 1 .. NIC_MAX_PHYS_BUF_COUNT :
                MpProcessSGList(m[1], m[2], n)
  BY <1>1, <1>2, <1>3, <1>4, <1>9, StillServes
<1>. QED BY <1>5, <1>6, <1>7, <1>8, <1>9, ServiceSteps, Zenon

(* The send path implements SendService.                                   *)
THEOREM ServiceHolds == ServiceEnv => (Spec => SendServiceSpec)
<1>. SUFFICES ASSUME ServiceEnv PROVE Spec => SendServiceSpec
  OBVIOUS
<1>. DEFINE More == Calm /\ Given /\ LastTbds /\ NicInv
<1>1. ListEnv /\ RingEnv /\ NicEnv /\ "async" \notin Env /\ "reset" \notin Env
  BY DEF ServiceEnv, ListEnv, RingEnv, NicEnv, TbdEnv
<1>2. RingInv => RingState
  BY <1>1 DEF RingInv, Sane
<1>3. SendInv /\ Calm => SendState
  BY DEF SendInv, Calm
<1>4. Init => More /\ Service!Init
  <2>1. Init => Calm /\ Given /\ LastTbds
    BY DEF Init, Calm, NoXmit, Given, LastTbds, Busy, ZeroTcb, ZeroTbd
  <2>. QED BY <2>1, LayoutInit, OwnedInit, InitServes DEF NicInv
<1>5. RingInv /\ SendInv /\ More /\ [Next]_sendVars => More'
  <2>. SUFFICES ASSUME RingInv, SendInv, More, [Next]_sendVars PROVE More'
    OBVIOUS
  <2>1. PICK s, off : Layout(s, off)
    BY DEF NicInv
  <2>2. Calm' /\ Given' /\ LastTbds'
    BY <1>2, <1>3, <2>1, CalmKeeps, GivenKeeps, LastKeeps
  <2>3. NicInv'
    BY <1>1, <1>2, NicKeeps DEF NicInv
  <2>. QED BY <2>2, <2>3
<1>6. /\ RingInv /\ RingInv' /\ SendInv /\ More /\ [Next]_sendVars
      => [Service!Next]_(Service!serviceVars)
  <2>. SUFFICES ASSUME RingInv, RingInv', SendInv, More, [Next]_sendVars
                PROVE  [Service!Next]_(Service!serviceVars)
    OBVIOUS
  <2>1. RingState'
    BY <1>1 DEF RingInv, Sane
  <2>. QED BY <1>2, <1>3, <2>1, StepServes
<1>. HIDE DEF More
<1>. QED BY <1>1, <1>4, <1>5, <1>6, RingInvariant, SendInvariant, PTL
     DEF Spec, SendServiceSpec, Service!ServiceSpec
=============================================================================
