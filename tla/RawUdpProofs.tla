------------------------------ MODULE RawUdpProofs ------------------------------
(***************************************************************************)
(* The frames of raw_udp.c verify: why two folds are enough in ipv4check,  *)
(* for words of every width and headers of every length; that every frame  *)
(* that main() sends carries the checksum and the lengths of its own       *)
(* message; and that the program implements MessageStream.  The last part  *)
(* is about udp.c, whose client raw_udp.c repeats.                         *)
(***************************************************************************)
EXTENDS RawUdp, UdpStream, FiniteSetTheorems, SequenceTheorems, WellFoundedInduction, TLAPS

(* Division by the range of a word. *)
LEMMA WordDivision ==
  ASSUME NEW n \in Nat
  PROVE  /\ n \div WordRange \in Nat
         /\ n % WordRange \in Words
         /\ n = (WordRange * (n \div WordRange)) + (n % WordRange)
BY WordAssumption, Z3 DEF Words

(* Quotient and remainder are determined by the number. *)
LEMMA WordQuotient ==
  ASSUME NEW n \in Int, NEW q \in Int, NEW r \in Words,
         n = (WordRange * q) + r
  PROVE  n \div WordRange = q /\ n % WordRange = r
BY WordAssumption, Z3 DEF Words

(* What the lower bits of a folded sum are: carries and word are added,    *)
(* and the carry of that addition, at most one, is added again.            *)
Folded(sum) == Fold(sum) % WordRange

LEMMA FoldedIs ==
  ASSUME NEW q \in Nat, NEW r \in Words, q < WordRange - 1
  PROVE  Folded((WordRange * q) + r) = OnesAdd(q, r)
<1> DEFINE n == (WordRange * q) + r
           s == q + r
<1>1. n \in Nat /\ n \div WordRange = q /\ n % WordRange = r
  <2>1. n \in Nat
    BY WordAssumption, Z3 DEF Words
  <2>2. QED
    BY <2>1, WordQuotient
<1>2. Fold(n) = s + (s \div WordRange)
  BY <1>1 DEF Fold
<1>3. s \in Nat /\ WordRange \in Nat /\ s < 2 * WordRange - 1
  BY WordAssumption DEF Words
<1> HIDE DEF n
<1>4. CASE s < WordRange
  <2>1. s = (WordRange * 0) + s /\ s \in Words
    BY <1>3, <1>4 DEF Words
  <2>2. s \div WordRange = 0 /\ s % WordRange = s
    BY <2>1, <1>3, WordQuotient
  <2>3. Fold(n) = s
    BY <1>2, <1>3, <2>2
  <2>4. QED
    BY <1>4, <2>2, <2>3 DEF Folded, OnesAdd, n
<1>5. CASE s >= WordRange
  <2>1. s = (WordRange * 1) + (s - WordRange) /\ s - WordRange \in Words
    BY <1>3, <1>5 DEF Words
  <2>2. s \div WordRange = 1
    BY <2>1, <1>3, WordQuotient
  <2>3. Fold(n) = s + 1 /\ s + 1 \in Nat
    BY <1>2, <1>3, <2>2
  <2>4. s + 1 = (WordRange * 1) + (s + 1 - WordRange) /\ s + 1 - WordRange \in Words
    BY <1>3, <1>5 DEF Words
  <2>5. (s + 1) % WordRange = s + 1 - WordRange
    BY <2>3, <2>4, WordQuotient
  <2>6. OnesAdd(q, r) = s + 1 - WordRange
    BY <1>3, <1>5 DEF OnesAdd, Words
  <2>7. QED
    BY <2>3, <2>5, <2>6 DEF Folded, n
<1>6. QED
  BY <1>3, <1>4, <1>5, WordAssumption

(* Adding one more word before the folds, in the wide integer, is adding   *)
(* it with end-around carry after them, as long as the carries of the sum  *)
(* leave room for one more; the ten words of a header are far from that.   *)
(* This is the step of the induction in SumsAgree.                         *)
THEOREM FoldsSuffice ==
  ASSUME NEW n \in Nat, NEW w \in Words, n \div WordRange < WordRange - 2
  PROVE  /\ Folded(0) = 0
         /\ Folded(n + w) = OnesAdd(Folded(n), w)
<1> DEFINE q == n \div WordRange
           r == n % WordRange
<1>1. q \in Nat /\ r \in Words /\ n = (WordRange * q) + r /\ q < WordRange - 2
  BY WordDivision
<1> HIDE DEF q, r
<1>2. Folded(n) = OnesAdd(q, r)
  BY <1>1, FoldedIs, WordAssumption
<1>3. Folded(0) = 0
  <2>1. 0 \in Words /\ 0 = (WordRange * 0) + 0 /\ 0 < WordRange - 1
    BY WordAssumption DEF Words
  <2>2. QED
    BY <2>1, FoldedIs, WordAssumption DEF OnesAdd
<1>4. CASE r + w < WordRange
  <2>1. r + w \in Words /\ n + w = (WordRange * q) + (r + w)
    BY <1>1, <1>4, WordAssumption DEF Words
  <2>2. Folded(n + w) = OnesAdd(q, r + w)
    BY <1>1, <2>1, FoldedIs, WordAssumption
  <2>3. OnesAdd(q, r + w) = OnesAdd(OnesAdd(q, r), w)
    BY <1>1, <1>4, WordAssumption DEF OnesAdd, Words
  <2>4. QED
    BY <1>2, <1>3, <2>2, <2>3
<1>5. CASE r + w >= WordRange
  <2>1. r + w - WordRange \in Words /\ q + 1 \in Nat /\ q + 1 < WordRange - 1
    BY <1>1, <1>5, WordAssumption DEF Words
  <2>2. n + w = (WordRange * (q + 1)) + (r + w - WordRange)
    BY <1>1, WordAssumption, Z3 DEF Words
  <2>3. Folded(n + w) = OnesAdd(q + 1, r + w - WordRange)
    BY <2>1, <2>2, FoldedIs, WordAssumption
  <2>4. OnesAdd(q + 1, r + w - WordRange) = OnesAdd(OnesAdd(q, r), w)
    BY <1>1, <1>5, WordAssumption DEF OnesAdd, Words
  <2>5. QED
    BY <1>2, <1>3, <2>3, <2>4
<1>6. QED
  BY <1>1, <1>4, <1>5, WordAssumption DEF Words

(* The checksum, added to the folded sum it was computed from, gives a     *)
(* word of ones, which is what a receiver of the header looks for; also    *)
(* when the second fold of ipv4check leaves a bit above the word.          *)
THEOREM CheckCompletes ==
  ASSUME NEW n \in Nat
  PROVE  OnesAdd(Folded(n), Answer(n)) = WordRange - 1
<1> DEFINE f == Fold(n)
           k == f \div WordRange
           v == f % WordRange
<1>1. f \in Nat
  <2> DEFINE s == (n \div WordRange) + (n % WordRange)
  <2>1. s \in Nat
    BY WordDivision DEF Words
  <2>2. s \div WordRange \in Nat
    BY <2>1, WordDivision
  <2>3. f = s + (s \div WordRange)
    BY DEF Fold
  <2> HIDE DEF s, f
  <2>4. QED
    BY <2>1, <2>2, <2>3
<1> HIDE DEF f
<1>2. k \in Nat /\ v \in Words /\ f = (WordRange * k) + v
  BY <1>1, WordDivision
<1> HIDE DEF k, v
<1>3. WordRange - 1 - f = (WordRange * (-k)) + (WordRange - 1 - v)
  BY <1>1, <1>2, WordAssumption, Z3 DEF Words
<1>4. WordRange - 1 - f \in Int /\ -k \in Int /\ WordRange - 1 - v \in Words
  BY <1>1, <1>2, WordAssumption DEF Words
<1>5. (WordRange - 1 - f) % WordRange = WordRange - 1 - v
  BY <1>3, <1>4, WordQuotient
<1>6. Answer(n) = WordRange - 1 - v /\ Folded(n) = v
  BY <1>5 DEF Answer, Folded, f, v
<1>7. QED
  BY <1>2, <1>6, WordAssumption DEF OnesAdd, Words

--------------------------------------------------------------------------------
(* Induction over the natural numbers, for a set that contains 0 and with  *)
(* every number its successor.                                             *)
LEMMA SetInduction ==
  ASSUME NEW S, 0 \in S, \A n \in Nat : n \in S => n + 1 \in S
  PROVE  Nat \subseteq S
<1> DEFINE R == OpToRel(<, Nat)
           T == Nat \ S
<1> SUFFICES ASSUME T # {}
             PROVE  FALSE
  OBVIOUS
<1>1. IsWellFoundedOn(R, Nat)
  BY NatLessThanWellFounded, Zenon
<1>2. \A a, b \in Nat : a < b => <<a, b>> \in R
  BY DEF OpToRel
<1> HIDE DEF R
<1>3. PICK x \in T : \A y \in T : ~ (<<y, x>> \in R)
  <2>1. T \subseteq Nat
    OBVIOUS
  <2>2. QED
    BY <1>1, <2>1, WFMin
<1>4. x # 0 /\ x \in Nat
  OBVIOUS
<1>5. x - 1 \in Nat /\ x - 1 < x
  BY <1>4
<1>6. x - 1 \in S
  BY <1>2, <1>3, <1>4, <1>5
<1>7. (x - 1) + 1 \in S
  BY <1>5, <1>6
<1>8. QED
  BY <1>4, <1>7

(* s holds the sums of the first words of d, in the plain way of ipv4check *)
(* or with the carry brought around after every addition.                  *)
PlainSums(s, d, n) == s = [i \in 0 .. n |-> IF i = 0 THEN 0 ELSE s[i - 1] + d[i]]
OnesSums(s, d, n)  == s = [i \in 0 .. n |-> IF i = 0 THEN 0 ELSE OnesAdd(s[i - 1], d[i])]

(* A table of sums can be continued by one more word. *)
LEMMA PlainSumsExtend ==
  ASSUME NEW d, NEW m \in Nat, NEW s, PlainSums(s, d, m)
  PROVE  \E t : PlainSums(t, d, m + 1)
<1> DEFINE t == [i \in 0 .. m + 1 |-> IF i \in 0 .. m THEN s[i] ELSE s[m] + d[m + 1]]
<1>1. ASSUME NEW i \in 0 .. m + 1
      PROVE  t[i] = IF i = 0 THEN 0 ELSE t[i - 1] + d[i]
  <2>1. CASE i = 0
    BY <2>1 DEF PlainSums
  <2>2. CASE i \in 1 .. m
    <3>1. t[i] = s[i] /\ t[i - 1] = s[i - 1]
      BY <2>2
    <3>2. s[i] = s[i - 1] + d[i]
      BY <2>2 DEF PlainSums
    <3>3. QED
      BY <2>2, <3>1, <3>2
  <2>3. CASE i = m + 1
    <3>1. t[i] = s[m] + d[m + 1] /\ t[i - 1] = s[m]
      BY <2>3
    <3>2. QED
      BY <2>3, <3>1
  <2>4. i = 0 \/ i \in 1 .. m \/ i = m + 1
    OBVIOUS
  <2>5. QED
    BY <2>1, <2>2, <2>3, <2>4
<1>2. t = [i \in 0 .. m + 1 |-> t[i]]
  OBVIOUS
<1> HIDE DEF t
<1>3. PlainSums(t, d, m + 1)
  BY <1>1, <1>2 DEF PlainSums
<1>4. QED
  BY <1>3

LEMMA OnesSumsExtend ==
  ASSUME NEW d, NEW m \in Nat, NEW s, OnesSums(s, d, m)
  PROVE  \E t : OnesSums(t, d, m + 1)
<1> DEFINE t == [i \in 0 .. m + 1 |-> IF i \in 0 .. m THEN s[i] ELSE OnesAdd(s[m], d[m + 1])]
<1>1. ASSUME NEW i \in 0 .. m + 1
      PROVE  t[i] = IF i = 0 THEN 0 ELSE OnesAdd(t[i - 1], d[i])
  <2>1. CASE i = 0
    BY <2>1 DEF OnesSums
  <2>2. CASE i \in 1 .. m
    <3>1. t[i] = s[i] /\ t[i - 1] = s[i - 1]
      BY <2>2
    <3>2. s[i] = OnesAdd(s[i - 1], d[i])
      BY <2>2 DEF OnesSums
    <3>3. QED
      BY <2>2, <3>1, <3>2
  <2>3. CASE i = m + 1
    <3>1. t[i] = OnesAdd(s[m], d[m + 1]) /\ t[i - 1] = s[m]
      BY <2>3
    <3>2. QED
      BY <2>3, <3>1
  <2>4. i = 0 \/ i \in 1 .. m \/ i = m + 1
    OBVIOUS
  <2>5. QED
    BY <2>1, <2>2, <2>3, <2>4
<1>2. t = [i \in 0 .. m + 1 |-> t[i]]
  OBVIOUS
<1> HIDE DEF t
<1>3. OnesSums(t, d, m + 1)
  BY <1>1, <1>2 DEF OnesSums
<1>4. QED
  BY <1>3

(* So there is a table of any length, and WordSum and OnesSum read the     *)
(* last entry of one.                                                      *)
LEMMA WordSumTable ==
  ASSUME NEW d, NEW n \in Nat
  PROVE  \E s : PlainSums(s, d, n) /\ WordSum(d, n) = s[n]
<1> DEFINE S == {m \in Nat : \E t : PlainSums(t, d, m)}
<1>1. 0 \in S
  <2> DEFINE t == [i \in 0 .. 0 |-> 0]
  <2>1. PlainSums(t, d, 0)
    BY DEF PlainSums
  <2>2. QED
    BY <2>1
<1>2. \A m \in Nat : m \in S => m + 1 \in S
  BY PlainSumsExtend
<1>3. n \in S
  BY <1>1, <1>2, SetInduction
<1> DEFINE s == CHOOSE f : f = [i \in 0 .. n |-> IF i = 0 THEN 0 ELSE f[i - 1] + d[i]]
<1>4. PlainSums(s, d, n)
  BY <1>3 DEF PlainSums
<1>5. WordSum(d, n) = s[n]
  BY DEF WordSum
<1>6. QED
  BY <1>4, <1>5

LEMMA OnesSumTable ==
  ASSUME NEW d, NEW n \in Nat, Len(d) = n
  PROVE  \E s : OnesSums(s, d, n) /\ OnesSum(d) = s[n]
<1> DEFINE S == {m \in Nat : \E t : OnesSums(t, d, m)}
<1>1. 0 \in S
  <2> DEFINE t == [i \in 0 .. 0 |-> 0]
  <2>1. OnesSums(t, d, 0)
    BY DEF OnesSums
  <2>2. QED
    BY <2>1
<1>2. \A m \in Nat : m \in S => m + 1 \in S
  BY OnesSumsExtend
<1>3. n \in S
  BY <1>1, <1>2, SetInduction
<1> DEFINE s == CHOOSE f : f = [i \in 0 .. n |-> IF i = 0 THEN 0 ELSE OnesAdd(f[i - 1], d[i])]
<1>4. OnesSums(s, d, n)
  BY <1>3 DEF OnesSums
<1>5. OnesSum(d) = s[n]
  BY DEF OnesSum
<1>6. QED
  BY <1>4, <1>5

(* The plain sums stay small: i words carry at most i times. *)
LEMMA PlainSumsBounded ==
  ASSUME NEW n \in Nat, NEW d \in [1 .. n -> Words], NEW s, PlainSums(s, d, n)
  PROVE  \A i \in 0 .. n : s[i] \in Nat /\ s[i] <= WordRange * i
<1> DEFINE S == {i \in Nat : i <= n => s[i] \in Nat /\ s[i] <= WordRange * i}
<1>1. 0 \in S
  BY WordAssumption DEF PlainSums
<1>2. ASSUME NEW i \in Nat, i \in S PROVE i + 1 \in S
  <2> SUFFICES ASSUME i + 1 <= n
               PROVE  s[i + 1] \in Nat /\ s[i + 1] <= WordRange * (i + 1)
    OBVIOUS
  <2>1. i + 1 \in 1 .. n /\ i + 1 \in 0 .. n /\ i + 1 # 0 /\ (i + 1) - 1 = i
    OBVIOUS
  <2>2. s[i + 1] = s[i] + d[i + 1]
    BY <2>1 DEF PlainSums
  <2>3. s[i] \in Nat /\ s[i] <= WordRange * i
    BY <1>2, <2>1
  <2>4. d[i + 1] \in Nat /\ d[i + 1] <= WordRange
    BY <2>1, WordAssumption DEF Words
  <2>5. WordRange * (i + 1) = (WordRange * i) + WordRange /\ WordRange * i \in Nat
    BY WordAssumption, Z3
  <2> DEFINE a == s[i]
             b == d[i + 1]
             c == WordRange * i
  <2> HIDE DEF a, b, c
  <2>6. a \in Nat /\ b \in Nat /\ c \in Nat /\ a <= c /\ b <= WordRange
    BY <2>3, <2>4, <2>5 DEF a, b, c
  <2>7. a + b \in Nat /\ a + b <= c + WordRange
    BY <2>6, WordAssumption
  <2>8. QED
    BY <2>2, <2>5, <2>7 DEF a, b, c
<1>3. Nat \subseteq S
  BY <1>1, <1>2, SetInduction
<1>4. QED
  BY <1>3

LEMMA Carries ==
  ASSUME NEW sum \in Nat, NEW i \in Nat, sum <= WordRange * i
  PROVE  sum \div WordRange <= i
<1> DEFINE q == sum \div WordRange
           r == sum % WordRange
<1>1. q \in Nat /\ r \in Words /\ sum = (WordRange * q) + r
  BY WordDivision
<1> HIDE DEF q, r
<1>2. WordRange * q <= WordRange * i
  BY <1>1, WordAssumption DEF Words
<1>3. q <= i
  BY <1>1, <1>2, WordAssumption, Z3
<1>4. QED
  BY <1>3 DEF q

(* The sum that ipv4check folds at the end is, folded, the sum with        *)
(* end-around carry of RFC 791, for headers of less than WordRange - 2     *)
(* words.                                                                  *)
LEMMA SumsAgree ==
  ASSUME NEW n \in Nat, n < WordRange - 2, NEW d \in [1 .. n -> Words]
  PROVE  WordSum(d, n) \in Nat /\ Folded(WordSum(d, n)) = OnesSum(d)
<1>0. Len(d) = n
  <2>1. d \in Seq(Words)
    BY SeqDef
  <2>2. Len(d) \in Nat /\ DOMAIN d = 1 .. Len(d)
    BY <2>1, LenProperties
  <2>3. 1 .. Len(d) = 1 .. n
    BY <2>2
  <2>4. QED
    BY <2>2, <2>3
<1>1. PICK s : PlainSums(s, d, n) /\ WordSum(d, n) = s[n]
  BY WordSumTable
<1>2. PICK t : OnesSums(t, d, n) /\ OnesSum(d) = t[n]
  BY <1>0, OnesSumTable
<1>3. \A i \in 0 .. n : s[i] \in Nat /\ s[i] <= WordRange * i
  BY <1>1, PlainSumsBounded
<1> DEFINE S == {i \in Nat : i <= n => Folded(s[i]) = t[i]}
<1>4. 0 \in S
  <2>1. s[0] = 0 /\ t[0] = 0
    BY <1>1, <1>2 DEF PlainSums, OnesSums
  <2>2. 0 \in Words /\ 0 \div WordRange < WordRange - 2
    <3>1. 0 \in Words /\ 0 = (WordRange * 0) + 0
      BY WordAssumption DEF Words
    <3>2. 0 \div WordRange = 0
      BY <3>1, WordQuotient
    <3>3. QED
      BY <3>1, <3>2, WordAssumption
  <2>3. Folded(0) = 0
    BY <2>2, FoldsSuffice
  <2>4. QED
    BY <2>1, <2>3
<1>5. ASSUME NEW i \in Nat, i \in S PROVE i + 1 \in S
  <2> SUFFICES ASSUME i + 1 <= n
               PROVE  Folded(s[i + 1]) = t[i + 1]
    OBVIOUS
  <2>1. i + 1 \in 1 .. n /\ i + 1 \in 0 .. n /\ i + 1 # 0 /\ (i + 1) - 1 = i /\ i \in 0 .. n
    OBVIOUS
  <2>2. s[i + 1] = s[i] + d[i + 1]
    BY <1>1, <2>1 DEF PlainSums
  <2>3. t[i + 1] = OnesAdd(t[i], d[i + 1])
    BY <1>2, <2>1 DEF OnesSums
  <2>4. Folded(s[i]) = t[i]
    BY <1>5, <2>1
  <2>5. s[i] \in Nat /\ s[i] <= WordRange * i /\ d[i + 1] \in Words
    BY <1>3, <2>1
  <2>6. s[i] \div WordRange <= i
    BY <2>5, Carries
  <2>7. s[i] \div WordRange < WordRange - 2
    <3>1. s[i] \div WordRange \in Nat
      BY <2>5, WordDivision
    <3>2. QED
      BY <2>1, <2>6, <3>1, WordAssumption
  <2>8. Folded(s[i] + d[i + 1]) = OnesAdd(Folded(s[i]), d[i + 1])
    BY <2>5, <2>7, FoldsSuffice
  <2>9. QED
    BY <2>2, <2>3, <2>4, <2>8
<1>6. Nat \subseteq S
  BY <1>4, <1>5, SetInduction
<1>7. Folded(s[n]) = t[n]
  BY <1>6
<1>8. QED
  BY <1>1, <1>2, <1>3, <1>7

(* A word that is zero leaves the sum of the others. *)
LEMMA WordSumWithout ==
  ASSUME NEW n \in Nat, NEW d \in [1 .. n -> Words], NEW k \in 1 .. n, NEW w \in Words,
         d[k] = 0
  PROVE  WordSum([d EXCEPT ![k] = w], n) = WordSum(d, n) + w
<1> DEFINE e == [d EXCEPT ![k] = w]
<1>0. e \in [1 .. n -> Words] /\ e[k] = w /\ \A i \in 1 .. n : i # k => e[i] = d[i]
  OBVIOUS
<1> HIDE DEF e
<1>1. PICK s : PlainSums(s, d, n) /\ WordSum(d, n) = s[n]
  BY WordSumTable
<1>2. PICK t : PlainSums(t, e, n) /\ WordSum(e, n) = t[n]
  BY WordSumTable
<1>3. \A i \in 0 .. n : s[i] \in Nat
  BY <1>1, PlainSumsBounded
<1>4. w \in Nat
  BY WordAssumption DEF Words
<1> DEFINE S == {i \in Nat : i <= n => t[i] = s[i] + IF i < k THEN 0 ELSE w}
<1>5. 0 \in S
  BY <1>1, <1>2 DEF PlainSums
<1>6. ASSUME NEW i \in Nat, i \in S PROVE i + 1 \in S
  <2> SUFFICES ASSUME i + 1 <= n
               PROVE  t[i + 1] = s[i + 1] + IF i + 1 < k THEN 0 ELSE w
    OBVIOUS
  <2>1. i + 1 \in 1 .. n /\ i + 1 \in 0 .. n /\ i + 1 # 0 /\ (i + 1) - 1 = i /\ i \in 0 .. n
    OBVIOUS
  <2>2. s[i + 1] = s[i] + d[i + 1]
    BY <1>1, <2>1 DEF PlainSums
  <2>3. t[i + 1] = t[i] + e[i + 1]
    BY <1>2, <2>1 DEF PlainSums
  <2>4. t[i] = s[i] + IF i < k THEN 0 ELSE w
    BY <1>6, <2>1
  <2>5. s[i] \in Nat /\ d[i + 1] \in Nat
    BY <1>3, <2>1, WordAssumption DEF Words
  <2>6. CASE i + 1 = k
    <3>1. e[i + 1] = w /\ d[i + 1] = 0 /\ i < k /\ ~(i + 1 < k)
      BY <1>0, <2>6
    <3>2. QED
      BY <1>4, <2>2, <2>3, <2>4, <2>5, <3>1
  <2>7. CASE i + 1 # k
    <3>1. e[i + 1] = d[i + 1] /\ (i < k <=> i + 1 < k)
      BY <1>0, <2>1, <2>7
    <3>2. QED
      BY <1>4, <2>2, <2>3, <2>4, <2>5, <3>1
  <2>8. QED
    BY <2>6, <2>7
<1>7. Nat \subseteq S
  BY <1>5, <1>6, SetInduction
<1>8. t[n] = s[n] + w
  BY <1>7
<1>9. QED
  BY <1>1, <1>2, <1>8 DEF e

(* The checksum is a word. *)
LEMMA AnswerType ==
  ASSUME NEW n \in Nat, n < WordRange - 2, NEW d \in [1 .. n -> Words]
  PROVE  Answer(WordSum(d, n)) \in Words
<1> DEFINE sum == WordSum(d, n)
           s == (sum \div WordRange) + (sum % WordRange)
<1>1. sum \in Nat
  BY SumsAgree
<1> HIDE DEF sum
<1>2. sum \div WordRange \in Nat /\ sum % WordRange \in Words
  BY <1>1, WordDivision
<1>3. s \in Nat
  BY <1>2, WordAssumption DEF Words
<1>4. s \div WordRange \in Nat /\ Fold(sum) = s + (s \div WordRange)
  BY <1>3, WordDivision DEF Fold
<1> HIDE DEF s
<1>5. WordRange - 1 - Fold(sum) \in Int
  BY <1>3, <1>4, WordAssumption
<1>6. Answer(sum) \in Words
  BY <1>5, WordAssumption, Z3 DEF Answer, Words
<1>7. QED
  BY <1>6 DEF sum

(* A header of any length in which ipv4check has put the checksum of the   *)
(* other words, at whichever place, is accepted by a receiver: its words   *)
(* add up to ones in the arithmetic of RFC 791.                            *)
THEOREM ChecksumVerifies ==
  ASSUME NEW n \in Nat, n < WordRange - 2, NEW d \in [1 .. n -> Words], NEW k \in 1 .. n,
         d[k] = 0
  PROVE  Verifies([d EXCEPT ![k] = Answer(WordSum(d, n))])
<1> DEFINE sum == WordSum(d, n)
           w == Answer(sum)
           e == [d EXCEPT ![k] = w]
<1>1. sum \in Nat /\ Folded(sum) = OnesSum(d) /\ sum <= WordRange * n
  <2>1. PICK s : PlainSums(s, d, n) /\ sum = s[n]
    BY WordSumTable
  <2>2. QED
    BY <2>1, PlainSumsBounded, SumsAgree
<1>2. w \in Words
  BY AnswerType
<1>3. e \in [1 .. n -> Words]
  BY <1>2
<1>4. WordSum(e, n) = sum + w
  BY <1>2, WordSumWithout
<1>5. OnesSum(e) = Folded(sum + w)
  BY <1>3, <1>4, SumsAgree
<1>6. QED
  <2>1. sum \div WordRange < WordRange - 2
    <3>1. sum \div WordRange \in Nat /\ sum \div WordRange <= n
      BY <1>1, Carries, WordDivision
    <3>2. QED
      BY <3>1, WordAssumption
  <2>2. QED
    BY <1>1, <1>2, <1>5, <2>1, FoldsSuffice, CheckCompletes DEF Verifies

--------------------------------------------------------------------------------
(* A number of 16 bits is found again by swapping its bytes twice. *)
LEMMA HtonsInverse ==
  ASSUME NEW n \in Nat, n < 65536
  PROVE  htons(n) \in Nat /\ htons(n) < 65536 /\ htons(htons(n)) = n
<1> DEFINE l == n % 256
           h == n \div 256
<1>1. l \in Nat /\ l < 256 /\ h \in Nat /\ h < 256 /\ n = (256 * h) + l
  OBVIOUS
<1>2. h % 256 = h /\ l % 256 = l
  BY <1>1
<1>3. htons(n) = (l * 256) + h
  BY <1>2 DEF htons
<1> HIDE DEF l, h
<1> DEFINE m == (l * 256) + h
<1>4. m \in Nat /\ m < 65536 /\ m % 256 = h /\ m \div 256 = l
  BY <1>1
<1> HIDE DEF m
<1>5. htons(m) = (h * 256) + l
  BY <1>4, <1>2 DEF htons
<1>6. (h * 256) + l = n
  BY <1>1
<1>7. QED
  BY <1>3, <1>4, <1>5, <1>6 DEF m

(* The text of every message is between 10 and 20 characters long. *)
LEMMA TextLength ==
  ASSUME NEW n \in Int
  PROVE  TextLen(n) \in 10 .. 20
<1> DEFINE P == {10, 100, 1000, 10000, 100000, 1000000, 10000000, 100000000, 1000000000}
           f == << 10, 100, 1000, 10000, 100000, 1000000, 10000000, 100000000, 1000000000 >>
<1>1. IsFiniteSet(1 .. 9) /\ Cardinality(1 .. 9) = 9
  <2>1. 1 \in Int /\ 9 \in Int /\ ~(1 > 9) /\ 9 - 1 + 1 = 9
    OBVIOUS
  <2>2. QED
    BY <2>1, FS_Interval
<1>2. f \in Surjection(1 .. 9, P)
  <2>1. f \in [1 .. 9 -> P]
    BY SMT
  <2>2. \A p \in P : \E i \in 1 .. 9 : f[i] = p
    BY SMT
  <2>3. QED
    BY <2>1, <2>2, SMT DEF Surjection
<1> HIDE DEF P, f
<1>3. IsFiniteSet(P) /\ Cardinality(P) <= 9
  BY <1>1, <1>2, FS_Surjection
<1>4. ASSUME NEW m \in Int PROVE Digits(m) \in 1 .. 10
  <2> DEFINE Q == {p \in P : p <= m}
  <2>1. Q \subseteq P
    OBVIOUS
  <2>2. IsFiniteSet(Q) /\ Cardinality(Q) <= Cardinality(P)
    BY <1>3, <2>1, FS_Subset
  <2>3. Cardinality(Q) \in Nat /\ Cardinality(P) \in Nat
    BY <1>3, <2>2, FS_CardinalityType
  <2>4. Digits(m) = 1 + Cardinality(Q)
    BY SMT DEF Digits, P
  <2> HIDE DEF Q
  <2>5. QED
    BY <1>3, <2>2, <2>3, <2>4
<1>5. QED
  BY <1>4 DEF TextLen

--------------------------------------------------------------------------------
(* A word holds every 16-bit number, as the uint16_t of the code does. *)
WideWords == WordRange >= 65536

(* Types of the headers and of a frame. *)
IpHeaders  == [1 .. 10 -> Words]
UdpHeaders == [source : Int, dest : Int, len : Int, check : Int]
Frames     == [ip : IpHeaders, udp : UdpHeaders, msg : Int, bytes : Int]

RawType ==
  /\ count \in Int /\ udp_data \in Int
  /\ ip_header \in IpHeaders /\ udp_header \in UdpHeaders
  /\ wire \in Seq(Frames)

(* The inductive invariant: when the frame is about to be sent its headers *)
(* are those of the message in the buffer, whatever was in them before.    *)
HeaderInv ==
  /\ RawType
  /\ pc = "send" =>
       /\ Verifies(ip_header)
       /\ htons(ip_header[TotLen]) = TotalLength - EtherSize
       /\ htons(udp_header.len) = UdpLength(TextLen(udp_data))
  /\ HeadersVerify

(* The header that is set up before the loop consists of words. *)
LEMMA InvariantHeaderType ==
  ASSUME WideWords, NEW s \in Words \X Words, NEW d \in Words \X Words
  PROVE  InvariantIpHeader(s, d) \in IpHeaders
<1>1. htonlLow16(54321) = 0
  <2>1. 54321 \div 65536 = 0 /\ 0 % 256 = 0 /\ 0 \div 256 = 0
    BY SMT
  <2>2. htons(0) = 0
    BY <2>1, SMT DEF htons
  <2>3. QED
    BY <2>1, <2>2, SMT DEF htonlLow16
<1>2. 69 \in Words /\ 0 \in Words /\ 4607 \in Words /\ 17 * 256 + 255 = 4607
  BY WordAssumption, SMT DEF WideWords, Words
<1>3. s[1] \in Words /\ s[2] \in Words /\ d[1] \in Words /\ d[2] \in Words
  OBVIOUS
<1>4. InvariantIpHeader(s, d) = << 69, 0, 0, 0, 4607, 0, s[1], s[2], d[1], d[2] >>
  BY <1>1, <1>2, SMT DEF InvariantIpHeader
<1>5. QED
  BY <1>2, <1>3, <1>4, SMT DEF IpHeaders

(* ipv4check of a header in which the checksum field was cleared. *)
LEMMA CheckedWords ==
  ASSUME NEW n \in Nat, n < WordRange - 2, WordCount(IpSize) = n,
         Check \in 1 .. n, TotLen \in 1 .. n, TotLen # Check,
         NEW h \in [1 .. n -> Words]
  PROVE  /\ Checked(h) \in [1 .. n -> Words]
         /\ Verifies(Checked(h))
         /\ Checked(h)[TotLen] = h[TotLen]
<1> DEFINE c == [h EXCEPT ![Check] = 0]
           w == Answer(WordSum(c, n))
<1>1. 0 \in Words
  BY WordAssumption DEF Words
<1>2. c \in [1 .. n -> Words] /\ c[Check] = 0 /\ c[TotLen] = h[TotLen]
  BY <1>1
<1>3. Checked(h) = [c EXCEPT ![Check] = w]
  BY DEF Checked, ipv4check
<1> HIDE DEF c
<1>4. Verifies([c EXCEPT ![Check] = w])
  BY <1>2, ChecksumVerifies
<1>5. w \in Words
  BY <1>2, AnswerType
<1> HIDE DEF w
<1>6. QED
  BY <1>2, <1>3, <1>4, <1>5

LEMMA CheckedVerifies ==
  ASSUME WideWords, NEW h \in IpHeaders
  PROVE  /\ Checked(h) \in IpHeaders
         /\ Verifies(Checked(h))
         /\ Checked(h)[TotLen] = h[TotLen]
<1>1. PICK n \in Nat : n = 10
  OBVIOUS
<1>2. /\ n < WordRange - 2 /\ WordCount(IpSize) = n
      /\ Check \in 1 .. n /\ TotLen \in 1 .. n /\ TotLen # Check
      /\ IpHeaders = [1 .. n -> Words]
  BY <1>1, WordAssumption, SMT DEF WideWords, WordCount, IpSize, Check, TotLen,
     IpHeaders
<1>3. QED
  BY <1>2, CheckedWords

(* The lengths in the headers: nothing is cut off, and the receiver reads  *)
(* what was meant.                                                         *)
LEMMA Lengths ==
  ASSUME udp_data \in Int
  PROVE  /\ TotalLength = HeaderSize + TextLen(udp_data)
         /\ TotalLength \in Int
         /\ TotalLength - EtherSize = UdpLength(TextLen(udp_data)) + IpSize
         /\ htons(TotalLength - EtherSize) \in Nat
         /\ htons(TotalLength - EtherSize) < 65536
         /\ htons(htons(TotalLength - EtherSize)) = TotalLength - EtherSize
         /\ htons(UdpLength(TextLen(udp_data))) \in Nat
         /\ htons(htons(UdpLength(TextLen(udp_data)))) = UdpLength(TextLen(udp_data))
<1> DEFINE t == TextLen(udp_data)
<1>1. t \in 10 .. 20
  BY TextLength
<1> HIDE DEF t
<1>2. /\ (HeaderSize + t) % 65536 = HeaderSize + t /\ HeaderSize + t \in Int
      /\ HeaderSize + t - EtherSize = UdpLength(t) + IpSize
  BY <1>1, SMT DEF HeaderSize, EtherSize, IpSize, UdpSize, UdpLength
<1>3. /\ HeaderSize + t - EtherSize \in Nat /\ HeaderSize + t - EtherSize < 65536
      /\ UdpLength(t) \in Nat /\ UdpLength(t) < 65536
  BY <1>1, SMT DEF HeaderSize, EtherSize, IpSize, UdpSize, UdpLength
<1>4. TotalLength = HeaderSize + t
  BY <1>2, SMT DEF TotalLength, t
<1>5. /\ htons(HeaderSize + t - EtherSize) \in Nat
      /\ htons(HeaderSize + t - EtherSize) < 65536
      /\ htons(htons(HeaderSize + t - EtherSize)) = HeaderSize + t - EtherSize
  BY <1>3, HtonsInverse, SMT
<1>6. htons(UdpLength(t)) \in Nat /\ htons(htons(UdpLength(t))) = UdpLength(t)
  BY <1>3, HtonsInverse, SMT
<1> DEFINE L == HeaderSize + t - EtherSize
           U == UdpLength(t)
<1>7. TotalLength - EtherSize = L
  BY <1>1, <1>4, SMT DEF HeaderSize, EtherSize, IpSize, UdpSize
<1>8. htons(L) \in Nat /\ htons(L) < 65536 /\ htons(htons(L)) = L
  BY <1>5, SMT
<1>9. L = U + IpSize /\ htons(U) \in Nat /\ htons(htons(U)) = U
  BY <1>2, <1>6
<1>10. U = UdpLength(TextLen(udp_data))
  BY DEF t
<1> HIDE DEF L, U
<1>11. TotalLength = HeaderSize + TextLen(udp_data) /\ TotalLength \in Int
  BY <1>2, <1>4 DEF t
<1>12. QED
  BY <1>7, <1>8, <1>9, <1>10, <1>11, SMT

LEMMA HeaderInit == Init => HeaderInv
<1> SUFFICES ASSUME Init
             PROVE  HeaderInv
  OBVIOUS
<1>1. 0 \in Words
  BY WordAssumption DEF Words
<1>2. RawType
  BY <1>1 DEF Init, RawType, IpHeaders, UdpHeaders
<1>3. pc # "send" /\ wire = << >>
  BY DEF Init
<1>4. HeadersVerify
  BY <1>3 DEF HeadersVerify
<1>5. QED
  BY <1>2, <1>3, <1>4 DEF HeaderInv

(* Before the loop. *)
LEMMA SetUpStep ==
  ASSUME WideWords, HeaderInv, SetUp
  PROVE  HeaderInv'
<1>1. PICK local \in Addrs \cup {<<0, 0>>}, remote \in Addrs, port \in Ports :
         /\ ip_header' = InvariantIpHeader(local, remote)
         /\ udp_header' = [source |-> htons(4242), dest |-> htons(port), len |-> 0, check |-> 0]
  BY DEF SetUp
<1>2. pc' = "loop" /\ UNCHANGED <<packet_loop, count, udp_data, wire>>
  BY DEF SetUp
<1>3. local \in Words \X Words /\ remote \in Words \X Words /\ port \in Nat
  BY RawUdpAssumption, WordAssumption DEF Words
<1>4. ip_header' \in IpHeaders
  BY <1>1, <1>3, InvariantHeaderType
<1>5. \A n \in Nat : htons(n) \in Int
  BY SMT DEF htons
<1>6. udp_header' \in UdpHeaders
  <2>1. htons(4242) \in Int /\ htons(port) \in Int
    BY <1>3, <1>5, SMT
  <2> DEFINE a == htons(4242)
             b == htons(port)
  <2>2. udp_header' = [source |-> a, dest |-> b, len |-> 0, check |-> 0]
    BY <1>1
  <2> HIDE DEF a, b
  <2>3. QED
    BY <2>1, <2>2 DEF UdpHeaders, a, b
<1>7. HeadersVerify'
  BY <1>2 DEF HeaderInv, HeadersVerify, LengthsAgree
<1>8. RawType'
  BY <1>2, <1>4, <1>6 DEF HeaderInv, RawType
<1>9. QED
  BY <1>2, <1>7, <1>8 DEF HeaderInv

(* The length and the checksum of the previous frame are replaced. *)
LEMMA UpdateHeadersStep ==
  ASSUME WideWords, HeaderInv, UpdateHeaders
  PROVE  HeaderInv'
<1> DEFINE L == TotalLength - EtherSize
           U == UdpLength(TextLen(udp_data))
           g == [ip_header EXCEPT ![TotLen] = htons(L)]
<1>1. RawType /\ udp_data \in Int
  BY DEF HeaderInv, RawType
<1>2. htons(L) \in Nat /\ htons(L) < 65536 /\ htons(htons(L)) = L
  BY <1>1, Lengths
<1>3. htons(U) \in Int /\ htons(htons(U)) = U
  BY <1>1, Lengths
<1>4. /\ ip_header' = Checked(g)
      /\ udp_header' = [udp_header EXCEPT !.len = htons(U)]
      /\ pc' = "send"
      /\ UNCHANGED <<packet_loop, count, udp_data, wire>>
  BY DEF UpdateHeaders
<1>5. L' = L /\ U' = U
  BY <1>4 DEF TotalLength
<1> HIDE DEF L, U
<1>6. htons(L) \in Words
  BY <1>2, WordAssumption, SMT DEF WideWords, Words
<1>7. g \in IpHeaders /\ g[TotLen] = htons(L)
  BY <1>1, <1>6 DEF RawType, IpHeaders, TotLen
<1> HIDE DEF g
<1>8. ip_header' \in IpHeaders /\ Verifies(ip_header') /\ ip_header'[TotLen] = htons(L)
  BY <1>4, <1>7, CheckedVerifies
<1>9. udp_header' \in UdpHeaders /\ udp_header'.len = htons(U)
  BY <1>1, <1>3, <1>4 DEF RawType, UdpHeaders
<1>10. Verifies(ip_header)'
  BY <1>8 DEF Verifies, OnesSum, OnesAdd
<1>11. htons(ip_header'[TotLen]) = L' /\ htons(udp_header'.len) = U'
  BY <1>2, <1>3, <1>5, <1>8, <1>9
<1>12. HeadersVerify'
  BY <1>4 DEF HeaderInv, HeadersVerify, LengthsAgree
<1>13. RawType'
  BY <1>1, <1>4, <1>8, <1>9 DEF RawType
<1>14. QED
  BY <1>4, <1>10, <1>11, <1>12, <1>13 DEF HeaderInv, L, U

(* The frame goes out. *)
LEMMA SendToStep ==
  ASSUME HeaderInv, SendTo
  PROVE  HeaderInv'
<1> DEFINE f == [ip |-> ip_header, udp |-> udp_header, msg |-> udp_data, bytes |-> TotalLength]
<1>1. RawType /\ HeadersVerify /\ udp_data \in Int /\ wire \in Seq(Frames)
  BY DEF HeaderInv, RawType
<1>2. /\ Verifies(ip_header)
      /\ htons(ip_header[TotLen]) = TotalLength - EtherSize
      /\ htons(udp_header.len) = UdpLength(TextLen(udp_data))
  BY DEF HeaderInv, SendTo
<1>3. /\ TotalLength = HeaderSize + TextLen(udp_data) /\ TotalLength \in Int
      /\ TotalLength - EtherSize = UdpLength(TextLen(udp_data)) + IpSize
      /\ UdpLength(TextLen(udp_data)) \in Int
  <2>1. TextLen(udp_data) \in 10 .. 20
    BY <1>1, TextLength
  <2>2. UdpLength(TextLen(udp_data)) \in Int
    BY <2>1 DEF UdpLength
  <2>3. QED
    BY <1>1, <2>2, Lengths
<1>4. /\ wire' = Append(wire, f) /\ pc' = "sleep"
      /\ UNCHANGED <<packet_loop, count, ip_header, udp_header, udp_data>>
  BY DEF SendTo
<1>5. f.ip = ip_header /\ f.udp = udp_header /\ f.msg = udp_data /\ f.bytes = TotalLength
  OBVIOUS
<1>6. f \in Frames
  BY <1>1, <1>3 DEF RawType, Frames
<1> HIDE DEF f
<1>7. Verifies(f.ip) /\ LengthsAgree(f)
  <2>1. f.bytes = HeaderSize + TextLen(f.msg) /\ htons(f.ip[TotLen]) = f.bytes - EtherSize
    BY <1>2, <1>3, <1>5
  <2>2. htons(f.udp.len) = htons(f.ip[TotLen]) - IpSize
    BY <1>2, <1>3, <1>5 DEF IpSize
  <2>3. QED
    BY <1>2, <1>5, <2>1, <2>2 DEF LengthsAgree
<1>8. RawType'
  BY <1>1, <1>4, <1>6 DEF RawType
<1>9. HeadersVerify'
  <2> SUFFICES ASSUME NEW k \in 1 .. Len(wire')
               PROVE  Verifies(wire'[k].ip) /\ LengthsAgree(wire'[k])
    BY DEF HeadersVerify, LengthsAgree, Verifies, OnesSum, OnesAdd
  <2>1. CASE k \in 1 .. Len(wire)
    <3>1. wire'[k] = wire[k]
      BY <1>1, <1>4, <1>6, <2>1
    <3>2. QED
      BY <1>1, <2>1, <3>1 DEF HeadersVerify
  <2>2. CASE k = Len(wire) + 1
    <3>1. wire'[k] = f
      BY <1>1, <1>4, <1>6, <2>2
    <3>2. QED
      BY <1>7, <3>1
  <2>3. k \in 1 .. Len(wire) \/ k = Len(wire) + 1
    BY <1>1, <1>4, <1>6
  <2>4. QED
    BY <2>1, <2>2, <2>3
<1>10. QED
  BY <1>4, <1>8, <1>9 DEF HeaderInv

(* Every other step leaves the headers and the wire alone, and does not    *)
(* lead to sendto.                                                         *)
LEMMA OtherStep ==
  ASSUME HeaderInv,
         UNCHANGED <<ip_header, udp_header, wire>>,
         pc' # "send" \/ UNCHANGED <<pc, udp_data>>,
         count' \in Int, udp_data' \in Int
  PROVE  HeaderInv'
<1>1. RawType'
  BY DEF HeaderInv, RawType
<1>2. HeadersVerify'
  BY DEF HeaderInv, HeadersVerify, LengthsAgree
<1>3. CASE pc' # "send"
  BY <1>1, <1>2, <1>3 DEF HeaderInv
<1>4. CASE UNCHANGED <<pc, udp_data>>
  <2>1. TotalLength' = TotalLength
    BY <1>4 DEF TotalLength
  <2>2. QED
    BY <1>1, <1>2, <1>4, <2>1 DEF HeaderInv
<1>5. QED
  BY <1>3, <1>4

LEMMA HeaderStep ==
  ASSUME WideWords, HeaderInv, [Next]_vars
  PROVE  HeaderInv'
<1>1. count \in Int /\ udp_data \in Int
  BY DEF HeaderInv, RawType
<1>2. NextCount(count) \in Int
  BY <1>1, RawUdpAssumption DEF NextCount
<1>3. CASE SetUp
  BY <1>3, SetUpStep
<1>4. CASE UpdateHeaders
  BY <1>4, UpdateHeadersStep
<1>5. CASE SendTo
  BY <1>5, SendToStep
<1>6. CASE Format
  BY <1>1, <1>2, <1>6, OtherStep DEF Format
<1>7. CASE LoopTest
  <2>1. pc' # "send"
    BY <1>7 DEF LoopTest
  <2>2. QED
    BY <1>1, <1>7, <2>1, OtherStep DEF LoopTest
<1>8. CASE SetUpFails \/ SendToFails \/ Sleep
  BY <1>1, <1>8, OtherStep DEF SetUpFails, SendToFails, Sleep
<1>9. CASE StopLoop
  BY <1>1, <1>9, OtherStep DEF StopLoop
<1>10. CASE UNCHANGED vars
  BY <1>1, <1>10, OtherStep DEF vars
<1>11. QED
  BY <1>3, <1>4, <1>5, <1>6, <1>7, <1>8, <1>9, <1>10 DEF Next, Program, Failures, Ended

(* Every frame of raw_udp.c verifies: the header that is reused from frame *)
(* to frame goes out with the checksum and the lengths of its own message, *)
(* for every sequence of messages, address and port.  WordRange is at      *)
(* least the 2^16 of a uint16_t.                                           *)
THEOREM FramesVerifyHeaders ==
  ASSUME WideWords
  PROVE  Spec => []HeadersVerify
<1>1. HeaderInv => HeadersVerify
  BY DEF HeaderInv
<1>2. HeaderInv /\ [Next]_vars => HeaderInv'
  BY HeaderStep
<1>3. QED
  BY <1>1, <1>2, HeaderInit, PTL DEF Spec

--------------------------------------------------------------------------------
(* raw_udp implements MessageStream.                                       *)

(* The three parts of the refinement mapping. *)
Written  == Len(wire) + (IF pc \in {"headers", "send", "failed"} THEN 1 ELSE 0)
Released == Len(wire) - (IF pc = "sleep" THEN 1 ELSE 0)
Payloads == [k \in 1 .. Len(wire) |-> wire[k].msg]

(* count is the number of messages written, as an int that overflows, the  *)
(* buffer holds the message that is not yet on the wire, and the wire      *)
(* carries the values of count in the order it takes them.                 *)
CountInv ==
  /\ count = CountValue(Written)
  /\ pc \in {"headers", "send"} => udp_data = CountValue(Len(wire))
  /\ \A k \in 1 .. Len(wire) : wire[k].msg = CountValue(k - 1)

(* Quotient and remainder, for any divisor. *)
LEMMA Remainder ==
  ASSUME NEW M \in Nat, M > 0, NEW n \in Nat
  PROVE  /\ n % M \in 0 .. M - 1
         /\ (n + 1) % M = IF (n % M) + 1 = M THEN 0 ELSE (n % M) + 1
<1> DEFINE q == n \div M
           r == n % M
<1>1. q \in Nat /\ r \in 0 .. M - 1 /\ n = (M * q) + r
  BY Z3
<1> HIDE DEF q, r
<1>2. CASE r + 1 = M
  <2>1. n + 1 = (M * (q + 1)) + 0
    BY <1>1, <1>2, Z3
  <2>2. (n + 1) % M = 0
    BY <1>1, <2>1, Z3
  <2>3. QED
    BY <1>1, <1>2, <2>2 DEF r
<1>3. CASE r + 1 # M
  <2>1. n + 1 = (M * q) + (r + 1) /\ r + 1 \in 0 .. M - 1
    BY <1>1, <1>3, Z3
  <2>2. (n + 1) % M = r + 1
    BY <1>1, <2>1, Z3
  <2>3. QED
    BY <1>1, <1>3, <2>2 DEF r
<1>4. QED
  BY <1>2, <1>3

(* count++ takes the int from one of its values to the next, also when it  *)
(* overflows.                                                              *)
LEMMA CountsOn ==
  ASSUME NEW n \in Nat
  PROVE  CountValue(n + 1) = NextCount(CountValue(n))
<1> DEFINE M == 2 * (IntMax + 1)
           m == n % M
           p == (n + 1) % M
<1>1. M \in Nat /\ M > 0 /\ IntMax \in Nat
  BY RawUdpAssumption
<1>2. m \in 0 .. M - 1 /\ p = IF m + 1 = M THEN 0 ELSE m + 1
  BY <1>1, Remainder
<1>3. /\ CountValue(n) = IF m <= IntMax THEN m ELSE m - M
      /\ CountValue(n + 1) = IF p <= IntMax THEN p ELSE p - M
  BY DEF CountValue
<1> HIDE DEF m, p
<1>4. CASE m < IntMax
  BY <1>1, <1>2, <1>3, <1>4 DEF NextCount
<1>5. CASE m = IntMax
  BY <1>1, <1>2, <1>3, <1>5 DEF NextCount
<1>6. CASE m > IntMax
  BY <1>1, <1>2, <1>3, <1>6 DEF NextCount
<1>7. QED
  BY <1>1, <1>2, <1>4, <1>5, <1>6

LEMMA CountInit == Init => CountInv
<1> SUFFICES ASSUME Init
             PROVE  CountInv
  OBVIOUS
<1>1. wire = << >> /\ count = 0 /\ pc = "setup"
  BY DEF Init
<1>2. Len(wire) = 0 /\ Written = 0
  BY <1>1 DEF Written
<1>3. CountValue(0) = 0
  <2> DEFINE M == 2 * (IntMax + 1)
  <2>1. M \in Nat /\ M > 0 /\ IntMax \in Nat
    BY RawUdpAssumption
  <2>2. 0 % M = 0
    BY <2>1, Z3
  <2>3. QED
    BY <2>1, <2>2 DEF CountValue
<1>4. QED
  BY <1>1, <1>2, <1>3 DEF CountInv

(* The steps that leave count and the wire alone. *)
LEMMA CountKept ==
  ASSUME CountInv, UNCHANGED <<count, wire>>, Written' = Written,
         pc' \in {"headers", "send"} => pc \in {"headers", "send"} /\ udp_data' = udp_data
  PROVE  CountInv'
BY DEF CountInv, CountValue

LEMMA FormatCounts ==
  ASSUME HeaderInv, CountInv, Format
  PROVE  CountInv'
<1>1. /\ pc = "format" /\ pc' = "headers" /\ udp_data' = count /\ count' = NextCount(count)
      /\ wire' = wire
  BY DEF Format
<1>2. Len(wire) \in Nat
  BY DEF HeaderInv, RawType
<1>3. Written = Len(wire) /\ Written' = Len(wire) + 1
  BY <1>1, <1>2 DEF Written
<1>4. count = CountValue(Len(wire))
  BY <1>3 DEF CountInv
<1>5. count' = CountValue(Len(wire) + 1)
  BY <1>1, <1>2, <1>4, CountsOn
<1>6. QED
  BY <1>1, <1>3, <1>4, <1>5 DEF CountInv, CountValue

LEMMA SendToCounts ==
  ASSUME HeaderInv, CountInv, SendTo
  PROVE  /\ CountInv'
         /\ Len(wire') = Len(wire) + 1
         /\ Payloads' = Append(Payloads, CountValue(Len(wire)))
<1> DEFINE f == [ip |-> ip_header, udp |-> udp_header, msg |-> udp_data, bytes |-> TotalLength]
           n == Len(wire)
<1>1. wire \in Seq(Frames) /\ udp_data \in Int /\ n \in Nat /\ HeaderInv'
  BY SendToStep DEF HeaderInv, RawType
<1>2. /\ wire' = Append(wire, f) /\ pc = "send" /\ pc' = "sleep"
      /\ count' = count
  BY DEF SendTo
<1>3. f.msg = CountValue(n)
  BY <1>2 DEF CountInv
<1>4. wire' \in Seq(Frames)
  BY <1>1 DEF HeaderInv, RawType
<1> HIDE DEF f
<1>5. /\ Len(wire') = n + 1 /\ wire'[n + 1] = f
      /\ \A k \in 1 .. n : wire'[k] = wire[k]
  BY <1>1, <1>2
<1>6. Written' = Written
  BY <1>1, <1>2, <1>5 DEF Written
<1>7. ASSUME NEW k \in 1 .. n + 1 PROVE wire'[k].msg = CountValue(k - 1)
  <2>1. CASE k \in 1 .. n
    BY <1>5, <2>1 DEF CountInv
  <2>2. CASE k = n + 1
    BY <1>1, <1>3, <1>5, <2>2
  <2>3. QED
    BY <1>1, <2>1, <2>2
<1>8. CountInv'
  BY <1>2, <1>5, <1>6, <1>7 DEF CountInv, CountValue
<1>9. \A k \in 1 .. n : wire[k].msg \in Int
  <2>1. \A k \in 1 .. n : wire[k] \in Frames
    BY <1>1
  <2>2. QED
    BY <2>1 DEF Frames
<1>10. f.msg \in Int
  BY DEF f, HeaderInv, RawType
<1>11. Payloads' = [k \in 1 .. n + 1 |-> wire'[k].msg]
  BY <1>5 DEF Payloads
<1>12. Payloads \in Seq(Int) /\ Len(Payloads) = n
  <2>1. Payloads \in [1 .. n -> Int]
    BY <1>9 DEF Payloads
  <2>2. QED
    BY <1>1, <2>1, SeqDef, LenProperties
<1>13. Payloads' = Append(Payloads, f.msg)
  <2> DEFINE a == Append(Payloads, f.msg)
  <2>1. a \in Seq(Int) /\ Len(a) = n + 1 /\ a[n + 1] = f.msg
    BY <1>10, <1>12
  <2>2. \A k \in 1 .. n : a[k] = Payloads[k] /\ Payloads[k] = wire[k].msg
    BY <1>10, <1>12 DEF Payloads
  <2>3. DOMAIN a = 1 .. n + 1 /\ a = [k \in 1 .. n + 1 |-> a[k]]
    BY <2>1
  <2> HIDE DEF a
  <2>4. \A k \in 1 .. n + 1 : a[k] = wire'[k].msg
    BY <1>1, <1>5, <2>1, <2>2
  <2>5. a = [k \in 1 .. n + 1 |-> wire'[k].msg]
    BY <2>3, <2>4
  <2>6. QED
    BY <1>11, <2>5 DEF a
<1>14. QED
  BY <1>3, <1>5, <1>8, <1>13

LEMMA CountStep ==
  ASSUME HeaderInv, CountInv, [Next]_vars
  PROVE  CountInv'
<1>1. CASE Format
  BY <1>1, FormatCounts
<1>2. CASE SendTo
  BY <1>2, SendToCounts
<1>3. CASE SetUp
  BY <1>3, CountKept DEF SetUp, Written
<1>4. CASE LoopTest
  BY <1>4, CountKept DEF LoopTest, Written
<1>5. CASE UpdateHeaders
  BY <1>5, CountKept DEF UpdateHeaders, Written
<1>6. CASE SetUpFails \/ SendToFails \/ Sleep
  BY <1>6, CountKept DEF SetUpFails, SendToFails, Sleep, Written
<1>7. CASE StopLoop
  BY <1>7, CountKept DEF StopLoop, Written
<1>8. CASE UNCHANGED vars
  BY <1>8, CountKept DEF vars, Written
<1>9. QED
  BY <1>1, <1>2, <1>3, <1>4, <1>5, <1>6, <1>7, <1>8 DEF Next, Program, Failures, Ended

(* snprintf writes the next message, into the buffer that is free. *)
LEMMA FormatWrites ==
  ASSUME HeaderInv, Format
  PROVE  Stream!Write
<1>1. pc = "format" /\ pc' = "headers" /\ wire' = wire /\ Len(wire) \in Nat
  BY DEF Format, HeaderInv, RawType
<1>2. Written' = Written + 1 /\ Released' = Released /\ Payloads' = Payloads
  BY <1>1 DEF Written, Released, Payloads
<1>3. Written' \in Written + 1 .. Released + 1
  BY <1>1 DEF Written, Released
<1>4. QED
  BY <1>2, <1>3 DEF Stream!Write, Written, Released, Payloads

(* sendto transmits it, with the value of count it was written with. *)
LEMMA SendToTransmits ==
  ASSUME HeaderInv, CountInv, SendTo
  PROVE  Stream!Transmit
<1>1. pc = "send" /\ pc' = "sleep" /\ Len(wire) \in Nat
  BY DEF SendTo, HeaderInv, RawType
<1>2. Len(wire') = Len(wire) + 1 /\ Payloads' = Append(Payloads, CountValue(Len(wire)))
  BY SendToCounts
<1>3. Written' = Written /\ Released' = Released
  BY <1>1, <1>2 DEF Written, Released
<1>4. Len(Payloads) = Len(wire)
  BY <1>1 DEF Payloads
<1>5. Len(Payloads) < Written
  BY <1>1, <1>4 DEF Written
<1>6. QED
  BY <1>2, <1>3, <1>4, <1>5 DEF Stream!Transmit, Written, Released, Payloads

(* At the end of the round the buffer is free again. *)
LEMMA SleepReleases ==
  ASSUME HeaderInv, Sleep
  PROVE  Stream!Release
<1>1. pc = "sleep" /\ pc' = "loop" /\ wire' = wire /\ Len(wire) \in Nat
  BY DEF Sleep, HeaderInv, RawType
<1>2. Written' = Written /\ Payloads' = Payloads
  BY <1>1 DEF Written, Payloads
<1>3. Released' \in Released + 1 .. Len(wire)
  BY <1>1 DEF Released
<1>4. Len(Payloads) = Len(wire)
  BY <1>1 DEF Payloads
<1>5. QED
  BY <1>2, <1>3, <1>4 DEF Stream!Release, Written, Released, Payloads

(* The other steps move no message. *)
LEMMA OtherStutters ==
  ASSUME SetUp \/ SetUpFails \/ LoopTest \/ UpdateHeaders \/ SendToFails \/ StopLoop
         \/ UNCHANGED vars
  PROVE  UNCHANGED Stream!vars
<1>1. UNCHANGED <<Written, Released, Payloads>>
  BY DEF SetUp, SetUpFails, LoopTest, UpdateHeaders, SendToFails, StopLoop, vars,
         Written, Released, Payloads
<1>2. QED
  BY <1>1 DEF Stream!vars, Written, Released, Payloads

LEMMA RawStreamInit == Init => Stream!Init
<1> SUFFICES ASSUME Init
             PROVE  Stream!Init
  OBVIOUS
<1>1. wire = << >> /\ pc = "setup"
  BY DEF Init
<1>2. Written = 0 /\ Released = 0 /\ Payloads = << >>
  BY <1>1 DEF Written, Released, Payloads
<1>3. QED
  BY <1>2 DEF Stream!Init, Written, Released, Payloads

LEMMA RawStreamStep ==
  ASSUME HeaderInv, CountInv, [Next]_vars
  PROVE  Stream!Next \/ UNCHANGED Stream!vars
<1>1. CASE Format
  BY <1>1, FormatWrites DEF Stream!Next
<1>2. CASE SendTo
  BY <1>2, SendToTransmits DEF Stream!Next
<1>3. CASE Sleep
  BY <1>3, SleepReleases DEF Stream!Next
<1>4. CASE SetUp \/ SetUpFails \/ LoopTest \/ UpdateHeaders \/ SendToFails \/ StopLoop
           \/ UNCHANGED vars
  BY <1>4, OtherStutters
<1>5. QED
  BY <1>1, <1>2, <1>3, <1>4 DEF Next, Program, Failures, Ended

(* raw_udp implements the stream of messages for every width of the        *)
(* counter: each value of count goes out once, in the order count takes    *)
(* them across its overflow, and before the buffer is written again.       *)
THEOREM RawRefinement ==
  ASSUME WideWords
  PROVE  Spec => ImplementsStream
<1>1. HeaderInv /\ [Next]_vars => HeaderInv'
  BY HeaderStep
<1>2. HeaderInv /\ CountInv /\ [Next]_vars => CountInv'
  BY CountStep
<1>3. HeaderInv /\ CountInv /\ [Next]_vars => [Stream!Next]_(Stream!vars)
  BY RawStreamStep
<1>4. QED
  BY <1>1, <1>2, <1>3, HeaderInit, CountInit, RawStreamInit, PTL
     DEF Spec, ImplementsStream, Stream!Spec

--------------------------------------------------------------------------------
(* udp.c, whose client raw_udp.c does again over a raw socket. *)

(* Nothing was sent or printed after SIGINT where another round is still   *)
(* to be finished, so at most the current one is; and the server has one   *)
(* datagram to print exactly when it is about to print.                    *)
SigintInv ==
  /\ c_loop \/ c_pc \in {"format", "send"} => c_after = 0
  /\ s_loop \/ s_pc \in {"recv", "blocked", "print"} => s_after = 0
  /\ AtMostOneAfterSigint
  /\ OneLinePerDatagram

UdpInv == TypeOK /\ SigintInv

LEMMA UdpInvInit ==
  ASSUME UdpInit
  PROVE  UdpInv
<1>1. 0 \in Messages /\ SockCap \in Nat
  BY UdpAssumption DEF Messages
<1>2. TypeOK
  BY <1>1 DEF UdpInit, TypeOK
<1>3. SigintInv
  BY DEF UdpInit, SigintInv, AtMostOneAfterSigint, OneLinePerDatagram
<1>4. QED
  BY <1>2, <1>3 DEF UdpInv

(* The client keeps the invariant: it tests packet_loop in every round. *)
LEMMA UdpClientStep ==
  ASSUME UdpInv,
         Client \/ ClientSetUpFails \/ ClientSendFails \/ ClientSigint
  PROVE  UdpInv'
<1> USE DEF UdpInv, TypeOK, SigintInv, AtMostOneAfterSigint, OneLinePerDatagram, sVars
<1>1. CASE ClientSetUp
  BY <1>1 DEF ClientSetUp
<1>2. CASE ClientTest
  BY <1>2 DEF ClientTest, UdpEnded
<1>3. CASE ClientFormat
  <2>1. NextMessage(c_count) \in Messages
    BY UdpAssumption DEF NextMessage, Messages
  <2>2. QED
    BY <1>3, <2>1 DEF ClientFormat
<1>4. CASE ClientSend
  <2>1. c_after = 0 /\ c_after' = IF c_loop THEN 0 ELSE 1
    BY <1>4 DEF ClientSend, CountAfter
  <2>2. net' \subseteq Messages
    BY <1>4 DEF ClientSend
  <2>3. QED
    BY <1>4, <2>1, <2>2 DEF ClientSend
<1>5. CASE ClientSleep
  BY <1>5 DEF ClientSleep
<1>6. CASE ClientSetUpFails \/ ClientSendFails
  BY <1>6 DEF ClientSetUpFails, ClientSendFails, UdpEnded
<1>7. CASE ClientSigint
  BY <1>7 DEF ClientSigint
<1>8. QED
  BY <1>1, <1>2, <1>3, <1>4, <1>5, <1>6, <1>7 DEF Client

(* So does the server, also when the signal finds it in recvfrom. *)
LEMMA UdpServerStep ==
  ASSUME UdpInv,
         \/ Server \/ ServerSetUpFails \/ ServerReceiveFails
         \/ ServerSigint \/ ServerSigintInRecv
  PROVE  UdpInv'
<1> USE DEF UdpInv, TypeOK, SigintInv, AtMostOneAfterSigint, OneLinePerDatagram, cVars
<1>0. /\ << >> \in Seq(Messages) /\ Len(<< >>) = 0 /\ SockCap \in Nat /\ 0 <= SockCap
      /\ Len(sock) \in Nat
  BY UdpAssumption
<1>1. CASE ServerSetUp
  BY <1>1 DEF ServerSetUp
<1>2. CASE ServerTest
  BY <1>0, <1>2 DEF ServerTest, UdpEnded
<1>3. CASE ServerBlocks
  BY <1>3 DEF ServerBlocks
<1>4. CASE ServerReceives
  <2>1. /\ sock # << >> /\ s_buffer' = Head(sock) /\ sock' = Tail(sock)
        /\ s_pc' = "print" /\ s_pc \in {"recv", "blocked"}
        /\ UNCHANGED <<c_pc, c_loop, c_count, c_buffer, c_after, net, s_loop, s_after>>
        /\ s_owed = 0 /\ s_owed' = s_owed + 1
    BY <1>4 DEF ServerReceives
  <2>2. Head(sock) \in Messages /\ Tail(sock) \in Seq(Messages)
        /\ Len(Tail(sock)) <= SockCap
    BY <1>0, <2>1
  <2>3. QED
    BY <2>1, <2>2
<1>5. CASE ServerPrints
  <2>1. s_after = 0 /\ s_after' = IF s_loop THEN 0 ELSE 1
    BY <1>5 DEF ServerPrints, CountAfter
  <2>2. QED
    BY <1>5, <2>1 DEF ServerPrints
<1>6. CASE ServerSetUpFails
  BY <1>6 DEF ServerSetUpFails, UdpEnded
<1>7. CASE ServerReceiveFails
  BY <1>0, <1>7 DEF ServerReceiveFails, UdpEnded
<1>8. CASE ServerSigint
  BY <1>8 DEF ServerSigint
<1>9. CASE ServerSigintInRecv
  BY <1>0, <1>9 DEF ServerSigintInRecv, UdpEnded
<1>10. QED
  BY <1>1, <1>2, <1>3, <1>4, <1>5, <1>6, <1>7, <1>8, <1>9 DEF Server

LEMMA UdpStep ==
  ASSUME UdpInv, [UdpNext]_udpVars
  PROVE  UdpInv'
<1>1. CASE Deliver
  <2>1. PICK m \in net : /\ Len(sock) < SockCap /\ sock' = Append(sock, m)
                         /\ net' \in {net, net \ {m}} /\ UNCHANGED <<cVars, sVars>>
    BY <1>1 DEF Deliver
  <2>2. m \in Messages /\ sock \in Seq(Messages) /\ net \subseteq Messages
    BY DEF UdpInv, TypeOK
  <2>3. SockCap \in Nat /\ Len(sock) \in Nat
    BY <2>2, UdpAssumption
  <2>4. sock' \in Seq(Messages) /\ Len(sock') <= SockCap
    BY <2>1, <2>2, <2>3
  <2>5. net' \subseteq Messages
    BY <2>1, <2>2
  <2>6. QED
    BY <2>1, <2>4, <2>5 DEF UdpInv, TypeOK, SigintInv, AtMostOneAfterSigint, OneLinePerDatagram,
       cVars, sVars
<1>2. CASE Lose
  BY <1>2 DEF Lose, UdpInv, TypeOK, SigintInv, AtMostOneAfterSigint, OneLinePerDatagram,
     cVars, sVars
<1>3. CASE UNCHANGED udpVars
  BY <1>3 DEF UdpInv, TypeOK, SigintInv, AtMostOneAfterSigint, OneLinePerDatagram, udpVars,
     cVars, sVars
<1>4. QED
  BY <1>1, <1>2, <1>3, UdpClientStep, UdpServerStep
     DEF UdpNext, UdpFailures, Sigint, AllEnded

(* The invariant holds whatever the operating system runs. *)
LEMMA UdpInvariance == UdpInit /\ [][UdpNext]_udpVars => []UdpInv
<1>1. UdpInit => UdpInv
  BY UdpInvInit
<1>2. UdpInv /\ [UdpNext]_udpVars => UdpInv'
  BY UdpStep
<1>3. QED
  BY <1>1, <1>2, PTL

(* Every variable of udp.c's processes and of the network keeps its type,  *)
(* for every range of the counter and every size of the receive buffer.    *)
THEOREM UdpTypeCorrect ==
  UdpSpec => []TypeOK
<1>1. UdpInv => TypeOK
  BY DEF UdpInv
<1>2. QED
  BY <1>1, UdpInvariance, PTL DEF UdpSpec

(* SIGINT stops udp.c after at most one more message or line, wherever in  *)
(* its loop it finds the client or the server.                             *)
THEOREM StopsAfterOne ==
  UdpSpec => []AtMostOneAfterSigint
<1>1. UdpInv => AtMostOneAfterSigint
  BY DEF UdpInv, SigintInv
<1>2. QED
  BY <1>1, UdpInvariance, PTL DEF UdpSpec

(* The server of udp.c prints every datagram it receives, and nothing      *)
(* else, wherever SIGINT finds it and whatever recvfrom returns.           *)
THEOREM PrintsEachDatagram ==
  UdpSpec => []OneLinePerDatagram
<1>1. UdpInv => OneLinePerDatagram
  BY DEF UdpInv, SigintInv
<1>2. QED
  BY <1>1, UdpInvariance, PTL DEF UdpSpec

--------------------------------------------------------------------------------
(* udp.c stops.  The provers do not look into ENABLED, so the scheduling   *)
(* that UdpSpec states as weak fairness is stated here by its effect.      *)

(* Where the client and the server stand after SIGINT. *)
ClientAt(place) == ~c_loop /\ c_pc = place
ClientGone == c_pc \in UdpEnded
ServerAt(place) == ~s_loop /\ s_pc = place
ServerGone == s_pc \in UdpEnded
SockEmpty == sock = << >>

(* The operating system keeps running a process: it takes steps for ever,  *)
(* unless it ends, or waits in recvfrom on an empty socket.                *)
ClientScheduled == []<>ClientGone \/ []<><<Client>>_udpVars
ServerIdle == ServerGone \/ (s_pc = "blocked" /\ SockEmpty)
ServerScheduled == []<>ServerIdle \/ []<><<Server>>_udpVars

(* What the other process and the network do leaves a process alone. *)
LEMMA ClientAlone ==
  ASSUME Server \/ ServerSetUpFails \/ ServerReceiveFails \/ ServerSigint
         \/ ServerSigintInRecv \/ Deliver \/ Lose \/ AllEnded \/ UNCHANGED udpVars
  PROVE  UNCHANGED cVars
BY DEF Server, ServerSetUp, ServerTest, ServerBlocks, ServerReceives, ServerPrints,
       ServerSetUpFails, ServerReceiveFails, ServerSigint, ServerSigintInRecv, Deliver, Lose,
       AllEnded, udpVars

LEMMA ServerAlone ==
  ASSUME Client \/ ClientSetUpFails \/ ClientSendFails \/ ClientSigint \/ Lose \/ AllEnded
         \/ UNCHANGED udpVars
  PROVE  UNCHANGED sVars /\ UNCHANGED sock
BY DEF Client, ClientSetUp, ClientTest, ClientFormat, ClientSend, ClientSleep,
       ClientSetUpFails, ClientSendFails, ClientSigint, Lose, AllEnded, udpVars

(* The network puts a datagram into the socket. *)
LEMMA DeliverFills ==
  ASSUME TypeOK, Deliver
  PROVE  UNCHANGED sVars /\ sock' # << >>
<1>1. PICK m \in net : sock' = Append(sock, m) /\ UNCHANGED sVars
  BY DEF Deliver
<1>2. sock \in Seq(Messages) /\ m \in Messages
  BY DEF TypeOK
<1>3. Len(sock') = Len(sock) + 1 /\ Len(sock) \in Nat
  BY <1>1, <1>2
<1>4. sock' # << >>
  BY <1>3
<1>5. QED
  BY <1>1, <1>4

(* After SIGINT the client stays where it is or goes the way of its last   *)
(* round.                                                                  *)
LEMMA ClientStays ==
  ASSUME [UdpNext]_udpVars
  PROVE  /\ ClientAt("setup") => ClientAt("setup")' \/ ClientAt("test")' \/ ClientGone'
         /\ ClientAt("test") => ClientAt("test")' \/ ClientGone'
         /\ ClientAt("format") => ClientAt("format")' \/ ClientAt("send")'
         /\ ClientAt("send") => ClientAt("send")' \/ ClientAt("sleep")' \/ ClientGone'
         /\ ClientAt("sleep") => ClientAt("sleep")' \/ ClientAt("test")'
<1> USE DEF ClientAt, ClientGone, UdpEnded
<1>1. CASE UNCHANGED cVars
  BY <1>1 DEF cVars
<1>2. CASE ClientSetUp \/ ClientTest \/ ClientFormat \/ ClientSend \/ ClientSleep
  BY <1>2 DEF ClientSetUp, ClientTest, ClientFormat, ClientSend, ClientSleep
<1>3. CASE ClientSetUpFails \/ ClientSendFails \/ ClientSigint
  BY <1>3 DEF ClientSetUpFails, ClientSendFails, ClientSigint
<1>4. QED
  BY <1>1, <1>2, <1>3, ClientAlone DEF UdpNext, Client, UdpFailures, Sigint

(* A step of its own takes it on. *)
LEMMA ClientGoesOn ==
  ASSUME <<Client>>_udpVars
  PROVE  /\ ClientAt("setup") => ClientAt("test")'
         /\ ClientAt("test") => ClientGone'
         /\ ClientAt("format") => ClientAt("send")'
         /\ ClientAt("send") => ClientAt("sleep")'
         /\ ClientAt("sleep") => ClientAt("test")'
BY DEF Client, ClientSetUp, ClientTest, ClientFormat, ClientSend, ClientSleep,
       ClientAt, ClientGone, UdpEnded

(* SIGINT stops the client of udp.c wherever in its loop it comes, if the  *)
(* operating system keeps running it.                                      *)
THEOREM SigintStopsClient ==
  UdpInit /\ [][UdpNext]_udpVars /\ ClientScheduled => ClientStops
<1>1. TypeOK /\ ~c_loop => \/ ClientAt("setup") \/ ClientAt("test") \/ ClientAt("format")
                           \/ ClientAt("send") \/ ClientAt("sleep") \/ ClientGone
  BY DEF TypeOK, ClientAt, ClientGone
<1>2. UdpInv => TypeOK
  BY DEF UdpInv
<1>3. ClientGone => c_pc \in UdpEnded
  BY DEF ClientGone
<1>4. QED
  BY <1>1, <1>2, <1>3, ClientStays, ClientGoesOn, UdpInvariance, PTL
     DEF ClientScheduled, ClientStops

(* After SIGINT the server, too, only goes the way of its last round.  In  *)
(* recvfrom an empty socket may fill, but a filled one does not run empty. *)
LEMMA ServerStays ==
  ASSUME TypeOK, [UdpNext]_udpVars
  PROVE  /\ ServerAt("setup") => ServerAt("setup")' \/ ServerAt("test")' \/ ServerGone'
         /\ ServerAt("test") => ServerAt("test")' \/ ServerGone'
         /\ ServerAt("recv") /\ SockEmpty =>
              ServerAt("recv")' \/ (ServerAt("blocked") /\ SockEmpty)' \/ ServerGone'
         /\ ServerAt("recv") /\ ~SockEmpty =>
              (ServerAt("recv") /\ ~SockEmpty)' \/ ServerAt("print")' \/ ServerGone'
         /\ ServerAt("blocked") /\ SockEmpty => ServerAt("blocked")' \/ ServerGone'
         /\ ServerAt("blocked") /\ ~SockEmpty =>
              (ServerAt("blocked") /\ ~SockEmpty)' \/ ServerAt("print")' \/ ServerGone'
         /\ ServerAt("print") => ServerAt("print")' \/ ServerAt("test")'
<1> USE DEF ServerAt, ServerGone, SockEmpty, UdpEnded
<1>1. CASE UNCHANGED sVars /\ UNCHANGED sock
  BY <1>1 DEF sVars
<1>2. CASE Deliver
  <2>1. UNCHANGED sVars /\ sock' # << >>
    BY <1>2, DeliverFills
  <2>2. QED
    BY <2>1 DEF sVars
<1>3. CASE ServerSetUp \/ ServerTest \/ ServerBlocks \/ ServerReceives \/ ServerPrints
  BY <1>3 DEF ServerSetUp, ServerTest, ServerBlocks, ServerReceives, ServerPrints
<1>4. CASE \/ ServerSetUpFails \/ ServerReceiveFails \/ ServerSigint \/ ServerSigintInRecv
  BY <1>4 DEF ServerSetUpFails, ServerReceiveFails, ServerSigint, ServerSigintInRecv
<1>5. QED
  BY <1>1, <1>2, <1>3, <1>4, ServerAlone DEF UdpNext, Server, UdpFailures, Sigint

(* A step of its own takes it on, also out of recvfrom if there is a       *)
(* datagram.                                                               *)
LEMMA ServerGoesOn ==
  ASSUME <<Server>>_udpVars
  PROVE  /\ ServerAt("setup") => ServerAt("test")'
         /\ ServerAt("test") => ServerGone'
         /\ ServerAt("recv") /\ SockEmpty => (ServerAt("blocked") /\ SockEmpty)'
         /\ (ServerAt("recv") \/ ServerAt("blocked")) /\ ~SockEmpty => ServerAt("print")'
         /\ ServerAt("print") => ServerAt("test")'
BY DEF Server, ServerSetUp, ServerTest, ServerBlocks, ServerReceives, ServerPrints,
       ServerAt, ServerGone, SockEmpty, UdpEnded

(* A datagram that reaches the socket of a waiting server is there to be   *)
(* received.                                                               *)
LEMMA DeliverWakes ==
  ASSUME TypeOK, <<Deliver>>_udpVars, ServerAt("blocked")
  PROVE  (ServerAt("blocked") /\ ~SockEmpty)'
<1>1. UNCHANGED sVars /\ sock' # << >>
  BY DeliverFills
<1>2. QED
  BY <1>1 DEF ServerAt, SockEmpty, sVars

(* SIGINT stops the server of udp.c if datagrams keep arriving and the     *)
(* operating system keeps running it, also when the signal comes between   *)
(* the test of packet_loop and recvfrom.                                   *)
THEOREM SigintStopsServer ==
  UdpInit /\ [][UdpNext]_udpVars /\ ServerScheduled => ServerStops
<1>1. TypeOK /\ ~s_loop => \/ ServerAt("setup") \/ ServerAt("test") \/ ServerAt("recv")
                           \/ ServerAt("blocked") \/ ServerAt("print") \/ ServerGone
  BY DEF TypeOK, ServerAt, ServerGone
<1>2. /\ UdpInv => TypeOK
      /\ ServerIdle => \/ ServerGone
                       \/ ~(\/ ServerAt("setup") \/ ServerAt("test") \/ ServerAt("recv")
                            \/ (ServerAt("blocked") /\ ~SockEmpty) \/ ServerAt("print"))
  BY DEF UdpInv, ServerIdle, ServerAt
<1>3. ServerGone => s_pc \in UdpEnded
  BY DEF ServerGone
<1>4. QED
  BY <1>1, <1>2, <1>3, ServerStays, ServerGoesOn, DeliverWakes, UdpInvariance, PTL
     DEF ServerScheduled, ServerStops

================================================================================
