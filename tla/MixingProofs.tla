---------------------------- MODULE MixingProofs ----------------------------
(***************************************************************************)
(* What is proved about the arithmetic of mixing, for every width of words, *)
(* odd multipliers and shifts: each of its steps can be undone, so distinct  *)
(* hashes stay distinct, and no attempt draws the seed of an earlier one.    *)
(***************************************************************************)
EXTENDS Mixing, PeelTheorems, WellFoundedInduction

-----------------------------------------------------------------------------
(* A shift and an exclusive or. *)

(* Of some numbers, one is the greatest, if they are bounded. *)
LEMMA Greatest ==
  ASSUME NEW n \in Nat, NEW S, S \subseteq 0 .. n, S # {}
  PROVE  \E b \in S : \A c \in S : c <= b
<1> DEFINE T == { k \in Nat : n - k \in S }
<1>1. T \subseteq Nat
  OBVIOUS
<1>2. T # {}
  <2>1. PICK b \in S : TRUE
    OBVIOUS
  <2>2. b \in 0 .. n
    BY <2>1
  <2>3. n - b \in Nat /\ n - (n - b) = b
    BY <2>2
  <2>4. n - b \in T
    BY <2>1, <2>3
  <2> QED  BY <2>4
<1>3. PICK k \in T : \A j \in T : ~ (<<j, k>> \in OpToRel(<, Nat))
  BY <1>1, <1>2, NatLessThanWellFounded, WFMin
<1>4. \A j \in T : ~ (j < k)
  BY <1>1, <1>3 DEF OpToRel
<1>5. n - k \in S /\ k \in Nat
  BY <1>3
<1>6. ASSUME NEW c \in S PROVE c <= n - k
  <2>1. c \in 0 .. n
    OBVIOUS
  <2>2. n - c \in Nat /\ n - (n - c) = c
    BY <2>1
  <2>3. n - c \in T
    BY <2>2
  <2>4. ~ (n - c < k)
    BY <2>3, <1>4
  <2> QED  BY <1>5, <2>1, <2>2, <2>4
<1> QED  BY <1>5, <1>6

(* In the greatest bit in which two words differ they differ still. *)
LEMMA XorShiftKeepsApart ==
  ASSUME NEW z \in Word, NEW w \in Word, NEW shift \in 1 .. WordBits,
         XorShift(z, shift) = XorShift(w, shift)
  PROVE  z = w
<1> DEFINE D == { b \in BitIndex : Bit(z, b) # Bit(w, b) }
           zs == z \div 2^shift
           ws == w \div 2^shift
<1>1. zs \in Word /\ ws \in Word
  BY ShiftAssumption
<1>2. SUFFICES ASSUME D # {} PROVE FALSE
  <2>1. SUFFICES ASSUME D = {} PROVE z = w
    OBVIOUS
  <2>2. \A b \in BitIndex : Bit(z, b) = Bit(w, b)
    BY <2>1
  <2> QED  BY <2>2, WordsEqual
<1>3. WordBits - 1 \in Nat /\ D \subseteq 0 .. (WordBits - 1)
  BY WordBitsAssumption DEF BitIndex
<1>4. PICK b \in D : \A c \in D : c <= b
  <2> HIDE DEF D
  <2> QED  BY <1>2, <1>3, Greatest
<1>5. b \in BitIndex /\ Bit(z, b) # Bit(w, b) /\ Bit(z, b) \in {0, 1} /\ Bit(w, b) \in {0, 1}
  BY BitRange
<1>6. Bit(zs, b) = Bit(ws, b)
  <2>1. CASE b + shift < WordBits
    <3>1. b + shift \in BitIndex /\ b + shift > b
      BY <1>5, <2>1, WordBitsAssumption DEF BitIndex
    <3>2. b + shift \notin D
      BY <1>4, <3>1, <1>3
    <3>3. Bit(z, b + shift) = Bit(w, b + shift)
      BY <3>1, <3>2
    <3>4. Bit(zs, b) = Bit(z, b + shift) /\ Bit(ws, b) = Bit(w, b + shift)
      BY <1>5, <2>1, ShiftAssumption
    <3> QED  BY <3>3, <3>4
  <2>2. CASE ~ (b + shift < WordBits)
    <3>1. Bit(zs, b) = 0 /\ Bit(ws, b) = 0
      BY <1>5, <2>2, ShiftAssumption
    <3> QED  BY <3>1
  <2> QED  BY <2>1, <2>2
<1>7. Bit(zs, b) \in {0, 1}
  BY <1>1, <1>5, BitRange
<1>8. /\ Bit(Xor(z, zs), b) = (Bit(z, b) + Bit(zs, b)) % 2
      /\ Bit(Xor(w, ws), b) = (Bit(w, b) + Bit(ws, b)) % 2
  BY <1>1, <1>5, XorBits
<1>9. Xor(z, zs) = Xor(w, ws)
  BY DEF XorShift
<1>10. (Bit(z, b) + Bit(zs, b)) % 2 = (Bit(w, b) + Bit(zs, b)) % 2
  BY <1>6, <1>8, <1>9
<1> HIDE DEF zs, ws, D
<1> QED  BY <1>5, <1>7, <1>10

LEMMA XorShiftIsWord ==
  ASSUME NEW z \in Word, NEW shift \in 1 .. WordBits
  PROVE  XorShift(z, shift) \in Word
BY ShiftAssumption, XorBits DEF XorShift

-----------------------------------------------------------------------------
(* Multiplication and addition. *)

LEMMA Modulus ==
  /\ 2^WordBits \in Nat \ {0}
  /\ \A x \in Nat : x % 2^WordBits \in Word
  /\ \A w \in Word : w \in Nat /\ w < 2^WordBits
BY WordBitsAssumption DEF Word

(* Numbers that agree modulo M are a multiple of it apart. *)
LEMMA Congruent ==
  ASSUME NEW M \in Nat \ {0}, NEW x \in Nat, NEW y \in Nat, x % M = y % M, y <= x
  PROVE  \E q \in Nat : x = y + q * M
<1> DEFINE d == x \div M
           e == y \div M
           r == x % M
<1>1. d = x \div M /\ e = y \div M /\ r = x % M /\ r = y % M
  OBVIOUS
<1>2. d \in Nat /\ e \in Nat /\ r \in 0 .. (M - 1)
  OBVIOUS
<1> HIDE DEF d, e, r
<1>3. x = d * M + r
  BY <1>1, DivModForm
<1>4. y = e * M + r
  BY <1>1, DivModForm
<1>5. e <= d
  <2> SUFFICES ASSUME d + 1 <= e PROVE FALSE
    BY <1>2
  <2>1. (d + 1) * M <= e * M
    BY <1>2
  <2>2. (d + 1) * M = d * M + M
    BY <1>2
  <2> QED  BY <1>2, <1>3, <1>4, <2>1, <2>2
<1>6. d - e \in Nat /\ d * M = e * M + (d - e) * M
  BY <1>2, <1>5
<1>7. x = y + (d - e) * M
  BY <1>2, <1>3, <1>4, <1>6
<1> QED  BY <1>6, <1>7

(* What has an inverse can be cancelled. *)
LEMMA Cancels ==
  ASSUME NEW M \in Nat \ {0}, NEW f \in Nat, NEW g \in Nat, (f * g) % M = 1,
         NEW d \in 1 .. (M - 1), NEW q \in Nat, d * f = q * M
  PROVE  FALSE
<1> DEFINE k == (f * g) \div M
<1>1. f * g \in Nat
  OBVIOUS
<1>2. k \in Nat
  BY <1>1
<1>3. f * g = k * M + 1
  BY ONLY <1>1, M \in Nat \ {0}, (f * g) % M = 1, DivModForm
<1> HIDE DEF k
<1>4. d * (f * g) = (d * f) * g
  OBVIOUS
<1>5. (d * f) * g = (q * g) * M
  <2>1. (q * M) * g = (q * g) * M
    OBVIOUS
  <2> QED  BY <2>1
<1>6. d * (k * M + 1) = (d * k) * M + d
  BY <1>2
<1>7. (d * k) * M + d = (q * g) * M + 0
  BY <1>3, <1>4, <1>5, <1>6
<1>8. d * k \in Nat /\ q * g \in Nat /\ d \in 0 .. (M - 1) /\ 0 \in 0 .. (M - 1)
  BY <1>2
<1>9. d = 0
  BY ONLY <1>7, <1>8, M \in Nat \ {0}, DivModUnique
<1> QED  BY <1>9

LEMMA TimesOrdered ==
  ASSUME NEW z \in Word, NEW w \in Word, w < z, NEW f \in OddWord,
         Times(z, f) = Times(w, f)
  PROVE  FALSE
<1> DEFINE M == 2^WordBits
<1>1. M \in Nat \ {0} /\ z \in Nat /\ w \in Nat /\ f \in Nat /\ z < M
  BY Modulus DEF OddWord
<1>2. PICK g \in Word : (f * g) % M = 1
  BY OddAssumption DEF OddWord
<1>3. g \in Nat
  BY Modulus
<1>4. (z * f) % M = (w * f) % M
  BY DEF Times
<1> HIDE DEF M
<1>5. z * f \in Nat /\ w * f \in Nat /\ w * f <= z * f
  BY <1>1
<1>6. PICK q \in Nat : z * f = w * f + q * M
  BY <1>1, <1>4, <1>5, Congruent
<1>7. z - w \in 1 .. (M - 1)
  BY <1>1
<1>8. (z - w) * f = q * M
  <2>1. (z - w) * f = z * f - w * f
    BY <1>1
  <2> QED  BY <1>1, <1>5, <1>6, <2>1
<1> QED  BY <1>1, <1>2, <1>3, <1>7, <1>8, Cancels

LEMMA TimesKeepsApart ==
  ASSUME NEW z \in Word, NEW w \in Word, NEW f \in OddWord, Times(z, f) = Times(w, f)
  PROVE  z = w
<1>1. ~ (w < z) /\ ~ (z < w)
  BY TimesOrdered
<1> QED  BY <1>1, Modulus

LEMMA TimesIsWord ==
  ASSUME NEW z \in Word, NEW f \in OddWord
  PROVE  Times(z, f) \in Word
<1>1. z * f \in Nat
  BY Modulus DEF OddWord
<1> QED  BY <1>1, Modulus DEF Times

LEMMA AddingOrdered ==
  ASSUME NEW z \in Word, NEW w \in Word, w < z, NEW s \in Word,
         (z + s) % 2^WordBits = (w + s) % 2^WordBits
  PROVE  FALSE
<1> DEFINE M == 2^WordBits
<1>1. M \in Nat \ {0} /\ z \in Nat /\ w \in Nat /\ s \in Nat /\ z < M
  BY Modulus
<1>2. (z + s) % M = (w + s) % M
  OBVIOUS
<1> HIDE DEF M
<1>3. PICK q \in Nat : z + s = (w + s) + q * M
  <2>1. z + s \in Nat /\ w + s \in Nat /\ w + s <= z + s
    BY <1>1
  <2> QED  BY <1>1, <1>2, <2>1, Congruent
<1>4. q * M + 0 = 0 * M + (z - w)
  BY <1>1, <1>3
<1>5. z - w \in 0 .. (M - 1)
  BY <1>1
<1>6. z - w = 0
  BY <1>1, <1>4, <1>5, DivModUnique
<1> QED  BY <1>1, <1>6

LEMMA AddingKeepsApart ==
  ASSUME NEW z \in Word, NEW w \in Word, NEW s \in Word,
         (z + s) % 2^WordBits = (w + s) % 2^WordBits
  PROVE  z = w
<1>1. ~ (w < z) /\ ~ (z < w)
  BY AddingOrdered
<1> QED  BY <1>1, Modulus

-----------------------------------------------------------------------------
(* The functions. *)

LEMMA MixFactorsAreOdd ==
  /\ MixFactors[1] \in OddWord /\ MixFactors[2] \in OddWord
  /\ SplitFactors[1] \in OddWord /\ SplitFactors[2] \in OddWord
BY MixingAssumption

LEMMA ShiftsInRange ==
  /\ MixShift \in 1 .. WordBits
  /\ SplitShifts[1] \in 1 .. WordBits
  /\ SplitShifts[2] \in 1 .. WordBits
  /\ SplitShifts[3] \in 1 .. WordBits
BY MixingAssumption

(* What the two functions have in common. *)
Rounds(h, s1, f1, s2, f2, s3) ==
  XorShift(Times(XorShift(Times(XorShift(h, s1), f1), s2), f2), s3)

LEMMA RoundsKeepApart ==
  ASSUME NEW g \in Word, NEW h \in Word,
         NEW s1 \in 1 .. WordBits, NEW s2 \in 1 .. WordBits, NEW s3 \in 1 .. WordBits,
         NEW f1 \in OddWord, NEW f2 \in OddWord,
         Rounds(g, s1, f1, s2, f2, s3) = Rounds(h, s1, f1, s2, f2, s3)
  PROVE  g = h
<1> DEFINE A(z) == XorShift(z, s1)
           B(z) == Times(A(z), f1)
           C(z) == XorShift(B(z), s2)
           D(z) == Times(C(z), f2)
<1>1. \A z \in Word : A(z) \in Word
  BY XorShiftIsWord
<1>2. \A z \in Word : B(z) \in Word
  BY <1>1, TimesIsWord
<1>3. \A z \in Word : C(z) \in Word
  BY <1>2, XorShiftIsWord
<1>4. \A z \in Word : D(z) \in Word
  BY <1>3, TimesIsWord
<1>5. D(g) = D(h)
  BY <1>4, XorShiftKeepsApart DEF Rounds
<1>6. C(g) = C(h)
  BY <1>3, <1>5, TimesKeepsApart
<1>7. B(g) = B(h)
  BY <1>2, <1>6, XorShiftKeepsApart
<1>8. A(g) = A(h)
  BY <1>1, <1>7, TimesKeepsApart
<1> QED  BY <1>8, XorShiftKeepsApart

LEMMA RoundsIsWord ==
  ASSUME NEW h \in Word,
         NEW s1 \in 1 .. WordBits, NEW s2 \in 1 .. WordBits, NEW s3 \in 1 .. WordBits,
         NEW f1 \in OddWord, NEW f2 \in OddWord
  PROVE  Rounds(h, s1, f1, s2, f2, s3) \in Word
BY XorShiftIsWord, TimesIsWord DEF Rounds

LEMMA MurmurIsRounds ==
  ASSUME NEW h
  PROVE  fcm_murmur64(h) = Rounds(h, MixShift, MixFactors[1], MixShift, MixFactors[2], MixShift)
BY DEF fcm_murmur64, Rounds

LEMMA SplitmixIsRounds ==
  ASSUME NEW state
  PROVE  fcm_splitmix64(state) =
           Rounds(state, SplitShifts[1], SplitFactors[1], SplitShifts[2], SplitFactors[2],
                  SplitShifts[3])
BY DEF fcm_splitmix64, Rounds

LEMMA MurmurKeepsApart ==
  ASSUME NEW g \in Word, NEW h \in Word, fcm_murmur64(g) = fcm_murmur64(h)
  PROVE  g = h
BY MurmurIsRounds, RoundsKeepApart, MixFactorsAreOdd, ShiftsInRange

LEMMA SplitmixKeepsApart ==
  ASSUME NEW g \in Word, NEW h \in Word, fcm_splitmix64(g) = fcm_splitmix64(h)
  PROVE  g = h
BY SplitmixIsRounds, RoundsKeepApart, MixFactorsAreOdd, ShiftsInRange

LEMMA MixsplitKeepsApart ==
  ASSUME NEW seed \in Word, NEW g \in Word, NEW h \in Word,
         fcm_mixsplit(g, seed) = fcm_mixsplit(h, seed)
  PROVE  g = h
<1>1. g + seed \in Nat /\ h + seed \in Nat
  BY Modulus
<1>2. (g + seed) % 2^WordBits \in Word /\ (h + seed) % 2^WordBits \in Word
  BY <1>1, Modulus
<1>3. (g + seed) % 2^WordBits = (h + seed) % 2^WordBits
  BY <1>2, MurmurKeepsApart DEF fcm_mixsplit
<1> QED  BY <1>3, AddingKeepsApart

-----------------------------------------------------------------------------
(* The seeds. *)

LEMMA CounterIsWord ==
  ASSUME NEW attempt \in Nat
  PROVE  Counter(attempt) \in Word
<1>1. Golden \in Nat
  BY MixingAssumption, Modulus DEF OddWord
<1>2. 1 + (attempt + 1) * Golden \in Nat
  BY <1>1
<1> QED  BY <1>2, Modulus DEF Counter

LEMMA SeedIsWord ==
  ASSUME NEW attempt \in Nat
  PROVE  Seed(attempt) \in Word
BY CounterIsWord, SplitmixIsRounds, RoundsIsWord, MixFactorsAreOdd, ShiftsInRange DEF Seed

(* The counter comes round only after as many attempts as there are words.   *)
LEMMA CountersDiffer ==
  ASSUME NEW attempt \in Nat, attempt < 2^WordBits, NEW earlier \in 0 .. (attempt - 1)
  PROVE  Counter(earlier) # Counter(attempt)
<1> DEFINE M == 2^WordBits
           x == 1 + (attempt + 1) * Golden
           y == 1 + (earlier + 1) * Golden
<1>1. Golden \in OddWord /\ Golden \in Word /\ Golden \in Nat /\ M \in Nat \ {0}
  BY MixingAssumption, Modulus DEF OddWord
<1>2. SUFFICES ASSUME x % M = y % M PROVE FALSE
  BY DEF Counter
<1>3. PICK g \in Word : (Golden * g) % M = 1
  BY <1>1, OddAssumption DEF OddWord
<1>4. g \in Nat
  BY Modulus
<1>5. attempt - earlier \in 1 .. (M - 1)
  BY <1>1
<1> HIDE DEF M
<1>6. x \in Nat /\ y \in Nat /\ x = y + (attempt - earlier) * Golden
  BY <1>1
<1>7. (attempt - earlier) * Golden \in Nat
  BY <1>1, <1>5
<1> HIDE DEF x, y
<1>8. PICK q \in Nat : x = y + q * M
  <2>1. y <= x
    BY ONLY <1>6, <1>7
  <2>2. x % M = y % M
    BY <1>2
  <2> QED  BY ONLY <1>1, <1>6, <2>1, <2>2, Congruent
<1>9. q * M \in Nat
  BY <1>1
<1>10. (attempt - earlier) * Golden = q * M
  BY ONLY <1>6, <1>7, <1>8, <1>9
<1> QED  BY <1>1, <1>3, <1>4, <1>5, <1>10, Cancels

LEMMA SeedsDiffer ==
  ASSUME NEW attempt \in Nat, attempt < 2^WordBits, NEW earlier \in 0 .. (attempt - 1)
  PROVE  Seed(earlier) # Seed(attempt)
<1>1. earlier \in Nat
  OBVIOUS
<1> QED  BY <1>1, CountersDiffer, CounterIsWord, SplitmixKeepsApart DEF Seed

-----------------------------------------------------------------------------

LEMMA IterationIsNat == TypeOK => iteration \in Nat
<1>1. MaxIterations \in Nat
  BY PeelAssumption
<1> QED  BY <1>1 DEF TypeOK

(* Distinct hashes are mixed to distinct words in every attempt: what an      *)
(* attempt does to the hashes is what Peel takes it to be.                   *)
THEOREM MixingKeepsApart == Spec => []MixingLosesNothing
<1>1. TypeOK => MixingLosesNothing
  BY IterationIsNat, SeedIsWord, MixsplitKeepsApart DEF MixingLosesNothing
<1> QED  BY <1>1, TypeCorrect, PTL

(* No attempt is made twice: each one has a seed that no earlier one had.    *)
THEOREM SeedsNeverRepeat == Spec => []SeedsAreFresh
<1>1. TypeOK => SeedsAreFresh
  BY IterationIsNat, SeedsDiffer DEF SeedsAreFresh
<1> QED  BY <1>1, TypeCorrect, PTL
=============================================================================
