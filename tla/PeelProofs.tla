----------------------------- MODULE PeelProofs -----------------------------
(***************************************************************************)
(* What is proved about words and cells, and about the first half of an    *)
(* attempt of fcm_peel, for every width of words, number of keys and bound *)
(* on the attempts: the algebra of exclusive or, quotients and remainders  *)
(* and of the XOR of a set of words; that the cells of a hash are three,   *)
(* are in the array, and are found two from the third by the formula of    *)
(* fcm_peel; and the parameters of an attempt and the scatter of the       *)
(* hashes over the array.                                                  *)
(***************************************************************************)
EXTENDS PeelInvariant, FiniteSetTheorems, TLAPS

(* Words. *)

(* Exclusive or of words is a word, and acts on each bit. *)
LEMMA XorBits ==
  ASSUME NEW a \in Word, NEW c \in Word
  PROVE  /\ Xor(a, c) \in Word
         /\ \A b \in BitIndex : Bit(Xor(a, c), b) = (Bit(a, b) + Bit(c, b)) % 2
<1> DEFINE f == [b \in BitIndex |-> (Bit(a, b) + Bit(c, b)) % 2]
           P(w) == \A b \in BitIndex : Bit(w, b) = (Bit(a, b) + Bit(c, b)) % 2
<1>1. ASSUME NEW b \in BitIndex
      PROVE  (Bit(a, b) + Bit(c, b)) % 2 \in {0, 1}
  <2>1. Bit(a, b) \in {0, 1} /\ Bit(c, b) \in {0, 1}
    BY BitsAssumption
  <2> QED  BY <2>1
<1>2. f \in [BitIndex -> {0, 1}]
  BY <1>1
<1>3. \E w \in Word : P(w)
  <2>1. PICK w \in Word : \A b \in BitIndex : Bit(w, b) = f[b]
    BY <1>2, BitsAssumption
  <2> QED  BY <2>1
<1>4. Xor(a, c) = CHOOSE w \in Word : P(w)
  BY DEF Xor, XorTable
<1> QED  BY <1>3, <1>4

(* Two words with the same bits are the same. *)
LEMMA WordsEqual ==
  ASSUME NEW a \in Word, NEW c \in Word,
         \A b \in BitIndex : Bit(a, b) = Bit(c, b)
  PROVE  a = c
BY BitsAssumption

LEMMA BitRange ==
  ASSUME NEW a \in Word, NEW b \in BitIndex
  PROVE  Bit(a, b) \in {0, 1}
BY BitsAssumption

LEMMA ZeroIsWord == 0 \in Word
BY WordBitsAssumption DEF Word

LEMMA XorCommutes ==
  ASSUME NEW a \in Word, NEW c \in Word
  PROVE  Xor(a, c) = Xor(c, a)
<1>1. \A b \in BitIndex : Bit(Xor(a, c), b) = Bit(Xor(c, a), b)
  BY XorBits, BitRange
<1> QED  BY <1>1, XorBits, WordsEqual

LEMMA XorAssociates ==
  ASSUME NEW a \in Word, NEW c \in Word, NEW d \in Word
  PROVE  Xor(Xor(a, c), d) = Xor(a, Xor(c, d))
<1>1. Xor(a, c) \in Word /\ Xor(c, d) \in Word
  BY XorBits
<1>2. ASSUME NEW b \in BitIndex
      PROVE  Bit(Xor(Xor(a, c), d), b) = Bit(Xor(a, Xor(c, d)), b)
  <2>1. /\ Bit(Xor(Xor(a, c), d), b) = (Bit(Xor(a, c), b) + Bit(d, b)) % 2
        /\ Bit(Xor(a, c), b) = (Bit(a, b) + Bit(c, b)) % 2
        /\ Bit(Xor(a, Xor(c, d)), b) = (Bit(a, b) + Bit(Xor(c, d), b)) % 2
        /\ Bit(Xor(c, d), b) = (Bit(c, b) + Bit(d, b)) % 2
    BY <1>1, XorBits
  <2>2. Bit(a, b) \in {0, 1} /\ Bit(c, b) \in {0, 1} /\ Bit(d, b) \in {0, 1}
    BY BitRange
  <2> QED  BY <2>1, <2>2
<1> QED  BY <1>1, <1>2, XorBits, WordsEqual

LEMMA XorZero ==
  ASSUME NEW a \in Word
  PROVE  Xor(a, 0) = a /\ Xor(0, a) = a
<1>1. \A b \in BitIndex : Bit(Xor(a, 0), b) = Bit(a, b)
  BY XorBits, BitRange, ZeroIsWord, BitsAssumption
<1> QED  BY <1>1, XorBits, WordsEqual, ZeroIsWord, XorCommutes

LEMMA XorSelf ==
  ASSUME NEW a \in Word
  PROVE  Xor(a, a) = 0
<1>1. ASSUME NEW b \in BitIndex
      PROVE  Bit(Xor(a, a), b) = Bit(0, b)
  BY XorBits, BitRange, BitsAssumption
<1> QED  BY <1>1, XorBits, WordsEqual, ZeroIsWord

(* Exclusive or with the same word twice changes nothing. *)
LEMMA XorCancels ==
  ASSUME NEW a \in Word, NEW c \in Word
  PROVE  Xor(Xor(a, c), c) = a
BY XorAssociates, XorSelf, XorZero

-----------------------------------------------------------------------------
(* Arithmetic of quotients and remainders. *)

(* A number is its quotient times the divisor and its remainder ... *)
LEMMA DivModForm ==
  ASSUME NEW L \in Nat \ {0}, NEW x \in Nat, NEW d, NEW r,
         d = x \div L, r = x % L
  PROVE  d \in Nat /\ r \in 0 .. (L - 1) /\ x = d * L + r
<1>1. r \in 0 .. (L - 1)
  OBVIOUS
<1>2. d \in Nat
  OBVIOUS
<1>3. r = x - L * d
  BY <1>1, <1>2, Z3
<1>4. x = d * L + r
  BY ONLY <1>1, <1>2, <1>3, L \in Nat, x \in Nat
<1> QED  BY <1>1, <1>2, <1>4

(* ... and in one way only. *)
LEMMA DivModUnique ==
  ASSUME NEW L \in Nat \ {0}, NEW d \in Nat, NEW r \in 0 .. (L - 1),
         NEW q \in Nat, NEW o \in 0 .. (L - 1), d * L + r = q * L + o
  PROVE  d = q /\ r = o
<1>1. ~ (d > q)
  <2> SUFFICES ASSUME d >= q + 1 PROVE FALSE
    OBVIOUS
  <2>1. d * L >= (q + 1) * L
    OBVIOUS
  <2> QED  BY <2>1
<1>2. ~ (d < q)
  <2> SUFFICES ASSUME d + 1 <= q PROVE FALSE
    OBVIOUS
  <2>1. (d + 1) * L <= q * L
    OBVIOUS
  <2> QED  BY <2>1
<1> QED  BY <1>1, <1>2

LEMMA DivModOf ==
  ASSUME NEW L \in Nat \ {0}, NEW q \in Nat, NEW o \in 0 .. (L - 1)
  PROVE  (q * L + o) \div L = q /\ (q * L + o) % L = o
<1> DEFINE x == q * L + o
           d == x \div L
           r == x % L
<1>1. x \in Nat
  OBVIOUS
<1>2. x = q * L + o
  OBVIOUS
<1>3. d = x \div L /\ r = x % L
  OBVIOUS
<1> HIDE DEF x, d, r
<1>4. d \in Nat /\ r \in 0 .. (L - 1) /\ x = d * L + r
  <2>1. x = d * L + r
    BY <1>1, <1>3, DivModForm
  <2> QED  BY <1>1, <1>3, <2>1
<1>5. d = q /\ r = o
  BY <1>2, <1>4, DivModUnique
<1> QED  BY <1>5 DEF d, r, x

(* The high word of w * n is below n. *)
LEMMA MulHighRange ==
  ASSUME NEW w \in Word, NEW m \in Nat \ {0}
  PROVE  MulHigh(w, m) \in 0 .. (m - 1)
<1> DEFINE P == 2^WordBits
           x == w * m
           d == x \div P
           r == x % P
<1>1. P \in Nat \ {0} /\ w \in Nat /\ w + 1 <= P
  BY WordBitsAssumption DEF Word
<1>2. x = w * m
  OBVIOUS
<1>0. x \in Nat
  BY <1>1
<1>3. d = x \div P /\ r = x % P
  OBVIOUS
<1> HIDE DEF P, x, d, r
<1>4. d \in Nat /\ r \in 0 .. (P - 1) /\ x = d * P + r
  <2>1. x = d * P + r
    BY <1>0, <1>1, <1>3, DivModForm
  <2> QED  BY <1>0, <1>1, <1>3, <2>1
<1>5. x + m <= P * m
  <2>1. (w + 1) * m <= P * m
    BY <1>1
  <2> QED  BY <2>1, <1>0, <1>1, <1>2
<1>6. d < m
  <2> SUFFICES ASSUME d >= m PROVE FALSE
    BY <1>4
  <2>1. d * P >= m * P
    BY <1>1, <1>4
  <2>2. m * P = P * m
    BY <1>1
  <2> QED  BY <1>0, <1>1, <1>4, <1>5, <2>1, <2>2
<1> QED  BY <1>4, <1>6 DEF d, x, P, MulHigh

(* Counting modulo M. *)
LEMMA ModSuccessor ==
  ASSUME NEW M \in Nat \ {0}, NEW x \in Nat
  PROVE  ((x % M) + 1) % M = (x + 1) % M
<1> DEFINE d == x \div M
           r == x % M
<1>1. d = x \div M /\ r = x % M
  OBVIOUS
<1>2. d \in Nat /\ r \in 0 .. (M - 1)
  OBVIOUS
<1> HIDE DEF d, r
<1>3. x = d * M + r
  BY <1>1, DivModForm
<1>4. CASE r + 1 < M
  <2>1. x + 1 = d * M + (r + 1) /\ r + 1 \in 0 .. (M - 1)
    BY <1>2, <1>3, <1>4
  <2>2. (d * M + (r + 1)) % M = r + 1
    BY <1>2, <2>1, DivModOf
  <2>3. (0 * M + (r + 1)) % M = r + 1
    BY <2>1, DivModOf
  <2>4. 0 * M + (r + 1) = r + 1
    BY <1>2
  <2> QED  BY <1>1, <2>1, <2>2, <2>3, <2>4
<1>5. CASE r + 1 = M
  <2>1. x + 1 = (d + 1) * M + 0
    BY <1>2, <1>3, <1>5
  <2>2. ((d + 1) * M + 0) % M = 0 /\ (1 * M + 0) % M = 0
    BY <1>2, DivModOf
  <2>3. 1 * M + 0 = r + 1
    BY <1>5
  <2> QED  BY <1>1, <2>1, <2>2, <2>3
<1> QED  BY <1>2, <1>4, <1>5

LEMMA ModPredecessor ==
  ASSUME NEW M \in Nat \ {0}, NEW x \in 1 .. (M - 1)
  PROVE  (x + M - 1) % M = x - 1
<1>1. x + M - 1 = 1 * M + (x - 1) /\ x - 1 \in 0 .. (M - 1)
  OBVIOUS
<1> QED  BY <1>1, DivModOf

LEMMA ModSmall ==
  ASSUME NEW M \in Nat \ {0}, NEW x \in 0 .. (M - 1)
  PROVE  x % M = x
<1>1. x = 0 * M + x
  OBVIOUS
<1>2. (0 * M + x) % M = x
  BY DivModOf
<1> QED  BY <1>1, <1>2

-----------------------------------------------------------------------------
(* Exclusive or over a finite set. *)

LEMMA XorOverUnique ==
  ASSUME NEW f, NEW S, NEW v, NEW w, IsXorOver(v, f, S), IsXorOver(w, f, S)
  PROVE  v = w
<1>1. v \in Word /\ w \in Word /\ \A b \in BitIndex : Bit(v, b) = Bit(w, b)
  BY DEF IsXorOver
<1> QED  BY ONLY <1>1, WordsEqual

LEMMA XorOverEmpty ==
  ASSUME NEW f
  PROVE  IsXorOver(0, f, {})
<1>1. ASSUME NEW b \in BitIndex
      PROVE  Bit(0, b) = Cardinality({ x \in {} : Bit(f[x], b) = 1 }) % 2
  <2>1. { x \in {} : Bit(f[x], b) = 1 } = {}
    OBVIOUS
  <2>2. Cardinality({}) % 2 = 0
    BY FS_EmptySet
  <2> QED  BY <2>1, <2>2, BitsAssumption
<1> QED  BY <1>1, ZeroIsWord DEF IsXorOver

(* One more element. *)
LEMMA XorOverAdd ==
  ASSUME NEW S, IsFiniteSet(S), NEW x, x \notin S, NEW f, NEW g, NEW w,
         IsXorOver(w, f, S), \A y \in S : g[y] = f[y], g[x] \in Word
  PROVE  IsXorOver(Xor(w, g[x]), g, S \cup {x})
<1>1. w \in Word /\ Xor(w, g[x]) \in Word
  BY XorBits DEF IsXorOver
<1>2. ASSUME NEW b \in BitIndex
      PROVE  Bit(Xor(w, g[x]), b) = Cardinality({ y \in S \cup {x} : Bit(g[y], b) = 1 }) % 2
  <2> DEFINE T == { y \in S : Bit(f[y], b) = 1 }
             U == { y \in S \cup {x} : Bit(g[y], b) = 1 }
  <2>1. IsFiniteSet(T) /\ Cardinality(T) \in Nat
    BY FS_Subset, FS_CardinalityType
  <2>2. Bit(w, b) = Cardinality(T) % 2
    BY DEF IsXorOver
  <2>3. Bit(Xor(w, g[x]), b) = (Bit(w, b) + Bit(g[x], b)) % 2
    BY <1>1, XorBits
  <2>4. CASE Bit(g[x], b) = 1
    <3>1. x \notin T
      OBVIOUS
    <3>2. ASSUME NEW y PROVE y \in U <=> y \in T \cup {x}
      BY <2>4
    <3>3. U = T \cup {x}
      BY ONLY <3>2
    <3>4. Cardinality(U) = Cardinality(T) + 1
      BY <2>1, <3>1, <3>3, FS_AddElement
    <3>5. Bit(Xor(w, g[x]), b) = Cardinality(U) % 2
      <4> HIDE DEF T, U
      <4> QED  BY <2>1, <2>2, <2>3, <2>4, <3>4
    <3> QED  BY <3>5
  <2>5. CASE Bit(g[x], b) = 0
    <3>0. ASSUME NEW y PROVE y \in U <=> y \in T
      BY <2>5
    <3>1. U = T
      BY ONLY <3>0
    <3>5. Bit(Xor(w, g[x]), b) = Cardinality(U) % 2
      <4> HIDE DEF T, U
      <4> QED  BY <2>1, <2>2, <2>3, <2>5, <3>1
    <3> QED  BY <3>5
  <2> QED  BY <2>4, <2>5, BitRange
<1> QED  BY <1>1, <1>2 DEF IsXorOver

(* One element less. *)
LEMMA XorOverRemove ==
  ASSUME NEW S, IsFiniteSet(S), NEW x \in S, NEW f, NEW g, NEW w,
         IsXorOver(w, f, S), \A y \in S \ {x} : g[y] = f[y], f[x] \in Word
  PROVE  IsXorOver(Xor(w, f[x]), g, S \ {x})
<1>1. w \in Word /\ Xor(w, f[x]) \in Word
  BY XorBits DEF IsXorOver
<1>2. ASSUME NEW b \in BitIndex
      PROVE  Bit(Xor(w, f[x]), b) = Cardinality({ y \in S \ {x} : Bit(g[y], b) = 1 }) % 2
  <2> DEFINE T == { y \in S : Bit(f[y], b) = 1 }
             U == { y \in S \ {x} : Bit(g[y], b) = 1 }
  <2>1. IsFiniteSet(T) /\ Cardinality(T) \in Nat
    BY FS_Subset, FS_CardinalityType
  <2>2. Bit(w, b) = Cardinality(T) % 2
    BY DEF IsXorOver
  <2>3. Bit(Xor(w, f[x]), b) = (Bit(w, b) + Bit(f[x], b)) % 2
    BY <1>1, XorBits
  <2>4. CASE Bit(f[x], b) = 1
    <3>1. x \in T
      BY <2>4
    <3>0. ASSUME NEW y PROVE y \in U <=> y \in T \ {x}
      OBVIOUS
    <3>3. U = T \ {x}
      BY ONLY <3>0
    <3>2. Cardinality(U) = Cardinality(T) - 1 /\ Cardinality(U) \in Nat
      BY <2>1, <3>1, <3>3, FS_RemoveElement, FS_CardinalityType
    <3>5. Bit(Xor(w, f[x]), b) = Cardinality(U) % 2
      <4> HIDE DEF T, U
      <4> QED  BY <2>1, <2>2, <2>3, <2>4, <3>2
    <3> QED  BY <3>5
  <2>5. CASE Bit(f[x], b) = 0
    <3>0. ASSUME NEW y PROVE y \in U <=> y \in T
      BY <2>5
    <3>1. U = T
      BY ONLY <3>0
    <3>5. Bit(Xor(w, f[x]), b) = Cardinality(U) % 2
      <4> HIDE DEF T, U
      <4> QED  BY <2>1, <2>2, <2>3, <2>5, <3>1
    <3> QED  BY <3>5
  <2> QED  BY <2>4, <2>5, BitRange
<1> QED  BY <1>1, <1>2 DEF IsXorOver

(* Over one element, it is that element's word. *)
LEMMA XorOverOne ==
  ASSUME NEW f, NEW x, f[x] \in Word, NEW w, IsXorOver(w, f, {x})
  PROVE  w = f[x]
<1>1. IsXorOver(Xor(0, f[x]), f, {} \cup {x})
  BY XorOverEmpty, XorOverAdd, FS_EmptySet
<1>2. {} \cup {x} = {x} /\ Xor(0, f[x]) = f[x]
  BY XorZero
<1> QED  BY <1>1, <1>2, XorOverUnique

(* Two words that cancel are the same. *)
LEMMA XorOverTwo ==
  ASSUME NEW f, NEW x, NEW y, x # y, f[x] \in Word, f[y] \in Word, IsXorOver(0, f, {x, y})
  PROVE  f[x] = f[y]
<1>1. IsXorOver(Xor(0, f[x]), f, {} \cup {x})
  BY XorOverEmpty, XorOverAdd, FS_EmptySet
<1>2. {} \cup {x} = {x} /\ Xor(0, f[x]) = f[x]
  BY XorZero
<1>3. IsXorOver(Xor(f[x], f[y]), f, {x} \cup {y})
  <2>1. IsXorOver(f[x], f, {x})
    BY <1>1, <1>2
  <2>2. IsFiniteSet({x}) /\ y \notin {x}
    BY FS_Singleton
  <2> QED  BY <2>1, <2>2, XorOverAdd
<1>4. {x} \cup {y} = {x, y}
  OBVIOUS
<1>5. Xor(f[x], f[y]) = 0
  BY <1>3, <1>4, XorOverUnique
<1>6. f[x] = Xor(Xor(f[x], f[y]), f[y]) /\ Xor(0, f[y]) = f[y]
  BY XorCancels, XorZero
<1> QED  BY <1>5, <1>6

(* Only the words of the elements matter. *)
LEMMA XorOverSame ==
  ASSUME NEW S, NEW f, NEW g, NEW w, IsXorOver(w, f, S), \A y \in S : g[y] = f[y]
  PROVE  IsXorOver(w, g, S)
<1>1. ASSUME NEW b \in BitIndex
      PROVE  Bit(w, b) = Cardinality({ y \in S : Bit(g[y], b) = 1 }) % 2
  <2>1. { y \in S : Bit(g[y], b) = 1 } = { y \in S : Bit(f[y], b) = 1 }
    OBVIOUS
  <2> QED  BY <2>1 DEF IsXorOver
<1> QED  BY <1>1 DEF IsXorOver

-----------------------------------------------------------------------------
(* Cells. *)

LEMMA PowerOfTwoIsNat ==
  ASSUME NEW L \in PowersOfTwo
  PROVE  L \in Nat \ {0} /\ L <= 2^WordBits /\ 0 .. (L - 1) \subseteq Word
<1>1. L \in Nat \ {0} /\ L <= 2^WordBits
  BY PowersAssumption
<1> QED  BY <1>1, WordBitsAssumption DEF Word

(* A mask below the segment length moves a position within its segment. *)
LEMMA XorSegment ==
  ASSUME NEW L \in PowersOfTwo, NEW s \in Nat, NEW x \in 0 .. (L - 1),
         NEW m \in 0 .. (L - 1), s * L + x \in Word
  PROVE  Xor(s * L + x, m) = s * L + Xor(x, m) /\ Xor(x, m) \in 0 .. (L - 1)
<1> DEFINE a == s * L + x
<1>1. L \in Nat \ {0} /\ m \in Word /\ m < L /\ a \in Word
  BY PowerOfTwoIsNat
<1>2. a \div L = s /\ a % L = x
  BY <1>1, DivModOf
<1> HIDE DEF a
<1>3. Xor(a % L, m) \in 0 .. (L - 1) /\ Xor(a, m) = L * (a \div L) + Xor(a % L, m)
  BY <1>1, XorLowBitsAssumption
<1>4. Xor(x, m) \in 0 .. (L - 1) /\ Xor(a, m) = L * s + Xor(x, m)
  BY <1>2, <1>3
<1>5. L * s = s * L
  BY <1>1
<1> QED  BY <1>4, <1>5 DEF a

LEMMA LowRange ==
  ASSUME NEW p, WellFormed(p), NEW h \in Word
  PROVE  /\ Low1(h, p) \in 0 .. (p.segment_length - 1)
         /\ Low2(h, p) \in 0 .. (p.segment_length - 1)
<1>1. p.segment_length \in Nat \ {0}
  BY PowerOfTwoIsNat DEF WellFormed
<1>2. h \in Nat
  BY WordBitsAssumption DEF Word
<1>3. 2^HashShift \in Nat \ {0}
  BY GeometryAssumption
<1>4. h \div 2^HashShift \in Nat
  <2> DEFINE S == 2^HashShift
  <2> HIDE DEF S
  <2>1. S \in Nat \ {0}
    BY <1>3 DEF S
  <2>2. h \div S \in Nat
    BY <1>2, <2>1
  <2> QED  BY <2>2 DEF S
<1> QED  BY <1>1, <1>2, <1>4 DEF Low1, Low2

(* The three cells of a hash: one in each of three consecutive segments of  *)
(* the array, at offsets that differ by the hash's masks.                   *)
LEMMA CellShape ==
  ASSUME NEW p, WellFormed(p), NEW h \in Word
  PROVE  \E q \in 0 .. (p.segment_count - 1), o \in 0 .. (p.segment_length - 1) :
           LET L == p.segment_length
           IN  /\ H0(h, p) = q * L + o
               /\ H1(h, p) = (q + 1) * L + Xor(o, Low1(h, p))
               /\ H2(h, p) = (q + 2) * L + Xor(o, Low2(h, p))
               /\ Xor(o, Low1(h, p)) \in 0 .. (L - 1)
               /\ Xor(o, Low2(h, p)) \in 0 .. (L - 1)
               /\ (q + 3) * L <= p.array_len
<1> DEFINE L == p.segment_length
           C == p.segment_count
           a == H0(h, p)
           q == a \div L
           o == a % L
<1>1. /\ L \in PowersOfTwo /\ L \in Nat \ {0} /\ C \in Nat \ {0}
      /\ p.array_len = (C + 2) * L /\ p.array_len <= 2^WordBits
  BY PowerOfTwoIsNat DEF WellFormed
<1>2. a \in 0 .. (C * L - 1)
  <2>1. C * L \in Nat \ {0}
    BY <1>1
  <2> QED  BY <2>1, MulHighRange DEF H0
<1>3. q = a \div L /\ o = a % L
  OBVIOUS
<1>4. a \in Nat /\ C * L \in Nat /\ a < C * L
  BY <1>1, <1>2
<1> HIDE DEF L, C, a, q, o
<1>5. q \in Nat /\ o \in 0 .. (L - 1)
  BY <1>1, <1>3, <1>4
<1>6. a = q * L + o
  <2>1. L \in Nat \ {0} /\ a \in Nat
    BY <1>1, <1>4
  <2> QED  BY ONLY <1>3, <2>1, DivModForm
<1>7. q < C
  <2> SUFFICES ASSUME q >= C PROVE FALSE
    BY <1>1, <1>5
  <2>1. q * L >= C * L
    BY <1>1, <1>5
  <2> QED  BY <1>1, <1>4, <1>5, <1>6, <2>1
<1>8. (q + 3) * L <= p.array_len
  <2>1. (q + 3) * L <= (C + 2) * L
    BY <1>1, <1>5, <1>7
  <2> QED  BY <1>1, <2>1
<1>9. Low1(h, p) \in 0 .. (L - 1) /\ Low2(h, p) \in 0 .. (L - 1)
  BY LowRange DEF L
<1>10. /\ (q + 1) * L + o \in Word /\ (q + 2) * L + o \in Word
  <2>1. (q + 1) * L + o < (q + 3) * L /\ (q + 2) * L + o < (q + 3) * L
    BY <1>1, <1>5
  <2>2. p.array_len \in Nat /\ 2^WordBits \in Nat
    BY WordBitsAssumption DEF WellFormed
  <2>3. (q + 1) * L + o \in Nat /\ (q + 2) * L + o \in Nat
    BY <1>1, <1>5
  <2> QED  BY <1>1, <1>5, <1>8, <2>1, <2>2, <2>3 DEF Word
<1>11. /\ a + L = (q + 1) * L + o
       /\ a + 2 * L = (q + 2) * L + o
  BY <1>1, <1>5, <1>6
<1> DEFINE m1 == Low1(h, p)
           m2 == Low2(h, p)
<1> HIDE DEF m1, m2
<1>12. m1 \in 0 .. (L - 1) /\ m2 \in 0 .. (L - 1)
  BY <1>9 DEF m1, m2
<1>13. Xor((q + 1) * L + o, m1) = (q + 1) * L + Xor(o, m1) /\ Xor(o, m1) \in 0 .. (L - 1)
  <2>1. q + 1 \in Nat
    BY <1>5
  <2> QED  BY ONLY <1>1, <1>5, <1>10, <1>12, <2>1, XorSegment
<1>14. Xor((q + 2) * L + o, m2) = (q + 2) * L + Xor(o, m2) /\ Xor(o, m2) \in 0 .. (L - 1)
  <2>1. q + 2 \in Nat
    BY <1>5
  <2> QED  BY ONLY <1>1, <1>5, <1>10, <1>12, <2>1, XorSegment
<1>15. q \in 0 .. (C - 1)
  BY <1>1, <1>5, <1>7
<1>16. /\ H0(h, p) = q * L + o
       /\ H1(h, p) = (q + 1) * L + Xor(o, Low1(h, p))
       /\ H2(h, p) = (q + 2) * L + Xor(o, Low2(h, p))
  BY <1>6, <1>11, <1>13, <1>14 DEF H1, H2, a, L, m1, m2
<1> QED  BY <1>5, <1>8, <1>13, <1>14, <1>15, <1>16 DEF L, C, m1, m2

LEMMA CellAtCases ==
  \A h, p : /\ CellAt(h, p, 0) = H0(h, p)
            /\ CellAt(h, p, 1) = H1(h, p)
            /\ CellAt(h, p, 2) = H2(h, p)
BY DEF CellAt

(* The three cells of a hash are cells of the array, and are different.     *)
THEOREM CellsAreThree ==
  ASSUME NEW p, WellFormed(p), NEW h \in Word
  PROVE  /\ \A pos \in Positions : CellAt(h, p, pos) \in 0 .. (p.array_len - 1)
         /\ \A pos1, pos2 \in Positions :
               CellAt(h, p, pos1) = CellAt(h, p, pos2) => pos1 = pos2
<1> DEFINE L == p.segment_length
<1>1. L \in Nat \ {0} /\ p.array_len \in Nat
  BY PowerOfTwoIsNat DEF WellFormed
<1>2. PICK q \in 0 .. (p.segment_count - 1), o \in 0 .. (L - 1) :
        /\ H0(h, p) = q * L + o
        /\ H1(h, p) = (q + 1) * L + Xor(o, Low1(h, p))
        /\ H2(h, p) = (q + 2) * L + Xor(o, Low2(h, p))
        /\ Xor(o, Low1(h, p)) \in 0 .. (L - 1)
        /\ Xor(o, Low2(h, p)) \in 0 .. (L - 1)
        /\ (q + 3) * L <= p.array_len
  BY CellShape
<1> HIDE DEF L
<1> DEFINE o1 == Xor(o, Low1(h, p))
           o2 == Xor(o, Low2(h, p))
<1> HIDE DEF o1, o2
<1>3. q \in Nat /\ o \in 0 .. (L - 1) /\ o1 \in 0 .. (L - 1) /\ o2 \in 0 .. (L - 1)
  BY <1>2 DEF o1, o2
<1>4. /\ H0(h, p) = q * L + o
      /\ H1(h, p) = (q + 1) * L + o1
      /\ H2(h, p) = (q + 2) * L + o2
  BY <1>2 DEF o1, o2
<1>5. (q + 1) * L = q * L + L /\ (q + 2) * L = q * L + 2 * L /\ (q + 3) * L = q * L + 3 * L
  BY <1>1, <1>3
<1>6. q * L \in Nat
  BY <1>1, <1>3
<1> DEFINE b == q * L
<1> HIDE DEF b
<1>7. /\ b \in Nat /\ b + 3 * L <= p.array_len
      /\ H0(h, p) = b + o
      /\ H1(h, p) = b + L + o1
      /\ H2(h, p) = b + 2 * L + o2
  BY <1>2, <1>4, <1>5, <1>6 DEF b
<1>8. /\ H0(h, p) \in 0 .. (p.array_len - 1)
      /\ H1(h, p) \in 0 .. (p.array_len - 1)
      /\ H2(h, p) \in 0 .. (p.array_len - 1)
      /\ H0(h, p) # H1(h, p) /\ H0(h, p) # H2(h, p) /\ H1(h, p) # H2(h, p)
  BY <1>1, <1>3, <1>7
<1> QED  BY <1>8, CellAtCases DEF Positions

(* A negative number above -M, modulo M. *)
LEMMA ModNegative ==
  ASSUME NEW M \in Nat \ {0}, NEW x \in Int, x + M \in 0 .. (M - 1)
  PROVE  x % M = x + M
OBVIOUS

(* The bits of the masks, and the strides they select.                      *)
LEMMA MaskBits ==
  /\ Is0(0) = 1 /\ Is0(1) = 0 /\ Is0(2) = 0
  /\ Is1(0) = 0 /\ Is1(1) = 1 /\ Is1(2) = 0
  /\ Is2(0) = 0 /\ Is2(1) = 0 /\ Is2(2) = 1
<1>1. (0 - 1) % 256 = 255 /\ (1 - 1) % 256 = 0 /\ (2 - 1) % 256 = 1
  <2>1. 256 \in Nat \ {0} /\ 0 - 1 \in Int /\ (0 - 1) + 256 = 255 /\ 255 \in 0 .. (256 - 1)
    OBVIOUS
  <2>2. (0 - 1) % 256 = (0 - 1) + 256
    <3> DEFINE x == 0 - 1
               M == 256
    <3>1. M \in Nat \ {0} /\ x \in Int /\ x + M \in 0 .. (M - 1)
      BY <2>1
    <3> HIDE DEF x, M
    <3>2. x % M = x + M
      BY <3>1, ModNegative
    <3> QED  BY <3>2 DEF x, M
  <2>3. (1 - 1) % 256 = 0 /\ (2 - 1) % 256 = 1
    OBVIOUS
  <2> QED  BY <2>1, <2>2, <2>3
<1>2. 255 \div 128 = 1 /\ 0 \div 128 = 0 /\ 1 \div 128 = 0
  OBVIOUS
<1>3. 0 % 2 = 0 /\ 1 % 2 = 1 /\ 2 % 2 = 0 /\ 0 \div 2 = 0 /\ 1 \div 2 = 0 /\ 2 \div 2 = 1
  OBVIOUS
<1> QED  BY <1>1, <1>2, <1>3 DEF Is0, Is1, Is2

LEMMA Strides ==
  ASSUME NEW len \in Nat, len > 0, 3 * len <= 2^WordBits
  PROVE  /\ Stride(0, len) = len
         /\ Stride(1, len) = 2^WordBits - 2 * len
<1> DEFINE W    == 2^WordBits
           back == (-2 * len) % 2^WordBits
<1>1. W \in Nat /\ W > 0 /\ len \in Word
  BY WordBitsAssumption DEF Word
<1>2. back = W - 2 * len
  <2>1. -2 * len \in Int /\ -2 * len + W \in 0 .. (W - 1)
    BY <1>1
  <2> HIDE DEF W
  <2>2. (-2 * len) % W = -2 * len + W
    BY <1>1, <2>1
  <2> QED  BY <1>1, <2>2 DEF W
<1>3. back \in Word
  BY <1>1, <1>2 DEF Word
<1> HIDE DEF back, W
<1>4. Stride(0, len) = len
  <2>1. Stride(0, len) = Xor(len, 0)
    BY DEF Stride, Select
  <2> QED  BY <1>1, <2>1, XorZero
<1>5. Stride(1, len) = back
  <2>1. Stride(1, len) = Xor(len, Xor(len, back))
    BY DEF Stride, Select, back
  <2>2. Xor(len, Xor(len, back)) = Xor(Xor(len, len), back)
    BY <1>1, <1>3, XorAssociates
  <2>3. Xor(len, len) = 0 /\ Xor(0, back) = back
    BY <1>1, <1>3, XorSelf, XorZero
  <2> QED  BY <2>1, <2>2, <2>3
<1> QED  BY <1>2, <1>4, <1>5 DEF W

(* A sum modulo the width whose true value is a word, or one width above or *)
(* below a word.                                                            *)
LEMMA WrapsOnce ==
  ASSUME NEW x \in Int, NEW y \in Word, x = y \/ x = y + 2^WordBits \/ x = y - 2^WordBits
  PROVE  x % 2^WordBits = y
<1> DEFINE W == 2^WordBits
<1>1. W \in Nat /\ W > 0 /\ y \in 0 .. (W - 1)
  BY WordBitsAssumption DEF Word
<1> HIDE DEF W
<1>2. x = y \/ x = y + W \/ x = y - W
  BY DEF W
<1>3. x % W = y
  BY <1>1, <1>2
<1> QED  BY <1>3 DEF W

(* From any of its cells, the formula of fcm_peel finds a hash's two others *)
(* and the bits of its positions there.                                     *)
THEOREM OthersFound ==
  ASSUME NEW p, WellFormed(p), NEW h \in Word, NEW found \in Positions
  PROVE  LET idx  == CellAt(h, p, found)
             pos1 == (found + 1) % 3
             pos2 == (found + 2) % 3
         IN  /\ Other1(idx, h, found, p) = CellAt(h, p, pos1)
             /\ Other2(idx, h, found, p) = CellAt(h, p, pos2)
             /\ Flip1(found) = pos1
             /\ Flip2(found) = pos2
<1> DEFINE L == p.segment_length
           m1 == Low1(h, p)
           m2 == Low2(h, p)
           m  == Xor(m1, m2)
<1>1. L \in PowersOfTwo /\ L \in Nat \ {0} /\ 0 .. (L - 1) \subseteq Word
      /\ p.array_len \in Nat /\ p.array_len <= 2^WordBits /\ 2^WordBits \in Nat
  BY PowerOfTwoIsNat, WordBitsAssumption DEF WellFormed
<1>2. PICK q \in 0 .. (p.segment_count - 1), o \in 0 .. (L - 1) :
        /\ H0(h, p) = q * L + o
        /\ H1(h, p) = (q + 1) * L + Xor(o, m1)
        /\ H2(h, p) = (q + 2) * L + Xor(o, m2)
        /\ Xor(o, m1) \in 0 .. (L - 1)
        /\ Xor(o, m2) \in 0 .. (L - 1)
        /\ (q + 3) * L <= p.array_len
  BY CellShape
<1>3. m1 \in 0 .. (L - 1) /\ m2 \in 0 .. (L - 1)
  BY LowRange
<1> DEFINE o1 == Xor(o, m1)
           o2 == Xor(o, m2)
<1> HIDE DEF L, m1, m2, m, o1, o2
<1>4. /\ q \in Nat /\ o \in 0 .. (L - 1) /\ o1 \in 0 .. (L - 1) /\ o2 \in 0 .. (L - 1)
      /\ o \in Word /\ o1 \in Word /\ o2 \in Word /\ m1 \in Word /\ m2 \in Word
  BY <1>1, <1>2, <1>3 DEF o1, o2
<1>5. ASSUME NEW k \in {q, q + 1, q + 2}, NEW x \in 0 .. (L - 1), NEW y \in 0 .. (L - 1)
      PROVE  Xor(k * L + x, y) = k * L + Xor(x, y)
  <2>1. k \in Nat /\ k + 1 <= q + 3
    BY <1>4
  <2>2. (k + 1) * L <= (q + 3) * L
    BY <1>1, <1>4, <2>1
  <2>3. k * L + x \in Nat /\ k * L + x < (k + 1) * L
    BY <1>1, <2>1
  <2>4. (q + 3) * L \in Nat /\ (q + 3) * L <= 2^WordBits
    BY <1>1, <1>2, <1>4
  <2>5. k * L + x \in Word
    BY <1>1, <2>2, <2>3, <2>4 DEF Word
  <2> QED  BY ONLY <1>1, <2>1, <2>5, x \in 0 .. (L - 1), y \in 0 .. (L - 1), XorSegment
<1>6. m \in 0 .. (L - 1)
  <2>1. 0 * L + m1 = m1
    BY <1>1, <1>3
  <2>2. 0 \in Nat /\ 0 * L + m1 \in Word
    BY <2>1, <1>4
  <2> QED  BY ONLY <1>1, <1>3, <2>2, XorSegment DEF m
<1>7. /\ Xor(o1, m1) = o /\ Xor(o2, m2) = o
      /\ Xor(o1, m) = o2 /\ Xor(o2, m) = o1
      /\ Xor(m1, 0) = m1 /\ Xor(0, m2) = m2 /\ Xor(m1, m2) = m
  <2>1. Xor(o1, m1) = o /\ Xor(o2, m2) = o
    BY <1>4, XorCancels DEF o1, o2
  <2>2. m \in Word
    BY <1>4, XorBits DEF m
  <2>3. Xor(o1, m) = o2
    <3>1. Xor(o1, Xor(m1, m2)) = Xor(Xor(o1, m1), m2)
      BY <1>4, XorAssociates
    <3> QED  BY <2>1, <3>1 DEF m, o2
  <2>4. Xor(o2, m) = o1
    <3>1. Xor(o2, Xor(m2, m1)) = Xor(Xor(o2, m2), m1)
      BY <1>4, XorAssociates
    <3>2. m = Xor(m2, m1)
      BY <1>4, XorCommutes DEF m
    <3> QED  BY <2>1, <3>1, <3>2 DEF o1
  <2> QED  BY <1>4, <2>1, <2>3, <2>4, XorZero DEF m
<1>8. /\ H0(h, p) = q * L + o
      /\ H1(h, p) = (q + 1) * L + o1
      /\ H2(h, p) = (q + 2) * L + o2
  BY <1>2 DEF o1, o2
<1>9. /\ H0(h, p) + L = (q + 1) * L + o /\ H0(h, p) + 2 * L = (q + 2) * L + o
      /\ H1(h, p) + L = (q + 2) * L + o1 /\ H1(h, p) - L = q * L + o1
      /\ H2(h, p) - 2 * L = q * L + o2 /\ H2(h, p) - L = (q + 1) * L + o2
  BY <1>1, <1>4, <1>8
<1>10. /\ Xor(H0(h, p) + L, m1) = H1(h, p) /\ Xor(H0(h, p) + 2 * L, m2) = H2(h, p)
       /\ Xor(H1(h, p) + L, m) = H2(h, p) /\ Xor(H1(h, p) - L, m1) = H0(h, p)
       /\ Xor(H2(h, p) - 2 * L, m2) = H0(h, p) /\ Xor(H2(h, p) - L, m) = H1(h, p)
  <2>1. /\ Xor(q * L + o1, m1) = q * L + Xor(o1, m1)
        /\ Xor(q * L + o2, m2) = q * L + Xor(o2, m2)
        /\ Xor((q + 1) * L + o, m1) = (q + 1) * L + Xor(o, m1)
        /\ Xor((q + 1) * L + o2, m) = (q + 1) * L + Xor(o2, m)
        /\ Xor((q + 2) * L + o, m2) = (q + 2) * L + Xor(o, m2)
        /\ Xor((q + 2) * L + o1, m) = (q + 2) * L + Xor(o1, m)
    BY <1>3, <1>4, <1>5, <1>6
  <2> QED  BY <1>7, <1>8, <1>9, <2>1 DEF o1, o2
<1>11. /\ Stride(0, L) = L /\ Stride(1, L) = 2^WordBits - 2 * L
       /\ (H0(h, p) + L) % 2^WordBits = H0(h, p) + L
       /\ (H1(h, p) + L) % 2^WordBits = H1(h, p) + L
       /\ (H2(h, p) + (2^WordBits - 2 * L)) % 2^WordBits = H2(h, p) - 2 * L
       /\ (H0(h, p) - (2^WordBits - 2 * L)) % 2^WordBits = H0(h, p) + 2 * L
       /\ (H1(h, p) - L) % 2^WordBits = H1(h, p) - L
       /\ (H2(h, p) - L) % 2^WordBits = H2(h, p) - L
  <2> DEFINE b == q * L
             W == 2^WordBits
  <2>1. b \in Nat /\ (q + 1) * L = b + L /\ (q + 2) * L = b + 2 * L /\ (q + 3) * L = b + 3 * L
    BY <1>1, <1>4
  <2>2. W \in Nat
    BY <1>1
  <2>3. b + 3 * L <= W
    BY <1>1, <1>2, <2>1
  <2> HIDE DEF b, W
  <2>4. /\ H0(h, p) = b + o /\ H1(h, p) = b + L + o1 /\ H2(h, p) = b + 2 * L + o2
    BY <1>1, <1>4, <1>8, <2>1 DEF b
  <2>5. Stride(0, L) = L /\ Stride(1, L) = 2^WordBits - 2 * L
    <3>1. L > 0 /\ 3 * L <= 2^WordBits
      BY <1>1, <2>1, <2>2, <2>3 DEF W
    <3> QED  BY <1>1, <3>1, Strides
  <2>6. /\ H0(h, p) + L \in Word /\ H1(h, p) + L \in Word /\ H2(h, p) - 2 * L \in Word
        /\ H0(h, p) + 2 * L \in Word /\ H1(h, p) - L \in Word /\ H2(h, p) - L \in Word
    <3>1. /\ H0(h, p) + L \in 0 .. (W - 1) /\ H1(h, p) + L \in 0 .. (W - 1)
          /\ H2(h, p) - 2 * L \in 0 .. (W - 1) /\ H0(h, p) + 2 * L \in 0 .. (W - 1)
          /\ H1(h, p) - L \in 0 .. (W - 1) /\ H2(h, p) - L \in 0 .. (W - 1)
      BY <1>1, <1>4, <2>1, <2>2, <2>3, <2>4
    <3> QED  BY <3>1 DEF Word, W
  <2>7. /\ H0(h, p) \in Int /\ H1(h, p) \in Int /\ H2(h, p) \in Int
    BY <1>1, <1>4, <2>1, <2>4
  <2>8. /\ H2(h, p) + (W - 2 * L) = (H2(h, p) - 2 * L) + W
        /\ H0(h, p) - (W - 2 * L) = (H0(h, p) + 2 * L) - W
        /\ H2(h, p) + (W - 2 * L) \in Int /\ H0(h, p) - (W - 2 * L) \in Int
    BY <1>1, <2>2, <2>7
  <2>9. /\ (H0(h, p) + L) % 2^WordBits = H0(h, p) + L
        /\ (H1(h, p) + L) % 2^WordBits = H1(h, p) + L
        /\ (H1(h, p) - L) % 2^WordBits = H1(h, p) - L
        /\ (H2(h, p) - L) % 2^WordBits = H2(h, p) - L
    BY <1>1, <2>6, <2>7, WrapsOnce
  <2>10. (H2(h, p) + (2^WordBits - 2 * L)) % 2^WordBits = H2(h, p) - 2 * L
    BY <2>6, <2>8, WrapsOnce DEF W
  <2>11. (H0(h, p) - (2^WordBits - 2 * L)) % 2^WordBits = H0(h, p) + 2 * L
    BY <2>6, <2>8, WrapsOnce DEF W
  <2> QED  BY <2>5, <2>9, <2>10, <2>11
<1>12. CASE found = 0
  <2>1. /\ Other1(H0(h, p), h, 0, p) = Xor((H0(h, p) + Stride(0, L)) % 2^WordBits, Xor(m1, 0))
        /\ Other2(H0(h, p), h, 0, p) = Xor((H0(h, p) - Stride(1, L)) % 2^WordBits, Xor(0, m2))
    BY MaskBits DEF Other1, Other2, Without, L, m1, m2
  <2>2. (0 + 1) % 3 = 1 /\ (0 + 2) % 3 = 2 /\ Flip1(0) = 1 /\ Flip2(0) = 2
    BY MaskBits DEF Flip1, Flip2, Select
  <2> QED  BY <1>7, <1>10, <1>11, <1>12, <2>1, <2>2, CellAtCases
<1>13. CASE found = 1
  <2>1. /\ Other1(H1(h, p), h, 1, p) = Xor((H1(h, p) + Stride(0, L)) % 2^WordBits, Xor(m1, m2))
        /\ Other2(H1(h, p), h, 1, p) = Xor((H1(h, p) - Stride(0, L)) % 2^WordBits, Xor(m1, 0))
    BY MaskBits DEF Other1, Other2, Without, L, m1, m2
  <2>2. (1 + 1) % 3 = 2 /\ (1 + 2) % 3 = 0 /\ Flip1(1) = 2 /\ Flip2(1) = 0
    BY MaskBits DEF Flip1, Flip2, Select
  <2> QED  BY <1>7, <1>10, <1>11, <1>13, <2>1, <2>2, CellAtCases
<1>14. CASE found = 2
  <2>1. /\ Other1(H2(h, p), h, 2, p) = Xor((H2(h, p) + Stride(1, L)) % 2^WordBits, Xor(0, m2))
        /\ Other2(H2(h, p), h, 2, p) = Xor((H2(h, p) - Stride(0, L)) % 2^WordBits, Xor(m1, m2))
    BY MaskBits DEF Other1, Other2, Without, L, m1, m2
  <2>2. (2 + 1) % 3 = 0 /\ (2 + 2) % 3 = 1 /\ Flip1(2) = 0 /\ Flip2(2) = 1
    BY MaskBits DEF Flip1, Flip2, Select
  <2> QED  BY <1>7, <1>10, <1>11, <1>14, <2>1, <2>2, CellAtCases
<1> QED  BY <1>12, <1>13, <1>14 DEF Positions

-----------------------------------------------------------------------------
(* Parameters. *)

LEMMA InitParamsWellFormed ==
  ASSUME NEW n \in Sizes
  PROVE  WellFormed(InitParams(n))
<1> DEFINE len   == SegmentLength[n]
           total == SegmentTotal(n)
<1>1. len \in PowersOfTwo /\ len \in Nat \ {0} /\ Capacity[n] \in Nat
  BY GeometryAssumption, PowersAssumption
<1>2. (Capacity[n] + len - 1) \div len \in Nat
  <2>1. Capacity[n] + len - 1 \in Nat
    BY <1>1
  <2> QED  BY <1>1, <2>1
<1>3. total \in Nat /\ total >= 3
  BY <1>2 DEF SegmentTotal
<1>4. InitParams(n).array_len <= 2^WordBits
  BY GeometryAssumption
<1>5. /\ InitParams(n).segment_length = len
      /\ InitParams(n).segment_count = total - 2
      /\ InitParams(n).array_len = total * len
  BY DEF InitParams
<1>6. InitParams(n) \in [segment_length : PowersOfTwo, segment_count : Nat \ {0}, array_len : Nat]
  <2>1. total - 2 \in Nat \ {0} /\ total * len \in Nat
    BY <1>1, <1>3
  <2> QED  BY <1>1, <2>1 DEF InitParams
<1>7. (total - 2) + 2 = total
  BY <1>3
<1> QED  BY <1>4, <1>5, <1>6, <1>7 DEF WellFormed

(* Shrinking keeps whole segments that fill the array, and growing undoes it. *)
LEMMA ShrinkThenGrow ==
  ASSUME NEW p, WellFormed(p), p.segment_length > 1
  PROVE  WellFormed(Shrink(p)) /\ Grow(Shrink(p)) = p
<1> DEFINE len  == p.segment_length
           cnt  == p.segment_count
           half == len \div 2
<1>1. /\ len \in PowersOfTwo /\ len \in Nat \ {0} /\ cnt \in Nat \ {0} /\ p.array_len \in Nat
      /\ p.array_len = (cnt + 2) * len
  BY PowersAssumption DEF WellFormed
<1>2. half \in PowersOfTwo /\ half \in Nat \ {0} /\ len = 2 * half
  <2>1. len % 2 = 0 /\ half \in PowersOfTwo
    BY <1>1, PowersAssumption
  <2>2. len = 2 * half
    BY <1>1, <2>1
  <2> QED  BY <2>1, <2>2, PowersAssumption
<1>3. /\ Shrink(p).segment_length = half
      /\ Shrink(p).segment_count = cnt * 2 + 2
      /\ Shrink(p).array_len = p.array_len
  BY DEF Shrink, WellFormed
<1>4. p.array_len = ((cnt * 2 + 2) + 2) * half
  <2> HIDE DEF half, len, cnt
  <2>1. (cnt + 2) * (2 * half) = ((cnt * 2 + 2) + 2) * half
    BY <1>1, <1>2
  <2> QED  BY <1>1, <1>2, <2>1
<1>5. Shrink(p) \in [segment_length : PowersOfTwo, segment_count : Nat \ {0}, array_len : Nat]
  <2>1. cnt * 2 + 2 \in Nat \ {0}
    BY ONLY <1>1
  <2>2. Shrink(p) = [p EXCEPT !.segment_length = half, !.segment_count = cnt * 2 + 2]
    BY DEF Shrink, WellFormed
  <2> QED  BY <1>1, <1>2, <2>1, <2>2 DEF WellFormed
<1>6. WellFormed(Shrink(p))
  BY <1>3, <1>4, <1>5 DEF WellFormed
<1>7. half * 2 = len /\ (cnt * 2 + 2) \div 2 - 1 = cnt
  <2> HIDE DEF half, len, cnt
  <2>1. half * 2 = len
    BY <1>1, <1>2
  <2>2. (cnt * 2 + 2) \div 2 = cnt + 1
    BY ONLY <1>1
  <2> QED  BY <1>1, <2>1, <2>2
<1>8. Grow(Shrink(p)) = p
  <2>1. Grow(Shrink(p)) = [p EXCEPT !.segment_length = len, !.segment_count = cnt]
    BY <1>7 DEF Grow, Shrink, WellFormed
  <2> QED  BY <2>1 DEF WellFormed
<1> QED  BY <1>6, <1>8

LEMMA ShrunkWellFormed ==
  ASSUME NEW n \in Sizes, Resizable(n)
  PROVE  WellFormed(Shrink(InitParams(n))) /\ Grow(Shrink(InitParams(n))) = InitParams(n)
<1>1. InitParams(n).segment_length > 1
  BY GeometryAssumption DEF InitParams
<1> QED  BY <1>1, InitParamsWellFormed, ShrinkThenGrow

LEMMA ParamsInvWellFormed ==
  ASSUME ParamsInv
  PROVE  WellFormed(params)
BY InitParamsWellFormed, ShrunkWellFormed DEF ParamsInv, Running

LEMMA ParamsInvInit == Init => ParamsInv
BY PeelAssumption DEF Init, ParamsInv, Running, Shrunk

(* A new attempt resizes the parameters as its number says. *)
LEMMA ResizedParamsFollow ==
  ASSUME ParamsInv, pc = "attempt"
  PROVE  ResizedParams = IF Resizable(size) /\ iteration % 4 = 2
                         THEN Shrink(InitParams(size)) ELSE InitParams(size)
<1>1. CASE Resizable(size) /\ iteration % 4 = 3
  <2>1. params = Shrink(InitParams(size)) /\ size \in Sizes
    BY <1>1 DEF ParamsInv, Running, Shrunk
  <2>2. ResizedParams = Grow(params)
    BY <1>1 DEF ResizedParams
  <2> QED  BY <1>1, <2>1, <2>2, ShrunkWellFormed
<1>2. CASE ~ (Resizable(size) /\ iteration % 4 = 3)
  <2>1. params = InitParams(size)
    BY <1>2 DEF ParamsInv, Running, Shrunk
  <2> QED  BY <1>2, <2>1 DEF ResizedParams
<1> QED  BY <1>1, <1>2

LEMMA ParamsInvNext == ParamsInv /\ [Next]_vars => ParamsInv'
<1> SUFFICES ASSUME ParamsInv, [Next]_vars PROVE ParamsInv'
  OBVIOUS
<1> USE PeelAssumption
<1>1. CASE StartAttempt
  <2>1. /\ pc' = "scatter" /\ pc = "attempt" /\ UNCHANGED <<size, iteration>>
        /\ params' = ResizedParams /\ iteration <= MaxIterations
    BY <1>1 DEF StartAttempt, inputs, Exhausted, ParamsInv
  <2> QED  BY <2>1, ResizedParamsFollow DEF ParamsInv, Running, Shrunk
<1>2. CASE AllocFails
  <2>1. /\ pc' = "done" /\ pc = "attempt" /\ UNCHANGED <<size, iteration>>
        /\ params' = ResizedParams
    BY <1>2 DEF AllocFails, inputs, Return
  <2> QED  BY <2>1, ResizedParamsFollow DEF ParamsInv, Running
<1>3. CASE RetryAfterOverflow \/ RetryAfterPeel
  <2>1. /\ pc' = "attempt" /\ pc \in {"count", "peel"} /\ UNCHANGED <<size, params>>
        /\ iteration' = iteration + 1
    BY <1>3 DEF RetryAfterOverflow, RetryAfterPeel, inputs, Reset
  <2>2. (iteration + 1) % 4 = 3 <=> iteration % 4 = 2
    BY DEF ParamsInv, Running
  <2> QED  BY <2>1, <2>2 DEF ParamsInv, Running, Shrunk
<1>4. CASE GiveUp \/ Succeed
  BY <1>4 DEF GiveUp, Succeed, Return, inputs, ParamsInv, Running
<1>5. CASE ScatterKey \/ EndScatter \/ CountKey \/ EndCount \/ FillAlone \/ EndFill
           \/ PopStale \/ PeelHash
  <2>1. /\ pc \in Running /\ pc' # "attempt" /\ UNCHANGED <<size, iteration, params>>
    BY <1>5 DEF ScatterKey, EndScatter, CountKey, EndCount, FillAlone, EndFill, PopStale,
                PeelHash, Return, inputs, Running
  <2> QED  BY <2>1 DEF ParamsInv, Running, Shrunk
<1>6. CASE Returned \/ UNCHANGED vars
  BY <1>6 DEF Returned, vars, ParamsInv, Running, Shrunk
<1> QED  BY <1>1, <1>2, <1>3, <1>4, <1>5, <1>6 DEF Next

THEOREM ParamsInvariant == Spec => []ParamsInv
<1> QED  BY ParamsInvInit, ParamsInvNext, PTL DEF Spec

(* The neighbours that peeling takes a hash out of are its other two cells, *)
(* under all the parameters a construction goes through.                    *)
THEOREM OthersAlwaysTheHashsCells == Spec => []OthersAreTheHashsCells
<1>1. ParamsInv => OthersAreTheHashsCells
  BY ParamsInvWellFormed, OthersFound DEF OthersAreTheHashsCells
<1> QED  BY <1>1, ParamsInvariant, PTL

-----------------------------------------------------------------------------
(* Minima, by which what would be an induction is proved. *)

LEMMA MinExists ==
  ASSUME NEW T, T \subseteq Nat, T # {}
  PROVE  \E x \in T : \A y \in T : x <= y
<1> DEFINE U == { 0 .. x : x \in T }
           R == StrictSubsetOrdering(Nat)
<1>1. IsWellFoundedOn(R, FiniteSubsetsOf(Nat))
  BY FS_StrictSubsetOrderingWellFounded
<1>2. U \subseteq FiniteSubsetsOf(Nat) /\ U # {}
  <2>1. ASSUME NEW x \in T PROVE 0 .. x \in FiniteSubsetsOf(Nat)
    BY FS_Interval DEF FiniteSubsetsOf
  <2> QED  BY <2>1
<1>3. PICK u \in U : \A v \in U : ~ (<<v, u>> \in R)
  <2> HIDE DEF U, R
  <2> QED  BY <1>1, <1>2, WFMin
<1>4. PICK x \in T : u = 0 .. x
  OBVIOUS
<1>5. ASSUME NEW y \in T, y < x PROVE FALSE
  <2>1. 0 .. y \subseteq 0 .. x /\ 0 .. y # 0 .. x /\ 0 .. y \in SUBSET Nat /\ 0 .. x \in SUBSET Nat
    <3>1. x \in 0 .. x /\ x \notin 0 .. y
      BY <1>5
    <3> QED  BY <1>5, <3>1
  <2>2. <<0 .. y, 0 .. x>> \in R
    BY <2>1 DEF StrictSubsetOrdering
  <2> QED  BY <2>2, <1>3, <1>4
<1> QED  BY <1>5

-----------------------------------------------------------------------------
(* Scatter. *)

LEMMA SizeIsNat ==
  ASSUME size \in Sizes
  PROVE  size \in Nat /\ size >= 1 /\ IsFiniteSet(Keys) /\ Cardinality(Keys) = size
<1>1. size \in Nat /\ size >= 1
  BY GeometryAssumption DEF Sizes
<1>2. IsFiniteSet(0 .. (size - 1)) /\ Cardinality(0 .. (size - 1)) = size
  <2>1. 0 \in Int /\ size - 1 \in Int /\ ~ (0 > size - 1) /\ size - 1 - 0 + 1 = size
    BY <1>1
  <2> QED  BY <2>1, FS_Interval
<1> QED  BY <1>1, <1>2 DEF Keys

LEMMA BlocksAreSome ==
  ASSUME NEW p, WellFormed(p)
  PROVE  CeilPower(p.segment_count) \in Nat /\ CeilPower(p.segment_count) >= 2
<1> DEFINE c   == p.segment_count
           len == p.segment_length
           P(w) == /\ w >= 2 /\ w >= c
                   /\ \A q \in PowersOfTwo : (q >= 2 /\ q >= c) => w <= q
<1>1. /\ c \in Nat \ {0} /\ len \in Nat \ {0}
      /\ (c + 2) * len <= 2^WordBits /\ 2^WordBits \in Nat
  BY PowersAssumption, WordBitsAssumption DEF WellFormed
<1>2. c <= 2^WordBits
  <2> HIDE DEF c, len
  <2>1. (c + 2) * len >= (c + 2) * 1
    BY ONLY <1>1
  <2> QED  BY ONLY <1>1, <2>1
<1>3. \E w \in PowersOfTwo : P(w)
  <2>1. c \in 1 .. 2^WordBits
    BY <1>1, <1>2
  <2> HIDE DEF c
  <2> QED  BY <2>1, PowersAssumption
<1>4. CeilPower(c) \in PowersOfTwo /\ P(CeilPower(c))
  <2> HIDE DEF c
  <2> QED  BY <1>3 DEF CeilPower
<1> QED  BY <1>4, PowersAssumption

(* Blocks start inside the array. *)
LEMMA BlockStartRange ==
  ASSUME NEW B \in Nat \ {0}, NEW b \in 0 .. (B - 1), size \in Nat
  PROVE  BlockStart(b, B) \in 0 .. size
<1> DEFINE x == b * size
           d == x \div B
           r == x % B
<1>1. x \in Nat
  OBVIOUS
<1>2. d \in Nat /\ r \in 0 .. (B - 1) /\ x = d * B + r
  <2>1. d = x \div B /\ r = x % B
    OBVIOUS
  <2> HIDE DEF x, d, r
  <2>2. x = d * B + r
    BY <1>1, <2>1, DivModForm
  <2> QED  BY <1>1, <2>1, <2>2
<1>3. d <= size
  <2> SUFFICES ASSUME d >= size + 1 PROVE FALSE
    BY <1>2
  <2> HIDE DEF d, r
  <2>1. d * B >= (size + 1) * B
    BY <1>2
  <2>2. b * size <= B * size
    OBVIOUS
  <2>3. (size + 1) * B = B * size + B
    OBVIOUS
  <2> QED  BY <1>2, <2>1, <2>2, <2>3
<1> QED  BY <1>2, <1>3 DEF BlockStart

LEMMA FirstBlockStart ==
  ASSUME NEW B \in Nat \ {0}, size \in Nat
  PROVE  BlockStart(0, B) = 0
<1>1. 0 * size = 0
  OBVIOUS
<1>2. 0 \div B = 0
  <2>1. (0 * B + 0) \div B = 0
    BY DivModOf
  <2> QED  BY <2>1
<1> QED  BY <1>1, <1>2 DEF BlockStart

LEMMA VisitedIsFinite ==
  ASSUME size \in Sizes, WellFormed(params), pc = "scatter", TypeOK
  PROVE  /\ BlockCount \in Nat \ {0}
         /\ Blocks = 0 .. (BlockCount - 1)
         /\ start_pos \in [Blocks -> 0 .. size]
         /\ IsFiniteSet(Visited)
<1>1. BlockCount \in Nat \ {0}
  BY BlocksAreSome DEF BlockCount
<1>2. start_pos \in [0 .. (BlockCount - 1) -> 0 .. size]
  BY DEF TypeOK
<1>3. Blocks = 0 .. (BlockCount - 1)
  BY <1>2 DEF Blocks
<1>4. IsFiniteSet(Blocks)
  BY <1>1, <1>3, FS_Interval
<1>5. IsFiniteSet(Blocks \X Keys)
  BY <1>4, SizeIsNat, FS_Product
<1>6. Visited \in SUBSET (Blocks \X Keys)
  BY DEF Visited
<1>7. IsFiniteSet(Visited)
  BY ONLY <1>5, <1>6, FS_Subset
<1> QED  BY <1>1, <1>2, <1>3, <1>7

(* While keys remain, some block points at an empty entry: if none did,     *)
(* every entry would have been visited, though fewer than size have.        *)
LEMMA ScatterFindsRoom ==
  ASSUME size \in Sizes, WellFormed(params), pc = "scatter", TypeOK, ScatterInv, i < size
  PROVE  \E b \in Blocks : HasRoom(b)
<1> SUFFICES ASSUME \A b \in Blocks : reverse_order[start_pos[b]] # 0 PROVE FALSE
  BY DEF HasRoom
<1>1. /\ BlockCount \in Nat \ {0} /\ Blocks = 0 .. (BlockCount - 1)
      /\ start_pos \in [Blocks -> 0 .. size] /\ IsFiniteSet(Visited)
  BY VisitedIsFinite
<1>2. size \in Nat /\ size >= 1 /\ Cardinality(Keys) = size
  BY SizeIsNat
<1>3. ASSUME NEW p \in Keys
      PROVE  \E b \in Blocks : <<b, p>> \in Visited
  <2> DEFINE T == { size - start_pos[b] : b \in { c \in Blocks : Start(c) <= p } }
  <2>1. T \subseteq Nat
    BY <1>1, <1>2
  <2>2. 0 \in Blocks /\ Start(0) <= p
    <3>1. Start(0) = 0
      BY <1>1, <1>2, FirstBlockStart DEF Start
    <3> QED  BY <1>1, <3>1 DEF Keys
  <2>3. T # {}
    BY <2>2
  <2>4. PICK t \in T : \A y \in T : t <= y
    <3> HIDE DEF T
    <3> QED  BY <2>1, <2>3, MinExists
  <2>5. PICK b \in Blocks : Start(b) <= p /\ t = size - start_pos[b]
    OBVIOUS
  <2>6. \A c \in Blocks : Start(c) <= p => start_pos[c] <= start_pos[b]
    <3>1. ASSUME NEW c \in Blocks, Start(c) <= p PROVE start_pos[c] <= start_pos[b]
      <4>1. size - start_pos[c] \in T
        BY <3>1
      <4>2. start_pos[c] \in 0 .. size /\ start_pos[b] \in 0 .. size
        BY <1>1
      <4>3. t <= size - start_pos[c]
        BY <2>4, <4>1
      <4> QED  BY ONLY <1>2, <2>5, <4>2, <4>3
    <3> QED  BY <3>1
  <2>7. CASE p < start_pos[b]
    <3>1. <<b, p>> \in Visited
      BY <2>5, <2>7 DEF Visited
    <3> QED  BY <3>1
  <2>8. CASE ~ (p < start_pos[b])
    <3> DEFINE q == start_pos[b]
    <3>1. q \in Keys /\ q <= p
      BY <1>1, <1>2, <2>8 DEF Keys
    <3>2. PICK c \in Blocks : <<c, q>> \in Visited
      BY <3>1 DEF ScatterInv
    <3>3. Start(c) <= q /\ q < start_pos[c]
      BY <3>2 DEF Visited
    <3>4. Start(c) \in 0 .. size
      BY <1>1, <1>2, BlockStartRange DEF Start
    <3>5. Start(c) <= p
      BY <3>1, <3>3, <3>4, <1>2 DEF Keys
    <3>6. start_pos[c] \in 0 .. size /\ start_pos[b] \in 0 .. size
      BY <1>1
    <3> QED  BY <2>6, <3>3, <3>5, <3>6
  <2> QED  BY <2>7, <2>8
<1> DEFINE f == [v \in Visited |-> v[2]]
<1>4. f \in Surjection(Visited, Keys)
  <2>1. f \in [Visited -> Keys]
    BY DEF Visited
  <2>2. \A p \in Keys : \E v \in Visited : f[v] = p
    BY <1>3
  <2> QED  BY <2>1, <2>2 DEF Surjection
<1>5. Cardinality(Keys) <= Cardinality(Visited)
  <2> HIDE DEF f
  <2> QED  BY <1>1, <1>4, FS_Surjection
<1>6. Cardinality(Visited) = i /\ i \in Nat
  BY DEF ScatterInv, TypeOK
<1> QED  BY <1>2, <1>5, <1>6

LEMMA ScatterInvStart ==
  ASSUME TypeOK, ParamsInv, CleanInv, StartAttempt, WellFormed(params')
  PROVE  /\ ScatterInv'
         /\ start_pos' \in [0 .. (BlockCount' - 1) -> 0 .. size]
         /\ start_pos_cap' \in Nat
<1> DEFINE B == CeilPower(params'.segment_count)
<1>1. /\ size' = size /\ pc' = "scatter" /\ i' = 0 /\ reverse_order' = EmptyOrder
      /\ start_pos' = [b \in 0 .. (B - 1) |-> BlockStart(b, B)]
      /\ start_pos_cap' \in {start_pos_cap, B}
  BY DEF StartAttempt, inputs, CleanInv
<1>2. B \in Nat \ {0} /\ BlockCount' = B
  BY BlocksAreSome DEF BlockCount
<1>3. size \in Nat /\ size >= 1
  BY SizeIsNat DEF ParamsInv
<1>4. /\ start_pos' \in [0 .. (B - 1) -> 0 .. size]
      /\ start_pos_cap' \in Nat
  <2> HIDE DEF B
  <2> QED  BY <1>1, <1>2, <1>3, BlockStartRange DEF TypeOK
<1>5. /\ Blocks' = 0 .. (B - 1)
      /\ \A b \in 0 .. (B - 1) : Start(b)' = start_pos'[b] /\ start_pos'[b] \in Nat
  <2>1. \A b \in 0 .. (B - 1) : Start(b)' = BlockStart(b, B)
    BY <1>1, <1>2 DEF Start, BlockStart
  <2> HIDE DEF B
  <2>2. \A b \in 0 .. (B - 1) : start_pos'[b] = BlockStart(b, B)
    BY <1>1
  <2>3. \A b \in 0 .. (B - 1) : start_pos'[b] \in Nat
    BY <1>3, <1>4
  <2>4. Blocks' = 0 .. (B - 1)
    BY <1>1 DEF Blocks
  <2> QED  BY <2>1, <2>2, <2>3, <2>4
<1>6. Visited' = {}
  <2> HIDE DEF B
  <2>1. ASSUME NEW v \in Visited' PROVE FALSE
    <3>1. v[1] \in Blocks' /\ v[2] \in 0 .. (size - 1) /\ Start(v[1])' <= v[2] /\ v[2] < start_pos'[v[1]]
      BY <1>1, <2>1 DEF Visited, Keys
    <3> QED  BY <1>5, <3>1
  <2> QED  BY <2>1
<1>7. \A p \in Keys' : reverse_order'[p] = 0
  BY <1>1, <1>3 DEF EmptyOrder, Keys
<1>8. Placed' = {}
  BY <1>1 DEF Placed
<1>9. \A b \in Blocks' : Start(b)' <= start_pos'[b]
  BY <1>5
<1>10. {p \in Keys' : reverse_order'[p] # 0} = {} /\ {k \in Placed' : mixed'[k] # 0} = {}
  BY <1>7, <1>8
<1>11. ASSUME NEW h \in Word \ {0}
       PROVE  {p \in Keys' : reverse_order'[p] = h} = {} /\ {k \in Placed' : mixed'[k] = h} = {}
  BY <1>7, <1>8
<1>12. Cardinality(Visited') = i'
  BY <1>1, <1>6, FS_EmptySet
<1>13. ScatterInv'
  <2> HIDE DEF B
  <2> QED  BY <1>7, <1>9, <1>10, <1>11, <1>12 DEF ScatterInv
<1> QED  BY <1>2, <1>4, <1>13

(* What one more key, put into an empty entry, adds to a count. *)
LEMMA CountsOneMore ==
  ASSUME NEW A, NEW B, IsFiniteSet(A), IsFiniteSet(B), Cardinality(A) = Cardinality(B),
         NEW a, NEW b, a \notin A, b \notin B
  PROVE  Cardinality(A \cup {a}) = Cardinality(B \cup {b})
BY FS_AddElement

LEMMA ScatterInvStep ==
  ASSUME TypeOK, ParamsInv, CleanInv, ScatterInv, ScatterKey
  PROVE  /\ ScatterInv'
         /\ start_pos' \in [0 .. (BlockCount' - 1) -> 0 .. size]
         /\ reverse_order' \in [0 .. size -> Word]
         /\ reverse_order'[size] = 1
<1>1. /\ pc = "scatter" /\ pc' = "scatter" /\ i < size /\ i' = i + 1
      /\ UNCHANGED <<size, params, mixed>>
  BY DEF ScatterKey, inputs
<1>2. /\ BlockCount \in Nat \ {0} /\ Blocks = 0 .. (BlockCount - 1)
      /\ start_pos \in [Blocks -> 0 .. size] /\ IsFiniteSet(Visited)
  BY <1>1, VisitedIsFinite, ParamsInvWellFormed DEF ParamsInv
<1>3. size \in Nat /\ size >= 1 /\ IsFiniteSet(Keys) /\ i \in Keys /\ i \in Nat
  BY <1>1, SizeIsNat DEF ParamsInv, Keys, TypeOK
<1>4. mixed[i] \in Word
  BY <1>3 DEF TypeOK
<1>5. PICK b \in Blocks : /\ HasRoom(b)
                          /\ reverse_order' = [reverse_order EXCEPT ![start_pos[b]] = mixed[i]]
                          /\ start_pos' = [start_pos EXCEPT ![b] = @ + 1]
  <2>1. PICK d \in Blocks :
          LET b == Probe(mixed[i], d)
          IN  /\ HasRoom(b)
              /\ reverse_order' = [reverse_order EXCEPT ![start_pos[b]] = mixed[i]]
              /\ start_pos' = [start_pos EXCEPT ![b] = @ + 1]
    BY DEF ScatterKey
  <2>2. Probe(mixed[i], d) \in Blocks
    <3>1. MulHigh(mixed[i], BlockCount) \in Nat
      BY <1>2, <1>4, MulHighRange
    <3>2. (MulHigh(mixed[i], BlockCount) + d) % BlockCount \in 0 .. (BlockCount - 1)
      BY <1>2, <3>1
    <3> QED  BY <1>2, <3>2 DEF Probe
  <2> QED  BY <2>1, <2>2
<1> DEFINE q == start_pos[b]
           h0 == mixed[i]
<1>6. q \in Keys /\ reverse_order[q] = 0
  <2>1. q \in 0 .. size /\ reverse_order[q] = 0
    BY <1>2, <1>5 DEF HasRoom
  <2>2. q # size
    BY <2>1 DEF CleanInv
  <2> QED  BY <1>3, <2>1, <2>2 DEF Keys
<1>7. /\ Keys' = Keys /\ Blocks' = Blocks /\ BlockCount' = BlockCount
      /\ \A c \in Blocks : Start(c)' = Start(c) /\ Start(c) \in 0 .. size
  <2>1. Blocks' = Blocks
    BY <1>2, <1>5 DEF Blocks
  <2>2. \A c : Start(c)' = Start(c)
    BY <1>1 DEF Start, BlockStart, BlockCount
  <2>3. \A c \in Blocks : Start(c) \in 0 .. size
    BY <1>2, <1>3, BlockStartRange DEF Start
  <2> QED  BY <1>1, <2>1, <2>2, <2>3 DEF Keys, BlockCount
<1>8. /\ start_pos'[b] = q + 1
      /\ \A c \in Blocks \ {b} : start_pos'[c] = start_pos[c]
      /\ start_pos' \in [Blocks -> 0 .. size]
  <2>1. q + 1 \in 0 .. size
    BY <1>3, <1>6 DEF Keys
  <2> QED  BY <1>2, <1>5, <2>1
<1>9. /\ reverse_order'[q] = h0
      /\ \A p \in Keys \ {q} : reverse_order'[p] = reverse_order[p]
      /\ reverse_order' \in [0 .. size -> Word]
      /\ reverse_order'[size] = 1
  <2>1. reverse_order \in [0 .. size -> Word] /\ q \in 0 .. size /\ q # size /\ reverse_order[size] = 1
    BY <1>3, <1>6 DEF TypeOK, CleanInv, Keys
  <2>2. /\ \A p \in Keys : p \in 0 .. size
        /\ size \in 0 .. size
    BY <1>3 DEF Keys
  <2> QED  BY <1>4, <1>5, <2>1, <2>2
<1>10. \A c \in Blocks : Start(c)' <= start_pos'[c]
  <2>1. \A c \in Blocks : Start(c) <= start_pos[c] /\ start_pos[c] \in 0 .. size
    BY <1>1, <1>2 DEF ScatterInv
  <2> QED  BY <1>3, <1>7, <1>8, <2>1
<1>11. Visited' = Visited \cup {<<b, q>>} /\ <<b, q>> \notin Visited
  <2>1. Start(b) <= q /\ q \in Nat
    BY <1>1, <1>2 DEF ScatterInv
  <2>2. <<b, q>> \notin Visited
    BY <2>1 DEF Visited
  <2>3. \A c \in Blocks, p \in Keys :
          (Start(c)' <= p /\ p < start_pos'[c]) <=>
            (Start(c) <= p /\ p < start_pos[c]) \/ (c = b /\ p = q)
    <3>1. ASSUME NEW c \in Blocks, NEW p \in Keys
          PROVE  (Start(c)' <= p /\ p < start_pos'[c]) <=>
                   (Start(c) <= p /\ p < start_pos[c]) \/ (c = b /\ p = q)
      <4>1. p \in Nat /\ start_pos[c] \in Nat /\ Start(c) \in Nat /\ Start(c)' = Start(c)
        BY <1>2, <1>3, <1>7 DEF Keys
      <4>2. CASE c = b
        BY <1>8, <2>1, <4>1, <4>2
      <4>3. CASE c # b
        BY <1>8, <4>1, <4>3
      <4> QED  BY <4>2, <4>3
    <3> QED  BY <3>1
  <2>4. Visited' = { v \in Blocks \X Keys : Start(v[1])' <= v[2] /\ v[2] < start_pos'[v[1]] }
    BY <1>7 DEF Visited
  <2>5. ASSUME NEW v PROVE v \in Visited' <=> v \in Visited \cup {<<b, q>>}
    <3>1. CASE v \in Blocks \X Keys
      <4>1. PICK c \in Blocks, p \in Keys : v = <<c, p>>
        BY <3>1
      <4> QED  BY <2>3, <2>4, <4>1 DEF Visited
    <3>2. CASE v \notin Blocks \X Keys
      BY <1>6, <2>4, <3>2 DEF Visited
    <3> QED  BY <3>1, <3>2
  <2>6. Visited' = Visited \cup {<<b, q>>}
    <3> HIDE DEF q
    <3> QED  BY <2>5
  <2> QED  BY <2>2, <2>6
<1>12. Cardinality(Visited') = i'
  <2>1. Cardinality(Visited) = i
    BY <1>1 DEF ScatterInv
  <2> QED  BY <1>1, <1>2, <1>11, <2>1, FS_AddElement
<1>13. ASSUME NEW p \in Keys', reverse_order'[p] # 0
       PROVE  \E c \in Blocks' : <<c, p>> \in Visited'
  <2>1. CASE p = q
    BY <1>7, <1>11, <2>1
  <2>2. CASE p # q
    <3>1. reverse_order[p] # 0
      BY <1>7, <1>9, <1>13, <2>2
    <3>2. PICK c \in Blocks : <<c, p>> \in Visited
      BY <1>1, <1>7, <3>1 DEF ScatterInv
    <3> QED  BY <1>7, <1>11, <3>2
  <2> QED  BY <2>1, <2>2
<1>14. Placed' = Placed \cup {i} /\ i \notin Placed /\ Placed \subseteq Keys
  BY <1>1, <1>3 DEF Placed, Keys
<1>15. IsFiniteSet(Placed)
  BY <1>3, <1>14, FS_Subset
<1>16. Cardinality({p \in Keys' : reverse_order'[p] # 0}) = Cardinality({k \in Placed' : mixed'[k] # 0})
  <2> DEFINE A  == {p \in Keys : reverse_order[p] # 0}
             AA == {p \in Keys' : reverse_order'[p] # 0}
             D  == {k \in Placed : mixed[k] # 0}
             DD == {k \in Placed' : mixed'[k] # 0}
  <2>1. IsFiniteSet(A) /\ IsFiniteSet(D) /\ q \notin A /\ i \notin D
    BY <1>3, <1>6, <1>14, <1>15, FS_Subset
  <2>2. Cardinality(A) = Cardinality(D)
    BY <1>1 DEF ScatterInv
  <2>5. Cardinality(AA) = Cardinality(DD)
    <3>1. CASE h0 # 0
      <4>1. AA = A \cup {q}
        BY <1>6, <1>7, <1>9, <3>1
      <4>2. DD = D \cup {i}
        BY <1>1, <1>14, <3>1
      <4> HIDE DEF A, AA, D, DD, q
      <4> QED  BY <2>1, <2>2, <4>1, <4>2, CountsOneMore
    <3>2. CASE h0 = 0
      <4>1. AA = A
        BY <1>6, <1>7, <1>9, <3>2
      <4>2. DD = D
        BY <1>1, <1>14, <3>2
      <4> QED  BY <2>2, <4>1, <4>2
    <3> QED  BY <3>1, <3>2
  <2> QED  BY <2>5
<1>17. ASSUME NEW h \in Word \ {0}
       PROVE  Cardinality({p \in Keys' : reverse_order'[p] = h}) = Cardinality({k \in Placed' : mixed'[k] = h})
  <2> DEFINE A  == {p \in Keys : reverse_order[p] = h}
             AA == {p \in Keys' : reverse_order'[p] = h}
             D  == {k \in Placed : mixed[k] = h}
             DD == {k \in Placed' : mixed'[k] = h}
  <2>1. IsFiniteSet(A) /\ IsFiniteSet(D) /\ q \notin A /\ i \notin D
    BY <1>3, <1>6, <1>14, <1>15, FS_Subset
  <2>2. Cardinality(A) = Cardinality(D)
    BY <1>1 DEF ScatterInv
  <2>5. Cardinality(AA) = Cardinality(DD)
    <3>1. CASE h0 = h
      <4>1. AA = A \cup {q}
        BY <1>6, <1>7, <1>9, <3>1
      <4>2. DD = D \cup {i}
        BY <1>1, <1>14, <3>1
      <4> HIDE DEF A, AA, D, DD, q
      <4> QED  BY <2>1, <2>2, <4>1, <4>2, CountsOneMore
    <3>2. CASE h0 # h
      <4>1. AA = A
        BY <1>6, <1>7, <1>9, <3>2
      <4>2. DD = D
        BY <1>1, <1>14, <3>2
      <4> QED  BY <2>2, <4>1, <4>2
    <3> QED  BY <3>1, <3>2
  <2> QED  BY <2>5
<1>18. ScatterInv'
  <2>1. \A b2 \in Blocks' : Start(b2)' <= start_pos'[b2]
    BY <1>7, <1>10
  <2>2. \A p \in Keys' : reverse_order'[p] # 0 => \E c \in Blocks' : <<c, p>> \in Visited'
    BY <1>13
  <2>3. \A h \in Word \ {0} :
          Cardinality({p \in Keys' : reverse_order'[p] = h}) = Cardinality({k \in Placed' : mixed'[k] = h})
    BY <1>17
  <2> HIDE DEF q, h0
  <2> QED  BY <1>12, <1>16, <2>1, <2>2, <2>3 DEF ScatterInv
<1> QED  BY <1>2, <1>7, <1>8, <1>9, <1>18
=============================================================================
