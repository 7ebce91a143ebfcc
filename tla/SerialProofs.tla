---------------------------- MODULE SerialProofs ----------------------------
(***************************************************************************)
(* What is proved about the serialized form, for every map: whatever format  *)
(* holds it, it is read back as it was, also when more follows it; and if a   *)
(* reader accepts a buffer whose stored sum is the sum of a map, the buffer   *)
(* holds that map and the reader returns it.                                *)
(***************************************************************************)
EXTENDS Serial, SequenceTheorems, TLAPS

-----------------------------------------------------------------------------
(* Sequences. *)

LEMMA IsSequence ==
  ASSUME NEW S, NEW n \in Nat, NEW f, f = [k \in 1 .. n |-> f[k]],
         \A k \in 1 .. n : f[k] \in S
  PROVE  f \in Seq(S)
<1>1. f \in [1 .. n -> S]
  OBVIOUS
<1> QED  BY <1>1, SeqDef

LEMMA ElementsIn ==
  ASSUME NEW S, NEW s \in Seq(S), NEW k \in 1 .. Len(s)
  PROVE  s[k] \in S
OBVIOUS

(* Two sequences of the same length and elements are the same. *)
LEMMA SameSequence ==
  ASSUME NEW S, NEW T, NEW s \in Seq(S), NEW t \in Seq(T), Len(s) = Len(t),
         \A k \in 1 .. Len(s) : s[k] = t[k]
  PROVE  s = t
<1>1. s \in [1 .. Len(s) -> S] /\ t \in [1 .. Len(t) -> T]
  BY LenProperties
<1>2. DOMAIN s = 1 .. Len(s) /\ DOMAIN t = 1 .. Len(s)
  BY <1>1
<1>3. s = [k \in 1 .. Len(s) |-> s[k]] /\ t = [k \in 1 .. Len(s) |-> t[k]]
  BY <1>1, <1>2
<1> QED  BY <1>3

LEMMA TwoElements ==
  ASSUME NEW S, NEW s \in Seq(S), Len(s) = 2
  PROVE  s = <<s[1], s[2]>>
<1>1. s \in [1 .. 2 -> S]
  BY LenProperties
<1>2. DOMAIN s = 1 .. 2 /\ s = [k \in 1 .. 2 |-> s[k]]
  BY <1>1
<1> QED  BY <1>2

(* Part of a sequence. *)
LEMMA PartOf ==
  ASSUME NEW S, NEW s \in Seq(S), NEW a \in 1 .. (Len(s) + 1), NEW b \in 0 .. Len(s), a <= b + 1
  PROVE  /\ SubSeq(s, a, b) \in Seq(S)
         /\ Len(SubSeq(s, a, b)) = b - a + 1
         /\ \A k \in 1 .. (b - a + 1) : SubSeq(s, a, b)[k] = s[a + k - 1]
OBVIOUS

LEMMA Joined ==
  ASSUME NEW S, NEW s \in Seq(S), NEW t \in Seq(S)
  PROVE  /\ s \o t \in Seq(S)
         /\ Len(s \o t) = Len(s) + Len(t)
         /\ \A k \in 1 .. Len(s) : (s \o t)[k] = s[k]
         /\ \A k \in 1 .. Len(t) : (s \o t)[Len(s) + k] = t[k]
OBVIOUS

-----------------------------------------------------------------------------
(* Words and units. *)

LEMMA PairIs ==
  ASSUME NEW w \in WordUnits
  PROVE  w[1] \in NumUnit /\ w[2] \in NumUnit /\ w = <<w[1], w[2]>>
BY DEF WordUnits

LEMMA UnitsOfWords ==
  ASSUME NEW words \in Seq(WordUnits)
  PROVE  /\ Units(words) \in Seq(NumUnit)
         /\ Len(Units(words)) = 2 * Len(words)
         /\ \A k \in 1 .. Len(words) :
              Units(words)[2 * k - 1] = words[k][1] /\ Units(words)[2 * k] = words[k][2]
<1> DEFINE n == 2 * Len(words)
           E(k) == words[(k + 1) \div 2][((k - 1) % 2) + 1]
           u == Units(words)
<1>1. n \in Nat /\ u = [k \in 1 .. n |-> E(k)]
  BY DEF Units
<1>2. ASSUME NEW k \in 1 .. n PROVE E(k) \in NumUnit
  <2>1. (k + 1) \div 2 \in 1 .. Len(words) /\ (k - 1) % 2 \in {0, 1}
    OBVIOUS
  <2> DEFINE d == (k + 1) \div 2
             r == (k - 1) % 2
  <2>2. d \in 1 .. Len(words) /\ r \in {0, 1}
    BY <2>1
  <2> HIDE DEF d, r
  <2>3. words[d] \in WordUnits
    BY <2>2
  <2>4. words[d][r + 1] \in NumUnit
    BY <2>2, <2>3, PairIs
  <2> QED  BY <2>4 DEF d, r
<1> HIDE DEF E
<1>3. u \in [1 .. n -> NumUnit]
  BY <1>1, <1>2
<1>4. u \in Seq(NumUnit) /\ Len(u) = n
  BY <1>1, <1>3, SeqDef, LenProperties
<1>5. ASSUME NEW k \in 1 .. Len(words)
      PROVE  u[2 * k - 1] = words[k][1] /\ u[2 * k] = words[k][2]
  <2>1. 2 * k - 1 \in 1 .. n /\ 2 * k \in 1 .. n
    OBVIOUS
  <2>2. u[2 * k - 1] = E(2 * k - 1) /\ u[2 * k] = E(2 * k)
    BY <1>1, <2>1
  <2>3. /\ (2 * k - 1 + 1) \div 2 = k /\ ((2 * k - 1 - 1) % 2) + 1 = 1
        /\ (2 * k + 1) \div 2 = k /\ ((2 * k - 1) % 2) + 1 = 2
    OBVIOUS
  <2>4. E(2 * k - 1) = words[k][1] /\ E(2 * k) = words[k][2]
    BY <2>3 DEF E
  <2> QED  BY <2>2, <2>4
<1> QED  BY <1>4, <1>5

LEMMA WordsOfUnits ==
  ASSUME NEW n \in Nat, NEW u \in Seq(NumUnit), Len(u) = 2 * n
  PROVE  /\ WordsIn(u) \in Seq(WordUnits)
         /\ Len(WordsIn(u)) = n
         /\ \A k \in 1 .. n : WordsIn(u)[k] = <<u[2 * k - 1], u[2 * k]>>
<1> DEFINE w == WordsIn(u)
<1>1. Len(u) \div 2 = n
  OBVIOUS
<1>2. w = [k \in 1 .. n |-> <<u[2 * k - 1], u[2 * k]>>]
  BY <1>1 DEF WordsIn
<1>3. ASSUME NEW k \in 1 .. n PROVE <<u[2 * k - 1], u[2 * k]>> \in WordUnits
  <2>1. 2 * k - 1 \in 1 .. Len(u) /\ 2 * k \in 1 .. Len(u)
    OBVIOUS
  <2> QED  BY <2>1 DEF WordUnits
<1> HIDE DEF w
<1>4. w \in [1 .. n -> WordUnits]
  BY <1>2, <1>3
<1>5. w \in Seq(WordUnits)
  BY <1>4, SeqDef
<1>6. Len(w) = n
  BY <1>4, <1>5, LenProperties
<1>7. \A k \in 1 .. n : w[k] = <<u[2 * k - 1], u[2 * k]>>
  BY <1>2
<1> QED  BY <1>5, <1>6, <1>7 DEF w

LEMMA WordsBack ==
  ASSUME NEW words \in Seq(WordUnits)
  PROVE  WordsIn(Units(words)) = words
<1> DEFINE u == Units(words)
           w == WordsIn(u)
<1>1. /\ u \in Seq(NumUnit) /\ Len(u) = 2 * Len(words) /\ Len(words) \in Nat
      /\ \A k \in 1 .. Len(words) : u[2 * k - 1] = words[k][1] /\ u[2 * k] = words[k][2]
  BY UnitsOfWords
<1> HIDE DEF u
<1>2. /\ w \in Seq(WordUnits) /\ Len(w) = Len(words)
      /\ \A k \in 1 .. Len(words) : w[k] = <<u[2 * k - 1], u[2 * k]>>
  BY <1>1, WordsOfUnits
<1> HIDE DEF w
<1>3. ASSUME NEW k \in 1 .. Len(words) PROVE w[k] = words[k]
  <2>1. w[k] = <<words[k][1], words[k][2]>>
    BY <1>1, <1>2
  <2>2. words[k] = <<words[k][1], words[k][2]>>
    BY PairIs
  <2> QED  BY <2>1, <2>2
<1>4. w = words
  BY <1>2, <1>3, SameSequence
<1> QED  BY <1>4 DEF w, u

LEMMA JoinedWordsBack ==
  ASSUME NEW a \in Seq(WordUnits), NEW b \in Seq(WordUnits)
  PROVE  WordsIn(Units(a) \o Units(b)) = a \o b
<1> DEFINE ua == Units(a)
           ub == Units(b)
           u == ua \o ub
           w == WordsIn(u)
           s == a \o b
<1>1. /\ ua \in Seq(NumUnit) /\ Len(ua) = 2 * Len(a) /\ Len(a) \in Nat
      /\ \A k \in 1 .. Len(a) : ua[2 * k - 1] = a[k][1] /\ ua[2 * k] = a[k][2]
  BY UnitsOfWords
<1>2. /\ ub \in Seq(NumUnit) /\ Len(ub) = 2 * Len(b) /\ Len(b) \in Nat
      /\ \A k \in 1 .. Len(b) : ub[2 * k - 1] = b[k][1] /\ ub[2 * k] = b[k][2]
  BY UnitsOfWords
<1> HIDE DEF ua, ub
<1>3. /\ u \in Seq(NumUnit) /\ Len(u) = 2 * (Len(a) + Len(b))
      /\ \A k \in 1 .. Len(ua) : u[k] = ua[k]
      /\ \A k \in 1 .. Len(ub) : u[Len(ua) + k] = ub[k]
  <2>1. /\ u \in Seq(NumUnit) /\ Len(u) = Len(ua) + Len(ub)
        /\ \A k \in 1 .. Len(ua) : u[k] = ua[k]
        /\ \A k \in 1 .. Len(ub) : u[Len(ua) + k] = ub[k]
    <3>1. ua \in Seq(NumUnit) /\ ub \in Seq(NumUnit)
      BY <1>1, <1>2
    <3> QED  BY ONLY <3>1, Joined
  <2> HIDE DEF u
  <2> QED  BY <1>1, <1>2, <2>1
<1>4. /\ s \in Seq(WordUnits) /\ Len(s) = Len(a) + Len(b)
      /\ \A k \in 1 .. Len(a) : s[k] = a[k]
      /\ \A k \in 1 .. Len(b) : s[Len(a) + k] = b[k]
  BY Joined
<1> HIDE DEF u, s
<1>5. /\ w \in Seq(WordUnits) /\ Len(w) = Len(a) + Len(b)
      /\ \A k \in 1 .. (Len(a) + Len(b)) : w[k] = <<u[2 * k - 1], u[2 * k]>>
  <2>1. Len(a) + Len(b) \in Nat
    BY <1>1, <1>2
  <2> QED  BY <1>3, <2>1, WordsOfUnits
<1> HIDE DEF w
<1>6. ASSUME NEW k \in 1 .. Len(s) PROVE w[k] = s[k]
  <2>1. CASE k <= Len(a)
    <3>1. k \in 1 .. Len(a) /\ 2 * k - 1 \in 1 .. Len(ua) /\ 2 * k \in 1 .. Len(ua)
      BY <1>1, <2>1
    <3>2. u[2 * k - 1] = a[k][1] /\ u[2 * k] = a[k][2]
      BY <1>1, <1>3, <3>1
    <3>4. w[k] = <<a[k][1], a[k][2]>>
      BY <1>4, <1>5, <3>2
    <3>3. a[k] = <<a[k][1], a[k][2]>>
      BY <3>1, PairIs
    <3> QED  BY <1>4, <3>1, <3>3, <3>4
  <2>2. CASE ~ (k <= Len(a))
    <3> DEFINE j == k - Len(a)
    <3>1. j \in 1 .. Len(b) /\ k = Len(a) + j
      BY <1>1, <1>2, <1>4, <2>2
    <3> HIDE DEF j
    <3>2. /\ 2 * j - 1 \in 1 .. Len(ub) /\ 2 * j \in 1 .. Len(ub)
          /\ 2 * k - 1 = Len(ua) + (2 * j - 1) /\ 2 * k = Len(ua) + 2 * j
      BY <1>1, <1>2, <3>1
    <3>3. u[2 * k - 1] = b[j][1] /\ u[2 * k] = b[j][2]
      BY <1>2, <1>3, <3>1, <3>2
    <3>4. w[k] = <<b[j][1], b[j][2]>>
      BY <1>4, <1>5, <3>3
    <3>5. b[j] = <<b[j][1], b[j][2]>>
      BY <3>1, PairIs
    <3> QED  BY <1>4, <3>1, <3>4, <3>5
  <2> QED  BY <1>1, <2>1, <2>2
<1>7. w = s
  BY <1>4, <1>5, <1>6, SameSequence
<1> QED  BY <1>7 DEF w, s, u, ua, ub

-----------------------------------------------------------------------------
(* The arrays of a struct. *)

LEMMA StructFields ==
  ASSUME NEW m, IsStruct(m)
  PROVE  /\ m.type \in {"constmap", "verified", "paired"} /\ m.hash \in {"XXH64", "XXH3"}
         /\ m.seed \in WordUnits
         /\ m.segment_length \in Number /\ m.segment_count \in Number
         /\ m.data_len \in Number /\ m.data_len \in Nat /\ m.n \in Number
         /\ m.data \in Seq(WordUnits) /\ m.checks \in Seq(WordUnits)
         /\ Len(m.data) = m.data_len
         /\ m.type = "constmap" => m.checks = << >>
         /\ m.type # "constmap" => Len(m.checks) = m.data_len
<1>1. m.data_len \in Number /\ m.checks \in Seq(WordUnits)
  BY DEF IsStruct
<1>2. m.data_len \in Nat
  BY <1>1 DEF Number
<1>3. m.type = "constmap" => m.checks = << >>
  <2>1. m.type = "constmap" => Len(m.checks) = 0
    BY DEF IsStruct
  <2> QED  BY <1>1, <2>1
<1> QED  BY <1>2, <1>3 DEF IsStruct, Types

LEMMA ConstmapArraysBack ==
  ASSUME NEW m, IsStruct(m), m.type = "constmap"
  PROVE  /\ Arrays(m) \in Seq(NumUnit)
         /\ Len(Arrays(m)) = m.data_len * EntryUnits(m.type)
         /\ ArraysIn(m.type, WordsIn(Arrays(m))) = [data |-> m.data, checks |-> m.checks]
<1>1. m.data \in Seq(WordUnits) /\ Len(m.data) = m.data_len /\ m.checks = << >>
  BY StructFields
<1>2. Arrays(m) = Units(m.data)
  BY DEF Arrays, ConstmapUnits
<1>3. Units(m.data) \in Seq(NumUnit) /\ Len(Units(m.data)) = 2 * m.data_len
  BY <1>1, UnitsOfWords
<1>4. WordsIn(Arrays(m)) = m.data
  BY <1>1, <1>2, WordsBack
<1>5. EntryUnits(m.type) = 2
  BY DEF EntryUnits
<1>6. ArraysIn(m.type, m.data) = [data |-> m.data, checks |-> << >>]
  BY DEF ArraysIn, ConstmapArrays
<1>7. 2 * m.data_len = m.data_len * 2
  BY StructFields
<1> QED  BY <1>1, <1>2, <1>3, <1>4, <1>5, <1>6, <1>7

LEMMA VerifiedArraysBack ==
  ASSUME NEW m, IsStruct(m), m.type = "verified"
  PROVE  /\ Arrays(m) \in Seq(NumUnit)
         /\ Len(Arrays(m)) = m.data_len * EntryUnits(m.type)
         /\ ArraysIn(m.type, WordsIn(Arrays(m))) = [data |-> m.data, checks |-> m.checks]
<1> DEFINE d == m.data
           c == m.checks
           n == m.data_len
           s == d \o c
<1>1. /\ d \in Seq(WordUnits) /\ Len(d) = n /\ c \in Seq(WordUnits) /\ Len(c) = n
      /\ n \in Nat
  BY StructFields
<1>2. Arrays(m) = Units(d) \o Units(c)
  BY DEF Arrays, VerifiedUnits
<1>3. EntryUnits(m.type) = 4
  BY DEF EntryUnits
<1>4. ArraysIn(m.type, s) = VerifiedArrays(s)
  BY DEF ArraysIn
<1> HIDE DEF d, c, n
<1>5. Units(d) \in Seq(NumUnit) /\ Len(Units(d)) = 2 * n
  BY <1>1, UnitsOfWords
<1>6. Units(c) \in Seq(NumUnit) /\ Len(Units(c)) = 2 * n
  BY <1>1, UnitsOfWords
<1>7. /\ Units(d) \o Units(c) \in Seq(NumUnit)
      /\ Len(Units(d) \o Units(c)) = Len(Units(d)) + Len(Units(c))
  BY <1>5, <1>6, Joined
<1>8. WordsIn(Units(d) \o Units(c)) = s
  BY <1>1, JoinedWordsBack
<1>9. /\ s \in Seq(WordUnits) /\ Len(s) = n + n
      /\ \A k \in 1 .. n : s[k] = d[k]
      /\ \A k \in 1 .. n : s[n + k] = c[k]
  <2>1. /\ s \in Seq(WordUnits) /\ Len(s) = Len(d) + Len(c)
        /\ \A k \in 1 .. Len(d) : s[k] = d[k]
        /\ \A k \in 1 .. Len(c) : s[Len(d) + k] = c[k]
    BY ONLY <1>1, Joined
  <2> QED  BY <1>1, <2>1
<1> HIDE DEF s
<1>10. Len(s) \div 2 = n
  BY <1>1, <1>9
<1>11. SubSeq(s, 1, n) = d
  <2>1. /\ SubSeq(s, 1, n) \in Seq(WordUnits) /\ Len(SubSeq(s, 1, n)) = n
        /\ \A k \in 1 .. n : SubSeq(s, 1, n)[k] = s[k]
    BY <1>1, <1>9
  <2> QED  BY <1>1, <1>9, <2>1, SameSequence
<1>12. SubSeq(s, n + 1, 2 * n) = c
  <2>1. /\ SubSeq(s, n + 1, 2 * n) \in Seq(WordUnits) /\ Len(SubSeq(s, n + 1, 2 * n)) = n
        /\ \A k \in 1 .. n : SubSeq(s, n + 1, 2 * n)[k] = s[n + k]
    BY <1>1, <1>9
  <2> QED  BY <1>1, <1>9, <2>1, SameSequence
<1>13. VerifiedArrays(s) = [data |-> d, checks |-> c]
  BY <1>10, <1>11, <1>12 DEF VerifiedArrays
<1>14. Len(Arrays(m)) = n * 4
  BY <1>1, <1>2, <1>5, <1>6, <1>7
<1>15. Arrays(m) \in Seq(NumUnit)
  BY <1>2, <1>7
<1>16. WordsIn(Arrays(m)) = s
  BY <1>2, <1>8
<1> QED  BY <1>3, <1>4, <1>13, <1>14, <1>15, <1>16 DEF n, d, c

LEMMA InterleavedWords ==
  ASSUME NEW m, IsStruct(m), m.type = "paired"
  PROVE  /\ Interleaved(m) \in Seq(WordUnits)
         /\ Len(Interleaved(m)) = 2 * m.data_len
         /\ \A k \in 1 .. m.data_len :
              Interleaved(m)[2 * k - 1] = m.data[k] /\ Interleaved(m)[2 * k] = m.checks[k]
<1> DEFINE d == m.data
           c == m.checks
           n == m.data_len
           E(k) == IF k % 2 = 1 THEN d[(k + 1) \div 2] ELSE c[k \div 2]
           w == Interleaved(m)
<1>1. /\ d \in Seq(WordUnits) /\ Len(d) = n /\ c \in Seq(WordUnits) /\ Len(c) = n
      /\ n \in Nat
  BY StructFields
<1>2. w = [k \in 1 .. 2 * n |-> E(k)]
  BY DEF Interleaved
<1> HIDE DEF d, c, n
<1>3. ASSUME NEW k \in 1 .. 2 * n PROVE E(k) \in WordUnits
  <2>1. CASE k % 2 = 1
    <3>1. (k + 1) \div 2 \in 1 .. n
      BY <1>1, <2>1
    <3>2. d[(k + 1) \div 2] \in WordUnits
      BY ONLY <1>1, <3>1, ElementsIn
    <3> QED  BY <2>1, <3>2
  <2>2. CASE k % 2 # 1
    <3>1. k \div 2 \in 1 .. n
      BY <1>1, <2>2
    <3>2. c[k \div 2] \in WordUnits
      BY ONLY <1>1, <3>1, ElementsIn
    <3> QED  BY <2>2, <3>2
  <2> QED  BY <2>1, <2>2
<1>4. ASSUME NEW k \in 1 .. n
      PROVE  w[2 * k - 1] = d[k] /\ w[2 * k] = c[k]
  <2>1. 2 * k - 1 \in 1 .. 2 * n /\ 2 * k \in 1 .. 2 * n
    BY <1>1
  <2>2. /\ (2 * k - 1) % 2 = 1 /\ (2 * k - 1 + 1) \div 2 = k
        /\ (2 * k) % 2 # 1 /\ (2 * k) \div 2 = k
    OBVIOUS
  <2>3. w[2 * k - 1] = E(2 * k - 1) /\ w[2 * k] = E(2 * k)
    BY <1>2, <2>1
  <2> QED  BY <2>2, <2>3
<1> HIDE DEF E, w
<1>5. 2 * n \in Nat /\ w \in [1 .. 2 * n -> WordUnits]
  BY <1>1, <1>2, <1>3
<1>6. w \in Seq(WordUnits)
  BY <1>5, SeqDef
<1>7. Len(w) = 2 * n
  BY <1>5, <1>6, LenProperties
<1> QED  BY <1>4, <1>6, <1>7 DEF w, n, d, c

LEMMA PairedArraysBack ==
  ASSUME NEW m, IsStruct(m), m.type = "paired"
  PROVE  /\ Arrays(m) \in Seq(NumUnit)
         /\ Len(Arrays(m)) = m.data_len * EntryUnits(m.type)
         /\ ArraysIn(m.type, WordsIn(Arrays(m))) = [data |-> m.data, checks |-> m.checks]
<1> DEFINE d == m.data
           c == m.checks
           n == m.data_len
           s == Interleaved(m)
<1>1. /\ d \in Seq(WordUnits) /\ Len(d) = n /\ c \in Seq(WordUnits) /\ Len(c) = n
      /\ n \in Nat
  BY StructFields
<1>2. /\ s \in Seq(WordUnits) /\ Len(s) = 2 * n
      /\ \A k \in 1 .. n : s[2 * k - 1] = d[k] /\ s[2 * k] = c[k]
  BY InterleavedWords
<1>3. Arrays(m) = Units(s) /\ EntryUnits(m.type) = 4
  BY DEF Arrays, PairedUnits, EntryUnits
<1>4. ArraysIn(m.type, s) = PairedArrays(s)
  BY DEF ArraysIn
<1> HIDE DEF d, c, n, s
<1>5. Units(s) \in Seq(NumUnit) /\ Len(Units(s)) = 2 * Len(s)
  BY <1>2, UnitsOfWords
<1>6. WordsIn(Arrays(m)) = s
  BY <1>2, <1>3, WordsBack
<1>7. Len(s) \div 2 = n
  BY <1>1, <1>2
<1>8. PairedArrays(s) = [data |-> [k \in 1 .. n |-> d[k]], checks |-> [k \in 1 .. n |-> c[k]]]
  BY <1>2, <1>7 DEF PairedArrays
<1>9. d = [k \in 1 .. n |-> d[k]] /\ c = [k \in 1 .. n |-> c[k]]
  <2>1. d \in [1 .. n -> WordUnits] /\ c \in [1 .. n -> WordUnits]
    BY <1>1, LenProperties
  <2> QED  BY <2>1
<1>10. PairedArrays(s) = [data |-> d, checks |-> c]
  BY <1>8, <1>9
<1>11. Len(Arrays(m)) = n * 4
  BY <1>1, <1>2, <1>3, <1>5
<1> QED  BY <1>3, <1>4, <1>5, <1>6, <1>10, <1>11 DEF n, d, c

LEMMA ArraysBack ==
  ASSUME NEW m, IsStruct(m)
  PROVE  /\ Arrays(m) \in Seq(NumUnit)
         /\ Len(Arrays(m)) = m.data_len * EntryUnits(m.type)
         /\ ArraysIn(m.type, WordsIn(Arrays(m))) = [data |-> m.data, checks |-> m.checks]
BY StructFields, ConstmapArraysBack, VerifiedArraysBack, PairedArraysBack

-----------------------------------------------------------------------------
(* The formats. *)

AllFormats(type) == { Formats[type][k] : k \in DOMAIN Formats[type] }

LEMMA FormatList ==
  /\ AllFormats("constmap") = { Format("CMAP", "0003", "XXH64", 8),
                                Format("CMAP", "0001", "XXH64", 7),
                                Format("CMAP", "0002", "XXH3", 8) }
  /\ AllFormats("verified") = { Format("VMAP", "0001", "XXH64", 8),
                                Format("VCMP", "0002", "XXH3", 8) }
  /\ AllFormats("paired") = { Format("PMAP", "0001", "XXH64", 8),
                              Format("PVCM", "0001", "XXH3", 8) }
<1>1. /\ Formats["constmap"] = << Format("CMAP", "0003", "XXH64", 8),
                                  Format("CMAP", "0001", "XXH64", 7),
                                  Format("CMAP", "0002", "XXH3", 8) >>
      /\ Formats["verified"] = << Format("VMAP", "0001", "XXH64", 8),
                                  Format("VCMP", "0002", "XXH3", 8) >>
      /\ Formats["paired"] = << Format("PMAP", "0001", "XXH64", 8),
                                Format("PVCM", "0001", "XXH3", 8) >>
  BY DEF Formats, Types
<1>2. /\ DOMAIN Formats["constmap"] = 1 .. 3
      /\ DOMAIN Formats["verified"] = 1 .. 2
      /\ DOMAIN Formats["paired"] = 1 .. 2
  BY <1>1
<1>3. 1 .. 3 = {1, 2, 3} /\ 1 .. 2 = {1, 2}
  OBVIOUS
<1> QED  BY <1>1, <1>2, <1>3 DEF AllFormats

LEMMA FormatShape ==
  ASSUME NEW type \in Types, NEW f \in AllFormats(type)
  PROVE  /\ f.magic = <<f.magic[1], f.magic[2]>>
         /\ f.magic[1] \in [tag : Tags] /\ f.magic[2] \in [tag : Tags]
         /\ f.header \in {7, 8} /\ f.hash \in {"XXH64", "XXH3"}
         /\ f.header = 7 => type = "constmap"
<1>1. CASE type = "constmap"
  BY <1>1, FormatList DEF Format, Tag, Tags
<1>2. CASE type = "verified"
  BY <1>2, FormatList DEF Format, Tag, Tags
<1>3. CASE type = "paired"
  BY <1>3, FormatList DEF Format, Tag, Tags
<1> QED  BY <1>1, <1>2, <1>3 DEF Types

(* The magics of all formats of all types are different. *)
LEMMA MagicsDiffer ==
  ASSUME NEW type \in Types, NEW f \in AllFormats(type),
         NEW other \in Types, NEW g \in AllFormats(other), f.magic = g.magic
  PROVE  type = other /\ f = g
<1> DEFINE Shape(t, h) ==
      \/ t = "constmap" /\ h \in { Format("CMAP", "0003", "XXH64", 8),
                                   Format("CMAP", "0001", "XXH64", 7),
                                   Format("CMAP", "0002", "XXH3", 8) }
      \/ t = "verified" /\ h \in { Format("VMAP", "0001", "XXH64", 8),
                                   Format("VCMP", "0002", "XXH3", 8) }
      \/ t = "paired" /\ h \in { Format("PMAP", "0001", "XXH64", 8),
                                 Format("PVCM", "0001", "XXH3", 8) }
<1>1. Shape(type, f) /\ Shape(other, g)
  BY FormatList DEF Types
<1>2. f.magic[1].tag = g.magic[1].tag /\ f.magic[2].tag = g.magic[2].tag
  OBVIOUS
<1> QED  BY <1>1, <1>2 DEF Format, Tag

(* What the writers use: eight units of header. *)
LEMMA FormatWritten ==
  ASSUME NEW type \in Types, NEW hash \in {"XXH64", "XXH3"}
  PROVE  /\ FormatFor(type, hash) \in AllFormats(type)
         /\ FormatFor(type, hash).hash = hash
         /\ FormatFor(type, hash).header = 8
<1> DEFINE F == Formats[type]
           fits == { k \in DOMAIN F : F[k].hash = hash }
           least == CHOOSE k \in fits : \A other \in fits : k <= other
<1>1. FormatFor(type, hash) = F[least]
  BY DEF FormatFor
<1>2. /\ type = "constmap" => F = << Format("CMAP", "0003", "XXH64", 8),
                                     Format("CMAP", "0001", "XXH64", 7),
                                     Format("CMAP", "0002", "XXH3", 8) >>
      /\ type = "verified" => F = << Format("VMAP", "0001", "XXH64", 8),
                                     Format("VCMP", "0002", "XXH3", 8) >>
      /\ type = "paired" => F = << Format("PMAP", "0001", "XXH64", 8),
                                   Format("PVCM", "0001", "XXH3", 8) >>
  BY DEF Formats, Types
<1> HIDE DEF F
<1>3. CASE type = "constmap"
  <2>1. F = << Format("CMAP", "0003", "XXH64", 8), Format("CMAP", "0001", "XXH64", 7),
               Format("CMAP", "0002", "XXH3", 8) >>
    BY <1>2, <1>3
  <2>2. /\ DOMAIN F = 1 .. 3
        /\ F[1].hash = "XXH64" /\ F[2].hash = "XXH64" /\ F[3].hash = "XXH3"
        /\ F[1].header = 8 /\ F[3].header = 8
    BY <2>1 DEF Format
  <2>3. \A k \in DOMAIN F : k \in {1, 2, 3}
    BY <2>2
  <2>4. fits = IF hash = "XXH64" THEN {1, 2} ELSE {3}
    BY <2>2, <2>3
  <2> HIDE DEF fits
  <2>5. \E k \in fits : \A other \in fits : k <= other
    BY <2>4
  <2>6. least \in fits /\ \A other \in fits : least <= other
    BY <2>5
  <2> HIDE DEF least
  <2>7. least = IF hash = "XXH64" THEN 1 ELSE 3
    BY <2>4, <2>6
  <2> QED  BY <1>1, <2>2, <2>7 DEF AllFormats, F
<1>4. CASE type \in {"verified", "paired"}
  <2>1. /\ DOMAIN F = 1 .. 2
        /\ F[1].hash = "XXH64" /\ F[2].hash = "XXH3"
        /\ F[1].header = 8 /\ F[2].header = 8
    BY <1>2, <1>4 DEF Format
  <2>2. \A k \in DOMAIN F : k \in {1, 2}
    BY <2>1
  <2>3. fits = IF hash = "XXH64" THEN {1} ELSE {2}
    BY <2>1, <2>2
  <2> HIDE DEF fits
  <2>4. \E k \in fits : \A other \in fits : k <= other
    BY <2>3
  <2>5. least \in fits
    BY <2>4
  <2> HIDE DEF least
  <2>6. least = IF hash = "XXH64" THEN 1 ELSE 2
    BY <2>3, <2>5
  <2> QED  BY <1>1, <2>1, <2>6 DEF AllFormats, F
<1> QED  BY <1>3, <1>4 DEF Types

LEMMA FormatsAre ==
  ASSUME NEW m
  PROVE  \A f : f \in FormatsOf(m) <=>
                  f \in AllFormats(m.type) /\ f.hash = m.hash /\ (f.header = 7 => m.n = 0)
BY DEF FormatsOf, AllFormats

LEMMA FormatUsed ==
  ASSUME NEW m, IsStruct(m)
  PROVE  FormatFor(m.type, m.hash) \in FormatsOf(m) /\ FormatFor(m.type, m.hash).header = 8
BY StructFields, FormatWritten, FormatsAre DEF Types

-----------------------------------------------------------------------------
(* The body: all but the sum. *)

LEMMA HeaderIs ==
  ASSUME NEW m, IsStruct(m), NEW f \in FormatsOf(m), NEW h, h = Header(m, f, f.header = 8)
  PROVE  /\ h \in Seq(PlainUnit) /\ Len(h) = f.header /\ f.header \in {7, 8}
         /\ h[1] = f.magic[1] /\ h[2] = f.magic[2]
         /\ h[3] = m.seed[1] /\ h[4] = m.seed[2]
         /\ h[5] = Num(m.segment_length) /\ h[6] = Num(m.segment_count)
         /\ h[7] = Num(m.data_len)
         /\ f.header = 8 => h[8] = Num(m.n)
<1> DEFINE a == f.magic[1]
           b == f.magic[2]
           c == m.seed[1]
           d == m.seed[2]
           x == Num(m.segment_length)
           y == Num(m.segment_count)
           z == Num(m.data_len)
           w == Num(m.n)
<1>1. a \in [tag : Tags] /\ b \in [tag : Tags] /\ f.header \in {7, 8}
  BY StructFields, FormatsAre, FormatShape DEF Types
<1>2. c \in NumUnit /\ d \in NumUnit
  BY StructFields, PairIs
<1>3. x \in NumUnit /\ y \in NumUnit /\ z \in NumUnit /\ w \in NumUnit
  BY StructFields DEF Num, NumUnit
<1>4. f.magic = <<a, b>> /\ m.seed = <<c, d>>
  BY StructFields, FormatsAre, FormatShape, PairIs DEF Types
<1>5. h = f.magic \o m.seed \o <<x, y, z>> \o (IF f.header = 8 THEN <<w>> ELSE << >>)
  BY DEF Header
<1> HIDE DEF a, b, c, d, x, y, z, w
<1>6. /\ a \in PlainUnit /\ b \in PlainUnit /\ c \in PlainUnit /\ d \in PlainUnit
      /\ x \in PlainUnit /\ y \in PlainUnit /\ z \in PlainUnit /\ w \in PlainUnit
  BY <1>1, <1>2, <1>3 DEF PlainUnit
<1> DEFINE p == <<a, b>>
           q == <<c, d>>
           r == <<x, y, z>>
           e == IF f.header = 8 THEN <<w>> ELSE << >>
           s == p \o q
           t == s \o r
<1>7. /\ p \in Seq(PlainUnit) /\ Len(p) = 2 /\ p[1] = a /\ p[2] = b
      /\ q \in Seq(PlainUnit) /\ Len(q) = 2 /\ q[1] = c /\ q[2] = d
      /\ r \in Seq(PlainUnit) /\ Len(r) = 3 /\ r[1] = x /\ r[2] = y /\ r[3] = z
  BY <1>6
<1>8. /\ e \in Seq(PlainUnit) /\ Len(e) = f.header - 7
      /\ f.header = 8 => e[1] = w
  <2>1. CASE f.header = 8
    <3>1. e = <<w>>
      BY <2>1
    <3> QED  BY <1>6, <2>1, <3>1
  <2>2. CASE f.header = 7
    <3>1. e = << >>
      BY <2>2
    <3> QED  BY <2>2, <3>1
  <2> QED  BY <1>1, <2>1, <2>2
<1> HIDE DEF p, q, r, e
<1>9. s \in Seq(PlainUnit) /\ Len(s) = 4 /\ s[1] = a /\ s[2] = b /\ s[3] = c /\ s[4] = d
  <2>1. /\ s \in Seq(PlainUnit) /\ Len(s) = Len(p) + Len(q)
        /\ \A k \in 1 .. Len(p) : s[k] = p[k]
        /\ \A k \in 1 .. Len(q) : s[Len(p) + k] = q[k]
    <3>1. p \in Seq(PlainUnit) /\ q \in Seq(PlainUnit)
      BY <1>7
    <3> QED  BY ONLY <3>1, Joined
  <2> HIDE DEF s
  <2>2. 1 \in 1 .. Len(p) /\ 2 \in 1 .. Len(p) /\ 1 \in 1 .. Len(q) /\ 2 \in 1 .. Len(q)
    BY <1>7
  <2>3. s[1] = p[1] /\ s[2] = p[2] /\ s[Len(p) + 1] = q[1] /\ s[Len(p) + 2] = q[2]
    BY <2>1, <2>2
  <2>4. Len(p) + 1 = 3 /\ Len(p) + 2 = 4 /\ Len(p) + Len(q) = 4
    BY <1>7
  <2> QED  BY <1>7, <2>1, <2>3, <2>4
<1> HIDE DEF s
<1>10. /\ t \in Seq(PlainUnit) /\ Len(t) = 7 /\ t[1] = a /\ t[2] = b /\ t[3] = c /\ t[4] = d
      /\ t[5] = x /\ t[6] = y /\ t[7] = z
  <2>1. /\ t \in Seq(PlainUnit) /\ Len(t) = Len(s) + Len(r)
        /\ \A k \in 1 .. Len(s) : t[k] = s[k]
        /\ \A k \in 1 .. Len(r) : t[Len(s) + k] = r[k]
    <3>1. s \in Seq(PlainUnit) /\ r \in Seq(PlainUnit)
      BY <1>7, <1>9
    <3> QED  BY ONLY <3>1, Joined
  <2> HIDE DEF t
  <2>2. /\ 1 \in 1 .. Len(s) /\ 2 \in 1 .. Len(s) /\ 3 \in 1 .. Len(s) /\ 4 \in 1 .. Len(s)
        /\ 1 \in 1 .. Len(r) /\ 2 \in 1 .. Len(r) /\ 3 \in 1 .. Len(r)
    BY <1>7, <1>9
  <2>3. /\ t[1] = s[1] /\ t[2] = s[2] /\ t[3] = s[3] /\ t[4] = s[4]
        /\ t[Len(s) + 1] = r[1] /\ t[Len(s) + 2] = r[2] /\ t[Len(s) + 3] = r[3]
    BY <2>1, <2>2
  <2>4. Len(s) + 1 = 5 /\ Len(s) + 2 = 6 /\ Len(s) + 3 = 7 /\ Len(s) + Len(r) = 7
    BY <1>7, <1>9
  <2> QED  BY <1>7, <1>9, <2>1, <2>3, <2>4
<1> HIDE DEF t
<1>11. h = t \o e
  BY <1>4, <1>5 DEF s, t, e, p, q, r
<1>12. /\ h \in Seq(PlainUnit) /\ Len(h) = Len(t) + Len(e)
       /\ \A k \in 1 .. Len(t) : h[k] = t[k]
       /\ \A k \in 1 .. Len(e) : h[Len(t) + k] = e[k]
  <2>1. t \in Seq(PlainUnit) /\ e \in Seq(PlainUnit)
    BY <1>8, <1>10
  <2> QED  BY ONLY <1>11, <2>1, Joined
<1>13. Len(h) = f.header
  BY <1>1, <1>8, <1>10, <1>12
<1>14. /\ h[1] = a /\ h[2] = b /\ h[3] = c /\ h[4] = d /\ h[5] = x /\ h[6] = y /\ h[7] = z
  BY <1>10, <1>12
<1>15. f.header = 8 => h[8] = w
  <2> SUFFICES ASSUME f.header = 8 PROVE h[8] = w
    OBVIOUS
  <2>1. 1 \in 1 .. Len(e) /\ Len(t) + 1 = 8
    BY <1>8, <1>10
  <2>2. h[Len(t) + 1] = e[1]
    BY <1>12, <2>1
  <2> QED  BY <1>8, <2>1, <2>2
<1> QED  BY <1>1, <1>12, <1>13, <1>14, <1>15 DEF a, b, c, d, x, y, z, w

LEMMA BodyShape ==
  ASSUME NEW m, IsStruct(m), NEW f \in FormatsOf(m), NEW b, b = BodyIn(m, f)
  PROVE  /\ b \in Seq(PlainUnit) /\ f.header \in {7, 8}
         /\ Len(b) = f.header + m.data_len * EntryUnits(m.type)
         /\ Len(b) >= f.header
         /\ b[1] = f.magic[1] /\ b[2] = f.magic[2]
         /\ b[3] = m.seed[1] /\ b[4] = m.seed[2]
         /\ b[5] = Num(m.segment_length) /\ b[6] = Num(m.segment_count)
         /\ b[7] = Num(m.data_len)
         /\ f.header = 8 => b[8] = Num(m.n)
         /\ \A k \in 1 .. Len(Arrays(m)) : b[f.header + k] = Arrays(m)[k]
         /\ Len(Arrays(m)) = m.data_len * EntryUnits(m.type)
         /\ Len(Arrays(m)) \in Nat
<1> DEFINE h == Header(m, f, f.header = 8)
           a == Arrays(m)
<1>1. /\ h \in Seq(PlainUnit) /\ Len(h) = f.header /\ f.header \in {7, 8}
      /\ h[1] = f.magic[1] /\ h[2] = f.magic[2]
      /\ h[3] = m.seed[1] /\ h[4] = m.seed[2]
      /\ h[5] = Num(m.segment_length) /\ h[6] = Num(m.segment_count)
      /\ h[7] = Num(m.data_len)
      /\ f.header = 8 => h[8] = Num(m.n)
  <2> HIDE DEF h
  <2>1. h = Header(m, f, f.header = 8)
    BY DEF h
  <2> QED  BY <2>1, HeaderIs
<1>2. a \in Seq(NumUnit) /\ Len(a) = m.data_len * EntryUnits(m.type)
  BY ArraysBack
<1>3. b = h \o a
  BY DEF BodyIn
<1> HIDE DEF h, a
<1>4. a \in Seq(PlainUnit) /\ Len(a) \in Nat
  <2>1. \A k \in 1 .. Len(a) : a[k] \in PlainUnit
    BY <1>2 DEF PlainUnit
  <2>2. a = [k \in 1 .. Len(a) |-> a[k]] /\ Len(a) \in Nat
    BY <1>2, LenProperties
  <2> QED  BY <2>1, <2>2, IsSequence
<1>5. /\ b \in Seq(PlainUnit) /\ Len(b) = Len(h) + Len(a)
      /\ \A k \in 1 .. Len(h) : b[k] = h[k]
      /\ \A k \in 1 .. Len(a) : b[Len(h) + k] = a[k]
  <2>1. h \in Seq(PlainUnit) /\ a \in Seq(PlainUnit)
    BY <1>1, <1>4
  <2> QED  BY ONLY <1>3, <2>1, Joined
<1>6. \A k \in 1 .. f.header : b[k] = h[k]
  BY <1>1, <1>5
<1>7. /\ b[1] = h[1] /\ b[2] = h[2] /\ b[3] = h[3] /\ b[4] = h[4]
      /\ b[5] = h[5] /\ b[6] = h[6] /\ b[7] = h[7]
      /\ f.header = 8 => b[8] = h[8]
  BY <1>1, <1>6
<1>8. Len(b) = f.header + Len(a) /\ Len(b) >= f.header
  BY <1>1, <1>4, <1>5
<1>9. \A k \in 1 .. Len(a) : b[f.header + k] = a[k]
  BY <1>1, <1>5
<1> QED  BY <1>1, <1>2, <1>4, <1>5, <1>7, <1>8, <1>9 DEF a

LEMMA FormSize ==
  ASSUME NEW m, IsStruct(m), NEW f \in FormatsOf(m), NEW b, b = BodyIn(m, f)
  PROVE  /\ Len(b) \in Nat /\ Len(b) >= 7
         /\ SerializedSize(m) \in Nat /\ Len(b) + 2 <= SerializedSize(m)
         /\ f.header = 8 => Len(b) + 2 = SerializedSize(m) /\ Len(b) >= 8
<1> DEFINE n == m.data_len * EntryUnits(m.type)
<1>1. f.header \in {7, 8} /\ Len(b) = f.header + n
  BY BodyShape
<1>2. n \in Nat
  BY StructFields DEF EntryUnits
<1>3. SerializedSize(m) = 8 + n + 2
  BY DEF SerializedSize, TrailerUnits
<1> HIDE DEF n
<1> QED  BY <1>1, <1>2, <1>3

-----------------------------------------------------------------------------
(* Reading. *)

LEMMA NumOfNum ==
  ASSUME NEW k
  PROVE  NumOf(Num(k)) = k
<1>1. Num(k) = [num |-> k] /\ "num" \in DOMAIN [num |-> k] /\ [num |-> k].num = k
  BY DEF Num
<1> QED  BY <1>1 DEF NumOf

(* A struct is what its fields are. *)
LEMMA StructIs ==
  ASSUME NEW m, IsStruct(m)
  PROVE  m = [type                 |-> m.type,
              hash                 |-> m.hash,
              seed                 |-> m.seed,
              segment_length       |-> m.segment_length,
              segment_length_mask  |-> Mask(m.segment_length),
              segment_count        |-> m.segment_count,
              segment_count_length |-> CountLength(m.segment_count, m.segment_length),
              data_len             |-> m.data_len,
              n                    |-> m.n,
              data                 |-> m.data,
              checks               |-> m.checks]
<1>1. /\ m.segment_length_mask = Mask(m.segment_length)
      /\ m.segment_count_length = CountLength(m.segment_count, m.segment_length)
  BY DEF IsStruct
<1>2. m = [type                 |-> m.type,
           hash                 |-> m.hash,
           seed                 |-> m.seed,
           segment_length       |-> m.segment_length,
           segment_length_mask  |-> m.segment_length_mask,
           segment_count        |-> m.segment_count,
           segment_count_length |-> m.segment_count_length,
           data_len             |-> m.data_len,
           n                    |-> m.n,
           data                 |-> m.data,
           checks               |-> m.checks]
  BY DEF IsStruct
<1> QED  BY <1>1, <1>2

(* The header of a struct, as fcm_parse finds it. *)
HeaderOf(m, f) ==
  [format         |-> f,
   seed           |-> m.seed,
   segment_length |-> m.segment_length,
   segment_count  |-> m.segment_count,
   data_len       |-> m.data_len,
   n              |-> m.n]

LEMMA BodyStart ==
  ASSUME NEW m, IsStruct(m), NEW f \in FormatsOf(m), NEW b, b = BodyIn(m, f)
  PROVE  /\ f.header \in {7, 8}
         /\ b[1] = f.magic[1] /\ b[2] = f.magic[2]
         /\ b[3] = m.seed[1] /\ b[4] = m.seed[2]
         /\ b[5] = Num(m.segment_length) /\ b[6] = Num(m.segment_count)
         /\ b[7] = Num(m.data_len)
         /\ f.header = 8 => b[8] = Num(m.n)
BY BodyShape

LEMMA HeaderParsed ==
  ASSUME NEW S, NEW units \in Seq(S), NEW m, IsStruct(m), NEW f \in FormatsOf(m),
         f.header <= Len(units),
         \A k \in 1 .. f.header : units[k] = BodyIn(m, f)[k]
  PROVE  /\ SubSeq(units, 1, 2) = f.magic
         /\ ParsedHeader(units, f) = HeaderOf(m, f)
<1>0. PICK b : b = BodyIn(m, f)
  OBVIOUS
<1>1. /\ f.header \in {7, 8}
      /\ b[1] = f.magic[1] /\ b[2] = f.magic[2]
      /\ b[3] = m.seed[1] /\ b[4] = m.seed[2]
      /\ b[5] = Num(m.segment_length) /\ b[6] = Num(m.segment_count)
      /\ b[7] = Num(m.data_len)
      /\ f.header = 8 => b[8] = Num(m.n)
  BY ONLY <1>0, IsStruct(m), f \in FormatsOf(m), BodyStart
<1>2. \A k \in 1 .. f.header : units[k] = b[k]
  BY <1>0
<1>3. /\ units[1] = f.magic[1] /\ units[2] = f.magic[2]
      /\ units[3] = m.seed[1] /\ units[4] = m.seed[2]
      /\ units[5] = Num(m.segment_length) /\ units[6] = Num(m.segment_count)
      /\ units[7] = Num(m.data_len)
      /\ f.header = 8 => units[8] = Num(m.n)
  BY <1>1, <1>2
<1>4. Len(units) \in Nat /\ Len(units) >= 7
  BY <1>1, LenProperties
<1>5. SubSeq(units, 1, 2) = <<units[1], units[2]>>
  <2>1. /\ SubSeq(units, 1, 2) \in Seq(S) /\ Len(SubSeq(units, 1, 2)) = 2
        /\ SubSeq(units, 1, 2)[1] = units[1] /\ SubSeq(units, 1, 2)[2] = units[2]
    BY <1>4
  <2> QED  BY <2>1, TwoElements
<1>6. SubSeq(units, 3, 4) = <<units[3], units[4]>>
  <2>1. /\ SubSeq(units, 3, 4) \in Seq(S) /\ Len(SubSeq(units, 3, 4)) = 2
        /\ SubSeq(units, 3, 4)[1] = units[3] /\ SubSeq(units, 3, 4)[2] = units[4]
    BY <1>4
  <2> QED  BY <2>1, TwoElements
<1>7. f.magic = <<f.magic[1], f.magic[2]>>
  BY StructFields, FormatsAre, FormatShape DEF Types
<1>8. m.seed = <<m.seed[1], m.seed[2]>>
  BY StructFields, PairIs
<1>9. SubSeq(units, 1, 2) = f.magic
  BY <1>3, <1>5, <1>7
<1>10. SubSeq(units, 3, 4) = m.seed
  BY <1>3, <1>6, <1>8
<1>11. /\ NumOf(units[5]) = m.segment_length /\ NumOf(units[6]) = m.segment_count
       /\ NumOf(units[7]) = m.data_len
  BY <1>3, NumOfNum
<1>12. (IF f.header = 8 THEN NumOf(units[8]) ELSE 0) = m.n
  <2>1. f.header = 7 => m.n = 0
    BY FormatsAre
  <2>2. f.header = 8 => NumOf(units[8]) = m.n
    BY <1>3, NumOfNum
  <2> QED  BY <1>1, <2>1, <2>2
<1>13. ParsedHeader(units, f) = HeaderOf(m, f)
  BY ONLY <1>10, <1>11, <1>12 DEF ParsedHeader, HeaderOf
<1> QED  BY <1>9, <1>13

(* The units start with a map and its sum. *)
Holds(units, m, f) ==
  LET len == Len(BodyIn(m, f))
  IN /\ len + TrailerUnits <= Len(units)
     /\ SubSeq(units, 1, len) = BodyIn(m, f)
     /\ SubSeq(units, len + 1, len + TrailerUnits) = Sum(BodyIn(m, f))

LEMMA PrefixElements ==
  ASSUME NEW S, NEW units \in Seq(S), NEW n \in Nat, n <= Len(units)
  PROVE  \A k \in 1 .. n : units[k] = SubSeq(units, 1, n)[k]
OBVIOUS

LEMMA ParsesBack ==
  ASSUME NEW S, NEW units \in Seq(S), NEW m, IsStruct(m), NEW f \in FormatsOf(m),
         Holds(units, m, f)
  PROVE  Parse(units, m.type) = [rc |-> Ok, header |-> HeaderOf(m, f)]
<1> DEFINE b == BodyIn(m, f)
           type == m.type
           j == CHOOSE k \in Matching(units, type) : TRUE
<1>1. /\ b \in Seq(PlainUnit) /\ f.header \in {7, 8}
      /\ Len(b) = f.header + m.data_len * EntryUnits(type)
      /\ Len(b) >= f.header /\ Len(b) \in Nat
  <2> HIDE DEF b
  <2>1. b = BodyIn(m, f)
    BY DEF b
  <2>2. /\ b \in Seq(PlainUnit) /\ f.header \in {7, 8}
        /\ Len(b) = f.header + m.data_len * EntryUnits(m.type)
        /\ Len(b) >= f.header
    BY <2>1, BodyShape
  <2> QED  BY <2>2, LenProperties
<1>2. /\ Len(b) + 2 <= Len(units) /\ Len(units) \in Nat
      /\ SubSeq(units, 1, Len(b)) = b
      /\ SubSeq(units, Len(b) + 1, Len(b) + 2) = Sum(b)
  BY LenProperties DEF Holds, TrailerUnits
<1>3. \A k \in 1 .. f.header : units[k] = b[k]
  <2> HIDE DEF b
  <2>1. \A k \in 1 .. Len(b) : units[k] = SubSeq(units, 1, Len(b))[k]
    BY <1>1, <1>2, PrefixElements
  <2> QED  BY <1>1, <1>2, <2>1
<1>4. f.header <= Len(units)
  BY <1>1, <1>2
<1>5. SubSeq(units, 1, 2) = f.magic /\ ParsedHeader(units, f) = HeaderOf(m, f)
  BY <1>3, <1>4, HeaderParsed
<1>6. type \in Types /\ f \in AllFormats(type)
  BY StructFields, FormatsAre DEF Types
<1> HIDE DEF b, type
<1>7. Matching(units, type) # {}
  BY <1>5, <1>6 DEF Matching, AllFormats
<1>8. Formats[type][j] = f
  <2>1. j \in Matching(units, type)
    BY <1>7
  <2> HIDE DEF j
  <2>2. Formats[type][j] \in AllFormats(type) /\ Formats[type][j].magic = f.magic
    BY <1>5, <2>1 DEF Matching, AllFormats
  <2> QED  BY <1>6, <2>2, MagicsDiffer
<1> HIDE DEF j
<1>9. HeaderOf(m, f).data_len = m.data_len
  BY DEF HeaderOf
<1>10. Expected(f, m.data_len, type) = Len(b) + 2
  BY <1>1 DEF Expected, TrailerUnits
<1>11. SumMatches(units, Len(b) + 2)
  <2> DEFINE e == Len(b) + 2
  <2>1. e - 1 = Len(b) + 1 /\ e - 2 = Len(b)
    BY <1>1
  <2>2. SubSeq(units, Len(b) + 1, e) = Sum(b)
    BY <1>2
  <2> HIDE DEF e
  <2>3. SubSeq(units, e - 1, e) = Sum(SubSeq(units, 1, e - 2))
    BY <1>2, <2>1, <2>2
  <2>4. SumMatches(units, e)
    BY <2>3 DEF SumMatches, TrailerUnits
  <2> QED  BY <2>4 DEF e
<1>12. ~ (Len(units) < 2) /\ ~ (Len(units) < f.header + TrailerUnits) /\ ~ (Len(units) < Len(b) + 2)
  BY <1>1, <1>2 DEF TrailerUnits
<1>13. Parse(units, type) = [rc |-> Ok, header |-> HeaderOf(m, f)]
  BY <1>5, <1>7, <1>8, <1>9, <1>10, <1>11, <1>12 DEF Parse, j
<1> QED  BY <1>13 DEF type

(* Whatever a map was written as, and whatever follows it, readers return it, *)
(* unless they are to refuse its parameters.                                 *)
LEMMA ReadsBack ==
  ASSUME NEW S, NEW units \in Seq(S), NEW m, IsStruct(m), NEW f \in FormatsOf(m),
         Holds(units, m, f)
  PROVE  Read(units, m.type) =
           IF Checked(m.type) /\ ~ HasFitParams(m) THEN [rc |-> "FCM_E_INVALID_PARAMS"]
           ELSE [rc |-> Ok, map |-> m]
<1> DEFINE b == BodyIn(m, f)
           h == HeaderOf(m, f)
           payload == SubSeq(units, f.header + 1, f.header + m.data_len * EntryUnits(m.type))
<1>1. Parse(units, m.type) = [rc |-> Ok, header |-> h]
  BY ParsesBack
<1>2. /\ h.format = f /\ h.seed = m.seed /\ h.segment_length = m.segment_length
      /\ h.segment_count = m.segment_count /\ h.data_len = m.data_len /\ h.n = m.n
  BY DEF HeaderOf
<1>3. f.hash = m.hash
  BY FormatsAre
<1>4. payload = Arrays(m)
  <2> DEFINE a == Arrays(m)
  <2>1. /\ b \in Seq(PlainUnit) /\ f.header \in {7, 8} /\ Len(b) \in Nat
        /\ Len(b) = f.header + Len(a) /\ Len(a) \in Nat
        /\ Len(a) = m.data_len * EntryUnits(m.type)
        /\ \A k \in 1 .. Len(a) : b[f.header + k] = a[k]
    <3> HIDE DEF b
    <3>1. b = BodyIn(m, f)
      BY DEF b
    <3>2. /\ b \in Seq(PlainUnit) /\ f.header \in {7, 8}
          /\ Len(b) = f.header + m.data_len * EntryUnits(m.type)
          /\ Len(a) \in Nat /\ Len(a) = m.data_len * EntryUnits(m.type)
          /\ \A k \in 1 .. Len(a) : b[f.header + k] = a[k]
      BY <3>1, BodyShape
    <3> QED  BY <3>2, LenProperties
  <2>2. a \in Seq(NumUnit)
    BY ArraysBack
  <2>3. Len(b) + 2 <= Len(units) /\ Len(units) \in Nat /\ SubSeq(units, 1, Len(b)) = b
    BY LenProperties DEF Holds, TrailerUnits
  <2> HIDE DEF b, a
  <2>4. \A k \in 1 .. Len(b) : units[k] = b[k]
    <3>1. \A k \in 1 .. Len(b) : units[k] = SubSeq(units, 1, Len(b))[k]
      BY <2>1, <2>3, PrefixElements
    <3> QED  BY <2>3, <3>1
  <2>5. payload = SubSeq(units, f.header + 1, f.header + Len(a))
    BY <2>1
  <2> HIDE DEF payload
  <2>6. /\ payload \in Seq(S) /\ Len(payload) = Len(a)
        /\ \A k \in 1 .. Len(a) : payload[k] = units[f.header + k]
    <3> DEFINE start == f.header
               n == Len(a)
               all == Len(units)
               x == start + 1
               y == start + n
    <3>0. n \in Nat /\ start \in Nat /\ all \in Nat /\ start + n + 2 <= all
      BY <2>1, <2>3
    <3> HIDE DEF n, start, all
    <3>1. /\ x \in 1 .. (all + 1) /\ y \in 0 .. all /\ x <= y + 1
          /\ y - x + 1 = n /\ \A k \in 1 .. n : x + k - 1 = start + k
      BY <3>0
    <3> HIDE DEF x, y
    <3>2. /\ SubSeq(units, x, y) \in Seq(S) /\ Len(SubSeq(units, x, y)) = y - x + 1
          /\ \A k \in 1 .. (y - x + 1) : SubSeq(units, x, y)[k] = units[x + k - 1]
      BY <3>1, PartOf DEF all
    <3>3. payload = SubSeq(units, x, y)
      BY <2>5 DEF x, y, start, n
    <3> QED  BY <3>1, <3>2, <3>3 DEF n, start
  <2>7. \A k \in 1 .. Len(a) : payload[k] = a[k]
    <3> TAKE k \in 1 .. Len(a)
    <3>1. f.header + k \in 1 .. Len(b)
      BY <2>1
    <3> QED  BY <2>1, <2>4, <2>6, <3>1
  <2>8. payload = a
    BY <2>2, <2>6, <2>7, SameSequence
  <2> QED  BY <2>8 DEF a
<1>5. ArraysIn(m.type, WordsIn(Arrays(m))) = [data |-> m.data, checks |-> m.checks]
  BY ArraysBack
<1> HIDE DEF h, b, payload
<1>6. MapOf(m.type, h, units) = m
  <2>1. /\ [data |-> m.data, checks |-> m.checks].data = m.data
        /\ [data |-> m.data, checks |-> m.checks].checks = m.checks
    OBVIOUS
  <2>2. SubSeq(units, h.format.header + 1, h.format.header + h.data_len * EntryUnits(m.type)) = Arrays(m)
    BY <1>2, <1>4 DEF payload
  <2>3. MapOf(m.type, h, units) =
             [type                 |-> m.type,
              hash                 |-> m.hash,
              seed                 |-> m.seed,
              segment_length       |-> m.segment_length,
              segment_length_mask  |-> Mask(m.segment_length),
              segment_count        |-> m.segment_count,
              segment_count_length |-> CountLength(m.segment_count, m.segment_length),
              data_len             |-> m.data_len,
              n                    |-> m.n,
              data                 |-> m.data,
              checks               |-> m.checks]
    BY ONLY <1>2, <1>3, <1>5, <2>1, <2>2 DEF MapOf
  <2> QED  BY <2>3, StructIs
<1>7. Parse(units, m.type).rc = Ok /\ Parse(units, m.type).header = h
  BY <1>1
<1> QED  BY ONLY <1>2, <1>6, <1>7 DEF Read, HasFitParams

-----------------------------------------------------------------------------
(* Accepting. *)

(* What the units of a buffer can be. *)
LEMMA UnitIs ==
  ASSUME NEW maps, NEW u \in UnitsOf(maps)
  PROVE  /\ NumOf(u) \in Nat
         /\ "sum" \in DOMAIN u => \E m \in maps : \E f \in FormatsOf(m) : u.sum = BodyIn(m, f)
<1>0. Uint32 - 1 \in Nat
  BY SerialAssumption
<1>1. CASE u \in NumUnit
  <2>1. DOMAIN u = {"num"} /\ u.num \in Number
    BY <1>1 DEF NumUnit
  <2> QED  BY <2>1, SerialAssumption DEF NumOf, Number
<1>2. CASE u \in [tag : Tags]
  <2>1. DOMAIN u = {"tag"}
    BY <1>2
  <2> QED  BY <1>0, <2>1 DEF NumOf
<1>3. CASE u = [half |-> "high"]
  <2>1. DOMAIN u = {"half"}
    BY <1>3
  <2> QED  BY <1>0, <2>1 DEF NumOf
<1>4. CASE u \in SumsOf(maps)
  <2>1. PICK m \in maps : \E f \in FormatsOf(m) : u = [sum |-> BodyIn(m, f)]
    BY <1>4 DEF SumsOf
  <2>2. PICK f \in FormatsOf(m) : u = [sum |-> BodyIn(m, f)]
    BY <2>1
  <2>3. DOMAIN u = {"sum"} /\ u.sum = BodyIn(m, f)
    BY <2>2
  <2> QED  BY <1>0, <2>3 DEF NumOf
<1> QED  BY <1>1, <1>2, <1>3, <1>4 DEF UnitsOf, PlainUnit

(* Some of what fcm_parse has found out when it returns FCM_OK. *)
LEMMA ParsedOk ==
  ASSUME NEW units, NEW type \in Types, Parse(units, type).rc = Ok
  PROVE  \E f \in AllFormats(type) :
           LET expected == Expected(f, NumOf(units[7]), type)
           IN /\ SubSeq(units, 1, 2) = f.magic
              /\ ~ (Len(units) < f.header + TrailerUnits)
              /\ ~ (Len(units) < expected)
              /\ SumMatches(units, expected)
              /\ Parse(units, type).header = ParsedHeader(units, f)
<1> DEFINE j == CHOOSE k \in Matching(units, type) : TRUE
           f == Formats[type][j]
           h == ParsedHeader(units, f)
           expected == Expected(f, h.data_len, type)
<1>1. ~ (Len(units) < 2) /\ Matching(units, type) # {}
  BY DEF Parse, Ok
<1>2. j \in Matching(units, type)
  BY <1>1
<1>3. f \in AllFormats(type) /\ SubSeq(units, 1, 2) = f.magic
  BY <1>2 DEF Matching, AllFormats
<1>4. Parse(units, type) =
        IF Len(units) < f.header + TrailerUnits THEN [rc |-> "FCM_E_SHORT_BUFFER"]
        ELSE IF Len(units) < expected THEN [rc |-> "FCM_E_SHORT_BUFFER"]
        ELSE IF ~ SumMatches(units, expected) THEN [rc |-> "FCM_E_CHECKSUM"]
        ELSE [rc |-> Ok, header |-> h]
  BY ONLY <1>1 DEF Parse
<1>5. h.data_len = NumOf(units[7])
  BY DEF ParsedHeader
<1> HIDE DEF j, f, h
<1>6. /\ ~ (Len(units) < f.header + TrailerUnits) /\ ~ (Len(units) < expected)
      /\ SumMatches(units, expected) /\ Parse(units, type).header = h
  BY ONLY <1>4, Parse(units, type).rc = Ok DEF Ok
<1> QED  BY <1>3, <1>5, <1>6 DEF h

(* If the stored sums of a buffer are those of some maps, then what a reader  *)
(* accepts is one of them.                                                   *)
LEMMA AcceptedHolds ==
  ASSUME NEW maps, \A m \in maps : IsStruct(m),
         NEW units \in Seq(UnitsOf(maps)), NEW type \in Types, Parse(units, type).rc = Ok
  PROVE  \E m \in maps : \E f \in FormatsOf(m) : m.type = type /\ Holds(units, m, f)
<1> DEFINE U == UnitsOf(maps)
<1>1. PICK g \in AllFormats(type) :
        /\ SubSeq(units, 1, 2) = g.magic
        /\ ~ (Len(units) < g.header + TrailerUnits)
        /\ ~ (Len(units) < Expected(g, NumOf(units[7]), type))
        /\ SumMatches(units, Expected(g, NumOf(units[7]), type))
  BY ParsedOk
<1>2. g.header \in {7, 8} /\ Len(units) \in Nat
  BY FormatShape, LenProperties
<1>3. NumOf(units[7]) \in Nat
  <2>1. 7 \in 1 .. Len(units)
    BY <1>1, <1>2 DEF TrailerUnits
  <2>2. units[7] \in U
    BY <2>1
  <2> QED  BY <2>2, UnitIs
<1> DEFINE len == g.header + NumOf(units[7]) * EntryUnits(type)
           body == SubSeq(units, 1, len)
           sum == SubSeq(units, len + 1, len + 2)
<1>4. len \in Nat /\ len >= 7 /\ Expected(g, NumOf(units[7]), type) = len + 2
  <2>1. EntryUnits(type) \in Nat
    BY DEF EntryUnits
  <2>2. NumOf(units[7]) * EntryUnits(type) \in Nat
    BY <1>3, <2>1
  <2> QED  BY <1>2, <2>2 DEF Expected, TrailerUnits
<1> HIDE DEF len
<1>5. len + 2 <= Len(units)
  BY <1>1, <1>2, <1>4
<1>6. body \in Seq(U) /\ Len(body) = len
  <2>1. /\ 1 \in 1 .. (Len(units) + 1) /\ len \in 0 .. Len(units) /\ 1 <= len + 1
        /\ len - 1 + 1 = len
    BY <1>2, <1>4, <1>5
  <2>2. SubSeq(units, 1, len) \in Seq(U) /\ Len(SubSeq(units, 1, len)) = len - 1 + 1
    BY <2>1, PartOf
  <2> QED  BY <2>1, <2>2
<1>7. sum = Sum(body)
  <2> DEFINE e == len + 2
  <2>1. SubSeq(units, e - 1, e) = Sum(SubSeq(units, 1, e - 2))
    BY <1>1, <1>4 DEF SumMatches, TrailerUnits
  <2>2. e - 1 = len + 1 /\ e - 2 = len
    BY <1>4
  <2> HIDE DEF e
  <2>3. SubSeq(units, len + 1, e) = Sum(SubSeq(units, 1, len))
    BY <2>1, <2>2
  <2> QED  BY <2>3 DEF e
<1>8. units[len + 1] = [sum |-> body]
  <2>1. /\ len + 1 \in 1 .. (Len(units) + 1) /\ len + 2 \in 0 .. Len(units)
        /\ len + 1 <= (len + 2) + 1 /\ (len + 2) - (len + 1) + 1 = 2
        /\ 1 \in 1 .. 2 /\ (len + 1) + 1 - 1 = len + 1
    BY <1>2, <1>4, <1>5
  <2> DEFINE x == len + 1
             y == len + 2
  <2>2. x \in 1 .. (Len(units) + 1) /\ y \in 0 .. Len(units) /\ x <= y + 1 /\ y - x + 1 = 2
    BY <2>1
  <2> HIDE DEF x, y
  <2>3. \A k \in 1 .. (y - x + 1) : SubSeq(units, x, y)[k] = units[x + k - 1]
    BY <2>2, PartOf
  <2>4. SubSeq(units, x, y)[1] = units[x + 1 - 1]
    BY <2>1, <2>2, <2>3
  <2>5. x + 1 - 1 = len + 1
    BY <2>1 DEF x
  <2>6. SubSeq(units, x, y) = Sum(body)
    BY <1>7 DEF x, y
  <2>7. Sum(body)[1] = [sum |-> body]
    BY DEF Sum
  <2> QED  BY <2>4, <2>5, <2>6, <2>7
<1>9. units[len + 1] \in U
  <2>1. len + 1 \in 1 .. Len(units)
    BY <1>2, <1>4, <1>5
  <2> QED  BY <2>1
<1>10. PICK m \in maps : \E f \in FormatsOf(m) : body = BodyIn(m, f)
  <2> HIDE DEF body
  <2>1. "sum" \in DOMAIN [sum |-> body] /\ [sum |-> body].sum = body
    OBVIOUS
  <2>2. "sum" \in DOMAIN units[len + 1] /\ units[len + 1].sum = body
    BY <1>8, <2>1
  <2> QED  BY <1>9, <2>2, UnitIs
<1>11. PICK f \in FormatsOf(m) : body = BodyIn(m, f)
  BY <1>10
<1>12. IsStruct(m)
  OBVIOUS
<1>13. Holds(units, m, f)
  <2> HIDE DEF body, sum
  <2>1. Len(BodyIn(m, f)) = len /\ BodyIn(m, f) = body
    BY <1>6, <1>11
  <2>2. SubSeq(units, 1, len) = body
    BY DEF body
  <2>3. SubSeq(units, len + 1, len + 2) = Sum(body)
    BY <1>7 DEF sum
  <2> QED  BY <1>5, <2>1, <2>2, <2>3 DEF Holds, TrailerUnits
<1>14. f.magic = g.magic
  <2>1. f.header \in {7, 8} /\ Len(BodyIn(m, f)) >= f.header
    <3>1. \A b : b = BodyIn(m, f) => f.header \in {7, 8} /\ Len(b) >= f.header
      BY <1>12, BodyShape
    <3> QED  BY <3>1
  <2>2. f.header <= len /\ f.header <= Len(units)
    BY <1>2, <1>4, <1>5, <1>6, <1>11, <2>1
  <2>3. \A k \in 1 .. len : units[k] = body[k]
    <3>1. len \in Nat /\ len <= Len(units)
      BY <1>2, <1>4, <1>5
    <3> QED  BY <3>1, PrefixElements
  <2>4. \A k \in 1 .. f.header : units[k] = BodyIn(m, f)[k]
    BY <1>4, <1>11, <2>1, <2>2, <2>3
  <2>5. SubSeq(units, 1, 2) = f.magic
    BY <1>12, <2>2, <2>4, HeaderParsed
  <2> QED  BY <1>1, <2>5
<1>15. m.type = type
  <2>1. m.type \in Types /\ f \in AllFormats(m.type)
    BY <1>12, StructFields, FormatsAre DEF Types
  <2> QED  BY <1>14, <2>1, MagicsDiffer
<1> QED  BY <1>13, <1>15

-----------------------------------------------------------------------------
(* Writing. *)

LEMMA SummedShape ==
  ASSUME NEW T, NEW b \in Seq(T), NEW S, T \subseteq S,
         [sum |-> b] \in S, [half |-> "high"] \in S, NEW s, s = Summed(b)
  PROVE  /\ s \in Seq(S) /\ Len(s) = Len(b) + 2 /\ Len(b) \in Nat
         /\ \A k \in 1 .. Len(b) : s[k] = b[k]
         /\ s[Len(b) + 1] = [sum |-> b] /\ s[Len(b) + 2] = [half |-> "high"]
<1> DEFINE t == Sum(b)
           u == [sum |-> b]
           v == [half |-> "high"]
<1>1. t = <<u, v>> /\ s = b \o t
  BY DEF Sum, Summed
<1>2. u \in S /\ v \in S
  OBVIOUS
<1> HIDE DEF u, v, t
<1>3. t \in Seq(S) /\ Len(t) = 2 /\ t[1] = u /\ t[2] = v
  BY <1>1, <1>2
<1>4. b \in Seq(S)
  <2>1. \A k \in 1 .. Len(b) : b[k] \in S
    OBVIOUS
  <2>2. b = [k \in 1 .. Len(b) |-> b[k]] /\ Len(b) \in Nat
    BY LenProperties
  <2> QED  BY <2>1, <2>2, IsSequence
<1>5. /\ s \in Seq(S) /\ Len(s) = Len(b) + Len(t)
      /\ \A k \in 1 .. Len(b) : s[k] = b[k]
      /\ \A k \in 1 .. Len(t) : s[Len(b) + k] = t[k]
  <2>1. b \in Seq(S) /\ t \in Seq(S)
    BY <1>3, <1>4
  <2> QED  BY ONLY <1>1, <2>1, Joined
<1>6. 1 \in 1 .. Len(t) /\ 2 \in 1 .. Len(t) /\ Len(b) \in Nat
  BY <1>3, LenProperties
<1>7. s[Len(b) + 1] = u /\ s[Len(b) + 2] = v
  BY <1>3, <1>5, <1>6
<1> QED  BY <1>3, <1>5, <1>6, <1>7 DEF u, v

(* A buffer that starts with the summed body of a map holds it. *)
LEMMA SummedHolds ==
  ASSUME NEW S, NEW units \in Seq(S), NEW m, IsStruct(m), NEW f \in FormatsOf(m),
         NEW s, s = Summed(BodyIn(m, f)),
         Len(s) <= Len(units), SubSeq(units, 1, Len(s)) = s
  PROVE  Holds(units, m, f)
<1> DEFINE b == BodyIn(m, f)
           len == Len(b)
           U == PlainUnit \union { [sum |-> b], [half |-> "high"] }
<1>1. b \in Seq(PlainUnit)
  <2>1. \A c : c = BodyIn(m, f) => c \in Seq(PlainUnit)
    BY BodyShape
  <2> QED  BY <2>1
<1>2. s = Summed(b)
  OBVIOUS
<1> HIDE DEF b
<1>3. PlainUnit \subseteq U /\ [sum |-> b] \in U /\ [half |-> "high"] \in U
  OBVIOUS
<1> HIDE DEF U
<1>4. /\ s \in Seq(U) /\ Len(s) = len + 2 /\ len \in Nat
      /\ \A k \in 1 .. len : s[k] = b[k]
      /\ s[len + 1] = [sum |-> b] /\ s[len + 2] = [half |-> "high"]
  <2>1. /\ s \in Seq(U) /\ Len(s) = Len(b) + 2 /\ Len(b) \in Nat
        /\ \A k \in 1 .. Len(b) : s[k] = b[k]
        /\ s[Len(b) + 1] = [sum |-> b] /\ s[Len(b) + 2] = [half |-> "high"]
    BY ONLY <1>1, <1>2, <1>3, SummedShape
  <2> QED  BY <2>1
<1> HIDE DEF len
<1>5. len + 2 <= Len(units) /\ Len(units) \in Nat
  BY <1>4, LenProperties
<1>6. \A k \in 1 .. (len + 2) : units[k] = s[k]
  <2>1. len + 2 \in Nat
    BY <1>4
  <2>2. \A k \in 1 .. (len + 2) : units[k] = SubSeq(units, 1, len + 2)[k]
    BY <1>5, <2>1, PrefixElements
  <2> QED  BY <1>4, <2>2
<1>7. SubSeq(units, 1, len) = b
  <2>1. /\ SubSeq(units, 1, len) \in Seq(S) /\ Len(SubSeq(units, 1, len)) = len
        /\ \A k \in 1 .. len : SubSeq(units, 1, len)[k] = units[k]
    BY <1>4, <1>5
  <2>2. \A k \in 1 .. len : units[k] = b[k]
    BY <1>4, <1>6
  <2> QED  BY <1>1, <2>1, <2>2, SameSequence DEF len
<1>8. SubSeq(units, len + 1, len + 2) = Sum(b)
  <2> DEFINE x == len + 1
             y == len + 2
             all == Len(units)
             p == SubSeq(units, x, y)
  <2>1. /\ x \in 1 .. (all + 1) /\ y \in 0 .. all /\ x <= y + 1 /\ y - x + 1 = 2
        /\ x + 1 - 1 = x /\ x + 2 - 1 = y
    BY <1>4, <1>5
  <2>2. units[x] = [sum |-> b] /\ units[y] = [half |-> "high"]
    <3>1. x \in 1 .. (len + 2) /\ y \in 1 .. (len + 2)
      BY <1>4
    <3> QED  BY <1>4, <1>6, <3>1
  <2> HIDE DEF x, y
  <2>3. /\ SubSeq(units, x, y) \in Seq(S) /\ Len(SubSeq(units, x, y)) = y - x + 1
        /\ \A k \in 1 .. (y - x + 1) : SubSeq(units, x, y)[k] = units[x + k - 1]
    BY <2>1, PartOf DEF all
  <2>4. 1 \in 1 .. (y - x + 1) /\ 2 \in 1 .. (y - x + 1)
    BY <2>1
  <2>5. p[1] = units[x + 1 - 1] /\ p[2] = units[x + 2 - 1] /\ p \in Seq(S) /\ Len(p) = 2
    BY <2>1, <2>3, <2>4
  <2> HIDE DEF p
  <2>6. p = <<p[1], p[2]>>
    BY <2>5, TwoElements
  <2>7. p = <<[sum |-> b], [half |-> "high"]>>
    BY <2>1, <2>2, <2>5, <2>6
  <2> QED  BY <2>7 DEF p, x, y, Sum
<1> QED  BY <1>5, <1>7, <1>8 DEF Holds, TrailerUnits, len, b

(* What the writers of this library and of the others produce.              *)
LEMMA WrittenIs ==
  ASSUME NEW m, IsStruct(m)
  PROVE  Written(m) = Summed(BodyIn(m, FormatFor(m.type, m.hash)))
BY FormatUsed DEF Written, BodyIn

WithoutCount(m) == [m EXCEPT !.n = 0]

LEMMA UncountedIs ==
  ASSUME NEW m, IsStruct(m)
  PROVE  /\ IsStruct(WithoutCount(m))
         /\ HasFitParams(WithoutCount(m)) = HasFitParams(m)
         /\ WithoutCount(m).type = m.type /\ WithoutCount(m).hash = m.hash /\ WithoutCount(m).n = 0
         /\ \A f : Header(m, f, FALSE) = Header(WithoutCount(m), f, FALSE)
         /\ Arrays(WithoutCount(m)) = Arrays(m)
<1> DEFINE u == WithoutCount(m)
<1>1. 0 \in Number
  BY SerialAssumption DEF Number
<1>2. u \in [type : Types, hash : {"XXH64", "XXH3"}, seed : WordUnits,
            segment_length : Number, segment_length_mask : Number,
            segment_count : Number, segment_count_length : Number,
            data_len : Number, n : Number, data : Seq(WordUnits), checks : Seq(WordUnits)]
  BY <1>1 DEF IsStruct, WithoutCount
<1>3. /\ u.type = m.type /\ u.hash = m.hash /\ u.seed = m.seed
      /\ u.segment_length = m.segment_length /\ u.segment_length_mask = m.segment_length_mask
      /\ u.segment_count = m.segment_count /\ u.segment_count_length = m.segment_count_length
      /\ u.data_len = m.data_len /\ u.n = 0 /\ u.data = m.data /\ u.checks = m.checks
  BY DEF IsStruct, WithoutCount
<1> HIDE DEF u
<1>4. IsStruct(u)
  BY <1>2, <1>3 DEF IsStruct
<1>5. HasFitParams(u) = HasFitParams(m)
  BY <1>3 DEF HasFitParams
<1>6. \A f : Header(m, f, FALSE) = Header(u, f, FALSE)
  BY <1>3 DEF Header
<1>7. Arrays(u) = Arrays(m)
  BY <1>3 DEF Arrays, ConstmapUnits, VerifiedUnits, PairedUnits, Interleaved
<1> QED  BY <1>3, <1>4, <1>5, <1>6, <1>7 DEF u

(* What Go writes of a plain map is the second form of a map with the same   *)
(* header and cells, but no number of keys.                                  *)
LEMMA GoFormat ==
  ASSUME NEW m, m.type = "constmap",
         NEW u, u.type = "constmap", u.hash = "XXH64", u.n = 0,
         \A g : Header(m, g, FALSE) = Header(u, g, FALSE), Arrays(u) = Arrays(m)
  PROVE  /\ Formats["constmap"][2] \in FormatsOf(u)
         /\ WrittenByGo(m) = Summed(BodyIn(u, Formats["constmap"][2]))
<1> DEFINE f == Formats["constmap"][2]
<1>1. f = Format("CMAP", "0001", "XXH64", 7) /\ f \in AllFormats("constmap")
  <2>1. Formats["constmap"] = << Format("CMAP", "0003", "XXH64", 8),
                                 Format("CMAP", "0001", "XXH64", 7),
                                 Format("CMAP", "0002", "XXH3", 8) >>
    BY DEF Formats, Types
  <2>2. f = Format("CMAP", "0001", "XXH64", 7)
    BY <2>1
  <2> QED  BY <2>2, FormatList
<1>2. f.hash = "XXH64" /\ f.header = 7
  BY <1>1 DEF Format
<1>3. f \in FormatsOf(u)
  <2> HIDE DEF f
  <2>1. f \in AllFormats(u.type) /\ f.hash = u.hash /\ (f.header = 7 => u.n = 0)
    BY <1>1, <1>2
  <2> QED  BY <2>1, FormatsAre
<1>4. WrittenByGo(m) = Summed(Header(m, f, FALSE) \o Arrays(m))
  BY Zenon DEF WrittenByGo
<1>5. BodyIn(u, f) = Header(u, f, FALSE) \o Arrays(u)
  <2>1. (f.header = 8) = FALSE
    BY <1>2
  <2> HIDE DEF f
  <2> QED  BY ONLY <2>1 DEF BodyIn
<1>6. Header(m, f, FALSE) = Header(u, f, FALSE)
  <2> HIDE DEF f
  <2> QED  OBVIOUS
<1> QED  BY <1>3, <1>4, <1>5, <1>6

(* A plain map as Go writes it, whatever its hash: a form of this one. *)
Legacy(m) == [m EXCEPT !.n = 0, !.hash = "XXH64"]

LEMMA LegacyIs ==
  ASSUME NEW m, IsStruct(m)
  PROVE  /\ IsStruct(Legacy(m))
         /\ HasFitParams(Legacy(m)) = HasFitParams(m)
         /\ Legacy(m).type = m.type /\ Legacy(m).hash = "XXH64" /\ Legacy(m).n = 0
         /\ \A f : Header(m, f, FALSE) = Header(Legacy(m), f, FALSE)
         /\ Arrays(Legacy(m)) = Arrays(m)
<1> DEFINE u == Legacy(m)
<1>1. 0 \in Number
  BY SerialAssumption DEF Number
<1>2. u \in [type : Types, hash : {"XXH64", "XXH3"}, seed : WordUnits,
            segment_length : Number, segment_length_mask : Number,
            segment_count : Number, segment_count_length : Number,
            data_len : Number, n : Number, data : Seq(WordUnits), checks : Seq(WordUnits)]
  BY <1>1 DEF IsStruct, Legacy
<1>3. /\ u.type = m.type /\ u.hash = "XXH64" /\ u.seed = m.seed
      /\ u.segment_length = m.segment_length /\ u.segment_length_mask = m.segment_length_mask
      /\ u.segment_count = m.segment_count /\ u.segment_count_length = m.segment_count_length
      /\ u.data_len = m.data_len /\ u.n = 0 /\ u.data = m.data /\ u.checks = m.checks
  BY DEF IsStruct, Legacy
<1> HIDE DEF u
<1>4. IsStruct(u)
  BY <1>2, <1>3 DEF IsStruct
<1>5. HasFitParams(u) = HasFitParams(m)
  BY <1>3 DEF HasFitParams
<1>6. \A f : Header(m, f, FALSE) = Header(u, f, FALSE)
  BY <1>3 DEF Header
<1>7. Arrays(u) = Arrays(m)
  BY <1>3 DEF Arrays, ConstmapUnits, VerifiedUnits, PairedUnits, Interleaved
<1> QED  BY <1>3, <1>4, <1>5, <1>6, <1>7 DEF u

(* What Go writes of a map is a form of one that differs in no cell and in   *)
(* no parameter: of the map without its number of keys, if the hash is the    *)
(* one Go has.                                                               *)
LEMMA GoForm ==
  ASSUME NEW m, IsStruct(m)
  PROVE  \E u : /\ IsStruct(u) /\ HasFitParams(u) = HasFitParams(m) /\ u.type = m.type
                /\ Arrays(u) = Arrays(m)
                /\ \E f \in FormatsOf(u) : WrittenByGo(m) = Summed(BodyIn(u, f))
<1>1. CASE m.type # "constmap"
  <2> DEFINE u == WithoutCount(m)
  <2>1. WrittenByGo(m) = Written(u)
    BY <1>1 DEF WrittenByGo, WithoutCount
  <2>2. IsStruct(u) /\ HasFitParams(u) = HasFitParams(m) /\ u.type = m.type /\ Arrays(u) = Arrays(m)
    BY UncountedIs
  <2> HIDE DEF u
  <2>3. \E f \in FormatsOf(u) : WrittenByGo(m) = Summed(BodyIn(u, f))
    BY <2>1, <2>2, WrittenIs, FormatUsed
  <2> QED  BY <2>2, <2>3
<1>2. CASE m.type = "constmap"
  <2> DEFINE u == Legacy(m)
  <2>1. /\ IsStruct(u) /\ HasFitParams(u) = HasFitParams(m) /\ u.type = m.type
        /\ u.hash = "XXH64" /\ u.n = 0 /\ Arrays(u) = Arrays(m)
    BY LegacyIs
  <2>2. \A g : Header(m, g, FALSE) = Header(u, g, FALSE)
    BY LegacyIs
  <2> HIDE DEF u
  <2>3. \E f \in FormatsOf(u) : WrittenByGo(m) = Summed(BodyIn(u, f))
    BY <1>2, <2>1, <2>2, GoFormat
  <2> QED  BY <2>1, <2>3
<1> QED  BY <1>1, <1>2

LEMMA GoUncounted ==
  ASSUME NEW m, IsStruct(m), m.hash = "XXH64", NEW u, u = WithoutCount(m)
  PROVE  \E f \in FormatsOf(u) : WrittenByGo(m) = Summed(BodyIn(u, f))
<1>1. /\ IsStruct(u) /\ u.type = m.type /\ u.hash = m.hash /\ u.n = 0 /\ Arrays(u) = Arrays(m)
  BY UncountedIs
<1>2. \A g : Header(m, g, FALSE) = Header(u, g, FALSE)
  BY UncountedIs
<1>3. CASE m.type # "constmap"
  <2>1. WrittenByGo(m) = Written(u)
    BY <1>3 DEF WrittenByGo, WithoutCount
  <2> QED  BY <1>1, <2>1, WrittenIs, FormatUsed
<1>4. CASE m.type = "constmap"
  BY <1>1, <1>2, <1>4, GoFormat
<1> QED  BY <1>3, <1>4

(* A reader that accepts a buffer returns one of the maps whose sums are in it, *)
(* and not one whose parameters it has to refuse.                            *)
LEMMA ReadsOneOfThem ==
  ASSUME NEW maps, \A m \in maps : IsStruct(m),
         NEW units \in Seq(UnitsOf(maps)), NEW type \in Types, Read(units, type).rc = Ok
  PROVE  \E m \in maps : /\ m.type = type /\ Read(units, type).map = m
                         /\ Checked(type) => HasFitParams(m)
<1>1. Parse(units, type).rc = Ok
  <2> SUFFICES ASSUME Parse(units, type).rc # Ok PROVE FALSE
    OBVIOUS
  <2>1. Read(units, type) = Parse(units, type)
    BY DEF Read
  <2> QED  BY <2>1
<1>2. PICK m \in maps : \E f \in FormatsOf(m) : m.type = type /\ Holds(units, m, f)
  BY <1>1, AcceptedHolds
<1>3. PICK f \in FormatsOf(m) : m.type = type /\ Holds(units, m, f)
  BY <1>2
<1>4. Read(units, m.type) =
        IF Checked(m.type) /\ ~ HasFitParams(m) THEN [rc |-> "FCM_E_INVALID_PARAMS"]
        ELSE [rc |-> Ok, map |-> m]
  BY <1>3, ReadsBack
<1>5. ~ (Checked(type) /\ ~ HasFitParams(m))
  <2> SUFFICES ASSUME Checked(type) /\ ~ HasFitParams(m) PROVE FALSE
    OBVIOUS
  <2>1. Read(units, type) = [rc |-> "FCM_E_INVALID_PARAMS"]
    BY <1>3, <1>4
  <2>2. Read(units, type).rc = "FCM_E_INVALID_PARAMS"
    BY <2>1
  <2> QED  BY <2>2 DEF Ok
<1>6. Read(units, type) = [rc |-> Ok, map |-> m]
  BY <1>3, <1>4, <1>5
<1>7. Read(units, type).map = m
  BY <1>6
<1> QED  BY <1>3, <1>5, <1>7

LEMMA WholePrefix ==
  ASSUME NEW S, NEW s \in Seq(S)
  PROVE  Len(s) \in Nat /\ SubSeq(s, 1, Len(s)) = s
<1> DEFINE n == Len(s)
           p == SubSeq(s, 1, n)
<1>1. n \in Nat
  BY LenProperties
<1>2. 1 \in 1 .. (n + 1) /\ n \in 0 .. n /\ 1 <= n + 1 /\ n - 1 + 1 = n
      /\ \A k \in 1 .. n : 1 + k - 1 = k
  BY <1>1
<1>3. n = Len(s)
  OBVIOUS
<1> HIDE DEF n
<1>4. p \in Seq(S) /\ Len(p) = n - 1 + 1 /\ \A k \in 1 .. (n - 1 + 1) : p[k] = s[1 + k - 1]
  BY <1>2, <1>3, PartOf
<1> HIDE DEF p
<1>5. p \in Seq(S) /\ Len(p) = Len(s) /\ \A k \in 1 .. Len(p) : p[k] = s[k]
  BY <1>2, <1>3, <1>4
<1>6. p = s
  BY <1>5, SameSequence
<1> QED  BY <1>1, <1>3, <1>6 DEF p

(* What is written of a struct has the announced size, and is that struct    *)
(* again when it is read, or viewed where the buffer is aligned.             *)
LEMMA WrittenIsRead ==
  ASSUME NEW m, IsStruct(m), HasFitParams(m), NEW units, units = Written(m)
  PROVE  /\ Len(units) = SerializedSize(m)
         /\ Read(units, m.type) = [rc |-> Ok, map |-> m]
         /\ View(units, m.type, 0) = [rc |-> Ok, map |-> m]
<1>1. PICK f \in FormatsOf(m) : f.header = 8 /\ units = Summed(BodyIn(m, f))
  BY FormatUsed, WrittenIs
<1> DEFINE b == BodyIn(m, f)
<1> HIDE DEF b
<1>2. b = BodyIn(m, f) /\ units = Summed(b)
  BY <1>1 DEF b
<1>3. b \in Seq(PlainUnit)
  BY <1>2, BodyShape
<1> DEFINE U == PlainUnit \union { [sum |-> b], [half |-> "high"] }
<1>4. PlainUnit \subseteq U /\ [sum |-> b] \in U /\ [half |-> "high"] \in U
  OBVIOUS
<1> HIDE DEF U
<1>5. /\ units \in Seq(U) /\ Len(units) = Len(b) + 2 /\ Len(b) \in Nat
      /\ \A k \in 1 .. Len(b) : units[k] = b[k]
      /\ units[Len(b) + 1] = [sum |-> b] /\ units[Len(b) + 2] = [half |-> "high"]
  BY ONLY <1>2, <1>3, <1>4, SummedShape
<1>6. Len(units) = SerializedSize(m)
  <2>1. /\ Len(b) \in Nat /\ Len(b) >= 7
        /\ SerializedSize(m) \in Nat /\ Len(b) + 2 <= SerializedSize(m)
        /\ f.header = 8 => Len(b) + 2 = SerializedSize(m) /\ Len(b) >= 8
    BY <1>2, FormSize
  <2> QED  BY <1>1, <1>5, <2>1
<1>7. Len(units) <= Len(units) /\ SubSeq(units, 1, Len(units)) = units
  <2>1. Len(units) \in Nat /\ SubSeq(units, 1, Len(units)) = units
    BY <1>5, WholePrefix
  <2> QED  BY <2>1
<1>8. Holds(units, m, f)
  BY <1>1, <1>5, <1>7, SummedHolds
<1>9. Read(units, m.type) = [rc |-> Ok, map |-> m]
  <2>1. Read(units, m.type) =
          IF Checked(m.type) /\ ~ HasFitParams(m) THEN [rc |-> "FCM_E_INVALID_PARAMS"]
          ELSE [rc |-> Ok, map |-> m]
    BY <1>5, <1>8, ReadsBack
  <2> QED  BY <2>1
<1>10. Parse(units, m.type) = [rc |-> Ok, header |-> HeaderOf(m, f)]
  BY <1>5, <1>8, ParsesBack
<1>11. View(units, m.type, 0) = [rc |-> Ok, map |-> m]
  <2>1. Parse(units, m.type).header.format.header = 8
    BY <1>1, <1>10 DEF HeaderOf
  <2> QED  BY <1>9, <2>1 DEF View
<1> QED  BY <1>6, <1>9, <1>11
=============================================================================
