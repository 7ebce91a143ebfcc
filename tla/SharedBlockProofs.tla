-------------------------- MODULE SharedBlockProofs --------------------------
(***************************************************************************)
(* What is proved about a block that processes share, for every size of it   *)
(* and all maps: a consumer accepts only what is whole, whatever producers   *)
(* do at the same time; it gets what is there once write_into has returned;   *)
(* and with one producer what it has accepted stays.                         *)
(***************************************************************************)
EXTENDS SharedBlockInvariant, SerialProofs

(* What comes from elsewhere with a sum that fits has parameters that do not, *)
(* and readers that look at them.                                            *)
ForeignIsRefused == \A m \in Foreign : Checked(m.type) /\ ~ HasFitParams(m)

-----------------------------------------------------------------------------
(* The images of maps. *)

LEMMA FormShape ==
  ASSUME NEW m, IsStruct(m), NEW f \in FormatsOf(m), NEW s, s = Summed(BodyIn(m, f)),
         NEW b, b = BodyIn(m, f)
  PROVE  /\ b \in Seq(PlainUnit)
         /\ s \in Seq(PlainUnit \union {Half, [sum |-> b]})
         /\ Len(s) = Len(b) + 2
         /\ \A k \in 1 .. Len(b) : s[k] = b[k] /\ b[k] \in PlainUnit
         /\ s[Len(b) + 1] = [sum |-> b] /\ s[Len(b) + 2] = Half
<1>1. b \in Seq(PlainUnit)
  BY BodyShape
<1> DEFINE U == PlainUnit \union {Half, [sum |-> b]}
<1>2. PlainUnit \subseteq U /\ [sum |-> b] \in U /\ [half |-> "high"] \in U /\ s = Summed(b)
  BY DEF Half
<1> HIDE DEF U
<1>3. /\ s \in Seq(U) /\ Len(s) = Len(b) + 2 /\ Len(b) \in Nat
      /\ \A k \in 1 .. Len(b) : s[k] = b[k]
      /\ s[Len(b) + 1] = [sum |-> b] /\ s[Len(b) + 2] = [half |-> "high"]
  BY ONLY <1>1, <1>2, SummedShape
<1>4. \A k \in 1 .. Len(b) : b[k] \in PlainUnit
  BY <1>1, ElementsIn
<1> QED  BY <1>1, <1>3, <1>4 DEF U, Half

(* What this library writes fills the size it announces. *)
LEMMA WrittenShape ==
  ASSUME NEW m, IsStruct(m)
  PROVE  \E b \in Seq(PlainUnit) :
           /\ Len(b) = Body(m) /\ Body(m) \in Nat /\ Body(m) >= 8
           /\ SerializedSize(m) = Body(m) + 2 /\ Len(Written(m)) = SerializedSize(m)
           /\ Written(m) \in Seq(PlainUnit \union {Half, [sum |-> b]})
           /\ \A k \in 1 .. Body(m) : Written(m)[k] = b[k] /\ b[k] \in PlainUnit
           /\ Written(m)[Body(m) + 1] = [sum |-> b] /\ Written(m)[Body(m) + 2] = Half
<1> DEFINE f == FormatFor(m.type, m.hash)
           b == BodyIn(m, f)
           s == Written(m)
<1>1. f \in FormatsOf(m) /\ f.header = 8
  BY FormatUsed
<1>2. s = Summed(BodyIn(m, f))
  BY WrittenIs
<1>3. b = BodyIn(m, f)
  OBVIOUS
<1> HIDE DEF f, b, s
<1>4. Len(b) \in Nat /\ Len(b) >= 8 /\ SerializedSize(m) = Len(b) + 2
  BY <1>1, <1>3, FormSize
<1>5. /\ b \in Seq(PlainUnit)
      /\ s \in Seq(PlainUnit \union {Half, [sum |-> b]})
      /\ Len(s) = Len(b) + 2
      /\ \A k \in 1 .. Len(b) : s[k] = b[k] /\ b[k] \in PlainUnit
      /\ s[Len(b) + 1] = [sum |-> b] /\ s[Len(b) + 2] = Half
  BY <1>1, <1>2, <1>3, FormShape
<1>6. Body(m) = Len(b)
  BY <1>4 DEF Body, TrailerUnits
<1> QED  BY <1>4, <1>5, <1>6 DEF s

(* Every image of a map is a form of one with the same arrays, and needs no   *)
(* more room.                                                                *)
LEMMA ImageIs ==
  ASSUME NEW m, IsStruct(m), NEW units \in Images(m)
  PROVE  \E u : /\ IsStruct(u) /\ u.type = m.type /\ HasFitParams(u) = HasFitParams(m)
                /\ Arrays(u) = Arrays(m)
                /\ \E f \in FormatsOf(u) : units = Summed(BodyIn(u, f))
<1>1. CASE units = Written(m)
  BY <1>1, WrittenIs, FormatUsed
<1>2. CASE units = WrittenByGo(m)
  BY <1>2, GoForm
<1> QED  BY <1>1, <1>2 DEF Images

(* It ends in the unit that names what it sums, and the other half.          *)
LEMMA FormEnds ==
  ASSUME NEW m, IsStruct(m), NEW f \in FormatsOf(m), NEW s, s = Summed(BodyIn(m, f)),
         NEW b, b = BodyIn(m, f)
  PROVE  /\ SumUnit(s) = [sum |-> b]
         /\ SubSeq(s, Len(s) - 1, Len(s)) = <<[sum |-> b], Half>>
<1> DEFINE U == PlainUnit \union {Half, [sum |-> b]}
           len == Len(s)
           x == len - 1
           e == SubSeq(s, x, len)
<1>1. Len(b) \in Nat
  BY FormSize
<1>2. /\ s \in Seq(U) /\ len = Len(b) + 2
      /\ s[Len(b) + 1] = [sum |-> b] /\ s[Len(b) + 2] = Half
  BY FormShape
<1> HIDE DEF U
<1>3. /\ s[x] = [sum |-> b] /\ s[len] = Half
      /\ x \in 1 .. (Len(s) + 1) /\ len \in 0 .. Len(s) /\ x <= len + 1
      /\ len - x + 1 = 2 /\ x + 1 - 1 = x /\ x + 2 - 1 = len
  <2>1. x = Len(b) + 1
    BY <1>1, <1>2
  <2> QED  BY <2>1, <1>1, <1>2
<1>4. s[Len(s) - 1] = [sum |-> b]
  BY <1>3
<1> HIDE DEF x
<1>5. /\ e \in Seq(U) /\ Len(e) = len - x + 1
      /\ \A k \in 1 .. (len - x + 1) : e[k] = s[x + k - 1]
  BY <1>2, <1>3, PartOf
<1>6. e[1] = [sum |-> b] /\ e[2] = Half /\ Len(e) = 2
  <2>1. 1 \in 1 .. (len - x + 1) /\ 2 \in 1 .. (len - x + 1)
    BY <1>3
  <2>2. e[1] = s[x + 1 - 1] /\ e[2] = s[x + 2 - 1]
    BY <1>5, <2>1
  <2> QED  BY <1>3, <1>5, <2>2
<1> HIDE DEF e
<1>7. e = <<e[1], e[2]>>
  BY <1>5, <1>6, TwoElements
<1>8. e = <<[sum |-> b], Half>>
  BY <1>6, <1>7
<1> QED  BY <1>4, <1>8 DEF SumUnit, e, x

LEMMA ImageEnds ==
  ASSUME NEW m, IsStruct(m), NEW units \in Images(m)
  PROVE  \E b \in Seq(PlainUnit) :
           /\ SumUnit(units) = [sum |-> b]
           /\ SubSeq(units, Len(units) - 1, Len(units)) = <<[sum |-> b], Half>>
<1>1. PICK u : IsStruct(u) /\ \E f \in FormatsOf(u) : units = Summed(BodyIn(u, f))
  BY ImageIs
<1>2. PICK f \in FormatsOf(u) : units = Summed(BodyIn(u, f))
  BY <1>1
<1> DEFINE b == BodyIn(u, f)
<1>3. b = BodyIn(u, f)
  OBVIOUS
<1> HIDE DEF b
<1>4. b \in Seq(PlainUnit)
  BY <1>1, <1>3, BodyShape
<1>5. /\ SumUnit(units) = [sum |-> b]
      /\ SubSeq(units, Len(units) - 1, Len(units)) = <<[sum |-> b], Half>>
  BY <1>1, <1>2, <1>3, FormEnds
<1> QED  BY <1>4, <1>5

LEMMA MapsAre ==
  /\ \A m \in Maps : IsStruct(m) /\ HasFitParams(m) /\ m # NoMap
  /\ \A m \in Foreign : IsStruct(m) /\ m # NoMap
<1>1. ASSUME NEW m, IsStruct(m) PROVE m # NoMap
  <2>1. m.type \in {"constmap", "verified", "paired"}
    BY <1>1, StructFields
  <2>2. NoMap.type = "none"
    BY DEF NoMap
  <2> QED  BY <2>1, <2>2
<1> QED  BY <1>1, MapsAssumption

(* The kinds of unit are told apart. *)
LEMMA UnitsApart ==
  /\ Num(0) \in PlainUnit /\ Num(0) # Half
  /\ \A u \in PlainUnit : u # Half
  /\ \A b : [sum |-> b] # Half
<1>1. Num(0) \in PlainUnit
  BY SerialAssumption DEF Num, NumUnit, Number, PlainUnit
<1>2. ASSUME NEW u \in PlainUnit PROVE u # Half
  <2>1. "half" \in DOMAIN Half
    BY DEF Half
  <2>2. "half" \notin DOMAIN u
    BY <1>2 DEF PlainUnit, NumUnit
  <2> QED  BY <2>1, <2>2
<1>3. ASSUME NEW b PROVE [sum |-> b] # Half
  <2>1. "half" \in DOMAIN Half
    BY DEF Half
  <2>2. "half" \notin DOMAIN [sum |-> b]
    OBVIOUS
  <2> QED  BY <2>1, <2>2
<1> QED  BY <1>1, <1>2, <1>3

LEMMA OursAreGood == OurUnit \subseteq GoodUnit /\ PlainUnit \subseteq OurUnit /\ Half \in OurUnit
BY DEF OurUnit, GoodUnit

(* A good unit that is no number reads as a large one. *)
LEMMA GoodNumbers ==
  ASSUME NEW u \in GoodUnit
  PROVE  NumOf(u) \in Nat
<1>0. Uint32 - 1 \in Nat
  BY SerialAssumption
<1>1. CASE u \in PlainUnit
  BY <1>0, <1>1, SerialAssumption DEF PlainUnit, NumUnit, Number, NumOf
<1>2. ASSUME NEW b, u = [sum |-> b] PROVE NumOf(u) \in Nat
  BY <1>0, <1>2 DEF NumOf
<1>3. CASE u = Half
  BY <1>0, <1>3 DEF NumOf, Half
<1>4. ASSUME NEW m, IsStruct(m), NEW units \in Images(m), u = SumUnit(units) PROVE NumOf(u) \in Nat
  <2>1. PICK b : SumUnit(units) = [sum |-> b]
    BY <1>4, ImageEnds
  <2> QED  BY <1>2, <1>4, <2>1
<1>5. CASE u \in { SumUnit(units) : units \in UNION { Images(m) : m \in Maps } }
  BY <1>4, <1>5, MapsAre
<1>6. CASE u \in { SumUnit(Written(m)) : m \in Foreign }
  <2>1. PICK m \in Foreign : u = SumUnit(Written(m))
    BY <1>6
  <2>2. Written(m) \in Images(m)
    BY DEF Images
  <2> QED  BY <1>4, <2>1, <2>2, MapsAre
<1> QED  BY <1>1, <1>3, <1>5, <1>6 DEF GoodUnit, OurUnit

(* What write_into writes. *)
LEMMA WrittenUnits ==
  ASSUME NEW m \in FitMaps
  PROVE  /\ m \in Maps /\ IsStruct(m) /\ m # NoMap
         /\ SerializedSize(m) \in Nat /\ 10 <= SerializedSize(m) /\ SerializedSize(m) <= BlockUnits
         /\ BlockUnits \in Nat
         /\ Len(Written(m)) = SerializedSize(m)
         /\ \A k \in 1 .. SerializedSize(m) :
              Written(m)[k] \in OurUnit /\ (Written(m)[k] = Half <=> k = SerializedSize(m))
         /\ \E S : Written(m) \in Seq(S)
<1>1. m \in Maps /\ IsStruct(m) /\ m # NoMap /\ SerializedSize(m) <= BlockUnits /\ BlockUnits \in Nat
  BY MapsAre, SharedBlockAssumption DEF FitMaps, Fits
<1>2. PICK b \in Seq(PlainUnit) :
           /\ Len(b) = Body(m) /\ Body(m) \in Nat /\ Body(m) >= 8
           /\ SerializedSize(m) = Body(m) + 2 /\ Len(Written(m)) = SerializedSize(m)
           /\ Written(m) \in Seq(PlainUnit \union {Half, [sum |-> b]})
           /\ \A k \in 1 .. Body(m) : Written(m)[k] = b[k] /\ b[k] \in PlainUnit
           /\ Written(m)[Body(m) + 1] = [sum |-> b] /\ Written(m)[Body(m) + 2] = Half
  BY <1>1, WrittenShape
<1>3. [sum |-> b] \in OurUnit
  <2>1. SumUnit(Written(m)) = [sum |-> b]
    <3>1. Body(m) + 2 - 1 = Body(m) + 1
      BY <1>2
    <3> QED  BY <1>2, <3>1 DEF SumUnit
  <2>2. Written(m) \in UNION { Images(x) : x \in Maps }
    BY <1>1 DEF Images
  <2> QED  BY <2>1, <2>2 DEF OurUnit
<1>4. ASSUME NEW k \in 1 .. SerializedSize(m)
      PROVE  Written(m)[k] \in OurUnit /\ (Written(m)[k] = Half <=> k = SerializedSize(m))
  <2>1. k \in 1 .. Body(m) \/ k = Body(m) + 1 \/ k = Body(m) + 2
    BY <1>2
  <2>2. CASE k \in 1 .. Body(m)
    <3>1. k # SerializedSize(m)
      BY <1>2, <2>2
    <3> QED  BY <1>2, <2>2, <3>1, UnitsApart, OursAreGood
  <2>3. CASE k = Body(m) + 1
    <3>1. k # SerializedSize(m)
      BY <1>2, <2>3
    <3> QED  BY <1>2, <1>3, <2>3, <3>1, UnitsApart
  <2>4. CASE k = Body(m) + 2
    BY <1>2, <2>4, OursAreGood
  <2> QED  BY <2>1, <2>2, <2>3, <2>4
<1> QED  BY <1>1, <1>2, <1>4

-----------------------------------------------------------------------------
(* The producer. *)

LEMMA BlockIs ==
  ASSUME BlockInv
  PROVE  /\ block \in Seq(GoodUnit) /\ Len(block) = BlockUnits /\ BlockUnits \in Nat /\ BlockUnits >= 10
         /\ published \notin Foreign => block \in Seq(OurUnit)
<1>1. BlockUnits \in Nat /\ BlockUnits >= 10
  BY SharedBlockAssumption
<1>2. block \in Seq(GoodUnit) /\ Len(block) = BlockUnits
  BY <1>1 DEF BlockInv
<1>3. published \notin Foreign => block \in Seq(OurUnit)
  BY <1>1 DEF BlockInv
<1> QED  BY <1>1, <1>2, <1>3

(* What is in the block is what is written of the map, also when the sum of   *)
(* the block comes to be written.                                            *)
LEMMA NextUnitIs ==
  ASSUME BlockInv, WriterInv, source # NoMap, at < SerializedSize(source)
  PROVE  NextUnit = Written(source)[at + 1] /\ at + 1 \in 1 .. SerializedSize(source)
<1> DEFINE m == source
           size == SerializedSize(source)
           body == Body(source)
<1>1. m \in FitMaps /\ at \in 0 .. size /\ \A k \in 1 .. at : block[k] = Written(m)[k]
  BY DEF WriterInv
<1>2. m \in Maps /\ IsStruct(m) /\ size <= BlockUnits /\ BlockUnits \in Nat
  BY <1>1, WrittenUnits
<1>3. PICK b \in Seq(PlainUnit) :
           /\ Len(b) = body /\ body \in Nat /\ body >= 8
           /\ size = body + 2
           /\ \A k \in 1 .. body : Written(m)[k] = b[k]
           /\ Written(m)[body + 1] = [sum |-> b] /\ Written(m)[body + 2] = Half
  <2>1. IsStruct(source)
    BY <1>2
  <2> QED  BY ONLY <2>1, WrittenShape
<1>4. Serialized[m] = Written(m)
  BY <1>2 DEF Serialized
<1>5. at + 1 \in 1 .. size
  BY <1>1, <1>3
<1>6. CASE at < body
  BY <1>4, <1>5, <1>6 DEF NextUnit
<1>7. CASE ~ (at < body)
  <2>1. block \in Seq(GoodUnit) /\ Len(block) = BlockUnits
    BY BlockIs
  <2>2. 1 \in 1 .. (Len(block) + 1) /\ body \in 0 .. Len(block) /\ 1 <= body + 1
    BY <1>2, <1>3, <2>1
  <2> DEFINE s == SubSeq(block, 1, body)
  <2>3. /\ s \in Seq(GoodUnit) /\ Len(s) = body - 1 + 1
        /\ \A k \in 1 .. (body - 1 + 1) : s[k] = block[1 + k - 1]
    BY ONLY <2>1, <2>2, PartOf
  <2>4. \A k \in 1 .. body : s[k] = b[k]
    <3>1. \A k \in 1 .. body : k \in 1 .. at /\ 1 + k - 1 = k /\ body - 1 + 1 = body
      BY <1>1, <1>3, <1>7
    <3> QED  BY <1>1, <1>3, <2>3, <3>1
  <2>5. Len(s) = Len(b) /\ Len(s) = body
    BY <1>3, <2>3
  <2>6. s = b
    BY <1>3, <2>3, <2>4, <2>5, SameSequence
  <2>7. NextUnit = Sum(s)[at + 1 - body]
    BY <1>7 DEF NextUnit
  <2>8. at = body \/ at = body + 1
    BY <1>1, <1>3, <1>5, <1>7
  <2>9. Sum(s)[1] = [sum |-> b] /\ Sum(s)[2] = Half
    BY <2>6 DEF Sum, Half
  <2>10. CASE at = body
    <3>1. at + 1 - body = 1
      BY <1>3, <2>10
    <3> QED  BY <1>3, <1>5, <2>7, <2>9, <2>10, <3>1
  <2>11. CASE at = body + 1
    <3>1. at + 1 - body = 2 /\ at + 1 = body + 2
      BY <1>3, <2>11
    <3> QED  BY <1>3, <1>5, <2>7, <2>9, <3>1
  <2> QED  BY <2>8, <2>10, <2>11
<1> QED  BY <1>5, <1>6, <1>7

LEMMA PrefixWritten ==
  ASSUME BlockInv, NEW m \in FitMaps, \A k \in 1 .. SerializedSize(m) : block[k] = Written(m)[k]
  PROVE  Prefix(Written(m))
<1> DEFINE size == SerializedSize(m)
           w == Written(m)
           s == SubSeq(block, 1, size)
<1>1. size \in Nat /\ 10 <= size /\ size <= BlockUnits /\ Len(w) = size /\ BlockUnits \in Nat
  BY WrittenUnits
<1>2. PICK S : w \in Seq(S)
  BY WrittenUnits
<1>3. \A k \in 1 .. size : block[k] = w[k]
  OBVIOUS
<1> HIDE DEF size, w
<1>4. block \in Seq(GoodUnit) /\ Len(block) = BlockUnits
  BY BlockIs
<1>5. 1 \in 1 .. (Len(block) + 1) /\ size \in 0 .. Len(block) /\ 1 <= size + 1
  BY <1>1, <1>4
<1>6. /\ s \in Seq(GoodUnit) /\ Len(s) = size - 1 + 1
      /\ \A k \in 1 .. (size - 1 + 1) : s[k] = block[1 + k - 1]
  BY ONLY <1>4, <1>5, PartOf
<1>7. Len(s) = size /\ \A k \in 1 .. size : s[k] = w[k]
  <2>1. size - 1 + 1 = size /\ \A k \in 1 .. size : 1 + k - 1 = k
    BY <1>1
  <2> QED  BY <1>3, <1>6, <2>1
<1>8. s = w
  <2>1. Len(s) = Len(w) /\ \A k \in 1 .. Len(s) : s[k] = w[k]
    BY <1>1, <1>7
  <2> HIDE DEF s
  <2> QED  BY <1>2, <1>6, <2>1, SameSequence
<1> QED  BY <1>1, <1>8 DEF Prefix, w

(* Only producers write, and what they are about to do is theirs to know.    *)
LEMMA ProducerStays ==
  ASSUME ProducerInv, UNCHANGED <<block, producerVars>>
  PROVE  ProducerInv'
BY DEF ProducerInv, producerVars, BlockInv, WriterInv, PublishedInv, AloneInv, Given, Drafted, Prefix

LEMMA StartWriteKeeps ==
  ASSUME ProducerInv, StartWrite
  PROVE  ProducerInv'
<1>1. /\ source = NoMap /\ published = NoMap /\ producers' = producers + 1 /\ producers \in Nat
      /\ at' = 0 /\ source' \in FitMaps /\ block' = block /\ published' = published
  BY DEF StartWrite, FitMaps, ProducerInv, BlockInv
<1>2. BlockInv'
  BY <1>1 DEF ProducerInv, BlockInv
<1>3. WriterInv'
  <2>1. SerializedSize(source') \in Nat
    BY <1>1, WrittenUnits
  <2> QED  BY <1>1, <2>1 DEF WriterInv
<1>4. PublishedInv'
  BY <1>1 DEF PublishedInv
<1>5. AloneInv'
  <2> SUFFICES ASSUME producers' <= 1 PROVE AloneInv'
    BY DEF AloneInv
  <2>1. producers = 0
    BY <1>1
  <2>2. \A k \in 1 .. BlockUnits : block[k] = Num(0)
    BY <1>1, <2>1 DEF ProducerInv, AloneInv, Given
  <2> PICK m \in FitMaps : source' = m
    BY <1>1
  <2>3. Drafted(m, 0)'
    BY <1>1, <2>2 DEF Drafted
  <2>4. 0 \in 0 .. SerializedSize(m)
    BY WrittenUnits
  <2>5. producers' = 1 /\ at' = 0
    BY <1>1, <2>1
  <2>6. \E x \in FitMaps : \E len \in 0 .. SerializedSize(x) :
          Drafted(x, len)' /\ (source' # NoMap => source' = x /\ at' = len)
    BY <1>1, <2>3, <2>4, <2>5
  <2> QED  BY <2>5, <2>6 DEF AloneInv
<1> QED  BY <1>2, <1>3, <1>4, <1>5 DEF ProducerInv

LEMMA RefuseWriteKeeps ==
  ASSUME ProducerInv, RefuseWrite
  PROVE  ProducerInv'
<1>1. /\ source = NoMap /\ published = NoMap /\ producers' = producers + 1 /\ producers \in Nat
      /\ source' = source /\ at' = at /\ block' = block /\ published' = published
  BY DEF RefuseWrite, ProducerInv, BlockInv
<1>2. BlockInv' /\ WriterInv' /\ PublishedInv'
  BY <1>1 DEF ProducerInv, BlockInv, WriterInv, PublishedInv
<1>3. AloneInv'
  <2> SUFFICES ASSUME producers' <= 1 PROVE AloneInv'
    BY DEF AloneInv
  <2>1. producers = 0
    BY <1>1
  <2>2. \A k \in 1 .. BlockUnits : block[k] = Num(0)
    BY <1>1, <2>1 DEF ProducerInv, AloneInv, Given
  <2> QED  BY <1>1, <2>2 DEF AloneInv
<1> QED  BY <1>2, <1>3 DEF ProducerInv

LEMMA ProducerDiesKeeps ==
  ASSUME ProducerInv, ProducerDies
  PROVE  ProducerInv'
<1>1. /\ source # NoMap /\ source' = NoMap /\ at' = 0 /\ block' = block
      /\ published' = published /\ producers' = producers
  BY DEF ProducerDies
<1>2. published = NoMap
  BY <1>1 DEF ProducerInv, WriterInv
<1>3. BlockInv' /\ WriterInv' /\ PublishedInv'
  BY <1>1, <1>2 DEF ProducerInv, BlockInv, WriterInv, PublishedInv
<1>4. AloneInv'
  BY <1>1 DEF ProducerInv, AloneInv, Given, Drafted
<1> QED  BY <1>3, <1>4 DEF ProducerInv

LEMMA EndWriteKeeps ==
  ASSUME ProducerInv, EndWrite
  PROVE  ProducerInv'
<1>1. /\ source # NoMap /\ at = SerializedSize(source) /\ published' = source /\ source' = NoMap
      /\ at' = 0 /\ block' = block /\ producers' = producers
  BY DEF EndWrite
<1>2. /\ source \in FitMaps /\ published = NoMap /\ producers >= 1 /\ producers \in Nat
      /\ \A k \in 1 .. SerializedSize(source) : block[k] = Written(source)[k]
  BY <1>1 DEF ProducerInv, WriterInv, BlockInv
<1>3. BlockInv'
  BY <1>1, <1>2, MapsAre DEF ProducerInv, BlockInv
<1>4. WriterInv'
  BY <1>1 DEF WriterInv
<1>5. PublishedInv'
  <2>1. Prefix(Written(source))
    BY <1>2, PrefixWritten DEF ProducerInv
  <2>2. IsStruct(source)
    BY <1>2, WrittenUnits
  <2>3. \E f \in FormatsOf(source) : Prefix(Summed(BodyIn(source, f)))
    BY <2>1, <2>2, WrittenIs, FormatUsed
  <2>4. \E m \in FitMaps : (\E units \in Images(m) : Prefix(units)) /\ Arrays(m) = Arrays(source)
    BY <1>2, <2>1 DEF Images
  <2>5. HasFitParams(source)
    BY <1>2, WrittenUnits, MapsAre
  <2> QED  BY <1>1, <2>2, <2>3, <2>4, <2>5 DEF PublishedInv, Prefix
<1>6. AloneInv'
  <2>1. ~ Given
    BY <1>2 DEF Given
  <2> QED  BY <1>1, <1>2, <2>1 DEF ProducerInv, AloneInv, Given, Drafted
<1> QED  BY <1>3, <1>4, <1>5, <1>6 DEF ProducerInv

LEMMA WriteUnitKeeps ==
  ASSUME ProducerInv, WriteUnit
  PROVE  /\ ProducerInv' /\ published = NoMap /\ producers \in Nat /\ producers >= 1
         /\ NextUnit = Written(source)[at + 1] /\ at + 1 \in 1 .. BlockUnits
<1>1. /\ source # NoMap /\ at < SerializedSize(source) /\ block' = [block EXCEPT ![at + 1] = NextUnit]
      /\ at' = at + 1 /\ source' = source /\ producers' = producers /\ published' = published
  BY DEF WriteUnit
<1>2. /\ source \in FitMaps /\ published = NoMap /\ producers >= 1 /\ producers \in Nat
      /\ at \in 0 .. SerializedSize(source)
      /\ \A k \in 1 .. at : block[k] = Written(source)[k]
  BY <1>1 DEF ProducerInv, WriterInv, BlockInv
<1>3. NextUnit = Written(source)[at + 1] /\ at + 1 \in 1 .. SerializedSize(source)
  BY <1>1, NextUnitIs DEF ProducerInv
<1>4. /\ SerializedSize(source) \in Nat /\ SerializedSize(source) <= BlockUnits /\ BlockUnits \in Nat
      /\ \A k \in 1 .. SerializedSize(source) : Written(source)[k] \in OurUnit
  BY <1>2, WrittenUnits
<1>5. at + 1 \in 1 .. BlockUnits /\ NextUnit \in OurUnit
  BY <1>3, <1>4
<1> DEFINE x == at + 1
           u == NextUnit
<1>6. /\ x \in 1 .. BlockUnits /\ u \in OurUnit /\ u \in GoodUnit /\ block' = [block EXCEPT ![x] = u]
      /\ u = Written(source)[x] /\ at' = x /\ x \in 0 .. SerializedSize(source)
      /\ x \in 1 .. SerializedSize(source)
      /\ \A k \in 1 .. x : k = x \/ k \in 1 .. at
      /\ \A k \in 1 .. BlockUnits : k <= x <=> k <= at \/ k = x
  BY <1>1, <1>2, <1>3, <1>4, <1>5, OursAreGood
<1> HIDE DEF u, x
<1>7. /\ block' \in [1 .. BlockUnits -> GoodUnit] /\ block'[x] = u
      /\ \A k \in 1 .. BlockUnits : k # x => block'[k] = block[k]
  BY <1>6 DEF ProducerInv, BlockInv
<1>8. block' \in [1 .. BlockUnits -> OurUnit]
  <2>1. block \in [1 .. BlockUnits -> OurUnit]
    BY <1>2, MapsAre DEF ProducerInv, BlockInv
  <2> QED  BY <1>6, <2>1
<1>9. BlockInv'
  BY <1>1, <1>2, <1>7, <1>8 DEF BlockInv
<1>10. WriterInv'
  <2>1. ASSUME NEW k \in 1 .. x PROVE block'[k] = Written(source)[k]
    <3>1. k \in 1 .. BlockUnits
      BY <1>4, <1>6
    <3>2. CASE k = x
      BY <1>6, <1>7, <3>2
    <3>3. CASE k # x
      BY <1>2, <1>6, <1>7, <3>1, <3>3
    <3> QED  BY <3>2, <3>3
  <2> QED  BY <1>1, <1>2, <1>6, <2>1 DEF WriterInv
<1>11. PublishedInv'
  BY <1>1, <1>2 DEF PublishedInv
<1>12. AloneInv'
  <2> SUFFICES ASSUME producers <= 1 PROVE AloneInv'
    BY <1>1 DEF AloneInv
  <2>1. PICK m \in FitMaps : \E len \in 0 .. SerializedSize(m) : Drafted(m, len) /\ source = m /\ at = len
    BY <1>1, <1>2 DEF ProducerInv, AloneInv, Given
  <2>2. source = m /\ Drafted(source, at) /\ producers = 1
    BY <1>2, <2>1
  <2>3. ASSUME NEW k \in 1 .. BlockUnits
        PROVE  block'[k] = IF k <= x THEN Written(source)[k] ELSE Num(0)
    <3>1. CASE k = x
      BY <1>6, <1>7, <3>1
    <3>2. CASE k # x
      BY <1>6, <1>7, <2>2, <3>2 DEF Drafted
    <3> QED  BY <3>1, <3>2
  <2>4. Drafted(source, at)'
    BY <1>1, <1>6, <2>3 DEF Drafted
  <2> QED  BY <1>1, <1>2, <1>6, <2>2, <2>4 DEF AloneInv
<1> QED  BY <1>2, <1>3, <1>5, <1>9, <1>10, <1>11, <1>12 DEF ProducerInv

LEMMA FormUnits ==
  ASSUME NEW m, IsStruct(m), NEW f \in FormatsOf(m), NEW s, s = Summed(BodyIn(m, f)),
         NEW S, PlainUnit \subseteq S, Half \in S, SumUnit(s) \in S
  PROVE  s \in Seq(S) /\ Len(s) \in Nat /\ Len(s) <= SerializedSize(m) /\ SerializedSize(m) \in Nat
<1> DEFINE b == BodyIn(m, f)
<1>1. b = BodyIn(m, f)
  OBVIOUS
<1> HIDE DEF b
<1>2. s \in Seq(PlainUnit \union {Half, [sum |-> b]}) /\ Len(s) = Len(b) + 2
  BY <1>1, FormShape
<1>3. SumUnit(s) = [sum |-> b]
  BY <1>1, FormEnds
<1>4. Len(b) \in Nat /\ SerializedSize(m) \in Nat /\ Len(b) + 2 <= SerializedSize(m)
  BY <1>1, FormSize
<1>5. PlainUnit \union {Half, [sum |-> b]} \subseteq S
  BY <1>3
<1> DEFINE U == PlainUnit \union {Half, [sum |-> b]}
<1>6. s \in Seq(U) /\ U \subseteq S
  BY <1>2, <1>5
<1> HIDE DEF U
<1>7. s \in Seq(S)
  <2>1. s \in [1 .. Len(s) -> U] /\ Len(s) \in Nat
    BY <1>6, LenProperties
  <2>2. s \in [1 .. Len(s) -> S]
    BY <1>6, <2>1
  <2> QED  BY <2>1, <2>2, SeqDef
<1> QED  BY <1>2, <1>4, <1>7

LEMMA FilledIs ==
  ASSUME NEW S, NEW units \in Seq(S), Num(0) \in S, Len(units) <= BlockUnits, block = Filled(units)
  PROVE  block \in [1 .. BlockUnits -> S] /\ Prefix(units)
<1> DEFINE len == Len(units)
           s == SubSeq(block, 1, len)
<1>1. len \in Nat /\ BlockUnits \in Nat /\ len <= BlockUnits
  BY LenProperties, SharedBlockAssumption
<1>2. block = [k \in 1 .. BlockUnits |-> IF k <= Len(units) THEN units[k] ELSE Num(0)]
  BY DEF Filled
<1>3. block \in [1 .. BlockUnits -> S]
  <2>1. \A k \in 1 .. BlockUnits : k <= Len(units) => units[k] \in S
    <3>1. \A k \in 1 .. BlockUnits : k <= Len(units) => k \in 1 .. Len(units)
      BY <1>1
    <3> QED  BY <3>1, ElementsIn
  <2> QED  BY <1>2, <2>1
<1>4. block \in Seq(S) /\ Len(block) = BlockUnits
  BY <1>1, <1>3
<1> HIDE DEF len
<1>5. 1 \in 1 .. (Len(block) + 1) /\ len \in 0 .. Len(block) /\ 1 <= len + 1
  BY <1>1, <1>4
<1>6. /\ s \in Seq(S) /\ Len(s) = len - 1 + 1
      /\ \A k \in 1 .. (len - 1 + 1) : s[k] = block[1 + k - 1]
  BY ONLY <1>4, <1>5, PartOf
<1>7. Len(s) = len /\ \A k \in 1 .. len : s[k] = units[k]
  <2>1. len - 1 + 1 = len /\ \A k \in 1 .. len : 1 + k - 1 = k /\ k \in 1 .. BlockUnits /\ k <= len
    BY <1>1
  <2> QED  BY <1>2, <1>6, <2>1 DEF len
<1>8. s = units
  <2>1. Len(s) = Len(units) /\ \A k \in 1 .. Len(s) : s[k] = units[k]
    BY <1>7 DEF len
  <2> HIDE DEF s
  <2> QED  BY <1>6, <2>1, SameSequence
<1> QED  BY <1>3, <1>8 DEF Prefix, len

LEMMA ProducerInit == Init => ProducerInv
<1> SUFFICES ASSUME Init PROVE ProducerInv
  OBVIOUS
<1>1. /\ source = NoMap /\ producers = 0 /\ at = 0
      /\ \/ block = Filled(<< >>) /\ published = NoMap
         \/ \E m \in FitMaps : /\ m.hash = "XXH64" /\ block = Filled(WrittenByGo(m))
                               /\ published = WithoutCount(m)
         \/ \E m \in Foreign : Fits(m) /\ block = Filled(Written(m)) /\ published = m
  BY DEF Init, FitMaps, WithoutCount
<1>2. WriterInv
  BY <1>1 DEF WriterInv
<1>3. Num(0) \in OurUnit /\ OurUnit \subseteq GoodUnit /\ PlainUnit \subseteq OurUnit /\ Half \in OurUnit
  BY OursAreGood, UnitsApart
<1>4. CASE block = Filled(<< >>) /\ published = NoMap
  <2>1. \A k \in 1 .. BlockUnits : block[k] = Num(0)
    BY <1>4, SharedBlockAssumption DEF Filled
  <2>2. block = [k \in 1 .. BlockUnits |-> block[k]]
    BY <1>4 DEF Filled
  <2>3. block \in [1 .. BlockUnits -> OurUnit]
    BY <1>3, <2>1, <2>2
  <2>4. block \in [1 .. BlockUnits -> GoodUnit]
    BY <1>3, <2>3
  <2>5. BlockInv
    BY <1>1, <2>3, <2>4 DEF BlockInv
  <2>6. PublishedInv
    BY <1>4 DEF PublishedInv
  <2>7. AloneInv
    BY <1>1, <2>1 DEF AloneInv
  <2> QED  BY <1>2, <2>5, <2>6, <2>7 DEF ProducerInv
<1>5. ASSUME NEW m \in FitMaps, m.hash = "XXH64", block = Filled(WrittenByGo(m)),
             published = WithoutCount(m)
      PROVE  ProducerInv
  <2> DEFINE u == WithoutCount(m)
             s == WrittenByGo(m)
  <2>1. IsStruct(m) /\ m \in Maps /\ SerializedSize(m) <= BlockUnits /\ BlockUnits \in Nat
    BY <1>5, WrittenUnits
  <2>2. IsStruct(u) /\ Arrays(u) = Arrays(m) /\ HasFitParams(u)
    BY <2>1, UncountedIs, MapsAre
  <2>3. u = WithoutCount(m) /\ SerializedSize(u) = SerializedSize(m)
    <3>1. u.data_len = m.data_len /\ u.type = m.type
      BY <2>1 DEF IsStruct, WithoutCount
    <3> QED  BY <3>1 DEF SerializedSize
  <2> HIDE DEF u
  <2>4. PICK f \in FormatsOf(u) : s = Summed(BodyIn(u, f))
    BY <1>5, <2>1, <2>3, GoUncounted
  <2>5. s \in Images(m)
    BY DEF Images
  <2> HIDE DEF s
  <2>6. SumUnit(s) \in OurUnit
    BY <2>1, <2>5 DEF OurUnit
  <2>7. s \in Seq(OurUnit) /\ Len(s) \in Nat /\ Len(s) <= SerializedSize(u) /\ SerializedSize(u) \in Nat
    BY <1>3, <2>2, <2>4, <2>6, FormUnits
  <2>8. Len(s) <= BlockUnits
    BY <2>1, <2>3, <2>7
  <2>9. block = Filled(s)
    BY <1>5 DEF s
  <2>10. block \in [1 .. BlockUnits -> OurUnit] /\ Prefix(s)
    BY <1>3, <2>7, <2>8, <2>9, FilledIs
  <2>11. BlockInv
    BY <1>1, <1>3, <2>10 DEF BlockInv
  <2>12. PublishedInv
    <3>1. published = u
      BY <1>5, <2>3
    <3>2. \E g \in FormatsOf(u) : Prefix(Summed(BodyIn(u, g)))
      BY <2>4, <2>10
    <3>3. \E x \in FitMaps : (\E units \in Images(x) : Prefix(units)) /\ Arrays(x) = Arrays(u)
      BY <2>2, <2>5, <2>10
    <3> QED  BY <1>1, <2>2, <3>1, <3>2, <3>3 DEF PublishedInv
  <2>13. AloneInv
    <3>1. published # NoMap
      <4>1. u.type \in {"constmap", "verified", "paired"}
        BY <2>2, StructFields
      <4>2. NoMap.type = "none"
        BY DEF NoMap
      <4> QED  BY <1>5, <2>3, <4>1, <4>2
    <3> QED  BY <1>1, <3>1 DEF AloneInv, Given
  <2> QED  BY <1>2, <2>11, <2>12, <2>13 DEF ProducerInv
<1>6. ASSUME NEW m \in Foreign, Fits(m), block = Filled(Written(m)), published = m
      PROVE  ProducerInv
  <2> DEFINE s == Written(m)
             f == FormatFor(m.type, m.hash)
  <2>1. IsStruct(m) /\ m # NoMap /\ SerializedSize(m) <= BlockUnits /\ BlockUnits \in Nat
    BY <1>6, MapsAre, SharedBlockAssumption DEF Fits
  <2>2. f \in FormatsOf(m) /\ s = Summed(BodyIn(m, f))
    BY <2>1, WrittenIs, FormatUsed
  <2>3. SumUnit(s) \in GoodUnit
    BY DEF GoodUnit
  <2> HIDE DEF s, f
  <2>4. s \in Seq(GoodUnit) /\ Len(s) \in Nat /\ Len(s) <= SerializedSize(m) /\ SerializedSize(m) \in Nat
    <3>1. PlainUnit \subseteq GoodUnit /\ Half \in GoodUnit
      BY <1>3
    <3> QED  BY <2>1, <2>2, <2>3, <3>1, FormUnits
  <2>5. Len(s) <= BlockUnits /\ block = Filled(s) /\ Num(0) \in GoodUnit
    <3>1. block = Filled(s)
      BY <1>6 DEF s
    <3> QED  BY <1>3, <2>1, <2>4, <3>1
  <2>6. block \in [1 .. BlockUnits -> GoodUnit] /\ Prefix(s)
    BY <2>4, <2>5, FilledIs
  <2>7. BlockInv
    BY <1>1, <1>6, <2>6 DEF BlockInv
  <2>8. PublishedInv
    BY <1>1, <1>6, <2>1, <2>2, <2>6 DEF PublishedInv
  <2>9. AloneInv
    BY <1>1, <1>6, <2>1 DEF AloneInv, Given
  <2> QED  BY <1>2, <2>7, <2>8, <2>9 DEF ProducerInv
<1> QED  BY <1>1, <1>4, <1>5, <1>6

LEMMA ProducerNext == ProducerInv /\ [Next]_vars => ProducerInv'
<1> SUFFICES ASSUME ProducerInv, [Next]_vars PROVE ProducerInv'
  OBVIOUS
<1>1. CASE Produce
  BY <1>1, StartWriteKeeps, RefuseWriteKeeps, WriteUnitKeeps, EndWriteKeeps, ProducerDiesKeeps
     DEF Produce
<1>2. CASE Consume
  <2>1. UNCHANGED <<block, producerVars>>
    BY <1>2 DEF Consume, Return, Open, NoMemory, OpenUnknown, ReadMagic, ReadHeader, OpenShort,
                ReadStored, SumNext, OpenDifferent, RefuseParams, EndOpen, CopyNext, CopyNoMemory,
                EndCopy
  <2> QED  BY <2>1, ProducerStays
<1>3. CASE Idle \/ UNCHANGED vars
  BY <1>3, ProducerStays DEF Idle, vars
<1> QED  BY <1>1, <1>2, <1>3 DEF Next

-----------------------------------------------------------------------------
(* What a consumer has read. *)

(* Each unit that is read comes after those that were. *)
LEMMA Appended ==
  ASSUME NEW S, NEW s \in Seq(S), NEW u \in S
  PROVE  /\ Append(s, u) \in Seq(S)
         /\ Len(Append(s, u)) = Len(s) + 1 /\ Len(s) \in Nat
         /\ Append(s, u)[Len(s) + 1] = u
         /\ \A k \in 1 .. Len(s) : Append(s, u)[k] = s[k]
BY AppendProperties, LenProperties

LEMMA MatchingBy ==
  ASSUME NEW a, NEW b, NEW type, SubSeq(a, 1, 2) = SubSeq(b, 1, 2)
  PROVE  Matching(a, type) = Matching(b, type)
BY DEF Matching

LEMMA FirstTwo ==
  ASSUME NEW S, NEW s \in Seq(S), 2 <= Len(s)
  PROVE  SubSeq(s, 1, 2) = <<s[1], s[2]>>
<1> DEFINE e == SubSeq(s, 1, 2)
<1>1. 1 \in 1 .. (Len(s) + 1) /\ 2 \in 0 .. Len(s) /\ 1 <= 2 + 1
  BY LenProperties
<1>2. e \in Seq(S) /\ Len(e) = 2 - 1 + 1 /\ \A k \in 1 .. (2 - 1 + 1) : e[k] = s[1 + k - 1]
  BY ONLY <1>1, s \in Seq(S), PartOf
<1>3. Len(e) = 2 /\ e[1] = s[1] /\ e[2] = s[2]
  <2>1. 1 \in 1 .. (2 - 1 + 1) /\ 2 \in 1 .. (2 - 1 + 1) /\ 1 + 1 - 1 = 1 /\ 1 + 2 - 1 = 2 /\ 2 - 1 + 1 = 2
    OBVIOUS
  <2> QED  BY <1>2, <2>1
<1> HIDE DEF e
<1>4. e = <<e[1], e[2]>>
  BY <1>2, <1>3, TwoElements
<1>5. e = <<s[1], s[2]>>
  BY <1>3, <1>4
<1> QED  BY <1>5 DEF e

(* The format of what is recognised. *)
LEMMA FormatSeen ==
  ASSUME ConsumerTypes, PointInv, pc = "header"
  PROVE  /\ TheFormat \in AllFormats(class) /\ TheFormat.header \in {7, 8}
         /\ SubSeq(seen, 1, 2) = TheFormat.magic
         /\ seen[1] \in [tag : Tags] /\ seen[2] \in [tag : Tags]
<1> DEFINE k == CHOOSE x \in Matching(seen, class) : TRUE
           f == Formats[class][k]
<1>1. Matching(seen, class) # {} /\ 2 <= Len(seen) /\ seen \in Seq(GoodUnit) /\ class \in Types
  BY DEF PointInv, ConsumerTypes
<1>2. k \in Matching(seen, class)
  BY <1>1
<1> HIDE DEF k
<1>3. k \in DOMAIN Formats[class] /\ SubSeq(seen, 1, 2) = f.magic
  BY <1>2 DEF Matching
<1>4. f \in AllFormats(class)
  BY <1>3 DEF AllFormats
<1>5. TheFormat = f
  BY DEF TheFormat, k
<1> HIDE DEF f
<1>6. /\ f.header \in {7, 8} /\ f.magic = <<f.magic[1], f.magic[2]>>
      /\ f.magic[1] \in [tag : Tags] /\ f.magic[2] \in [tag : Tags]
  BY <1>1, <1>4, FormatShape
<1>7. SubSeq(seen, 1, 2) = <<seen[1], seen[2]>>
  BY <1>1, FirstTwo
<1> QED  BY <1>3, <1>4, <1>5, <1>6, <1>7

(* The sizes that follow from a header. *)
LEMMA SizesSeen ==
  ASSUME ConsumerTypes, PointInv, HeaderRead
  PROVE  /\ Len(seen) = TheFormat.header /\ TheFormat.header \in {7, 8}
         /\ SeenHeader.data_len = NumOf(seen[7]) /\ SeenHeader.data_len \in Nat
         /\ ArrayUnits \in Nat /\ Payload = TheFormat.header
         /\ SumLength = Payload + ArrayUnits /\ SumLength \in Nat /\ SumLength >= 7
         /\ SeenExpected = SumLength + TrailerUnits /\ SeenExpected \in Nat
<1> DEFINE f == TheFormat
           d == SeenHeader.data_len
<1>1. pc = "header" /\ Len(seen) = f.header /\ f.header \in {7, 8} /\ seen \in Seq(GoodUnit)
  BY FormatSeen DEF HeaderRead, ConsumerTypes
<1>2. d = NumOf(seen[7])
  BY DEF SeenHeader, ParsedHeader
<1>3. d \in Nat
  <2>1. 7 \in 1 .. Len(seen)
    BY <1>1
  <2>2. seen[7] \in GoodUnit
    BY <1>1, <2>1, ElementsIn
  <2> QED  BY <1>2, <2>2, GoodNumbers
<1> DEFINE n == d * EntryUnits(class)
<1>4. n \in Nat
  BY <1>3 DEF EntryUnits
<1>5. ArrayUnits = n /\ Payload = f.header /\ SeenExpected = f.header + n + 2
  BY DEF ArrayUnits, Payload, SeenExpected, Expected, TrailerUnits
<1>6. SumLength = SeenExpected - 2
  BY DEF SumLength, TrailerUnits
<1> HIDE DEF n, d, f
<1>7. SumLength = f.header + n
  BY <1>1, <1>4, <1>5, <1>6
<1> QED  BY <1>1, <1>2, <1>3, <1>4, <1>5, <1>7 DEF d, f, TrailerUnits

(* If the block has been summed, what was stored is the sum of that many units. *)
LEMMA SumIsRead ==
  ASSUME ConsumerTypes, PointInv, SumRead
  PROVE  /\ HeaderRead /\ Len(stored) = TrailerUnits /\ SeenExpected <= BlockUnits
         /\ \E c : stored = <<[sum |-> c], Half>> /\ Claimed = c /\ Len(c) = SumLength
         /\ stored[2] = Half
<1>1. HeaderRead /\ Len(stored) = TrailerUnits /\ summed = SumLength /\ Len(stored) = 2
  BY DEF SumRead, StoredRead, TrailerUnits
<1>2. SumLength \in Nat /\ SumLength >= 7
  BY <1>1, SizesSeen
<1>3. Len(Claimed) = SumLength
  BY <1>1, <1>2 DEF PointInv
<1>4. stored # << >>
  BY <1>1
<1>5. Claimed # << >>
  BY <1>2, <1>3
<1>6. "sum" \in DOMAIN stored[1] /\ stored = Sum(stored[1].sum) /\ Claimed = stored[1].sum
  BY <1>5 DEF Claimed
<1> DEFINE c == stored[1].sum
<1>7. stored = <<[sum |-> c], Half>>
  BY <1>6 DEF Sum, Half
<1> HIDE DEF c
<1>8. stored[2] = Half
  BY <1>7
<1>9. Claimed = c
  BY <1>6 DEF c
<1> QED  BY <1>1, <1>3, <1>4, <1>7, <1>8, <1>9 DEF PointInv

-----------------------------------------------------------------------------
(* The consumer. *)

LEMMA ConsumerInit == Init => ConsumerInv
<1> SUFFICES ASSUME Init PROVE ConsumerInv
  OBVIOUS
<1>1. /\ pc = "idle" /\ class = "constmap" /\ copying = FALSE /\ offset = 0 /\ late = FALSE
      /\ seen = << >> /\ stored = << >> /\ summed = 0 /\ copied = << >> /\ result = "none"
  BY DEF Init
<1>2. ConsumerTypes
  <2>1. copying \in BOOLEAN /\ late \in BOOLEAN
    BY <1>1, Zenon
  <2>2. << >> \in Seq(GoodUnit) /\ << >> \in Seq(OurUnit)
    OBVIOUS
  <2>3. "constmap" \in Types
    BY DEF Types
  <2> QED  BY <1>1, <2>1, <2>2, <2>3 DEF ConsumerTypes
<1>3. PointInv
  BY <1>1 DEF PointInv
<1>4. LateInv /\ EarlyInv /\ CopiedInv
  BY <1>1 DEF LateInv, EarlyInv, CopiedInv
<1> QED  BY <1>2, <1>3, <1>4 DEF ConsumerInv

(* The consumer knows no more if the block stays and write_into returns at most. *)
LEMMA StillKeeps ==
  ASSUME SharedInv, UNCHANGED <<block, consumerVars>>, producers' \in Nat, producers <= producers',
         producers \in Nat, published' = published \/ published = NoMap,
         producers' = 0 => published' = published
  PROVE  ConsumerInv'
<1>1. /\ pc' = pc /\ class' = class /\ copying' = copying /\ offset' = offset /\ late' = late
      /\ seen' = seen /\ stored' = stored /\ summed' = summed /\ copied' = copied /\ result' = result
      /\ block' = block
  BY DEF consumerVars
<1>2. ConsumerTypes'
  BY <1>1, MapsAre DEF SharedInv, ConsumerInv, ConsumerTypes
<1>3. PointInv'
  BY <1>1 DEF SharedInv, ConsumerInv, PointInv, SumRead, StoredRead, HeaderRead, TheFormat, SeenHeader,
              SeenExpected, SumLength, Claimed, ParamsFit, ArrayUnits
<1>4. LateInv'
  <2>1. late => published # NoMap /\ published' # NoMap
    BY DEF SharedInv, ConsumerInv, LateInv
  <2>2. Given' => Given
    BY DEF Given
  <2>3. SeenExpected' = SeenExpected
    BY <1>1 DEF SeenExpected, SeenHeader, TheFormat
  <2> QED  BY <1>1, <2>1, <2>2, <2>3 DEF SharedInv, ConsumerInv, LateInv
<1>5. EarlyInv'
  BY <1>1 DEF SharedInv, ConsumerInv, EarlyInv, InBlock
<1>6. CopiedInv'
  <2>1. Payload' = Payload
    BY <1>1 DEF Payload, TheFormat
  <2> QED  BY <1>1, <2>1 DEF SharedInv, ConsumerInv, CopiedInv
<1> QED  BY <1>2, <1>3, <1>4, <1>5, <1>6 DEF ConsumerInv

(* With one producer there is no end of a sum in the block while it is written, *)
(* and what is written next was zero.                                        *)
LEMMA NotYet ==
  ASSUME ProducerInv, WriteUnit, producers <= 1
  PROVE  /\ ~ HasHalf
         /\ \A k \in 1 .. BlockUnits : block'[k] = block[k] \/ block[k] = Num(0)
<1>1. /\ source # NoMap /\ at < SerializedSize(source) /\ block' = [block EXCEPT ![at + 1] = NextUnit]
      /\ published = NoMap /\ source \in FitMaps
  BY DEF WriteUnit, ProducerInv, WriterInv
<1>2. PICK m \in FitMaps : \E len \in 0 .. SerializedSize(m) : Drafted(m, len) /\ source = m /\ at = len
  BY <1>1 DEF ProducerInv, AloneInv, Given
<1>3. Drafted(source, at) /\ at \in 0 .. SerializedSize(source)
  BY <1>2
<1>4. /\ SerializedSize(source) \in Nat /\ SerializedSize(source) <= BlockUnits /\ BlockUnits \in Nat
      /\ \A k \in 1 .. SerializedSize(source) : Written(source)[k] = Half <=> k = SerializedSize(source)
  BY <1>1, WrittenUnits
<1>5. ~ HasHalf
  <2> SUFFICES ASSUME NEW k \in 1 .. BlockUnits, block[k] = Half PROVE FALSE
    BY DEF HasHalf, InBlock
  <2>1. CASE k <= at
    <3>1. k \in 1 .. SerializedSize(source) /\ k # SerializedSize(source)
      BY <1>1, <1>3, <1>4, <2>1
    <3>2. block[k] = Written(source)[k]
      BY <1>3, <2>1 DEF Drafted
    <3> QED  BY <1>4, <3>1, <3>2
  <2>2. CASE ~ (k <= at)
    <3>1. block[k] = Num(0)
      BY <1>3, <2>2 DEF Drafted
    <3> QED  BY <3>1, UnitsApart
  <2> QED  BY <2>1, <2>2
<1>6. ASSUME NEW k \in 1 .. BlockUnits PROVE block'[k] = block[k] \/ block[k] = Num(0)
  <2>1. CASE k = at + 1
    <3>1. ~ (k <= at)
      BY <1>3, <1>4, <2>1
    <3> QED  BY <1>3, <3>1 DEF Drafted
  <2>2. CASE k # at + 1
    BY <1>1, <2>2 DEF ProducerInv, BlockInv
  <2> QED  BY <2>1, <2>2
<1> QED  BY <1>5, <1>6

LEMMA TagIsNotZero ==
  ASSUME NEW u \in [tag : Tags]
  PROVE  u # Num(0)
<1>1. "num" \in DOMAIN Num(0)
  BY DEF Num
<1>2. "num" \notin DOMAIN u
  OBVIOUS
<1> QED  BY <1>1, <1>2

LEMMA WriteUnitKeepsConsumer ==
  ASSUME SharedInv, WriteUnit
  PROVE  ConsumerInv'
<1>1. /\ pc' = pc /\ class' = class /\ copying' = copying /\ offset' = offset /\ late' = late
      /\ seen' = seen /\ stored' = stored /\ summed' = summed /\ copied' = copied /\ result' = result
      /\ published' = published /\ producers' = producers
  BY DEF consumerVars, WriteUnit
<1>2. published = NoMap /\ producers \in Nat /\ producers >= 1
  BY WriteUnitKeeps DEF SharedInv
<1>3. ConsumerTypes'
  BY <1>1 DEF SharedInv, ConsumerInv, ConsumerTypes
<1>4. PointInv'
  BY <1>1 DEF SharedInv, ConsumerInv, PointInv, SumRead, StoredRead, HeaderRead, TheFormat, SeenHeader,
              SeenExpected, SumLength, Claimed, ParamsFit, ArrayUnits
<1>5. ~ late
  BY <1>2 DEF SharedInv, ConsumerInv, LateInv
<1>6. LateInv'
  BY <1>1, <1>2, <1>5 DEF LateInv, Given
<1>7. EarlyInv'
  <2> SUFFICES ASSUME producers <= 1, pc = "header"
               PROVE  /\ seen[1] = block'[1] /\ seen[2] = block'[2]
                      /\ \A k \in 1 .. Len(stored) :
                           stored[k] = Num(0) \/ \E j \in 1 .. BlockUnits : block'[j] = stored[k]
    BY <1>1 DEF EarlyInv, InBlock
  <2>1. \A k \in 1 .. BlockUnits : block'[k] = block[k] \/ block[k] = Num(0)
    BY NotYet DEF SharedInv
  <2>2. seen[1] # Num(0) /\ seen[2] # Num(0)
    BY FormatSeen, TagIsNotZero DEF SharedInv, ConsumerInv
  <2>3. 1 \in 1 .. BlockUnits /\ 2 \in 1 .. BlockUnits
    BY SharedBlockAssumption
  <2> QED  BY <2>1, <2>2, <2>3 DEF SharedInv, ConsumerInv, EarlyInv, InBlock
<1>8. CopiedInv'
  <2> SUFFICES ASSUME pc = "header", producers <= 1, NEW k \in 1 .. Len(copied) PROVE FALSE
    BY <1>1, <1>5 DEF CopiedInv
  <2>1. ~ HasHalf
    BY NotYet DEF SharedInv
  <2>2. copied # << >>
    OBVIOUS
  <2>3. SumRead
    BY <2>2 DEF SharedInv, ConsumerInv, PointInv
  <2>4. 2 \in 1 .. Len(stored) /\ stored[2] = Half
    BY <2>3, SumIsRead DEF SharedInv, ConsumerInv, TrailerUnits
  <2> QED  BY <2>1, <2>4, UnitsApart DEF SharedInv, ConsumerInv, EarlyInv, HasHalf
<1> QED  BY <1>3, <1>4, <1>6, <1>7, <1>8 DEF ConsumerInv

LEMMA ProduceKeepsConsumer ==
  ASSUME SharedInv, Produce
  PROVE  ConsumerInv'
<1>1. producers \in Nat
  BY DEF SharedInv, ProducerInv, BlockInv
<1>2. CASE StartWrite
  BY <1>1, <1>2, StillKeeps DEF StartWrite
<1>3. CASE RefuseWrite
  BY <1>1, <1>3, StillKeeps DEF RefuseWrite
<1>4. CASE EndWrite
  <2>1. published = NoMap /\ producers >= 1
    BY <1>4 DEF EndWrite, SharedInv, ProducerInv, WriterInv
  <2>2. UNCHANGED <<block, consumerVars>> /\ producers' = producers
    BY <1>4 DEF EndWrite
  <2>3. producers' \in Nat /\ producers <= producers' /\ producers' # 0
    BY <1>1, <2>1, <2>2
  <2> QED  BY <1>1, <2>1, <2>2, <2>3, StillKeeps
<1>5. CASE ProducerDies
  BY <1>1, <1>5, StillKeeps DEF ProducerDies
<1>6. CASE WriteUnit
  BY <1>6, WriteUnitKeepsConsumer
<1> QED  BY <1>2, <1>3, <1>4, <1>5, <1>6 DEF Produce

(* A call that ends keeps what it has read only if it has accepted it.       *)
LEMMA ReturnKeeps ==
  ASSUME SharedInv, NEW rc, Return(rc), copying' \in BOOLEAN, offset' \in {0, 1}
  PROVE  ConsumerInv'
<1>1. /\ result' = rc /\ pc' = "idle" /\ stored' = << >> /\ summed' = 0
      /\ seen' = IF rc = Ok THEN seen ELSE << >>
      /\ copied' = IF rc = Ok THEN copied ELSE << >>
      /\ block' = block /\ producers' = producers /\ published' = published
      /\ class' = class /\ late' = late
  BY DEF Return, producerVars
<1>2. ConsumerTypes'
  <2>1. seen' \in Seq(GoodUnit) /\ copied' \in Seq(GoodUnit)
    BY <1>1 DEF SharedInv, ConsumerInv, ConsumerTypes
  <2> QED  BY <1>1, <2>1 DEF SharedInv, ConsumerInv, ConsumerTypes
<1>3. PointInv'
  BY <1>1 DEF PointInv
<1>4. LateInv'
  BY <1>1 DEF SharedInv, ConsumerInv, LateInv, Given
<1>5. EarlyInv' /\ CopiedInv'
  BY <1>1 DEF EarlyInv, CopiedInv
<1> QED  BY <1>2, <1>3, <1>4, <1>5 DEF ConsumerInv

LEMMA OpenKeeps ==
  ASSUME SharedInv, Open
  PROVE  ConsumerInv'
<1>1. /\ pc = "idle" /\ result # Ok /\ result' = "none" /\ class' \in Types
      /\ copying' = FALSE /\ offset' = 0 /\ late' = (published # NoMap) /\ pc' = "magic"
      /\ block' = block /\ producers' = producers /\ published' = published
      /\ seen' = seen /\ stored' = stored /\ summed' = summed /\ copied' = copied
  BY DEF Open, producerVars
<1>2. seen = << >> /\ copied = << >> /\ stored = << >> /\ summed = 0
  BY <1>1 DEF SharedInv, ConsumerInv, PointInv
<1>3. ConsumerTypes'
  <2>1. copying' \in BOOLEAN /\ late' \in BOOLEAN
    BY <1>1, Zenon
  <2> QED  BY <1>1, <2>1 DEF SharedInv, ConsumerInv, ConsumerTypes
<1>4. PointInv'
  BY <1>1, <1>2 DEF PointInv
<1>5. LateInv'
  BY <1>1 DEF LateInv, Given
<1>6. EarlyInv' /\ CopiedInv'
  BY <1>1 DEF EarlyInv, CopiedInv
<1> QED  BY <1>3, <1>4, <1>5, <1>6 DEF ConsumerInv

LEMMA ReadMagicKeeps ==
  ASSUME SharedInv, ReadMagic
  PROVE  ConsumerInv'
<1>1. /\ pc = "magic" /\ Recognised # {} /\ seen' = SubSeq(block, 1, 2) /\ pc' = "header"
      /\ block' = block /\ producers' = producers /\ published' = published
      /\ class' = class /\ copying' = copying /\ offset' = offset /\ late' = late
      /\ stored' = stored /\ summed' = summed /\ copied' = copied /\ result' = result
  BY DEF ReadMagic, producerVars
<1>2. /\ ~ copying /\ copied = << >> /\ stored = << >> /\ summed = 0 /\ result = "none"
  BY <1>1 DEF SharedInv, ConsumerInv, PointInv
<1>3. block \in Seq(GoodUnit) /\ Len(block) = BlockUnits /\ BlockUnits \in Nat /\ BlockUnits >= 10
  BY BlockIs DEF SharedInv, ProducerInv
<1> DEFINE s == SubSeq(block, 1, 2)
<1>4. s \in Seq(GoodUnit) /\ Len(s) = 2 /\ s[1] = block[1] /\ s[2] = block[2]
  <2>1. 1 \in 1 .. (Len(block) + 1) /\ 2 \in 0 .. Len(block) /\ 1 <= 2 + 1
    BY <1>3
  <2>2. s \in Seq(GoodUnit) /\ Len(s) = 2 - 1 + 1 /\ \A k \in 1 .. (2 - 1 + 1) : s[k] = block[1 + k - 1]
    BY ONLY <1>3, <2>1, PartOf
  <2>3. 1 \in 1 .. (2 - 1 + 1) /\ 2 \in 1 .. (2 - 1 + 1) /\ 1 + 1 - 1 = 1 /\ 1 + 2 - 1 = 2 /\ 2 - 1 + 1 = 2
    OBVIOUS
  <2> QED  BY <2>2, <2>3
<1>5. SubSeq(s, 1, 2) = SubSeq(block, 1, 2)
  <2>1. SubSeq(s, 1, 2) = <<s[1], s[2]>>
    <3>1. s \in Seq(GoodUnit) /\ 2 <= Len(s)
      BY <1>4
    <3> HIDE DEF s
    <3> QED  BY ONLY <3>1, FirstTwo
  <2>2. SubSeq(block, 1, 2) = <<block[1], block[2]>>
    BY <1>3, FirstTwo
  <2> QED  BY <1>4, <2>1, <2>2
<1> HIDE DEF s
<1>6. Matching(s, class) = Recognised
  BY <1>5, MatchingBy DEF Recognised
<1>7. seen' = s
  BY <1>1 DEF s
<1>8. ConsumerTypes'
  BY <1>1, <1>4, <1>7 DEF SharedInv, ConsumerInv, ConsumerTypes
<1>9. Matching(seen', class') # {} /\ 2 <= Len(seen') /\ Len(seen') <= TheFormat'.header
  <2>1. Matching(seen', class') # {}
    BY <1>1, <1>6, <1>7
  <2> DEFINE x == CHOOSE k \in Matching(seen', class') : TRUE
  <2>2. x \in DOMAIN Formats[class']
    <3>1. x \in Matching(seen', class')
      BY <2>1
    <3> HIDE DEF x
    <3> QED  BY <3>1 DEF Matching
  <2>3. Formats[class'][x] \in AllFormats(class')
    BY <2>2 DEF AllFormats
  <2>4. TheFormat' = Formats[class'][x]
    BY DEF TheFormat
  <2>5. class' \in Types
    BY <1>8 DEF ConsumerTypes
  <2> HIDE DEF x
  <2>6. Formats[class'][x].header \in {7, 8}
    BY <2>3, <2>5, FormatShape
  <2>7. Len(seen') = 2
    BY <1>4, <1>7
  <2>8. TheFormat'.header \in {7, 8}
    BY <2>4, <2>6
  <2>9. 2 <= Len(seen') /\ Len(seen') <= TheFormat'.header
    BY ONLY <2>7, <2>8
  <2> QED  BY <2>1, <2>9
<1>10. PointInv'
  BY <1>1, <1>2, <1>9 DEF PointInv
<1>11. LateInv'
  <2>1. \A k \in 1 .. Len(seen') : seen'[k] = block'[k]
    <3>1. \A k \in 1 .. 2 : k = 1 \/ k = 2
      OBVIOUS
    <3> QED  BY <1>1, <1>4, <1>7, <3>1
  <2>2. \A k \in 1 .. Len(stored') : FALSE
    BY <1>1, <1>2
  <2> QED  BY <1>1, <2>1, <2>2 DEF SharedInv, ConsumerInv, LateInv, Given
<1>12. EarlyInv'
  BY <1>1, <1>2, <1>4, <1>7 DEF EarlyInv, TrailerUnits
<1>13. CopiedInv'
  BY <1>1, <1>2 DEF CopiedInv
<1> QED  BY <1>8, <1>10, <1>11, <1>12, <1>13 DEF ConsumerInv

(* Before the header is read, nothing else is. *)
LEMMA BeforeStored ==
  ASSUME ConsumerInv, pc = "header", Len(seen) < TheFormat.header
  PROVE  stored = << >> /\ summed = 0 /\ copied = << >> /\ ~ copying
<1>1. seen \in Seq(GoodUnit) /\ Len(seen) \in Nat /\ summed \in Nat /\ TheFormat.header \in {7, 8}
  BY LenProperties, FormatSeen DEF ConsumerInv, ConsumerTypes
<1>2. Len(seen) # TheFormat.header
  BY <1>1
<1>3. stored = << >>
  BY <1>2 DEF ConsumerInv, PointInv
<1>4. ~ (summed > 0)
  BY <1>3 DEF ConsumerInv, PointInv, TrailerUnits
<1>5. ~ SumRead
  BY <1>2 DEF SumRead, StoredRead, HeaderRead
<1> QED  BY <1>1, <1>3, <1>4, <1>5 DEF ConsumerInv, PointInv

(* Before the sum is checked, nothing is copied. *)
LEMMA BeforeCopied ==
  ASSUME ConsumerInv, pc = "header", ~ SumRead
  PROVE  copied = << >> /\ ~ copying
BY DEF ConsumerInv, PointInv

LEMMA ReadHeaderKeeps ==
  ASSUME SharedInv, ReadHeader
  PROVE  ConsumerInv'
<1> DEFINE x == Len(seen) + 1
           u == block[x]
<1>1. /\ pc = "header" /\ Len(seen) < TheFormat.header /\ seen' = Append(seen, u) /\ pc' = "header"
      /\ block' = block /\ producers' = producers /\ published' = published
      /\ class' = class /\ copying' = copying /\ offset' = offset /\ late' = late
      /\ stored' = stored /\ summed' = summed /\ copied' = copied /\ result' = result
  BY DEF ReadHeader, producerVars
<1>2. stored = << >> /\ summed = 0 /\ copied = << >> /\ ~ copying
  BY <1>1, BeforeStored DEF SharedInv
<1>3. block \in Seq(GoodUnit) /\ Len(block) = BlockUnits /\ BlockUnits \in Nat /\ BlockUnits >= 10
  BY BlockIs DEF SharedInv, ProducerInv
<1>4. /\ seen \in Seq(GoodUnit) /\ Len(seen) \in Nat /\ 2 <= Len(seen) /\ TheFormat.header \in {7, 8}
      /\ Matching(seen, class) # {} /\ result = "none"
  BY <1>1, LenProperties, FormatSeen DEF SharedInv, ConsumerInv, ConsumerTypes, PointInv
<1>5. x \in 1 .. Len(block) /\ x <= TheFormat.header /\ x \in Nat /\ 2 <= x
  BY <1>1, <1>3, <1>4
<1>6. u \in GoodUnit
  BY <1>3, <1>5, ElementsIn
<1> HIDE DEF u
<1>7. /\ seen' \in Seq(GoodUnit) /\ Len(seen') = x /\ seen'[x] = u
      /\ \A k \in 1 .. Len(seen) : seen'[k] = seen[k]
  BY <1>1, <1>4, <1>6, Appended
<1>8. seen'[1] = seen[1] /\ seen'[2] = seen[2]
  BY <1>4, <1>7
<1>9. Matching(seen', class) = Matching(seen, class)
  <2>1. SubSeq(seen, 1, 2) = <<seen[1], seen[2]>>
    BY <1>4, FirstTwo
  <2>2. SubSeq(seen', 1, 2) = <<seen'[1], seen'[2]>>
    <3>1. seen' \in Seq(GoodUnit) /\ 2 <= Len(seen')
      BY <1>5, <1>7
    <3> QED  BY ONLY <3>1, FirstTwo
  <2>3. SubSeq(seen', 1, 2) = SubSeq(seen, 1, 2)
    BY <1>8, <2>1, <2>2
  <2> QED  BY <2>3, MatchingBy
<1>10. TheFormat' = TheFormat
  BY <1>1, <1>9 DEF TheFormat
<1>11. ConsumerTypes'
  BY <1>1, <1>7 DEF SharedInv, ConsumerInv, ConsumerTypes
<1>12. PointInv'
  <2>1. Matching(seen', class') # {} /\ 2 <= Len(seen') /\ Len(seen') <= TheFormat'.header
    BY <1>1, <1>4, <1>5, <1>7, <1>9, <1>10
  <2> QED  BY <1>1, <1>2, <1>4, <2>1 DEF PointInv
<1>13. LateInv'
  <2>1. late => \A k \in 1 .. Len(seen') : seen'[k] = block[k]
    <3> SUFFICES ASSUME late, NEW k \in 1 .. Len(seen') PROVE seen'[k] = block[k]
      OBVIOUS
    <3>1. \A j \in 1 .. Len(seen) : seen[j] = block[j]
      BY <1>1 DEF SharedInv, ConsumerInv, LateInv
    <3>2. k \in 1 .. Len(seen) \/ k = x
      BY <1>4, <1>5, <1>7
    <3>3. CASE k \in 1 .. Len(seen)
      BY <1>7, <3>1, <3>3
    <3>4. CASE k = x
      <4>1. seen'[x] = block[x]
        BY <1>7 DEF u
      <4> QED  BY <3>4, <4>1
    <3> QED  BY <3>2, <3>3, <3>4
  <2>2. \A k \in 1 .. Len(stored') : FALSE
    BY <1>1, <1>2
  <2> QED  BY <1>1, <2>1, <2>2 DEF SharedInv, ConsumerInv, LateInv, Given
<1>14. EarlyInv'
  BY <1>1, <1>2, <1>8 DEF SharedInv, ConsumerInv, EarlyInv, TrailerUnits
<1>15. CopiedInv'
  BY <1>1, <1>2 DEF CopiedInv
<1> QED  BY <1>11, <1>12, <1>13, <1>14, <1>15 DEF ConsumerInv

LEMMA ReadStoredKeeps ==
  ASSUME SharedInv, ReadStored
  PROVE  ConsumerInv'
<1> DEFINE x == SeenExpected - TrailerUnits + Len(stored) + 1
           u == block[x]
<1>1. /\ HeaderRead /\ SeenExpected <= BlockUnits /\ Len(stored) < TrailerUnits
      /\ stored' = Append(stored, u) /\ pc' = pc
      /\ block' = block /\ producers' = producers /\ published' = published
      /\ class' = class /\ copying' = copying /\ offset' = offset /\ late' = late
      /\ seen' = seen /\ summed' = summed /\ copied' = copied /\ result' = result
  BY DEF ReadStored, producerVars
<1>2. ConsumerTypes /\ PointInv /\ pc = "header"
  BY <1>1 DEF SharedInv, ConsumerInv, HeaderRead
<1>3. /\ stored \in Seq(GoodUnit) /\ Len(stored) \in Nat /\ Len(stored) < 2
      /\ published \notin Foreign => stored \in Seq(OurUnit)
  BY <1>1, <1>2, LenProperties DEF ConsumerTypes, TrailerUnits
<1>4. summed = 0 /\ copied = << >> /\ ~ copying /\ result = "none"
  <2>0. Len(stored) # TrailerUnits
    BY <1>3 DEF TrailerUnits
  <2>1. ~ (summed > 0)
    BY <1>2, <2>0 DEF PointInv
  <2>2. ~ SumRead
    BY <2>0 DEF SumRead, StoredRead
  <2> QED  BY <1>2, <2>1, <2>2 DEF ConsumerTypes, PointInv
<1>5. /\ Len(seen) = TheFormat.header /\ SumLength \in Nat /\ SeenExpected = SumLength + 2
      /\ SeenExpected \in Nat
  BY <1>1, <1>2, SizesSeen DEF TrailerUnits
<1>6. /\ block \in Seq(GoodUnit) /\ Len(block) = BlockUnits /\ BlockUnits \in Nat
      /\ published \notin Foreign => block \in Seq(OurUnit)
  BY BlockIs DEF SharedInv, ProducerInv
<1>7. x = SumLength + Len(stored) + 1 /\ x \in 1 .. Len(block)
  BY <1>1, <1>3, <1>5, <1>6 DEF TrailerUnits
<1>8. u \in GoodUnit /\ (published \notin Foreign => u \in OurUnit)
  BY <1>6, <1>7, ElementsIn
<1> HIDE DEF u, x
<1>9. /\ stored' \in Seq(GoodUnit) /\ Len(stored') = Len(stored) + 1
      /\ stored'[Len(stored) + 1] = u
      /\ \A k \in 1 .. Len(stored) : stored'[k] = stored[k]
  BY <1>1, <1>3, <1>8, Appended
<1>10. published \notin Foreign => stored' \in Seq(OurUnit)
  BY <1>1, <1>3, <1>8, Appended
<1>11. ConsumerTypes'
  BY <1>1, <1>2, <1>9, <1>10 DEF ConsumerTypes
<1>12. TheFormat' = TheFormat /\ SeenExpected' = SeenExpected
  BY <1>1 DEF TheFormat, SeenExpected, SeenHeader
<1>13. PointInv'
  <2>1. Len(stored') <= TrailerUnits
    BY <1>3, <1>9 DEF TrailerUnits
  <2> QED  BY <1>1, <1>2, <1>4, <1>5, <1>12, <2>1 DEF PointInv
<1>14. LateInv'
  <2>1. late => \A k \in 1 .. Len(stored') : stored'[k] = block[SeenExpected - TrailerUnits + k]
    <3> SUFFICES ASSUME late, NEW k \in 1 .. Len(stored')
                 PROVE  stored'[k] = block[SeenExpected - TrailerUnits + k]
      OBVIOUS
    <3>1. \A j \in 1 .. Len(stored) : stored[j] = block[SeenExpected - TrailerUnits + j]
      BY <1>2 DEF SharedInv, ConsumerInv, LateInv
    <3>2. k \in 1 .. Len(stored) \/ k = Len(stored) + 1
      BY <1>3, <1>9
    <3>3. CASE k \in 1 .. Len(stored)
      BY <1>9, <3>1, <3>3
    <3>4. CASE k = Len(stored) + 1
      <4>1. SeenExpected - TrailerUnits + k = x
        BY <1>3, <1>5, <3>4 DEF x, TrailerUnits
      <4>2. stored'[k] = block[x]
        <5>1. stored'[Len(stored) + 1] = block[x]
          BY <1>9 DEF u
        <5> QED  BY <3>4, <5>1
      <4> QED  BY <4>1, <4>2
    <3> QED  BY <3>2, <3>3, <3>4
  <2> QED  BY <1>1, <1>2, <1>12, <2>1 DEF SharedInv, ConsumerInv, LateInv, Given
<1>15. EarlyInv'
  <2> SUFFICES ASSUME producers <= 1, NEW k \in 1 .. Len(stored')
               PROVE  stored'[k] = Num(0) \/ InBlock(stored'[k])
    BY <1>1, <1>2 DEF SharedInv, ConsumerInv, EarlyInv, InBlock
  <2>1. k \in 1 .. Len(stored) \/ k = Len(stored) + 1
    BY <1>3, <1>9
  <2>2. CASE k \in 1 .. Len(stored)
    <3>1. stored[k] = Num(0) \/ InBlock(stored[k])
      BY <1>2, <2>2 DEF SharedInv, ConsumerInv, EarlyInv
    <3> QED  BY <1>9, <2>2, <3>1
  <2>3. CASE k = Len(stored) + 1
    <3>1. stored'[k] = block[x] /\ x \in 1 .. BlockUnits
      BY <1>6, <1>7, <1>9, <2>3 DEF u
    <3> QED  BY <3>1 DEF InBlock
  <2> QED  BY <2>1, <2>2, <2>3
<1>16. CopiedInv'
  BY <1>1, <1>4 DEF CopiedInv
<1> QED  BY <1>11, <1>13, <1>14, <1>15, <1>16 DEF ConsumerInv

LEMMA SumNextKeeps ==
  ASSUME SharedInv, SumNext
  PROVE  ConsumerInv'
<1>1. /\ StoredRead /\ summed < SumLength /\ SameUnit(summed + 1) /\ summed' = summed + 1 /\ pc' = pc
      /\ block' = block /\ producers' = producers /\ published' = published
      /\ class' = class /\ copying' = copying /\ offset' = offset /\ late' = late
      /\ seen' = seen /\ stored' = stored /\ copied' = copied /\ result' = result
  BY DEF SumNext, producerVars
<1>2. ConsumerTypes /\ PointInv /\ pc = "header" /\ HeaderRead /\ Len(stored) = TrailerUnits
  BY <1>1 DEF SharedInv, ConsumerInv, StoredRead, HeaderRead
<1>3. summed \in Nat /\ SumLength \in Nat
  BY <1>2, SizesSeen DEF ConsumerTypes
<1>4. copied = << >> /\ ~ copying /\ result = "none"
  <2>1. ~ SumRead
    BY <1>1, <1>3 DEF SumRead
  <2> QED  BY <1>2, <2>1 DEF PointInv
<1>5. Len(Claimed) = SumLength
  BY <1>1 DEF SameUnit
<1>6. /\ TheFormat' = TheFormat /\ SeenExpected' = SeenExpected /\ SumLength' = SumLength
      /\ Claimed' = Claimed
  BY <1>1 DEF TheFormat, SeenExpected, SeenHeader, SumLength, Claimed
<1>7. ConsumerTypes'
  BY <1>1, <1>2, <1>3 DEF ConsumerTypes
<1>8. PointInv'
  <2>1. summed' <= SumLength
    BY <1>1, <1>3
  <2>2. stored # << >> => Len(seen) = TheFormat.header /\ SeenExpected <= BlockUnits
    BY <1>2 DEF PointInv
  <2>3. Matching(seen, class) # {} /\ 2 <= Len(seen) /\ Len(seen) <= TheFormat.header
    BY <1>2 DEF PointInv
  <2>4. Len(stored) <= TrailerUnits
    BY <1>2 DEF TrailerUnits
  <2> QED  BY <1>1, <1>2, <1>4, <1>5, <1>6, <2>1, <2>2, <2>3, <2>4 DEF PointInv
<1>9. LateInv'
  BY <1>1, <1>6 DEF SharedInv, ConsumerInv, LateInv, Given
<1>10. EarlyInv'
  BY <1>1 DEF SharedInv, ConsumerInv, EarlyInv, InBlock
<1>11. CopiedInv'
  BY <1>1, <1>4 DEF CopiedInv
<1> QED  BY <1>7, <1>8, <1>9, <1>10, <1>11 DEF ConsumerInv

LEMMA CopyNextKeeps ==
  ASSUME SharedInv, CopyNext
  PROVE  ConsumerInv'
<1> DEFINE x == Payload + Len(copied) + 1
           u == block[x]
<1>1. /\ SumRead /\ ParamsFit /\ Len(copied) < ArrayUnits /\ copying' = TRUE
      /\ copied' = Append(copied, u) /\ pc' = pc
      /\ block' = block /\ producers' = producers /\ published' = published
      /\ class' = class /\ offset' = offset /\ late' = late
      /\ seen' = seen /\ stored' = stored /\ summed' = summed /\ result' = result
  BY DEF CopyNext, producerVars
<1>2. ConsumerTypes /\ PointInv /\ pc = "header" /\ HeaderRead /\ result = "none"
  BY <1>1 DEF SharedInv, ConsumerInv, SumRead, StoredRead, HeaderRead, PointInv
<1>3. copied \in Seq(GoodUnit) /\ Len(copied) \in Nat
  BY <1>2, LenProperties DEF ConsumerTypes
<1>4. /\ ArrayUnits \in Nat /\ Payload \in {7, 8} /\ SumLength = Payload + ArrayUnits
      /\ SeenExpected = SumLength + 2 /\ SumLength \in Nat
  <2>1. /\ ArrayUnits \in Nat /\ TheFormat.header \in {7, 8} /\ Payload = TheFormat.header
        /\ SumLength = Payload + ArrayUnits /\ SumLength \in Nat
        /\ SeenExpected = SumLength + TrailerUnits
    BY <1>2, SizesSeen
  <2> QED  BY <2>1 DEF TrailerUnits
<1>5. SeenExpected <= BlockUnits
  BY <1>1, <1>2, SumIsRead
<1>6. block \in Seq(GoodUnit) /\ Len(block) = BlockUnits /\ BlockUnits \in Nat
  BY BlockIs DEF SharedInv, ProducerInv
<1>7. x \in 1 .. Len(block)
  BY <1>1, <1>3, <1>4, <1>5, <1>6
<1>8. u \in GoodUnit
  BY <1>6, <1>7, ElementsIn
<1> HIDE DEF u, x
<1>9. /\ copied' \in Seq(GoodUnit) /\ Len(copied') = Len(copied) + 1
      /\ copied'[Len(copied) + 1] = u
      /\ \A k \in 1 .. Len(copied) : copied'[k] = copied[k]
  BY <1>1, <1>3, <1>8, Appended
<1>10. /\ TheFormat' = TheFormat /\ SeenExpected' = SeenExpected /\ SumLength' = SumLength
       /\ Claimed' = Claimed /\ SumRead' = SumRead /\ ParamsFit' = ParamsFit
       /\ ArrayUnits' = ArrayUnits /\ Payload' = Payload
  BY <1>1 DEF TheFormat, SeenExpected, SeenHeader, SumLength, Claimed, SumRead, StoredRead, HeaderRead,
              ParamsFit, ArrayUnits, Payload
<1>11. ConsumerTypes'
  <2>1. copying' \in BOOLEAN
    BY <1>1, Zenon
  <2> QED  BY <1>1, <1>2, <1>9, <2>1 DEF ConsumerTypes
<1>12. PointInv'
  <2>1. Len(copied') <= ArrayUnits'
    BY <1>1, <1>3, <1>4, <1>9, <1>10
  <2> QED  BY <1>1, <1>2, <1>10, <2>1 DEF PointInv
<1>13. LateInv'
  BY <1>1, <1>10 DEF SharedInv, ConsumerInv, LateInv, Given
<1>14. EarlyInv'
  BY <1>1 DEF SharedInv, ConsumerInv, EarlyInv, InBlock
<1>15. CopiedInv'
  <2> SUFFICES ASSUME late \/ producers <= 1, NEW k \in 1 .. Len(copied')
               PROVE  copied'[k] = block[Payload + k]
    BY <1>1, <1>10 DEF CopiedInv
  <2>1. \A j \in 1 .. Len(copied) : copied[j] = block[Payload + j]
    BY <1>2 DEF SharedInv, ConsumerInv, CopiedInv
  <2>2. k \in 1 .. Len(copied) \/ k = Len(copied) + 1
    BY <1>3, <1>9
  <2>3. CASE k \in 1 .. Len(copied)
    BY <1>9, <2>1, <2>3
  <2>4. CASE k = Len(copied) + 1
    <3>1. Payload + k = x
      BY <1>3, <1>4, <2>4 DEF x
    <3>2. copied'[k] = block[x]
      BY <1>9, <2>4 DEF u
    <3> QED  BY <3>1, <3>2
  <2> QED  BY <2>2, <2>3, <2>4
<1> QED  BY <1>11, <1>12, <1>13, <1>14, <1>15 DEF ConsumerInv

LEMMA ConsumeKeeps ==
  ASSUME SharedInv, Consume
  PROVE  ConsumerInv'
<1>0. copying \in BOOLEAN /\ offset \in {0, 1}
  BY DEF SharedInv, ConsumerInv, ConsumerTypes
<1>1. CASE Open \/ ReadMagic \/ ReadHeader \/ ReadStored \/ SumNext \/ CopyNext
  BY <1>1, OpenKeeps, ReadMagicKeeps, ReadHeaderKeeps, ReadStoredKeeps, SumNextKeeps, CopyNextKeeps
<1>2. CASE NoMemory \/ OpenUnknown \/ OpenShort \/ OpenDifferent \/ RefuseParams
  <2>1. copying' = copying /\ offset' = offset /\ \E rc : Return(rc)
    BY <1>2 DEF NoMemory, OpenUnknown, OpenShort, OpenDifferent, RefuseParams
  <2> QED  BY <1>0, <2>1, ReturnKeeps
<1>3. CASE EndOpen
  <2>1. copying' = copying /\ offset' \in {0, 1} /\ \E rc : Return(rc)
    BY <1>3, SharedBlockAssumption DEF EndOpen
  <2> QED  BY <1>0, <2>1, ReturnKeeps
<1>4. CASE CopyNoMemory \/ EndCopy
  <2>1. copying' = TRUE /\ offset' = offset /\ \E rc : Return(rc)
    BY <1>4 DEF CopyNoMemory, EndCopy
  <2>2. copying' \in BOOLEAN
    BY <2>1, Zenon
  <2> QED  BY <1>0, <2>1, <2>2, ReturnKeeps
<1> QED  BY <1>1, <1>2, <1>3, <1>4 DEF Consume

LEMMA SharedNext == SharedInv /\ [Next]_vars => SharedInv'
<1> SUFFICES ASSUME SharedInv, [Next]_vars PROVE SharedInv'
  OBVIOUS
<1>1. ProducerInv'
  BY ProducerNext DEF SharedInv
<1>2. CASE Idle \/ UNCHANGED vars
  <2>1. UNCHANGED <<block, consumerVars>> /\ producers' = producers /\ published' = published
    BY <1>2 DEF Idle, vars, producerVars
  <2>2. producers \in Nat
    BY DEF SharedInv, ProducerInv, BlockInv
  <2> QED  BY <1>1, <2>1, <2>2, StillKeeps DEF SharedInv
<1> QED  BY <1>1, <1>2, ProduceKeepsConsumer, ConsumeKeeps DEF SharedInv, Next

(* Whoever has written the block, and however far, each sum in it is that of a *)
(* whole image; and what a consumer knows of the block stays true of it.     *)
THEOREM BlockIsSound == Spec => []SharedInv
<1>1. Init => SharedInv
  BY ProducerInit, ConsumerInit DEF SharedInv
<1> QED  BY <1>1, SharedNext, PTL DEF Spec

-----------------------------------------------------------------------------
(* What a consumer makes of the image of a map. *)

LEMMA HeldElements ==
  ASSUME NEW S, NEW units \in Seq(S), NEW m, IsStruct(m), NEW f \in FormatsOf(m), Holds(units, m, f),
         NEW b, b = BodyIn(m, f)
  PROVE  /\ Len(b) \in Nat /\ Len(b) >= 7 /\ Len(b) + 2 <= Len(units) /\ Len(units) \in Nat
         /\ \A k \in 1 .. Len(b) : units[k] = b[k]
         /\ units[Len(b) + 1] = [sum |-> b] /\ units[Len(b) + 2] = Half
<1> DEFINE len == Len(b)
           x == len + 1
           y == len + 2
           p == SubSeq(units, x, y)
<1>1. len \in Nat /\ len >= 7 /\ Len(units) \in Nat
  BY FormSize, LenProperties
<1>2. len + 2 <= Len(units) /\ SubSeq(units, 1, len) = b /\ SubSeq(units, x, y) = Sum(b)
  BY DEF Holds, TrailerUnits
<1> HIDE DEF len
<1>3. \A k \in 1 .. len : units[k] = SubSeq(units, 1, len)[k]
  <2>1. len \in Nat /\ len <= Len(units)
    BY <1>1, <1>2
  <2> QED  BY <2>1, PrefixElements
<1>4. /\ x \in 1 .. (Len(units) + 1) /\ y \in 0 .. Len(units) /\ x <= y + 1
      /\ y - x + 1 = 2 /\ x + 1 - 1 = x /\ x + 2 - 1 = y
  BY <1>1, <1>2
<1> HIDE DEF x, y
<1>5. \A k \in 1 .. (y - x + 1) : p[k] = units[x + k - 1]
  BY <1>4, PartOf
<1>6. p[1] = units[x] /\ p[2] = units[y]
  <2>1. 1 \in 1 .. (y - x + 1) /\ 2 \in 1 .. (y - x + 1)
    BY <1>4
  <2>2. p[1] = units[x + 1 - 1] /\ p[2] = units[x + 2 - 1]
    BY <1>5, <2>1
  <2> QED  BY <1>4, <2>2
<1>7. p[1] = [sum |-> b] /\ p[2] = Half
  BY <1>2 DEF Sum, Half
<1> QED  BY <1>1, <1>2, <1>3, <1>6, <1>7 DEF len, x, y

LEMMA FormatFound ==
  ASSUME ConsumerTypes, PointInv, pc = "header", NEW m, IsStruct(m), NEW f \in FormatsOf(m),
         NEW b, b = BodyIn(m, f), seen[1] = b[1], seen[2] = b[2]
  PROVE  class = m.type /\ TheFormat = f /\ f.header \in {7, 8}
<1>1. f \in AllFormats(m.type) /\ m.type \in Types /\ class \in Types
  BY StructFields, FormatsAre DEF Types, ConsumerTypes
<1>2. f.magic = <<f.magic[1], f.magic[2]>> /\ f.header \in {7, 8}
  BY <1>1, FormatShape
<1>3. b[1] = f.magic[1] /\ b[2] = f.magic[2]
  BY BodyShape
<1>4. SubSeq(seen, 1, 2) = <<seen[1], seen[2]>>
  <2>1. seen \in Seq(GoodUnit) /\ 2 <= Len(seen)
    BY DEF ConsumerTypes, PointInv
  <2> QED  BY <2>1, FirstTwo
<1>5. TheFormat \in AllFormats(class) /\ TheFormat.magic = SubSeq(seen, 1, 2)
  BY FormatSeen
<1>6. TheFormat.magic = f.magic
  BY <1>2, <1>3, <1>4, <1>5
<1> QED  BY <1>1, <1>2, <1>5, <1>6, MagicsDiffer

LEMMA PublishedHolds ==
  ASSUME SharedInv, published # NoMap
  PROVE  /\ IsStruct(published) /\ source = NoMap
         /\ \E f \in FormatsOf(published) : Holds(block, published, f)
<1>1. /\ IsStruct(published) /\ source = NoMap
      /\ \E f \in FormatsOf(published) : Prefix(Summed(BodyIn(published, f)))
  BY DEF SharedInv, ProducerInv, PublishedInv
<1>2. block \in Seq(GoodUnit) /\ Len(block) = BlockUnits
  BY BlockIs DEF SharedInv, ProducerInv
<1>3. PICK f \in FormatsOf(published) : Prefix(Summed(BodyIn(published, f)))
  BY <1>1
<1>4. \A s : s = Summed(BodyIn(published, f)) => Holds(block, published, f)
  BY <1>1, <1>2, <1>3, SummedHolds DEF Prefix
<1>5. Holds(block, published, f)
  BY <1>4
<1> QED  BY <1>1, <1>5

(* Called after write_into has returned: the header, the format and the sum   *)
(* are those of what was published.                                          *)
LEMMA LateHeader ==
  ASSUME SharedInv, late, pc = "header",
         NEW f \in FormatsOf(published), Holds(block, published, f)
  PROVE  /\ class = published.type /\ TheFormat = f
         /\ HeaderRead => /\ SeenHeader = HeaderOf(published, f)
                          /\ SumLength = Len(BodyIn(published, f))
                          /\ SeenExpected <= BlockUnits
                          /\ ArrayUnits = Len(Arrays(published)) /\ Payload = f.header
<1> DEFINE b == BodyIn(published, f)
<1>1. ConsumerTypes /\ PointInv /\ IsStruct(published) /\ published # NoMap
  <2>1. published # NoMap
    BY DEF SharedInv, ConsumerInv, LateInv
  <2> QED  BY <2>1, PublishedHolds DEF SharedInv, ConsumerInv
<1>2. IsStruct(published) /\ b = BodyIn(published, f) /\ Holds(block, published, f)
  BY <1>1
<1>3. block \in Seq(GoodUnit) /\ Len(block) = BlockUnits
  BY BlockIs DEF SharedInv, ProducerInv
<1> HIDE DEF b
<1>4. /\ Len(b) \in Nat /\ Len(b) >= 7 /\ Len(b) + 2 <= Len(block)
      /\ \A k \in 1 .. Len(b) : block[k] = b[k]
      /\ block[Len(b) + 1] = [sum |-> b] /\ block[Len(b) + 2] = Half
  BY ONLY <1>2, <1>3, f \in FormatsOf(published), HeldElements
<1>5. /\ seen \in Seq(GoodUnit) /\ 2 <= Len(seen) /\ Len(seen) \in Nat
      /\ \A k \in 1 .. Len(seen) : seen[k] = block[k]
  BY <1>1, LenProperties DEF ConsumerTypes, PointInv, SharedInv, ConsumerInv, LateInv
<1>6. seen[1] = b[1] /\ seen[2] = b[2]
  BY <1>4, <1>5
<1>7. class = published.type /\ TheFormat = f /\ f.header \in {7, 8}
  BY <1>1, <1>2, <1>6, FormatFound
<1>8. ASSUME HeaderRead
      PROVE  /\ SeenHeader = HeaderOf(published, f) /\ SumLength = Len(b) /\ SeenExpected <= BlockUnits
             /\ ArrayUnits = Len(Arrays(published)) /\ Payload = f.header
  <2>1. /\ Len(seen) = f.header /\ Payload = f.header /\ SumLength = Payload + ArrayUnits
        /\ SeenExpected = SumLength + TrailerUnits /\ ArrayUnits \in Nat
    BY <1>1, <1>7, <1>8, SizesSeen
  <2>2. /\ Len(b) = f.header + published.data_len * EntryUnits(published.type) /\ Len(b) >= f.header
        /\ Len(Arrays(published)) = published.data_len * EntryUnits(published.type) /\ Len(Arrays(published)) \in Nat
    BY <1>1, <1>2, BodyShape
  <2>3. \A k \in 1 .. f.header : seen[k] = BodyIn(published, f)[k]
    <3>1. \A k \in 1 .. f.header : k \in 1 .. Len(b) /\ k \in 1 .. Len(seen)
      BY <1>4, <1>7, <2>1, <2>2
    <3> QED  BY <1>4, <1>5, <3>1 DEF b
  <2>4. f.header <= Len(seen)
    BY <1>7, <2>1
  <2>5. ParsedHeader(seen, f) = HeaderOf(published, f)
    BY <1>1, <1>5, <2>3, <2>4, HeaderParsed
  <2>6. SeenHeader = HeaderOf(published, f)
    BY <1>7, <2>5 DEF SeenHeader
  <2>7. ArrayUnits = Len(Arrays(published))
    <3>1. SeenHeader.data_len = published.data_len
      BY <2>6 DEF HeaderOf
    <3> QED  BY <1>7, <2>2, <3>1 DEF ArrayUnits
  <2>8. SumLength = Len(b)
    BY <2>1, <2>2, <2>7
  <2>9. SeenExpected <= BlockUnits
    BY <1>3, <1>4, <2>1, <2>8 DEF TrailerUnits
  <2> QED  BY <2>1, <2>6, <2>7, <2>8, <2>9
<1> QED  BY <1>7, <1>8 DEF b

LEMMA LateSum ==
  ASSUME SharedInv, late, StoredRead, NEW k \in 1 .. SumLength
  PROVE  SameUnit(k)
<1>1. published # NoMap /\ ConsumerTypes /\ PointInv /\ HeaderRead /\ Len(stored) = TrailerUnits
  BY DEF SharedInv, ConsumerInv, LateInv, StoredRead
<1>2. pc = "header"
  BY <1>1 DEF HeaderRead
<1>3. PICK f \in FormatsOf(published) : Holds(block, published, f)
  BY <1>1, PublishedHolds
<1> DEFINE b == BodyIn(published, f)
<1>4. IsStruct(published) /\ b = BodyIn(published, f)
  BY <1>1, PublishedHolds
<1>5. block \in Seq(GoodUnit) /\ Len(block) = BlockUnits
  BY BlockIs DEF SharedInv, ProducerInv
<1>6. SumLength = Len(b)
  BY <1>1, <1>2, <1>3, LateHeader
<1> HIDE DEF b
<1>7. /\ Len(b) \in Nat /\ \A j \in 1 .. Len(b) : block[j] = b[j]
      /\ block[Len(b) + 1] = [sum |-> b] /\ block[Len(b) + 2] = Half
  BY ONLY <1>3, <1>4, <1>5, f \in FormatsOf(published), HeldElements
<1>8. \A j \in 1 .. Len(stored) : stored[j] = block[SeenExpected - TrailerUnits + j]
  BY <1>2 DEF SharedInv, ConsumerInv, LateInv
<1>9. stored[1] = [sum |-> b] /\ stored[2] = Half
  <2>1. 1 \in 1 .. Len(stored) /\ 2 \in 1 .. Len(stored)
    BY <1>1 DEF TrailerUnits
  <2>2. SeenExpected - TrailerUnits = Len(b)
    BY <1>6 DEF SumLength
  <2> QED  BY <1>7, <1>8, <2>1, <2>2
<1>10. stored = <<[sum |-> b], Half>>
  <2>1. stored \in Seq(GoodUnit) /\ Len(stored) = 2
    BY <1>1 DEF ConsumerTypes, TrailerUnits
  <2>2. stored = <<stored[1], stored[2]>>
    BY <2>1, TwoElements
  <2> QED  BY <1>9, <2>2
<1>11. Claimed = b
  <2>1. stored[1].sum = b /\ "sum" \in DOMAIN stored[1]
    BY <1>9
  <2>2. stored = Sum(stored[1].sum)
    BY <1>10, <2>1 DEF Sum, Half
  <2> QED  BY <2>1, <2>2 DEF Claimed
<1>12. b[k] = block[k]
  BY <1>6, <1>7
<1> QED  BY <1>6, <1>11, <1>12 DEF SameUnit

-----------------------------------------------------------------------------
(* Only whole maps are accepted.                                             *)

LEMMA RefusedForeign ==
  ASSUME ForeignIsRefused, SharedInv, SumRead, ParamsFit
  PROVE  published \notin Foreign
<1> SUFFICES ASSUME published \in Foreign PROVE FALSE
  OBVIOUS
<1>1. published # NoMap /\ Checked(published.type) /\ ~ HasFitParams(published)
  BY MapsAre DEF ForeignIsRefused
<1>2. Given
  BY <1>1 DEF SharedInv, ProducerInv, PublishedInv, Given
<1>3. HeaderRead /\ pc = "header"
  BY DEF SumRead, StoredRead, HeaderRead
<1>4. late
  BY <1>2, <1>3 DEF SharedInv, ConsumerInv, LateInv
<1>5. PICK f \in FormatsOf(published) : Holds(block, published, f)
  BY <1>1, PublishedHolds
<1>6. class = published.type /\ SeenHeader = HeaderOf(published, f)
  BY <1>3, <1>4, <1>5, LateHeader
<1>7. /\ SeenHeader.segment_length = published.segment_length
      /\ SeenHeader.segment_count = published.segment_count
      /\ SeenHeader.data_len = published.data_len
  BY <1>6 DEF HeaderOf
<1> QED  BY <1>1, <1>6, <1>7 DEF ParamsFit, HasFitParams

LEMMA ClaimedMap ==
  ASSUME SharedInv, published \notin Foreign, SumRead
  PROVE  \E m \in Maps : \E units \in Images(m) :
           stored = <<SumUnit(units), Half>> /\ [sum |-> Claimed] = SumUnit(units)
<1>1. ConsumerTypes /\ PointInv
  BY DEF SharedInv, ConsumerInv
<1>2. Len(stored) = TrailerUnits
  BY <1>1, SumIsRead
<1>3. PICK c : stored = <<[sum |-> c], Half>> /\ Claimed = c
  BY <1>1, SumIsRead
<1>4. stored \in Seq(OurUnit) /\ 1 \in 1 .. Len(stored)
  BY <1>1, <1>2 DEF ConsumerTypes, TrailerUnits
<1>5. stored[1] \in OurUnit /\ stored[1] = [sum |-> c]
  BY <1>3, <1>4, ElementsIn
<1>6. [sum |-> c] \notin PlainUnit /\ [sum |-> c] # Half
  <2>1. "sum" \in DOMAIN [sum |-> c]
    OBVIOUS
  <2>2. \A u \in PlainUnit : "sum" \notin DOMAIN u
    BY DEF PlainUnit, NumUnit
  <2> QED  BY <2>1, <2>2, UnitsApart
<1>7. PICK m \in Maps : \E units \in Images(m) : [sum |-> c] = SumUnit(units)
  BY <1>5, <1>6 DEF OurUnit
<1> QED  BY <1>3, <1>7

LEMMA AcceptedBy ==
  ASSUME [Next]_vars, result' = Ok, result # Ok
  PROVE  EndOpen \/ EndCopy
<1>1. UNCHANGED result => FALSE
  OBVIOUS
<1>2. ~ Produce /\ ~ Idle /\ ~ UNCHANGED vars
  BY DEF Produce, Idle, StartWrite, RefuseWrite, WriteUnit, EndWrite, ProducerDies, vars, consumerVars
<1>3. ~ ReadMagic /\ ~ ReadHeader /\ ~ ReadStored /\ ~ SumNext /\ ~ CopyNext /\ ~ Open
  BY DEF ReadMagic, ReadHeader, ReadStored, SumNext, CopyNext, Open, Ok
<1>4. ~ NoMemory /\ ~ OpenUnknown /\ ~ OpenShort /\ ~ OpenDifferent /\ ~ RefuseParams /\ ~ CopyNoMemory
  BY DEF NoMemory, OpenUnknown, OpenShort, OpenDifferent, RefuseParams, CopyNoMemory, Return, Ok
<1> QED  BY <1>2, <1>3, <1>4 DEF Next, Consume

LEMMA WholeAccepted ==
  ASSUME ForeignIsRefused, SharedInv, [Next]_vars, result' = Ok, result # Ok
  PROVE  \E m \in Maps : \E units \in Images(m) :
           stored = SubSeq(units, Len(units) - 1, Len(units))
<1>1. SumRead /\ ParamsFit
  BY AcceptedBy DEF EndOpen, EndCopy
<1>2. published \notin Foreign
  BY <1>1, RefusedForeign
<1>3. PICK m \in Maps : \E units \in Images(m) : stored = <<SumUnit(units), Half>>
  BY <1>1, <1>2, ClaimedMap
<1>4. PICK units \in Images(m) : stored = <<SumUnit(units), Half>>
  BY <1>3
<1>5. SubSeq(units, Len(units) - 1, Len(units)) = <<SumUnit(units), Half>>
  BY MapsAre, ImageEnds
<1> QED  BY <1>4, <1>5

(* Unless a sum was right for parameters that no reader looks at, the sum     *)
(* that from_buffer or from_bytes has found right is that of a whole map,    *)
(* however many producers have begun, died and gone on while it was reading.  *)
THEOREM WholeAreAccepted == ForeignIsRefused => (Spec => AcceptsOnlyWhole)
<1> SUFFICES ASSUME ForeignIsRefused PROVE Spec => AcceptsOnlyWhole
  OBVIOUS
<1>1. SharedInv /\ [Next]_vars =>
        [result' = Ok /\ result # Ok =>
           \E m \in Maps : \E units \in Images(m) :
             stored = SubSeq(units, Len(units) - 1, Len(units))]_vars
  BY WholeAccepted
<1> QED  BY <1>1, BlockIsSound, PTL DEF Spec, AcceptsOnlyWhole

-----------------------------------------------------------------------------
(* What is there once write_into has returned.                               *)

LEMMA SeenIsStart ==
  ASSUME SharedInv, late, pc = "header"
  PROVE  seen = SubSeq(block, 1, Len(seen))
<1>1. block \in Seq(GoodUnit) /\ Len(block) = BlockUnits /\ BlockUnits \in Nat /\ BlockUnits >= 10
  BY BlockIs DEF SharedInv, ProducerInv
<1>2. /\ seen \in Seq(GoodUnit) /\ Len(seen) \in Nat /\ Len(seen) <= TheFormat.header
      /\ \A k \in 1 .. Len(seen) : seen[k] = block[k]
  BY LenProperties DEF SharedInv, ConsumerInv, ConsumerTypes, PointInv, LateInv
<1>3. TheFormat.header \in {7, 8}
  BY FormatSeen DEF SharedInv, ConsumerInv
<1> DEFINE len == Len(seen)
           start == SubSeq(block, 1, len)
<1>4. len \in Nat /\ 1 \in 1 .. (Len(block) + 1) /\ len \in 0 .. Len(block) /\ 1 <= len + 1
      /\ len - 1 + 1 = len /\ \A k \in 1 .. len : 1 + k - 1 = k
  BY <1>1, <1>2, <1>3
<1> HIDE DEF len
<1>5. /\ start \in Seq(GoodUnit) /\ Len(start) = len - 1 + 1
      /\ \A k \in 1 .. (len - 1 + 1) : start[k] = block[1 + k - 1]
  BY <1>1, <1>4, PartOf
<1> HIDE DEF start
<1>6. Len(start) = len /\ \A k \in 1 .. len : start[k] = block[k]
  BY <1>4, <1>5
<1>7. Len(seen) = Len(start) /\ \A k \in 1 .. Len(seen) : seen[k] = start[k]
  BY <1>2, <1>6 DEF len
<1>8. seen = start
  BY <1>2, <1>5, <1>7, SameSequence
<1> QED  BY <1>8 DEF start, len

LEMMA CopiedIs ==
  ASSUME ConsumerTypes, CopiedInv, pc = "header", late \/ producers <= 1,
         NEW m, IsStruct(m), NEW f \in FormatsOf(m), NEW b, b = BodyIn(m, f),
         \A k \in 1 .. Len(b) : block[k] = b[k],
         Payload = f.header, Len(copied) = Len(Arrays(m))
  PROVE  copied = Arrays(m)
<1> DEFINE arrays == Arrays(m)
<1>1. /\ Len(b) = f.header + m.data_len * EntryUnits(m.type) /\ f.header \in {7, 8}
      /\ Len(arrays) = m.data_len * EntryUnits(m.type) /\ Len(arrays) \in Nat
      /\ \A k \in 1 .. Len(arrays) : b[f.header + k] = arrays[k]
  <2>1. IsStruct(m) /\ f \in FormatsOf(m) /\ b = BodyIn(m, f)
    OBVIOUS
  <2>2. /\ b \in Seq(PlainUnit) /\ f.header \in {7, 8}
        /\ Len(b) = f.header + m.data_len * EntryUnits(m.type)
        /\ Len(b) >= f.header
        /\ \A k \in 1 .. Len(Arrays(m)) : b[f.header + k] = Arrays(m)[k]
        /\ Len(Arrays(m)) = m.data_len * EntryUnits(m.type)
        /\ Len(Arrays(m)) \in Nat
    BY ONLY <2>1, BodyShape
  <2> QED  BY <2>2
<1>2. arrays \in Seq(NumUnit) /\ copied \in Seq(GoodUnit)
  BY ArraysBack DEF ConsumerTypes
<1>3. \A k \in 1 .. Len(copied) : copied[k] = block[f.header + k]
  BY DEF CopiedInv
<1> HIDE DEF arrays
<1>4. \A k \in 1 .. Len(arrays) : f.header + k \in 1 .. Len(b)
  BY <1>1
<1>5. Len(copied) = Len(arrays)
  BY DEF arrays
<1>6. \A k \in 1 .. Len(copied) : copied[k] = arrays[k]
  BY <1>1, <1>3, <1>4, <1>5
<1> QED  BY <1>2, <1>5, <1>6, SameSequence DEF arrays

LEMMA LateRead ==
  ASSUME SharedInv, late, SumRead
  PROVE  /\ class = published.type
         /\ Read(block, class) = IF ParamsFit THEN [rc |-> Ok, map |-> published]
                                 ELSE [rc |-> "FCM_E_INVALID_PARAMS"]
         /\ Parse(block, class).header.format.header = TheFormat.header
         /\ seen = SubSeq(block, 1, Len(seen))
         /\ Len(copied) = ArrayUnits => copied = Arrays(published)
<1>1. HeaderRead /\ pc = "header"
  BY DEF SumRead, StoredRead, HeaderRead
<1>2. published # NoMap
  BY DEF SharedInv, ConsumerInv, LateInv
<1>3. PICK f \in FormatsOf(published) : Holds(block, published, f)
  BY <1>2, PublishedHolds
<1>4. IsStruct(published)
  BY <1>2, PublishedHolds
<1>5. block \in Seq(GoodUnit)
  BY BlockIs DEF SharedInv, ProducerInv
<1>6. class = published.type /\ TheFormat = f /\ SeenHeader = HeaderOf(published, f)
      /\ ArrayUnits = Len(Arrays(published)) /\ Payload = f.header
  BY <1>1, <1>3, LateHeader
<1>7. ParamsFit <=> ~ Checked(published.type) \/ HasFitParams(published)
  <2>1. /\ SeenHeader.segment_length = published.segment_length
        /\ SeenHeader.segment_count = published.segment_count
        /\ SeenHeader.data_len = published.data_len
    BY <1>6 DEF HeaderOf
  <2> QED  BY <1>6, <2>1 DEF ParamsFit, HasFitParams
<1>8. Read(block, published.type) =
        IF Checked(published.type) /\ ~ HasFitParams(published) THEN [rc |-> "FCM_E_INVALID_PARAMS"]
        ELSE [rc |-> Ok, map |-> published]
  BY ONLY <1>3, <1>4, <1>5, f \in FormatsOf(published), ReadsBack
<1>9. Parse(block, published.type) = [rc |-> Ok, header |-> HeaderOf(published, f)]
  BY ONLY <1>3, <1>4, <1>5, f \in FormatsOf(published), ParsesBack
<1>10. Parse(block, class).header.format.header = TheFormat.header
  BY <1>6, <1>9 DEF HeaderOf
<1>11. seen = SubSeq(block, 1, Len(seen))
  BY <1>1, SeenIsStart
<1>12. ASSUME Len(copied) = ArrayUnits
       PROVE  copied = Arrays(published)
  <2> DEFINE b == BodyIn(published, f)
  <2>1. b = BodyIn(published, f)
    OBVIOUS
  <2> HIDE DEF b
  <2>2. \A k \in 1 .. Len(b) : block[k] = b[k]
    <3>1. /\ Len(b) \in Nat /\ Len(b) >= 7 /\ Len(b) + 2 <= Len(block) /\ Len(block) \in Nat
          /\ \A k \in 1 .. Len(b) : block[k] = b[k]
          /\ block[Len(b) + 1] = [sum |-> b] /\ block[Len(b) + 2] = Half
      BY ONLY <1>3, <1>4, <1>5, <2>1, f \in FormatsOf(published), HeldElements
    <3> QED  BY <3>1
  <2>3. ConsumerTypes /\ CopiedInv /\ Len(copied) = Len(Arrays(published))
    BY <1>6, <1>12 DEF SharedInv, ConsumerInv
  <2> QED  BY <1>1, <1>4, <1>6, <2>1, <2>2, <2>3, CopiedIs
<1>13. Read(block, class) = IF ParamsFit THEN [rc |-> Ok, map |-> published]
                            ELSE [rc |-> "FCM_E_INVALID_PARAMS"]
  BY <1>6, <1>7, <1>8
<1> QED  BY <1>6, <1>10, <1>11, <1>12, <1>13

LEMMA LateIsStill ==
  ASSUME SharedInv, late
  PROVE  ~ Produce
<1>1. published # NoMap
  BY DEF SharedInv, ConsumerInv, LateInv
<1>2. source = NoMap
  BY <1>1, PublishedHolds
<1> QED  BY <1>1, <1>2 DEF Produce, StartWrite, RefuseWrite, WriteUnit, EndWrite, ProducerDies

(* The steps that return something which LateOpenIsRight is about.           *)
LEMMA ReturnedBy ==
  ASSUME SharedInv, [Next]_vars, late', pc' = "idle", result' \notin {"none", "FCM_E_NOMEM"},
         ~ UNCHANGED vars
  PROVE  OpenUnknown \/ OpenShort \/ OpenDifferent \/ RefuseParams \/ EndOpen \/ EndCopy
<1>1. ~ Idle
  BY DEF Idle
<1>2. ~ Open /\ ~ ReadMagic
  BY DEF Open, ReadMagic
<1>3. ~ ReadHeader /\ ~ ReadStored /\ ~ SumNext /\ ~ CopyNext
  BY DEF ReadHeader, ReadStored, SumNext, CopyNext, HeaderRead, StoredRead, SumRead
<1>4. ~ NoMemory /\ ~ CopyNoMemory
  BY DEF NoMemory, CopyNoMemory, Return
<1>5. ~ Produce
  <2> SUFFICES ASSUME Produce PROVE FALSE
    OBVIOUS
  <2>1. late
    BY DEF Produce, StartWrite, RefuseWrite, WriteUnit, EndWrite, ProducerDies, consumerVars
  <2> QED  BY <2>1, LateIsStill
<1> QED  BY <1>1, <1>2, <1>3, <1>4, <1>5 DEF Next, Consume

LEMMA UnknownIsRight ==
  ASSUME SharedInv, late, OpenUnknown
  PROVE  LateOpenIsRight'
<1>1. /\ pc = "magic" /\ Matching(block, class) = {} /\ ~ copying
      /\ result' = "FCM_E_INVALID_FORMAT" /\ copying' = copying /\ offset' = offset
      /\ block' = block /\ class' = class /\ published' = published
  BY DEF OpenUnknown, Recognised, Return, producerVars, SharedInv, ConsumerInv, PointInv
<1>2. Len(block) = BlockUnits /\ BlockUnits \in Nat /\ BlockUnits >= 10 /\ block \in Seq(GoodUnit)
  BY BlockIs DEF SharedInv, ProducerInv
<1>3. Parse(block, class) = [rc |-> "FCM_E_INVALID_FORMAT"]
  <2>1. ~ (Len(block) < 2)
    BY <1>2
  <2> QED  BY <1>1, <2>1 DEF Parse
<1>4. View(block, class, offset) = [rc |-> "FCM_E_INVALID_FORMAT"]
  BY <1>3 DEF View, Read, Ok
<1>5. class # published.type
  <2> SUFFICES ASSUME class = published.type PROVE FALSE
    OBVIOUS
  <2>1. published # NoMap
    BY DEF SharedInv, ConsumerInv, LateInv
  <2>2. PICK f \in FormatsOf(published) : Holds(block, published, f)
    BY <2>1, PublishedHolds
  <2>3. IsStruct(published)
    BY <2>1, PublishedHolds
  <2>4. Parse(block, published.type) = [rc |-> Ok, header |-> HeaderOf(published, f)]
    BY ONLY <1>2, <2>2, <2>3, f \in FormatsOf(published), ParsesBack
  <2> QED  BY <1>3, <2>4 DEF Ok
<1> QED  BY <1>1, <1>4, <1>5 DEF LateOpenIsRight, Ok

LEMMA ShortIsNever ==
  ASSUME SharedInv, late
  PROVE  ~ OpenShort /\ ~ OpenDifferent
<1>1. published # NoMap /\ ConsumerTypes /\ PointInv
  BY DEF SharedInv, ConsumerInv, LateInv
<1>2. PICK f \in FormatsOf(published) : Holds(block, published, f)
  BY <1>1, PublishedHolds
<1>3. HeaderRead => SeenExpected <= BlockUnits /\ SeenExpected \in Nat /\ SumLength \in Nat
  <2> SUFFICES ASSUME HeaderRead
               PROVE  SeenExpected <= BlockUnits /\ SeenExpected \in Nat /\ SumLength \in Nat
    OBVIOUS
  <2>1. pc = "header"
    BY DEF HeaderRead
  <2>2. SeenExpected <= BlockUnits
    BY <1>2, <2>1, LateHeader
  <2>3. SeenExpected \in Nat /\ SumLength \in Nat
    BY <1>1, SizesSeen
  <2> QED  BY <2>2, <2>3
<1>4. ~ OpenShort
  BY <1>3, SharedBlockAssumption DEF OpenShort
<1>5. ~ OpenDifferent
  <2> SUFFICES ASSUME OpenDifferent PROVE FALSE
    OBVIOUS
  <2>1. StoredRead /\ summed < SumLength /\ ~ SameUnit(summed + 1)
    BY DEF OpenDifferent
  <2>2. summed \in Nat /\ SumLength \in Nat
    BY <1>1, <1>3, <2>1 DEF StoredRead, ConsumerTypes
  <2>3. summed + 1 \in 1 .. SumLength
    BY <2>1, <2>2
  <2> QED  BY <2>1, <2>3, LateSum
<1> QED  BY <1>4, <1>5

LEMMA ParamsAreRight ==
  ASSUME SharedInv, late, RefuseParams
  PROVE  LateOpenIsRight'
<1>1. /\ SumRead /\ ~ ParamsFit
      /\ result' = "FCM_E_INVALID_PARAMS" /\ copying' = copying /\ offset' = offset
      /\ block' = block /\ class' = class /\ published' = published
  BY DEF RefuseParams, Return, producerVars
<1>2. class = published.type /\ Read(block, class) = [rc |-> "FCM_E_INVALID_PARAMS"]
  BY <1>1, LateRead
<1>3. View(block, class, offset) = [rc |-> "FCM_E_INVALID_PARAMS"]
  BY <1>2 DEF View, Ok
<1> QED  BY <1>1, <1>2, <1>3 DEF LateOpenIsRight, Ok

LEMMA ViewIsRight ==
  ASSUME SharedInv, late, EndOpen
  PROVE  LateOpenIsRight'
<1>1. /\ SumRead /\ ParamsFit /\ copying' = copying /\ ~ copying
      /\ result' = (IF Aligned(offset') THEN Ok ELSE "FCM_E_UNALIGNED")
      /\ seen' = (IF result' = Ok THEN seen ELSE << >>)
      /\ block' = block /\ class' = class /\ published' = published
  BY DEF EndOpen, Return, producerVars
<1>2. /\ class = published.type /\ Read(block, class) = [rc |-> Ok, map |-> published]
      /\ Parse(block, class).header.format.header = TheFormat.header
      /\ seen = SubSeq(block, 1, Len(seen))
  BY <1>1, LateRead
<1> DEFINE right == View(block, class, offset')
<1>3. right = IF Aligned(offset') THEN [rc |-> Ok, map |-> published] ELSE [rc |-> "FCM_E_UNALIGNED"]
  BY <1>2 DEF View, Aligned
<1>4. result' = right.rc /\ result' # "FCM_E_INVALID_FORMAT"
  BY <1>1, <1>3 DEF Ok
<1>5. result' = Ok => right.map = published /\ seen' = SubSeq(block, 1, Len(seen'))
  BY <1>1, <1>2, <1>3 DEF Ok
<1>6. View(block', class', offset') = right /\ ~ copying'
  BY <1>1
<1> HIDE DEF right
<1> QED  BY <1>1, <1>2, <1>4, <1>5, <1>6 DEF LateOpenIsRight

LEMMA CopyIsRight ==
  ASSUME SharedInv, late, EndCopy
  PROVE  LateOpenIsRight'
<1>1. /\ SumRead /\ ParamsFit /\ copying' = TRUE /\ Len(copied) = ArrayUnits
      /\ result' = Ok /\ seen' = seen /\ copied' = copied
      /\ block' = block /\ class' = class /\ published' = published
  BY DEF EndCopy, Return, producerVars
<1>2. /\ class = published.type /\ Read(block, class) = [rc |-> Ok, map |-> published]
      /\ seen = SubSeq(block, 1, Len(seen)) /\ copied = Arrays(published)
  BY <1>1, LateRead
<1> QED  BY <1>1, <1>2 DEF LateOpenIsRight, Ok

LEMMA LateNext == SharedInv /\ LateOpenIsRight /\ [Next]_vars => LateOpenIsRight'
<1> SUFFICES ASSUME SharedInv, LateOpenIsRight, [Next]_vars,
                    late', pc' = "idle", result' \notin {"none", "FCM_E_NOMEM"}
             PROVE  LateOpenIsRight'
  BY DEF LateOpenIsRight
<1>1. CASE UNCHANGED vars
  BY <1>1 DEF LateOpenIsRight, vars, producerVars, consumerVars
<1>2. CASE ~ UNCHANGED vars
  <2>1. OpenUnknown \/ OpenShort \/ OpenDifferent \/ RefuseParams \/ EndOpen \/ EndCopy
    BY <1>2, ReturnedBy
  <2>2. late
    BY <2>1 DEF OpenUnknown, OpenShort, OpenDifferent, RefuseParams, EndOpen, EndCopy, Return
  <2> QED  BY <2>1, <2>2, UnknownIsRight, ShortIsNever, ParamsAreRight, ViewIsRight, CopyIsRight
<1> QED  BY <1>1, <1>2

(* Once write_into has returned, from_buffer and from_bytes, in any process,   *)
(* return what was given to it, or say what is wrong: that it is of another   *)
(* class, that its parameters do not fit, or that the payload is not aligned. *)
THEOREM LateOpensAreRight == Spec => []LateOpenIsRight
<1>1. Init => LateOpenIsRight
  BY DEF Init, LateOpenIsRight
<1>2. SharedInv /\ LateOpenIsRight /\ [Next]_vars => LateOpenIsRight'
  BY LateNext
<1> QED  BY <1>1, <1>2, BlockIsSound, PTL DEF Spec

-----------------------------------------------------------------------------
(* With one producer.                                                        *)

LEMMA ImageHasHalf ==
  ASSUME NEW m \in FitMaps, NEW units \in Images(m), BlockInv, SubSeq(block, 1, Len(units)) = units
  PROVE  HasHalf
<1>1. IsStruct(m) /\ SerializedSize(m) <= BlockUnits
  BY MapsAre DEF FitMaps, Fits
<1>2. PICK u : /\ IsStruct(u) /\ u.type = m.type /\ Arrays(u) = Arrays(m)
               /\ \E f \in FormatsOf(u) : units = Summed(BodyIn(u, f))
  BY <1>1, ImageIs
<1>3. PICK f \in FormatsOf(u) : units = Summed(BodyIn(u, f))
  BY <1>2
<1> DEFINE b == BodyIn(u, f)
<1> HIDE DEF b
<1>4. b = BodyIn(u, f) /\ units = Summed(b)
  BY <1>3 DEF b
<1>5. /\ Len(units) = Len(b) + 2 /\ units[Len(b) + 2] = Half
  <2>1. /\ b \in Seq(PlainUnit)
        /\ units \in Seq(PlainUnit \union {Half, [sum |-> b]})
        /\ Len(units) = Len(b) + 2
        /\ \A k \in 1 .. Len(b) : units[k] = b[k] /\ b[k] \in PlainUnit
        /\ units[Len(b) + 1] = [sum |-> b] /\ units[Len(b) + 2] = Half
    <3>1. IsStruct(u) /\ f \in FormatsOf(u) /\ units = Summed(BodyIn(u, f)) /\ b = BodyIn(u, f)
      BY <1>2, <1>3 DEF b
    <3> QED  BY ONLY <3>1, FormShape
  <2> QED  BY <2>1
<1>6. Len(b) = f.header + u.data_len * EntryUnits(u.type) /\ f.header \in {7, 8}
  BY <1>2, <1>4, BodyShape
<1>7. u.data_len * EntryUnits(u.type) = m.data_len * EntryUnits(m.type)
  <2>1. /\ Len(Arrays(u)) = u.data_len * EntryUnits(u.type)
        /\ Len(Arrays(m)) = m.data_len * EntryUnits(m.type)
    BY <1>1, <1>2, ArraysBack
  <2> QED  BY <1>2, <2>1
<1>8. Len(b) \in Nat /\ Len(b) >= 7
  BY <1>2, <1>4, FormSize
<1> DEFINE size == m.data_len * EntryUnits(m.type)
<1>9. Len(b) = f.header + size /\ 8 + size + 2 <= BlockUnits /\ size \in Nat
  <2>1. size \in Nat
    <3>1. Len(Arrays(m)) = size /\ Arrays(m) \in Seq(NumUnit)
      BY <1>1, ArraysBack
    <3> QED  BY <3>1, LenProperties
  <2> QED  BY <1>1, <1>6, <1>7, <2>1 DEF SerializedSize, TrailerUnits
<1> HIDE DEF size
<1>10. Len(units) \in Nat /\ Len(units) >= 1 /\ Len(units) <= BlockUnits
  BY <1>5, <1>6, <1>8, <1>9, SharedBlockAssumption
<1>11. \A k \in 1 .. Len(units) : block[k] = units[k]
  <2>1. block \in Seq(GoodUnit) /\ Len(block) = BlockUnits
    BY BlockIs
  <2>2. \A k \in 1 .. Len(units) : block[k] = SubSeq(block, 1, Len(units))[k]
    BY <1>10, <2>1, PrefixElements
  <2> QED  BY <2>2
<1>12. Len(units) \in 1 .. Len(units) /\ Len(units) \in 1 .. BlockUnits
  BY <1>10, SharedBlockAssumption
<1>13. block[Len(units)] = Half
  BY <1>5, <1>11, <1>12
<1> QED  BY <1>12, <1>13 DEF HasHalf, InBlock

LEMMA FormParts ==
  ASSUME NEW m, IsStruct(m), NEW f \in FormatsOf(m), NEW b, b = BodyIn(m, f),
         Written(m) = Summed(b)
  PROVE  /\ \A k \in 1 .. Len(b) : Written(m)[k] = b[k] /\ b[k] \in PlainUnit
         /\ Written(m)[Len(b) + 1] = [sum |-> b] /\ Written(m)[Len(b) + 2] = Half
<1>1. PICK s : s = Written(m)
  OBVIOUS
<1>2. s = Summed(BodyIn(m, f))
  BY <1>1
<1>3. /\ b \in Seq(PlainUnit)
      /\ s \in Seq(PlainUnit \union {Half, [sum |-> b]})
      /\ Len(s) = Len(b) + 2
      /\ \A k \in 1 .. Len(b) : s[k] = b[k] /\ b[k] \in PlainUnit
      /\ s[Len(b) + 1] = [sum |-> b] /\ s[Len(b) + 2] = Half
  BY <1>2, FormShape
<1> QED  BY <1>1, <1>3

(* A consumer that has found a sum while there was one producer.             *)
LEMMA EarlyRead ==
  ASSUME SharedInv, SumRead, ~ Given, producers <= 1
  PROVE  \E m \in FitMaps : /\ Prefix(Written(m))
                            /\ Len(copied) = ArrayUnits => copied = Arrays(m)
<1>1. HeaderRead /\ pc = "header" /\ Len(stored) = TrailerUnits
  BY DEF SumRead, StoredRead, HeaderRead
<1>2. ConsumerTypes /\ PointInv /\ CopiedInv /\ BlockInv
  BY DEF SharedInv, ConsumerInv, ProducerInv
<1>3. PICK c : stored = <<[sum |-> c], Half>> /\ Claimed = c /\ Len(c) = SumLength
  BY <1>2, SumIsRead
<1>4. \A k \in 1 .. 2 : stored[k] = Num(0) \/ InBlock(stored[k])
  BY <1>1 DEF SharedInv, ConsumerInv, EarlyInv, TrailerUnits
<1>5. InBlock(Half) /\ InBlock([sum |-> c])
  <2>1. stored[1] = [sum |-> c] /\ stored[2] = Half
    BY <1>3
  <2>2. Half # Num(0) /\ [sum |-> c] # Num(0)
    <3>1. "sum" \in DOMAIN [sum |-> c] /\ "sum" \notin DOMAIN Num(0)
      BY DEF Num
    <3> QED  BY <3>1, UnitsApart
  <2>3. 1 \in 1 .. 2 /\ 2 \in 1 .. 2
    OBVIOUS
  <2> QED  BY <1>4, <2>1, <2>2, <2>3
<1>6. PICK m \in FitMaps : \E len \in 0 .. SerializedSize(m) : Drafted(m, len)
  <2>1. ~ \A k \in 1 .. BlockUnits : block[k] = Num(0)
    BY <1>5, UnitsApart DEF InBlock
  <2> QED  BY <2>1 DEF SharedInv, ProducerInv, AloneInv
<1>7. /\ IsStruct(m) /\ SerializedSize(m) \in Nat /\ 10 <= SerializedSize(m)
      /\ SerializedSize(m) <= BlockUnits /\ BlockUnits \in Nat
      /\ \A k \in 1 .. SerializedSize(m) : Written(m)[k] = Half => k = SerializedSize(m)
  BY WrittenUnits
<1>8. PICK len \in 0 .. SerializedSize(m) : Drafted(m, len)
  BY <1>6
<1>9. \A k \in 1 .. BlockUnits : block[k] = IF k <= len THEN Written(m)[k] ELSE Num(0)
  BY <1>8 DEF Drafted
<1>10. len = SerializedSize(m)
  <2>1. PICK k \in 1 .. BlockUnits : block[k] = Half
    BY <1>5 DEF InBlock
  <2>2. k <= len /\ Written(m)[k] = Half
    BY <1>9, <2>1, UnitsApart
  <2>3. k \in 1 .. SerializedSize(m)
    BY <1>7, <2>2
  <2> QED  BY <1>7, <2>2, <2>3
<1>11. \A k \in 1 .. SerializedSize(m) : block[k] = Written(m)[k]
  <2>1. \A k \in 1 .. SerializedSize(m) : k \in 1 .. BlockUnits /\ k <= len
    BY <1>7, <1>10
  <2> QED  BY <1>9, <2>1
<1>12. Prefix(Written(m))
  BY <1>2, <1>11, PrefixWritten
<1>13. PICK f \in FormatsOf(m) : f.header = 8 /\ Written(m) = Summed(BodyIn(m, f))
  BY <1>7, FormatUsed, WrittenIs
<1> DEFINE b == BodyIn(m, f)
<1> HIDE DEF b
<1>14. f \in FormatsOf(m) /\ f.header = 8 /\ Written(m) = Summed(b) /\ b = BodyIn(m, f)
  BY <1>13 DEF b
<1>15. /\ Len(b) \in Nat /\ Len(b) >= 7 /\ Len(b) + 2 = SerializedSize(m)
       /\ \A k \in 1 .. Len(b) : Written(m)[k] = b[k] /\ b[k] \in PlainUnit
       /\ Written(m)[Len(b) + 1] = [sum |-> b] /\ Written(m)[Len(b) + 2] = Half
  <2>1. /\ Len(b) \in Nat /\ Len(b) >= 7
        /\ SerializedSize(m) \in Nat /\ Len(b) + 2 <= SerializedSize(m)
        /\ f.header = 8 => Len(b) + 2 = SerializedSize(m) /\ Len(b) >= 8
    BY <1>7, <1>14, FormSize
  <2>2. /\ \A k \in 1 .. Len(b) : Written(m)[k] = b[k] /\ b[k] \in PlainUnit
        /\ Written(m)[Len(b) + 1] = [sum |-> b] /\ Written(m)[Len(b) + 2] = Half
    BY <1>7, <1>14, FormParts
  <2> QED  BY <1>14, <2>1, <2>2
<1>16. [sum |-> c] = [sum |-> b]
  <2>1. PICK k \in 1 .. BlockUnits : block[k] = [sum |-> c]
    BY <1>5 DEF InBlock
  <2>2. "sum" \in DOMAIN [sum |-> c] /\ "sum" \notin DOMAIN Num(0)
    BY DEF Num
  <2>3. k <= len /\ Written(m)[k] = [sum |-> c]
    BY <1>9, <2>1, <2>2
  <2>4. [sum |-> c] \notin PlainUnit
    BY <2>2 DEF PlainUnit, NumUnit
  <2>5. k \notin 1 .. Len(b)
    BY <1>15, <2>3, <2>4
  <2>6. k # Len(b) + 2
    BY <1>15, <2>3, UnitsApart
  <2>7. k = Len(b) + 1
    BY <1>10, <1>15, <2>3, <2>5, <2>6
  <2> QED  BY <1>15, <2>3, <2>7
<1>17. c = b
  <2>1. [sum |-> c].sum = c /\ [sum |-> b].sum = b
    OBVIOUS
  <2> QED  BY <1>16, <2>1
<1>18. \A k \in 1 .. Len(b) : block[k] = b[k]
  <2>1. \A k \in 1 .. Len(b) : k \in 1 .. SerializedSize(m)
    BY <1>15
  <2> QED  BY <1>11, <1>15, <2>1
<1>19. seen[1] = b[1] /\ seen[2] = b[2]
  <2>1. seen[1] = block[1] /\ seen[2] = block[2]
    BY <1>1 DEF SharedInv, ConsumerInv, EarlyInv
  <2>2. 1 \in 1 .. Len(b) /\ 2 \in 1 .. Len(b)
    BY <1>15
  <2> QED  BY <1>18, <2>1, <2>2
<1>20. TheFormat = f
  BY <1>1, <1>2, <1>7, <1>14, <1>19, FormatFound
<1>21. Payload = f.header /\ SumLength = Payload + ArrayUnits /\ ArrayUnits \in Nat
  BY <1>1, <1>2, <1>20, SizesSeen
<1>22. Len(b) = f.header + Len(Arrays(m)) /\ Len(Arrays(m)) \in Nat
  <2>1. /\ Len(b) = f.header + m.data_len * EntryUnits(m.type)
        /\ Len(Arrays(m)) = m.data_len * EntryUnits(m.type) /\ Len(Arrays(m)) \in Nat
    BY <1>7, <1>14, BodyShape
  <2> QED  BY <2>1
<1>23. ArrayUnits = Len(Arrays(m))
  <2>1. SumLength = Len(b)
    BY <1>3, <1>17
  <2> QED  BY <1>14, <1>21, <1>22, <2>1
<1>24. Len(copied) = ArrayUnits => copied = Arrays(m)
  BY <1>1, <1>2, <1>7, <1>14, <1>18, <1>21, <1>23, CopiedIs
<1> QED  BY <1>12, <1>24

LEMMA WholeWhenAccepted ==
  ASSUME ForeignIsRefused, SharedInv, SumRead, ParamsFit, producers <= 1
  PROVE  \E m \in FitMaps : \E units \in Images(m) :
           /\ SubSeq(block, 1, Len(units)) = units
           /\ Len(copied) = ArrayUnits => copied = Arrays(m)
<1>1. published \notin Foreign
  BY RefusedForeign
<1>2. pc = "header"
  BY DEF SumRead, StoredRead, HeaderRead
<1>3. CASE late
  <2>1. published # NoMap
    BY <1>3 DEF SharedInv, ConsumerInv, LateInv
  <2>2. PICK m \in FitMaps : /\ \E units \in Images(m) : Prefix(units)
                             /\ Arrays(m) = Arrays(published)
    BY <1>1, <2>1 DEF SharedInv, ProducerInv, PublishedInv
  <2>3. Len(copied) = ArrayUnits => copied = Arrays(m)
    BY <1>3, <2>2, LateRead
  <2> QED  BY <2>2, <2>3 DEF Prefix
<1>4. CASE ~ late
  <2>1. ~ Given
    BY <1>2, <1>4 DEF SharedInv, ConsumerInv, LateInv
  <2>2. PICK m \in FitMaps : /\ Prefix(Written(m))
                             /\ Len(copied) = ArrayUnits => copied = Arrays(m)
    BY <2>1, EarlyRead
  <2>3. Written(m) \in Images(m)
    BY DEF Images
  <2> QED  BY <2>2, <2>3 DEF Prefix
<1> QED  BY <1>3, <1>4

LEMMA WholeNext == ForeignIsRefused /\ SharedInv /\ AcceptedStaysWhole /\ [Next]_vars => AcceptedStaysWhole'
<1> SUFFICES ASSUME ForeignIsRefused, SharedInv, AcceptedStaysWhole, [Next]_vars,
                    result' = Ok, producers' <= 1
             PROVE  \E m \in FitMaps : \E units \in Images(m) :
                      /\ SubSeq(block', 1, Len(units)) = units
                      /\ copying' => copied' = Arrays(m)
  BY DEF AcceptedStaysWhole, FitMaps
<1>1. CASE result = Ok
  <2>1. pc = "idle"
    BY <1>1 DEF SharedInv, ConsumerInv, PointInv, Ok
  <2>2. ~ Consume
    BY <1>1, <2>1 DEF Consume, Open, NoMemory, OpenUnknown, ReadMagic, ReadHeader, OpenShort, ReadStored,
         SumNext, OpenDifferent, RefuseParams, EndOpen, CopyNext, CopyNoMemory, EndCopy,
         HeaderRead, StoredRead, SumRead, HeaderRead
  <2>3. Produce \/ UNCHANGED vars
    BY <2>2 DEF Next, Idle
  <2>4. producers \in Nat /\ producers <= 1
    <3>1. producers \in Nat
      BY DEF SharedInv, ProducerInv, BlockInv
    <3>2. producers' = producers \/ producers' = producers + 1
      BY <2>3 DEF Produce, StartWrite, RefuseWrite, WriteUnit, EndWrite, ProducerDies, vars, producerVars
    <3> QED  BY <3>1, <3>2
  <2>5. PICK m \in FitMaps : \E units \in Images(m) :
               /\ SubSeq(block, 1, Len(units)) = units
               /\ copying => copied = Arrays(m)
    BY <1>1, <2>4 DEF AcceptedStaysWhole, FitMaps
  <2>6. ~ WriteUnit
    <3>1. HasHalf
      BY <2>5, ImageHasHalf DEF SharedInv, ProducerInv
    <3> QED  BY <2>4, <3>1, NotYet DEF SharedInv
  <2>7. UNCHANGED <<block, copying, copied>>
    BY <2>3, <2>6 DEF Produce, StartWrite, RefuseWrite, EndWrite, ProducerDies, vars, consumerVars
  <2> QED  BY <2>5, <2>7
<1>2. CASE result # Ok
  <2>1. EndOpen \/ EndCopy
    BY <1>2, AcceptedBy
  <2>2. /\ SumRead /\ ParamsFit /\ UNCHANGED <<block, producers>>
        /\ copying' => Len(copied) = ArrayUnits /\ copied' = copied
    BY <2>1 DEF EndOpen, EndCopy, Return, producerVars
  <2>3. \E m \in FitMaps : \E units \in Images(m) :
           /\ SubSeq(block, 1, Len(units)) = units
           /\ Len(copied) = ArrayUnits => copied = Arrays(m)
    BY <2>2, WholeWhenAccepted
  <2> QED  BY <2>2, <2>3
<1> QED  BY <1>1, <1>2

(* Unless a sum was right for parameters that no reader looks at: with a       *)
(* single producer the block that has been accepted is a whole map, with      *)
(* nothing more written to it, and a copy has all of the arrays of that map.  *)
THEOREM AcceptedStay == ForeignIsRefused => (Spec => []AcceptedStaysWhole)
<1> SUFFICES ASSUME ForeignIsRefused PROVE Spec => []AcceptedStaysWhole
  OBVIOUS
<1>1. Init => AcceptedStaysWhole
  BY DEF Init, AcceptedStaysWhole, Ok
<1>2. SharedInv /\ AcceptedStaysWhole /\ [Next]_vars => AcceptedStaysWhole'
  BY WholeNext
<1> QED  BY <1>1, <1>2, BlockIsSound, PTL DEF Spec
=============================================================================
