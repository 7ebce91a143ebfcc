----------------------------- MODULE FilesProofs ----------------------------
(***************************************************************************)
(* What is proved about files and bytes objects, for every number of        *)
(* threads, maps and bytes that stdio moves at a time, and any number of    *)
(* crashes and of other damage: a load returns a map that was built, or it   *)
(* refuses, and it refuses only what is not whole.                          *)
(***************************************************************************)
EXTENDS FilesInvariant, SerialProofs

(* What comes from elsewhere with a sum that fits has parameters that do not, *)
(* and readers that look at them.                                            *)
ForeignIsRefused == \A m \in Foreign : Checked(m.type) /\ ~ HasFitParams(m)

(* Or at least readers that look at them, if they do not fit.                *)
ForeignIsChecked == \A m \in Foreign : Checked(m.type) \/ HasFitParams(m)

-----------------------------------------------------------------------------
(* The maps there are. *)

LEMMA OriginalsAreFit ==
  ASSUME NEW m \in Originals
  PROVE  IsStruct(m) /\ HasFitParams(m)
<1>1. CASE m \in Maps
  BY <1>1, MapsAssumption
<1>2. CASE m \notin Maps
  <2>1. PICK x \in Maps : m = WithoutCount(x)
    BY <1>2 DEF Originals, WithoutCount
  <2>2. IsStruct(x) /\ HasFitParams(x)
    BY MapsAssumption
  <2> QED  BY <2>1, <2>2, UncountedIs
<1> QED  BY <1>1, <1>2

LEMMA KnownAreStructs ==
  ASSUME NEW m \in Known
  PROVE  IsStruct(m)
BY OriginalsAreFit, MapsAssumption DEF Known

(* The units of every form of a map are good. *)
LEMMA SummedIsGood ==
  ASSUME NEW m \in Known, NEW f \in FormatsOf(m)
  PROVE  Summed(BodyIn(m, f)) \in Seq(GoodUnit)
<1> DEFINE b == BodyIn(m, f)
           s == Summed(b)
<1>1. b \in Seq(PlainUnit)
  <2>1. \A c : c = BodyIn(m, f) => c \in Seq(PlainUnit)
    BY KnownAreStructs, BodyShape
  <2> QED  BY <2>1
<1>2. PlainUnit \subseteq GoodUnit
  BY DEF GoodUnit, UnitsOf
<1>3. [sum |-> b] \in GoodUnit
  BY DEF GoodUnit, UnitsOf, SumsOf
<1>4. [half |-> "high"] \in GoodUnit
  BY DEF GoodUnit, UnitsOf
<1> HIDE DEF b
<1>5. s = Summed(b)
  OBVIOUS
<1> HIDE DEF s
<1>6. s \in Seq(GoodUnit)
  BY ONLY <1>1, <1>2, <1>3, <1>4, <1>5, SummedShape
<1> QED  BY <1>6 DEF s, b

LEMMA WrittenIsGood ==
  ASSUME NEW m \in Known
  PROVE  Written(m) \in Seq(GoodUnit)
<1>1. IsStruct(m)
  BY KnownAreStructs
<1> QED  BY <1>1, WrittenIs, FormatUsed, SummedIsGood

LEMMA GoWrittenIsGood ==
  ASSUME NEW m \in Maps, m.hash = "XXH64"
  PROVE  WrittenByGo(m) \in Seq(GoodUnit)
<1> DEFINE u == WithoutCount(m)
<1>1. IsStruct(m) /\ u \in Known
  BY MapsAssumption DEF Known, Originals, WithoutCount
<1>2. u = WithoutCount(m)
  OBVIOUS
<1> HIDE DEF u
<1> QED  BY <1>1, <1>2, GoUncounted, SummedIsGood

-----------------------------------------------------------------------------
(* Units in a file. *)

LEMMA ZeroIsGood ==
  /\ Num(0) \in GoodUnit
  /\ Tag("CMAP") \in GoodUnit
  /\ << >> \in Seq(GoodUnit)
<1>1. Num(0) \in NumUnit
  BY SerialAssumption DEF Num, NumUnit, Number
<1>2. Tag("CMAP") \in [tag : Tags]
  BY DEF Tag, Tags
<1> QED  BY <1>1, <1>2 DEF GoodUnit, UnitsOf, PlainUnit

LEMMA PlacedIsGood ==
  ASSUME NEW units \in Seq(GoodUnit), NEW position \in Nat, NEW old \in Seq(GoodUnit)
  PROVE  Placed(units, position, old) \in Seq(GoodUnit)
<1> DEFINE n == IF position + Len(units) > Len(old) THEN position + Len(units) ELSE Len(old)
           E(k) == IF k > position /\ k <= position + Len(units) THEN units[k - position]
                   ELSE IF k <= Len(old) THEN old[k] ELSE Num(0)
           p == Placed(units, position, old)
<1>1. n \in Nat
  BY LenProperties
<1>2. ASSUME NEW k \in 1 .. n PROVE E(k) \in GoodUnit
  <2>1. CASE k > position /\ k <= position + Len(units)
    <3>1. k - position \in 1 .. Len(units)
      BY <2>1, LenProperties
    <3>2. units[k - position] \in GoodUnit
      BY ONLY <3>1, units \in Seq(GoodUnit), ElementsIn
    <3> QED  BY <2>1, <3>2
  <2>2. CASE ~ (k > position /\ k <= position + Len(units)) /\ k <= Len(old)
    <3>1. k \in 1 .. Len(old)
      BY <2>2, <1>1, LenProperties
    <3>2. old[k] \in GoodUnit
      BY ONLY <3>1, old \in Seq(GoodUnit), ElementsIn
    <3> QED  BY <2>2, <3>2
  <2>3. CASE ~ (k > position /\ k <= position + Len(units)) /\ ~ (k <= Len(old))
    BY <2>3, ZeroIsGood
  <2> QED  BY <2>1, <2>2, <2>3
<1>3. p = [k \in 1 .. n |-> E(k)]
  BY DEF Placed
<1> HIDE DEF n, E, p
<1>4. \A k \in 1 .. n : p[k] \in GoodUnit
  BY <1>2, <1>3
<1>5. p = [k \in 1 .. n |-> p[k]]
  BY <1>3
<1>6. p \in Seq(GoodUnit)
  BY <1>1, <1>4, <1>5, IsSequence
<1> QED  BY <1>6 DEF p

LEMMA PartIsGood ==
  ASSUME NEW s \in Seq(GoodUnit), NEW a \in Nat, NEW b \in Nat, a <= b, b <= Len(s)
  PROVE  SubSeq(s, a + 1, b) \in Seq(GoodUnit)
<1>1. Len(s) \in Nat
  BY LenProperties
<1>2. a + 1 \in 1 .. (Len(s) + 1) /\ b \in 0 .. Len(s) /\ a + 1 <= b + 1
  BY <1>1
<1> QED  BY <1>2, PartOf

-----------------------------------------------------------------------------
(* The invariant. *)

LEMMA FilesInit == Init => FilesInv
<1> SUFFICES ASSUME Init PROVE FilesInv
  OBVIOUS
<1>1. \A m \in Maps : m \in Known
  BY DEF Known, Originals
<1>2. /\ file = << >> /\ bytes = << >> /\ pc = [t \in Threads |-> "idle"]
      /\ held \in [Threads -> Maps] /\ class = [t \in Threads |-> "constmap"]
      /\ buffer = [t \in Threads |-> << >>] /\ size = [t \in Threads |-> 0]
      /\ at = [t \in Threads |-> 0] /\ outcome = [t \in Threads |-> "none"]
  BY DEF Init
<1>3. held \in [Threads -> Known \union {NoMap}]
  BY <1>1, <1>2
<1>4. FilesTypes
  BY <1>2, <1>3, ZeroIsGood DEF FilesTypes, Labels, Types
<1>5. \A t \in Threads : pc[t] = "idle"
  BY <1>2
<1> QED  BY <1>4, <1>5 DEF FilesInv

(* A call that ends leaves nothing behind but what it has done to the file    *)
(* and the map of its thread.                                                *)
LEMMA ReturnKeeps ==
  ASSUME FilesInv, NEW t \in Threads, NEW how, Return(t, how),
         file' = file, bytes' = bytes,
         NEW m \in Known \union {NoMap}, held' = [held EXCEPT ![t] = m]
  PROVE  FilesInv'
<1>1. /\ pc' = [pc EXCEPT ![t] = "idle"] /\ outcome' = [outcome EXCEPT ![t] = how]
      /\ buffer' = [buffer EXCEPT ![t] = << >>] /\ size' = [size EXCEPT ![t] = 0]
      /\ at' = [at EXCEPT ![t] = 0] /\ class' = [class EXCEPT ![t] = "constmap"]
  BY DEF Return
<1>2. FilesTypes'
  BY <1>1, ZeroIsGood DEF FilesInv, FilesTypes, Labels, Types
<1>3. \A u \in Threads : u # t =>
        pc'[u] = pc[u] /\ held'[u] = held[u] /\ at'[u] = at[u] /\ buffer'[u] = buffer[u]
  BY <1>1 DEF FilesInv, FilesTypes
<1>4. pc'[t] = "idle"
  BY <1>1 DEF FilesInv, FilesTypes
<1> QED  BY <1>2, <1>3, <1>4 DEF FilesInv

(* A thread passes to another point of its call. *)
LEMMA MoveKeeps ==
  ASSUME FilesInv, NEW t \in Threads, NEW to \in Labels,
         pc' = [pc EXCEPT ![t] = to], NEW s \in Seq(GoodUnit), buffer' = [buffer EXCEPT ![t] = s],
         file' \in Seq(GoodUnit), bytes' \in Seq(GoodUnit), held' = held,
         NEW end \in Nat, at' = [at EXCEPT ![t] = end],
         NEW n \in Nat, size' = [size EXCEPT ![t] = n],
         NEW type \in Types, class' = [class EXCEPT ![t] = type],
         DOMAIN outcome' = Threads,
         to = "opened" => held[t] # NoMap,
         to \in {"writing", "closing"} => end <= Len(s)
  PROVE  FilesInv'
<1>1. FilesTypes'
  BY DEF FilesInv, FilesTypes
<1>2. \A u \in Threads : u # t =>
        pc'[u] = pc[u] /\ held'[u] = held[u] /\ at'[u] = at[u] /\ buffer'[u] = buffer[u]
  BY DEF FilesInv, FilesTypes
<1>3. pc'[t] = to /\ held'[t] = held[t] /\ at'[t] = end /\ buffer'[t] = s
  BY DEF FilesInv, FilesTypes
<1>4. \A u \in Threads : pc'[u] = "opened" => held'[u] # NoMap
  BY <1>2, <1>3 DEF FilesInv
<1>5. \A u \in Threads : pc'[u] \in {"writing", "closing"} => at'[u] <= Len(buffer'[u])
  BY <1>2, <1>3 DEF FilesInv
<1> QED  BY <1>1, <1>4, <1>5 DEF FilesInv

(* What stays as it is can be said to be set to what it is. *)
LEMMA Same ==
  ASSUME FilesInv, NEW t \in Threads
  PROVE  /\ pc = [pc EXCEPT ![t] = pc[t]] /\ buffer = [buffer EXCEPT ![t] = buffer[t]]
         /\ held = [held EXCEPT ![t] = held[t]]
         /\ at = [at EXCEPT ![t] = at[t]] /\ size = [size EXCEPT ![t] = size[t]]
         /\ class = [class EXCEPT ![t] = class[t]]
         /\ pc[t] \in Labels /\ buffer[t] \in Seq(GoodUnit) /\ at[t] \in Nat /\ size[t] \in Nat
         /\ class[t] \in Types /\ file \in Seq(GoodUnit) /\ bytes \in Seq(GoodUnit)
         /\ held[t] \in Known \union {NoMap}
         /\ DOMAIN outcome = Threads
         /\ Len(buffer[t]) \in Nat
<1>1. buffer[t] \in Seq(GoodUnit)
  BY DEF FilesInv, FilesTypes
<1>2. Len(buffer[t]) \in Nat
  BY <1>1, LenProperties
<1> QED  BY <1>2 DEF FilesInv, FilesTypes

LEMMA EndWithoutMap ==
  ASSUME FilesInv, NEW t \in Threads, NEW how, Return(t, how), UNCHANGED <<file, bytes, held>>
  PROVE  FilesInv'
BY Same, ReturnKeeps

LEMMA UnchangedKeeps ==
  ASSUME FilesInv, UNCHANGED <<file, bytes, pc, held, class, buffer, size, at>>,
         DOMAIN outcome' = Threads
  PROVE  FilesInv'
BY DEF FilesInv, FilesTypes

(* The next chunk ends after the last one and not after the end. *)
LEMMA ChunkIsNext ==
  ASSUME NEW from \in Nat, NEW len \in Nat, from < len
  PROVE  ChunkEnd(from, len) \in Nat /\ from < ChunkEnd(from, len) /\ ChunkEnd(from, len) <= len
BY FilesAssumption DEF ChunkEnd

LEMMA PassKeeps ==
  ASSUME FilesInv, NEW t \in Threads, pc[t] \in {"writing", "closing"}, Pass(t),
         UNCHANGED <<bytes, pc, held, class, buffer, size, outcome>>
  PROVE  FilesInv'
<1> DEFINE s == buffer[t]
           from == at[t]
           end == ChunkEnd(at[t], Len(buffer[t]))
<1>1. /\ s \in Seq(GoodUnit) /\ Len(s) \in Nat /\ from \in Nat /\ from < Len(s)
      /\ file \in Seq(GoodUnit) /\ file' = Placed(SubSeq(s, from + 1, end), from, file)
      /\ at' = [at EXCEPT ![t] = end]
  BY Same DEF Pass
<1>2. end \in Nat /\ from < end /\ end <= Len(s)
  BY <1>1, ChunkIsNext
<1> HIDE DEF end, from, s
<1>3. SubSeq(s, from + 1, end) \in Seq(GoodUnit)
  BY <1>1, <1>2, PartIsGood
<1>4. file' \in Seq(GoodUnit)
  BY <1>1, <1>3, PlacedIsGood
<1>5. /\ pc[t] \in Labels /\ size[t] \in Nat /\ class[t] \in Types /\ bytes \in Seq(GoodUnit)
      /\ pc' = [pc EXCEPT ![t] = pc[t]] /\ buffer' = [buffer EXCEPT ![t] = s]
      /\ held' = held /\ size' = [size EXCEPT ![t] = size[t]]
      /\ class' = [class EXCEPT ![t] = class[t]] /\ DOMAIN outcome' = Threads
  BY Same DEF s
<1>6. bytes' \in Seq(GoodUnit) /\ pc[t] # "opened"
  BY <1>5
<1> QED  BY <1>1, <1>2, <1>4, <1>5, <1>6, MoveKeeps

LEMMA SaveKeeps ==
  ASSUME FilesInv, NEW t \in Threads,
         \/ OpenFails(t) \/ OpenToSave(t) \/ SaveNoMemory(t) \/ Serialize(t)
         \/ WriteChunk(t) \/ WriteFails(t) \/ EndWrite(t)
         \/ CloseChunk(t) \/ Closed(t) \/ CloseFails(t)
         \/ ToBytes(t) \/ ToBytesNoMemory(t)
  PROVE  FilesInv'
<1>1. CASE OpenFails(t)
  BY <1>1, Same, UnchangedKeeps DEF OpenFails
<1>2. CASE OpenToSave(t)
  <2>1. /\ "opened" \in Labels /\ pc' = [pc EXCEPT ![t] = "opened"]
        /\ buffer' = [buffer EXCEPT ![t] = buffer[t]] /\ file' = << >> /\ bytes' = bytes
        /\ held' = held /\ held[t] # NoMap /\ at' = [at EXCEPT ![t] = at[t]]
        /\ size' = [size EXCEPT ![t] = size[t]] /\ class' = [class EXCEPT ![t] = class[t]]
        /\ outcome' = [outcome EXCEPT ![t] = "none"]
    BY <1>2, Same DEF OpenToSave, Labels
  <2>2. /\ buffer[t] \in Seq(GoodUnit) /\ at[t] \in Nat /\ size[t] \in Nat /\ class[t] \in Types
        /\ file' \in Seq(GoodUnit) /\ bytes' \in Seq(GoodUnit) /\ DOMAIN outcome' = Threads
    BY <2>1, Same, ZeroIsGood
  <2> QED  BY <2>1, <2>2, MoveKeeps
<1>3. CASE SaveNoMemory(t)
  BY <1>3, EndWithoutMap DEF SaveNoMemory
<1>4. CASE Serialize(t)
  <2>1. held[t] # NoMap
    BY <1>4 DEF Serialize, FilesInv
  <2>2. held[t] \in Known
    BY <2>1, Same
  <2> DEFINE s == Written(held[t])
  <2>3. s \in Seq(GoodUnit)
    BY <2>2, WrittenIsGood
  <2>4. /\ "writing" \in Labels /\ pc' = [pc EXCEPT ![t] = "writing"]
        /\ buffer' = [buffer EXCEPT ![t] = s] /\ file' = file /\ bytes' = bytes
        /\ held' = held /\ at' = [at EXCEPT ![t] = 0]
        /\ size' = [size EXCEPT ![t] = size[t]] /\ class' = [class EXCEPT ![t] = class[t]]
        /\ outcome' = outcome
    BY <1>4, Same DEF Serialize, Labels
  <2> HIDE DEF s
  <2>5. /\ size[t] \in Nat /\ class[t] \in Types /\ 0 <= Len(s) /\ Len(s) \in Nat
        /\ file' \in Seq(GoodUnit) /\ bytes' \in Seq(GoodUnit) /\ DOMAIN outcome' = Threads
    BY <2>3, <2>4, Same, LenProperties
  <2> QED  BY <2>3, <2>4, <2>5, MoveKeeps
<1>5. CASE WriteChunk(t)
  BY <1>5, PassKeeps DEF WriteChunk
<1>6. CASE WriteFails(t)
  BY <1>6, EndWithoutMap DEF WriteFails
<1>7. CASE EndWrite(t)
  <2>1. /\ "closing" \in Labels /\ pc' = [pc EXCEPT ![t] = "closing"]
        /\ buffer' = [buffer EXCEPT ![t] = buffer[t]] /\ file' = file /\ bytes' = bytes
        /\ held' = held /\ at' = [at EXCEPT ![t] = at[t]]
        /\ size' = [size EXCEPT ![t] = size[t]] /\ class' = [class EXCEPT ![t] = class[t]]
        /\ outcome' = outcome /\ pc[t] = "writing"
    BY <1>7, Same DEF EndWrite, Labels
  <2>2. /\ buffer[t] \in Seq(GoodUnit) /\ at[t] \in Nat /\ size[t] \in Nat /\ class[t] \in Types
        /\ file' \in Seq(GoodUnit) /\ bytes' \in Seq(GoodUnit) /\ DOMAIN outcome' = Threads
    BY <2>1, Same
  <2>3. at[t] <= Len(buffer[t])
    BY <2>1 DEF FilesInv
  <2> QED  BY <2>1, <2>2, <2>3, MoveKeeps
<1>8. CASE CloseChunk(t)
  BY <1>8, PassKeeps DEF CloseChunk
<1>9. CASE Closed(t)
  BY <1>9, EndWithoutMap DEF Closed
<1>10. CASE CloseFails(t)
  BY <1>10, EndWithoutMap DEF CloseFails
<1>11. CASE ToBytes(t)
  <2>1. held[t] \in Known
    BY <1>11, Same DEF ToBytes
  <2>2. bytes' \in Seq(GoodUnit)
    BY <1>11, <2>1, WrittenIsGood DEF ToBytes
  <2>3. /\ UNCHANGED <<file, pc, held, class, buffer, size, at>>
        /\ outcome' = [outcome EXCEPT ![t] = "none"]
    BY <1>11 DEF ToBytes
  <2> QED  BY <2>2, <2>3 DEF FilesInv, FilesTypes
<1>12. CASE ToBytesNoMemory(t)
  BY <1>12, Same, UnchangedKeeps DEF ToBytesNoMemory
<1> QED  BY <1>1, <1>2, <1>3, <1>4, <1>5, <1>6, <1>7, <1>8, <1>9, <1>10, <1>11, <1>12

(* What a load of good units returns. *)
LEMMA LoadedIsKnown ==
  ASSUME NEW units \in Seq(GoodUnit), NEW type \in Types, Read(units, type).rc = Ok
  PROVE  /\ Read(units, type).map \in Known
         /\ ForeignIsRefused => Read(units, type).map \in Originals
<1>1. PICK m \in Known : /\ m.type = type /\ Read(units, type).map = m
                         /\ Checked(type) => HasFitParams(m)
  BY KnownAreStructs, ReadsOneOfThem DEF GoodUnit
<1>2. ForeignIsRefused => m \notin Foreign
  BY <1>1 DEF ForeignIsRefused
<1> QED  BY <1>1, <1>2 DEF Known

LEMMA LoadKeeps ==
  ASSUME FilesInv, NEW t \in Threads,
         \/ OpenToLoad(t) \/ LoadEmpty(t) \/ LoadNoMemory(t)
         \/ ReadChunk(t) \/ ShortRead(t) \/ EndLoad(t) \/ TakeBytes(t)
  PROVE  FilesInv'
<1>1. CASE OpenToLoad(t)
  <2>1. PICK type \in Types : class' = [class EXCEPT ![t] = type]
    BY <1>1 DEF OpenToLoad
  <2>2. /\ "reading" \in Labels /\ pc' = [pc EXCEPT ![t] = "reading"]
        /\ buffer' = [buffer EXCEPT ![t] = << >>] /\ file' = file /\ bytes' = bytes
        /\ held' = held /\ at' = [at EXCEPT ![t] = at[t]]
        /\ size' = [size EXCEPT ![t] = Len(file)]
        /\ outcome' = [outcome EXCEPT ![t] = "none"]
    BY <1>1, Same DEF OpenToLoad, Labels
  <2>3. /\ at[t] \in Nat /\ Len(file) \in Nat /\ << >> \in Seq(GoodUnit)
        /\ file' \in Seq(GoodUnit) /\ bytes' \in Seq(GoodUnit) /\ DOMAIN outcome' = Threads
    BY <2>2, Same, ZeroIsGood, LenProperties
  <2> QED  BY <2>1, <2>2, <2>3, MoveKeeps
<1>2. CASE LoadEmpty(t)
  BY <1>2, Same, UnchangedKeeps DEF LoadEmpty
<1>3. CASE LoadNoMemory(t)
  BY <1>3, EndWithoutMap DEF LoadNoMemory
<1>4. CASE ReadChunk(t)
  <2> DEFINE s == buffer[t]
             from == Len(buffer[t])
             end == ChunkEnd(from, size[t])
             part == SubSeq(file, from + 1, end)
  <2>1. /\ pc[t] = "reading" /\ from < size[t] /\ Len(file) >= end
        /\ buffer' = [buffer EXCEPT ![t] = s \o part]
        /\ UNCHANGED <<file, bytes, pc, held, class, size, at, outcome>>
    BY <1>4 DEF ReadChunk
  <2>2. s \in Seq(GoodUnit) /\ from \in Nat /\ size[t] \in Nat /\ file \in Seq(GoodUnit)
    BY Same
  <2>3. end \in Nat /\ from < end
    BY <2>1, <2>2, ChunkIsNext
  <2> HIDE DEF end, from
  <2>4. part \in Seq(GoodUnit)
    BY <2>1, <2>2, <2>3, PartIsGood
  <2> HIDE DEF part
  <2>5. s \o part \in Seq(GoodUnit)
    <3>1. s \in Seq(GoodUnit) /\ part \in Seq(GoodUnit)
      BY <2>2, <2>4
    <3> HIDE DEF s
    <3> QED  BY ONLY <3>1, Joined
  <2> DEFINE new == s \o part
  <2>6. new \in Seq(GoodUnit) /\ buffer' = [buffer EXCEPT ![t] = new]
    BY <2>1, <2>5
  <2> HIDE DEF new
  <2>7. /\ "reading" \in Labels /\ pc' = [pc EXCEPT ![t] = "reading"] /\ at' = [at EXCEPT ![t] = at[t]]
        /\ size' = [size EXCEPT ![t] = size[t]] /\ class' = [class EXCEPT ![t] = class[t]]
        /\ held' = held /\ at[t] \in Nat /\ size[t] \in Nat /\ class[t] \in Types
        /\ file' \in Seq(GoodUnit) /\ bytes' \in Seq(GoodUnit) /\ DOMAIN outcome' = Threads
    BY <2>1, Same DEF Labels
  <2> QED  BY <2>6, <2>7, MoveKeeps
<1>5. CASE ShortRead(t)
  BY <1>5, EndWithoutMap DEF ShortRead
<1>6. CASE EndLoad(t)
  <2> DEFINE read == Read(buffer[t], class[t])
  <2>1. /\ Return(t, IF read.rc = Ok THEN "none" ELSE read.rc)
        /\ held' = IF read.rc = Ok THEN [held EXCEPT ![t] = read.map] ELSE held
        /\ UNCHANGED <<file, bytes>>
    BY <1>6 DEF EndLoad
  <2>2. CASE read.rc = Ok
    <3>1. read.map \in Known
      BY <2>2, Same, LoadedIsKnown
    <3> HIDE DEF read
    <3>2. held' = [held EXCEPT ![t] = read.map]
      BY <2>1, <2>2
    <3> QED  BY <2>1, <3>1, <3>2, ReturnKeeps
  <2>3. CASE read.rc # Ok
    BY <2>1, <2>3, EndWithoutMap
  <2> QED  BY <2>2, <2>3
<1>7. CASE TakeBytes(t)
  <2>1. PICK type \in Types : class' = [class EXCEPT ![t] = type]
    BY <1>7 DEF TakeBytes
  <2>2. /\ "reading" \in Labels /\ pc' = [pc EXCEPT ![t] = "reading"]
        /\ buffer' = [buffer EXCEPT ![t] = bytes] /\ file' = file /\ bytes' = bytes
        /\ held' = held /\ at' = [at EXCEPT ![t] = at[t]]
        /\ size' = [size EXCEPT ![t] = Len(bytes)]
        /\ outcome' = [outcome EXCEPT ![t] = "none"]
    BY <1>7, Same DEF TakeBytes, Labels
  <2>3. /\ at[t] \in Nat /\ Len(bytes) \in Nat /\ bytes \in Seq(GoodUnit)
        /\ file' \in Seq(GoodUnit) /\ bytes' \in Seq(GoodUnit) /\ DOMAIN outcome' = Threads
    BY <2>2, Same, LenProperties
  <2> QED  BY <2>1, <2>2, <2>3, MoveKeeps
<1> QED  BY <1>1, <1>2, <1>3, <1>4, <1>5, <1>6, <1>7

LEMMA HarmKeeps ==
  ASSUME FilesInv, NEW new \in Seq(GoodUnit), Harm(new)
  PROVE  FilesInv'
<1>1. /\ file' = new
      /\ UNCHANGED <<bytes, pc, held, class, buffer, size, at, outcome>>
  BY DEF Harm
<1> QED  BY <1>1 DEF FilesInv, FilesTypes

LEMMA DamageKeeps ==
  ASSUME FilesInv,
         Crash \/ ReplacedByGo \/ ReplacedByOther \/ Truncated \/ Extended \/ Corrupted
  PROVE  FilesInv'
<1>0. file \in Seq(GoodUnit) /\ Len(file) \in Nat
  <2>1. file \in Seq(GoodUnit)
    BY DEF FilesInv, FilesTypes
  <2> QED  BY <2>1, LenProperties
<1>1. CASE Crash
  <2>1. /\ pc' = [t \in Threads |-> "idle"] /\ held' = [t \in Threads |-> NoMap]
        /\ buffer' = [t \in Threads |-> << >>] /\ outcome' = [t \in Threads |-> "none"]
        /\ size' = [t \in Threads |-> 0] /\ at' = [t \in Threads |-> 0]
        /\ class' = [t \in Threads |-> "constmap"] /\ bytes' = << >> /\ file' = file
    BY <1>1 DEF Crash
  <2>2. FilesTypes'
    BY <1>0, <2>1, ZeroIsGood DEF FilesTypes, Labels, Types
  <2>3. \A t \in Threads : pc'[t] = "idle"
    BY <2>1
  <2> QED  BY <2>2, <2>3 DEF FilesInv
<1>2. CASE ReplacedByGo
  <2>1. PICK m \in Maps : m.hash = "XXH64" /\ Harm(WrittenByGo(m))
    BY <1>2 DEF ReplacedByGo
  <2> QED  BY <2>1, GoWrittenIsGood, HarmKeeps
<1>3. CASE ReplacedByOther
  <2>1. PICK m \in Foreign : Harm(Written(m))
    BY <1>3 DEF ReplacedByOther
  <2>2. m \in Known
    BY DEF Known
  <2> QED  BY <2>1, <2>2, WrittenIsGood, HarmKeeps
<1>4. CASE Truncated
  <2>1. PICK len \in 1 .. (Len(file) - 1) : Harm(SubSeq(file, 1, len))
    BY <1>4 DEF Truncated
  <2>2. 1 \in 1 .. (Len(file) + 1) /\ len \in 0 .. Len(file) /\ 1 <= len + 1
    BY <1>0
  <2>3. SubSeq(file, 1, len) \in Seq(GoodUnit)
    BY <1>0, <2>2, PartOf
  <2> QED  BY <2>1, <2>3, HarmKeeps
<1>5. CASE Extended
  <2>1. Harm(file \o ZeroWord)
    BY <1>5 DEF Extended
  <2>2. ZeroWord \in Seq(GoodUnit)
    BY ZeroIsGood DEF ZeroWord
  <2>3. file \o ZeroWord \in Seq(GoodUnit)
    BY <1>0, <2>2, Joined
  <2> QED  BY <2>1, <2>3, HarmKeeps
<1>6. CASE Corrupted
  <2>1. PICK k \in DOMAIN file :
          Harm([file EXCEPT ![k] = IF file[k] = Num(0) THEN Tag("CMAP") ELSE Num(0)])
    BY <1>6 DEF Corrupted
  <2> DEFINE u == IF file[k] = Num(0) THEN Tag("CMAP") ELSE Num(0)
             new == [file EXCEPT ![k] = u]
  <2>2. u \in GoodUnit
    BY ZeroIsGood
  <2>3. file \in [1 .. Len(file) -> GoodUnit]
    BY <1>0, LenProperties
  <2> HIDE DEF u
  <2>4. new \in [1 .. Len(file) -> GoodUnit]
    BY <2>2, <2>3
  <2>5. new \in Seq(GoodUnit)
    BY <1>0, <2>4, SeqDef
  <2> QED  BY <2>1, <2>5, HarmKeeps DEF u
<1> QED  BY <1>1, <1>2, <1>3, <1>4, <1>5, <1>6

LEMMA FilesNext == FilesInv /\ [Next]_vars => FilesInv'
<1> SUFFICES ASSUME FilesInv, [Next]_vars PROVE FilesInv'
  OBVIOUS
<1>1. CASE UNCHANGED vars
  BY <1>1 DEF vars, FilesInv, FilesTypes
<1>2. CASE Finished
  BY <1>2 DEF Finished, vars, FilesInv, FilesTypes
<1> QED  BY <1>1, <1>2, SaveKeeps, LoadKeeps, DamageKeeps DEF Next

(* Each stored sum, in the file, in a buffer and in the bytes object, is that of *)
(* a map there is, which is also all that threads have.                      *)
THEOREM SumsAreOfMaps == Spec => []FilesInv
BY FilesInit, FilesNext, PTL DEF Spec

-----------------------------------------------------------------------------
(* What threads have. *)

(* A thread gets a map only by a load that accepts what it has read.         *)
LEMMA HeldNext ==
  ASSUME FilesInv, [Next]_vars, NEW t \in Threads
  PROVE  \/ held'[t] = held[t]
         \/ held'[t] = NoMap
         \/ \E units \in Seq(GoodUnit), type \in Types :
              Read(units, type).rc = Ok /\ held'[t] = Read(units, type).map
<1>1. CASE held' = held
  BY <1>1
<1>2. CASE Crash
  BY <1>2 DEF Crash
<1>3. ASSUME NEW u \in Threads, EndLoad(u)
      PROVE  \/ held'[t] = held[t]
             \/ \E units \in Seq(GoodUnit), type \in Types :
                  Read(units, type).rc = Ok /\ held'[t] = Read(units, type).map
  <2> DEFINE read == Read(buffer[u], class[u])
  <2>1. held' = IF read.rc = Ok THEN [held EXCEPT ![u] = read.map] ELSE held
    BY <1>3 DEF EndLoad
  <2>2. DOMAIN held = Threads /\ buffer[u] \in Seq(GoodUnit) /\ class[u] \in Types
    BY Same DEF FilesInv, FilesTypes
  <2>3. CASE read.rc = Ok /\ u = t
    <3>1. held'[t] = read.map
      BY <2>1, <2>2, <2>3
    <3> QED  BY <2>2, <2>3, <3>1
  <2>4. CASE read.rc # Ok \/ u # t
    <3> HIDE DEF read
    <3> QED  BY <2>1, <2>2, <2>4
  <2> QED  BY <2>3, <2>4
<1>4. CASE ReplacedByGo \/ ReplacedByOther \/ Truncated \/ Extended \/ Corrupted
  BY <1>1, <1>4 DEF ReplacedByGo, ReplacedByOther, Truncated, Extended, Corrupted, Harm
<1>5. ASSUME NEW u \in Threads,
             \/ OpenFails(u) \/ OpenToSave(u) \/ SaveNoMemory(u) \/ Serialize(u)
             \/ WriteChunk(u) \/ WriteFails(u) \/ EndWrite(u)
             \/ CloseChunk(u) \/ Closed(u) \/ CloseFails(u)
             \/ OpenToLoad(u) \/ LoadEmpty(u) \/ LoadNoMemory(u)
             \/ ReadChunk(u) \/ ShortRead(u)
             \/ ToBytes(u) \/ ToBytesNoMemory(u) \/ TakeBytes(u)
      PROVE  held' = held
  BY <1>5 DEF OpenFails, OpenToSave, SaveNoMemory, Serialize, WriteChunk, WriteFails, EndWrite,
              CloseChunk, Closed, CloseFails, OpenToLoad, LoadEmpty, LoadNoMemory, ReadChunk,
              ShortRead, ToBytes, ToBytesNoMemory, TakeBytes
<1>6. CASE Finished \/ UNCHANGED vars
  BY <1>1, <1>6 DEF Finished, vars
<1> QED  BY <1>1, <1>2, <1>3, <1>4, <1>5, <1>6 DEF Next

LEMMA LoadedNext == ForeignIsRefused /\ FilesInv /\ LoadedIsSaved /\ [Next]_vars => LoadedIsSaved'
<1> SUFFICES ASSUME ForeignIsRefused, FilesInv, LoadedIsSaved, [Next]_vars, NEW t \in Threads
             PROVE  held'[t] \in Originals \union {NoMap}
  BY DEF LoadedIsSaved
<1>1. held[t] \in Originals \union {NoMap}
  BY DEF LoadedIsSaved
<1> QED  BY <1>1, HeldNext, LoadedIsKnown

(* If what comes from elsewhere is refused, every map a program has is one    *)
(* that was built, or such a one as Go wrote it, whatever happens to the file.*)
THEOREM LoadsReturnSaved == ForeignIsRefused => (Spec => []LoadedIsSaved)
<1> SUFFICES ASSUME ForeignIsRefused PROVE Spec => []LoadedIsSaved
  OBVIOUS
<1>1. Init => LoadedIsSaved
  BY DEF Init, LoadedIsSaved, Originals
<1>2. FilesInv /\ LoadedIsSaved /\ [Next]_vars => LoadedIsSaved'
  BY LoadedNext
<1> QED  BY <1>1, <1>2, SumsAreOfMaps, PTL DEF Spec

LEMMA FitNext == ForeignIsChecked /\ FilesInv /\ LoadedParamsFit /\ [Next]_vars => LoadedParamsFit'
<1> SUFFICES ASSUME ForeignIsChecked, FilesInv, LoadedParamsFit, [Next]_vars,
                    NEW t \in Threads, held'[t] # NoMap
             PROVE  HasFitParams(held'[t])
  BY DEF LoadedParamsFit
<1>1. CASE held'[t] = held[t]
  BY <1>1 DEF LoadedParamsFit
<1>2. ASSUME NEW units \in Seq(GoodUnit), NEW type \in Types,
             Read(units, type).rc = Ok, held'[t] = Read(units, type).map
      PROVE  HasFitParams(held'[t])
  <2>1. PICK m \in Known : /\ m.type = type /\ Read(units, type).map = m
                           /\ Checked(type) => HasFitParams(m)
    BY <1>2, KnownAreStructs, ReadsOneOfThem DEF GoodUnit
  <2>2. HasFitParams(m)
    BY <2>1, OriginalsAreFit DEF ForeignIsChecked, Known
  <2> QED  BY <1>2, <2>1, <2>2
<1> QED  BY <1>1, <1>2, HeldNext

(* If only maps of a class whose reader looks at the parameters come with     *)
(* parameters that do not fit, those of every map a program has fit.         *)
THEOREM LoadsFit == ForeignIsChecked => (Spec => []LoadedParamsFit)
<1> SUFFICES ASSUME ForeignIsChecked PROVE Spec => []LoadedParamsFit
  OBVIOUS
<1>1. Init => LoadedParamsFit
  BY MapsAssumption DEF Init, LoadedParamsFit
<1>2. FilesInv /\ LoadedParamsFit /\ [Next]_vars => LoadedParamsFit'
  BY FitNext
<1> QED  BY <1>1, <1>2, SumsAreOfMaps, PTL DEF Spec

-----------------------------------------------------------------------------
(* What is refused. *)

LEMMA FormIsRead ==
  ASSUME NEW units \in Seq(GoodUnit), NEW m, IsStruct(m), HasFitParams(m),
         NEW f \in FormatsOf(m), Prefix(Summed(BodyIn(m, f)), units)
  PROVE  Read(units, m.type).rc = Ok
<1>1. \A s : s = Summed(BodyIn(m, f)) => Holds(units, m, f)
  BY SummedHolds DEF Prefix
<1>2. Holds(units, m, f)
  BY <1>1
<1>3. Read(units, m.type) = IF Checked(m.type) /\ ~ HasFitParams(m) THEN [rc |-> "FCM_E_INVALID_PARAMS"]
                           ELSE [rc |-> Ok, map |-> m]
  BY <1>2, ReadsBack
<1>4. Read(units, m.type) = [rc |-> Ok, map |-> m]
  BY <1>3
<1> QED  BY <1>4

LEMMA WholeIsRead ==
  ASSUME NEW units \in Seq(GoodUnit), NEW type, IsWhole(units, type)
  PROVE  Read(units, type).rc = Ok
<1>1. PICK m \in Originals : m.type = type /\ \E whole \in Serialized[m] : Prefix(whole, units)
  BY DEF IsWhole
<1>2. IsStruct(m) /\ HasFitParams(m)
  BY OriginalsAreFit
<1>3. Prefix(Written(m), units) \/ Prefix(WrittenByGo(m), units)
  BY <1>1 DEF Serialized
<1>4. CASE Prefix(Written(m), units)
  BY <1>1, <1>2, <1>4, WrittenIs, FormatUsed, FormIsRead
<1>5. CASE Prefix(WrittenByGo(m), units)
  <2>1. PICK u : /\ IsStruct(u) /\ HasFitParams(u) = HasFitParams(m) /\ u.type = m.type
                 /\ \E f \in FormatsOf(u) : WrittenByGo(m) = Summed(BodyIn(u, f))
    BY <1>2, GoForm
  <2> QED  BY <1>1, <1>2, <1>5, <2>1, FormIsRead
<1> QED  BY <1>3, <1>4, <1>5

LEMMA RefusesNext ==
  ASSUME FilesInv, [Next]_vars, NEW t \in Threads, outcome'[t] \in Refusals, outcome[t] = "none"
  PROVE  ~ IsWhole(buffer[t], class[t])
<1>1. DOMAIN outcome = Threads /\ buffer[t] \in Seq(GoodUnit)
  BY Same
<1>2. \A r \in Refusals : r \notin {"none", "error", "saved"}
  BY DEF Refusals
<1>3. CASE EndLoad(t)
  <2> DEFINE read == Read(buffer[t], class[t])
  <2>1. outcome' = [outcome EXCEPT ![t] = IF read.rc = Ok THEN "none" ELSE read.rc]
    BY <1>3 DEF EndLoad, Return
  <2> HIDE DEF read
  <2>2. read.rc # Ok
    BY <1>1, <1>2, <2>1
  <2> QED  BY <1>1, <2>2, WholeIsRead DEF read
<1>4. ASSUME NEW u \in Threads, NEW how, outcome' = [outcome EXCEPT ![u] = how],
             u # t \/ how \in {"none", "error", "saved"}
      PROVE  FALSE
  BY <1>1, <1>2, <1>4
<1>5. CASE UNCHANGED outcome
  BY <1>2, <1>5
<1>6. ASSUME NEW u \in Threads, EndLoad(u), u # t PROVE FALSE
  BY <1>4, <1>6 DEF EndLoad, Return
<1>7. CASE Crash
  BY <1>2, <1>7 DEF Crash
<1>8. ASSUME NEW u \in Threads,
             \/ OpenFails(u) \/ OpenToSave(u) \/ SaveNoMemory(u) \/ WriteFails(u)
             \/ Closed(u) \/ CloseFails(u) \/ OpenToLoad(u) \/ LoadEmpty(u) \/ LoadNoMemory(u)
             \/ ShortRead(u) \/ ToBytes(u) \/ ToBytesNoMemory(u) \/ TakeBytes(u)
      PROVE  FALSE
  <2>1. PICK how \in {"none", "error", "saved"} : outcome' = [outcome EXCEPT ![u] = how]
    BY <1>8 DEF OpenFails, OpenToSave, SaveNoMemory, WriteFails, Closed, CloseFails, OpenToLoad,
                LoadEmpty, LoadNoMemory, ShortRead, ToBytes, ToBytesNoMemory, TakeBytes, Return
  <2> QED  BY <1>4, <2>1
<1>9. ASSUME NEW u \in Threads,
             \/ Serialize(u) \/ WriteChunk(u) \/ EndWrite(u) \/ CloseChunk(u) \/ ReadChunk(u)
      PROVE  UNCHANGED outcome
  BY <1>9 DEF Serialize, WriteChunk, EndWrite, CloseChunk, ReadChunk
<1>10. CASE \/ ReplacedByGo \/ ReplacedByOther \/ Truncated \/ Extended \/ Corrupted
            \/ Finished \/ UNCHANGED vars
  BY <1>5, <1>10 DEF ReplacedByGo, ReplacedByOther, Truncated, Extended, Corrupted, Harm,
                     Finished, vars
<1> QED  BY <1>3, <1>5, <1>6, <1>7, <1>8, <1>9, <1>10 DEF Next

(* No load refuses the bytes of a whole map of its class, in whichever format *)
(* and however many more bytes there are.                                    *)
THEOREM LoadsRefuseOnlyBroken == Spec => RefusesOnlyBroken
<1>1. FilesInv /\ [Next]_vars =>
        [\A t \in Threads :
           outcome'[t] \in Refusals /\ outcome[t] = "none" => ~ IsWhole(buffer[t], class[t])]_vars
  BY RefusesNext
<1> QED  BY <1>1, SumsAreOfMaps, PTL DEF Spec, RefusesOnlyBroken
=============================================================================
