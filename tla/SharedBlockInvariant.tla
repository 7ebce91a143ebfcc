------------------------ MODULE SharedBlockInvariant -----------------------
(***************************************************************************)
(* Why a consumer accepts only whole maps.  Whoever has written the block,   *)
(* each stored sum in it is that of a whole image of a map.  Once            *)
(* write_into has returned the block is still, and all a consumer reads is    *)
(* what is in it.  And with one producer the block is still from the moment   *)
(* the end of the sum is in it, which a consumer has to find before it sums.  *)
(***************************************************************************)
EXTENDS SharedBlock

FitMaps == { m \in Maps : Fits(m) }

Half == [half |-> "high"]

(* The unit of an image that names what it sums. *)
SumUnit(units) == units[Len(units) - 1]

OurUnit == PlainUnit \union {Half}
             \union { SumUnit(units) : units \in UNION { Images(m) : m \in Maps } }

GoodUnit == OurUnit \union { SumUnit(Written(m)) : m \in Foreign }

Prefix(units) == Len(units) <= BlockUnits /\ SubSeq(block, 1, Len(units)) = units

BlockInv ==
  /\ block \in [1 .. BlockUnits -> GoodUnit]
  /\ published \notin Foreign => block \in [1 .. BlockUnits -> OurUnit]
  /\ producers \in Nat

WriterInv ==
  source # NoMap =>
    /\ source \in FitMaps
    /\ published = NoMap
    /\ producers >= 1
    /\ at \in 0 .. SerializedSize(source)
    /\ \A k \in 1 .. at : block[k] = Written(source)[k]

(* A map that was there from the beginning, or whose write_into has returned. *)
PublishedInv ==
  published # NoMap =>
    /\ source = NoMap
    /\ IsStruct(published)
    /\ \E f \in FormatsOf(published) : Prefix(Summed(BodyIn(published, f)))
    /\ \/ published \in Foreign /\ producers = 0
       \/ /\ HasFitParams(published)
          /\ \E m \in FitMaps : /\ \E units \in Images(m) : Prefix(units)
                                /\ Arrays(m) = Arrays(published)

Given == published # NoMap /\ producers = 0

(* The first units of a map, and zeroes. *)
Drafted(m, len) ==
  \A k \in 1 .. BlockUnits : block[k] = IF k <= len THEN Written(m)[k] ELSE Num(0)

AloneInv ==
  producers <= 1 /\ ~ Given =>
    \/ /\ source = NoMap
       /\ \A k \in 1 .. BlockUnits : block[k] = Num(0)
    \/ /\ producers = 1
       /\ \E m \in FitMaps : \E len \in 0 .. SerializedSize(m) :
            /\ Drafted(m, len)
            /\ source # NoMap => source = m /\ at = len

ProducerInv == BlockInv /\ WriterInv /\ PublishedInv /\ AloneInv

ConsumerTypes ==
  /\ pc \in {"idle", "magic", "header"}
  /\ class \in Types
  /\ copying \in BOOLEAN
  /\ offset \in {0, 1}
  /\ late \in BOOLEAN
  /\ seen \in Seq(GoodUnit)
  /\ stored \in Seq(GoodUnit)
  /\ published \notin Foreign => stored \in Seq(OurUnit)
  /\ summed \in Nat
  /\ copied \in Seq(GoodUnit)

(* How far a consumer has come. *)
PointInv ==
  /\ pc # "idle" => result = "none"
  /\ pc # "header" => stored = << >> /\ summed = 0
  /\ pc = "magic" => ~ copying /\ seen = << >> /\ copied = << >>
  /\ pc = "idle" /\ result # Ok => seen = << >> /\ copied = << >>
  /\ pc = "header" =>
       Matching(seen, class) # {} /\ 2 <= Len(seen) /\ Len(seen) <= TheFormat.header
  /\ stored # << >> =>
       Len(seen) = TheFormat.header /\ SeenExpected <= BlockUnits /\ Len(stored) <= TrailerUnits
  /\ summed > 0 =>
       Len(stored) = TrailerUnits /\ Len(Claimed) = SumLength /\ summed <= SumLength
  /\ pc = "header" /\ (copying \/ copied # << >>) =>
       copying /\ SumRead /\ ParamsFit /\ Len(copied) <= ArrayUnits

(* Nothing has been written since it called, if write_into had returned.     *)
LateInv ==
  /\ late => published # NoMap
  /\ Given /\ pc # "idle" => late
  /\ late /\ pc = "header" =>
       /\ \A k \in 1 .. Len(seen) : seen[k] = block[k]
       /\ \A k \in 1 .. Len(stored) : stored[k] = block[SeenExpected - TrailerUnits + k]

InBlock(u) == \E k \in 1 .. BlockUnits : block[k] = u

HasHalf == InBlock(Half)

(* Nor, with one producer, over anything but zeroes.                        *)
EarlyInv ==
  producers <= 1 /\ pc = "header" =>
    /\ seen[1] = block[1] /\ seen[2] = block[2]
    /\ \A k \in 1 .. Len(stored) : stored[k] = Num(0) \/ InBlock(stored[k])

CopiedInv ==
  pc = "header" /\ (late \/ producers <= 1) =>
    \A k \in 1 .. Len(copied) : copied[k] = block[Payload + k]

ConsumerInv == ConsumerTypes /\ PointInv /\ LateInv /\ EarlyInv /\ CopiedInv

SharedInv == ProducerInv /\ ConsumerInv
=============================================================================
