----------------------------- MODULE SharedBlock ----------------------------
(***************************************************************************)
(* write_into over a block of memory that processes share, and from_buffer   *)
(* and from_bytes, which look keys up in the block and in a copy of it.      *)
(*                                                                         *)
(* A producer writes a serialized map into the block, front to back, with   *)
(* the sum of what the block then holds at the end.  It may die on the way,  *)
(* and another one then starts over.  Nothing tells a consumer when to       *)
(* attach: it parses the block one unit at a time while it may be written.   *)
(* fcm_parse reads the header first, then the stored sum, and then sums the  *)
(* block again; from_bytes then reads the arrays once more, to copy them.    *)
(* Consumers only read, so one is enough; it may try again.                  *)
(***************************************************************************)
EXTENDS Serial

CONSTANTS Maps,             \* the maps a producer may have
          Foreign,          \* maps that are consistent but not ours
          BlockUnits,       \* the size of the block
          Offsets,          \* where a mapping of the block may start, in units
                            \* from an address that is a multiple of eight
          MaxProducers      \* bound on the producers

ASSUME SharedBlockAssumption ==
  /\ BlockUnits \in Nat /\ BlockUnits >= 10   \* room for any header and the sum
  /\ Offsets \subseteq {0, 1}
  /\ MaxProducers \in Nat

ASSUME MapsAssumption ==
  /\ \A m \in Maps : IsStruct(m) /\ HasFitParams(m)
  /\ \A m \in Foreign : IsStruct(m)

VARIABLES
  block,            \* what is in it
  source,           \* the map being written
  at,               \* how many units of it are
  producers,        \* how many producers there have been
  published,        \* the map write_into has returned for
  pc,               \* what the consumer is doing
  class,            \* the class from_buffer or from_bytes is called on
  copying,          \* whether it is from_bytes: looked at after the sum
  offset,           \* where the consumer has the block: looked at last
  late,             \* whether it was called after write_into had returned
  seen,             \* the units of the header it has read
  stored,           \* the units of the stored sum it has read
  summed,           \* how far it has summed, without finding a difference
  copied,           \* the units of the arrays it has copied
  result            \* what it returned

producerVars == <<source, at, producers, published>>
consumerVars == <<pc, class, copying, offset, late, seen, stored, summed, copied, result>>
vars == <<block, producerVars, consumerVars>>

NoMap == [type |-> "none"]

(* Units at the start of a block that is zero otherwise. *)
Filled(units) == [k \in 1 .. BlockUnits |-> IF k <= Len(units) THEN units[k] ELSE Num(0)]

(* A new block is all zeroes.  Or it is what the Go package has written: the  *)
(* header of a plain map is then 28 bytes long.  Or it has the right sum and  *)
(* parameters that need not fit.                                             *)
Fits(m) == SerializedSize(m) <= BlockUnits

Init ==
  /\ \/ /\ block = Filled(<< >>)
        /\ published = NoMap
     \/ \E m \in { x \in Maps : Fits(x) } :
          /\ m.hash = "XXH64"
          /\ block = Filled(WrittenByGo(m))
          /\ published = [m EXCEPT !.n = 0]
     \/ \E m \in { x \in Foreign : Fits(x) } :
          /\ block = Filled(Written(m))
          /\ published = m
  /\ source = NoMap
  /\ at = 0
  /\ producers = 0
  /\ pc = "idle"
  /\ class = "constmap"
  /\ copying = FALSE
  /\ offset = 0
  /\ late = FALSE
  /\ seen = << >>
  /\ stored = << >>
  /\ summed = 0
  /\ copied = << >>
  /\ result = "none"

(***************************************************************************)
(* The producer: write_into, once                                           *)
(***************************************************************************)
StartWrite ==
  /\ source = NoMap
  /\ published = NoMap
  /\ producers < MaxProducers
  /\ \E m \in Maps : Fits(m) /\ source' = m
  /\ at' = 0
  /\ producers' = producers + 1
  /\ UNCHANGED <<block, published, consumerVars>>

(* A map that is too large for the block is refused before anything of it is *)
(* written.                                                                  *)
RefuseWrite ==
  /\ source = NoMap
  /\ published = NoMap
  /\ producers < MaxProducers
  /\ \E m \in Maps : ~ Fits(m)
  /\ producers' = producers + 1
  /\ UNCHANGED <<block, source, at, published, consumerVars>>

(* What write_into serializes of each map. *)
Serialized == [m \in Maps |-> Written(m)]

Body(m) == SerializedSize(m) - TrailerUnits

(* The unit to write next.  The sum is of the block as it is. *)
NextUnit ==
  IF at < Body(source) THEN Serialized[source][at + 1]
  ELSE Sum(SubSeq(block, 1, Body(source)))[at + 1 - Body(source)]

WriteUnit ==
  /\ source # NoMap
  /\ at < SerializedSize(source)
  /\ block' = [block EXCEPT ![at + 1] = NextUnit]
  /\ at' = at + 1
  /\ UNCHANGED <<source, producers, published, consumerVars>>

EndWrite ==
  /\ source # NoMap
  /\ at = SerializedSize(source)
  /\ published' = source
  /\ source' = NoMap
  /\ at' = 0
  /\ UNCHANGED <<block, producers, consumerVars>>

ProducerDies ==
  /\ source # NoMap
  /\ source' = NoMap
  /\ at' = 0
  /\ UNCHANGED <<block, producers, published, consumerVars>>

(***************************************************************************)
(* The consumer: from_buffer or from_bytes                                  *)
(***************************************************************************)
Return(rc) ==
  /\ result' = rc
  /\ pc' = "idle"
  /\ stored' = << >>
  /\ summed' = 0
  /\ seen' = IF rc = Ok THEN seen ELSE << >>
  /\ copied' = IF rc = Ok THEN copied ELSE << >>
  /\ UNCHANGED <<block, producerVars, class, late>>

(* A map once opened is kept.  After an error it may try again.              *)
Open ==
  /\ pc = "idle"
  /\ result # Ok
  /\ result' = "none"
  /\ class' \in Types
  /\ copying' = FALSE
  /\ offset' = 0
  /\ late' = (published # NoMap)
  /\ pc' = "magic"
  /\ UNCHANGED <<block, producerVars, seen, stored, summed, copied>>

NoMemory ==
  /\ pc = "magic"
  /\ Return("FCM_E_NOMEM")
  /\ UNCHANGED <<copying, offset>>

Recognised == Matching(block, class)

OpenUnknown ==
  /\ pc = "magic"
  /\ Recognised = {}
  /\ Return("FCM_E_INVALID_FORMAT")
  /\ UNCHANGED <<copying, offset>>

ReadMagic ==
  /\ pc = "magic"
  /\ Recognised # {}
  /\ seen' = SubSeq(block, 1, 2)
  /\ pc' = "header"
  /\ UNCHANGED <<block, producerVars, class, copying, offset, late, stored, summed, copied, result>>

TheFormat == Formats[class][CHOOSE k \in Matching(seen, class) : TRUE]

ReadHeader ==
  /\ pc = "header"
  /\ Len(seen) < TheFormat.header
  /\ seen' = Append(seen, block[Len(seen) + 1])
  /\ UNCHANGED <<block, producerVars, pc, class, copying, offset, late, stored, summed, copied, result>>

HeaderRead == pc = "header" /\ Len(seen) = TheFormat.header

SeenHeader == ParsedHeader(seen, TheFormat)

SeenExpected == Expected(TheFormat, SeenHeader.data_len, class)

OpenShort ==
  /\ HeaderRead
  /\ BlockUnits < SeenExpected
  /\ Return("FCM_E_SHORT_BUFFER")
  /\ UNCHANGED <<copying, offset>>

ReadStored ==
  /\ HeaderRead
  /\ SeenExpected <= BlockUnits
  /\ Len(stored) < TrailerUnits
  /\ stored' = Append(stored, block[SeenExpected - TrailerUnits + Len(stored) + 1])
  /\ UNCHANGED <<block, producerVars, pc, class, copying, offset, late, seen, summed, copied, result>>

StoredRead == HeaderRead /\ Len(stored) = TrailerUnits

SumLength == SeenExpected - TrailerUnits

(* Sums have no collisions: they agree if the stored one is that of the units *)
(* that are in the block when they are read, one after the other.            *)
Claimed ==
  IF "sum" \in DOMAIN stored[1] /\ stored = Sum(stored[1].sum) THEN stored[1].sum ELSE << >>

(* Slip: the sums are not compared. *)
SameUnitAlways(k) == TRUE

SameUnit(k) == Len(Claimed) = SumLength /\ Claimed[k] = block[k]

SumNext ==
  /\ StoredRead
  /\ summed < SumLength
  /\ SameUnit(summed + 1)
  /\ summed' = summed + 1
  /\ UNCHANGED <<block, producerVars, pc, class, copying, offset, late, seen, stored, copied, result>>

(* Nothing that is read after a difference can make the sums agree again.    *)
OpenDifferent ==
  /\ StoredRead
  /\ summed < SumLength
  /\ ~ SameUnit(summed + 1)
  /\ Return("FCM_E_CHECKSUM")
  /\ UNCHANGED <<copying, offset>>

SumRead == StoredRead /\ summed = SumLength

ParamsFit ==
  ~ Checked(class) \/ ParamsOk(SeenHeader.segment_length, SeenHeader.segment_count, SeenHeader.data_len)

(* Slip: the address of the buffer is looked at, not that of its payload.    *)
BufferAligned(start) == start % 2 = 0

Aligned(start) == (start + TheFormat.header) % 2 = 0

RefuseParams ==
  /\ SumRead
  /\ ~ ParamsFit
  /\ Return("FCM_E_INVALID_PARAMS")
  /\ UNCHANGED <<copying, offset>>

(* from_buffer keeps pointing to the arrays where they are. *)
EndOpen ==
  /\ SumRead
  /\ ParamsFit
  /\ ~ copying
  /\ offset' \in Offsets
  /\ Return(IF Aligned(offset') THEN Ok ELSE "FCM_E_UNALIGNED")
  /\ UNCHANGED copying

(* Slip: every header is taken to be one the library writes. *)
PayloadAt8 == 8

(* The arrays follow the header. *)
Payload == TheFormat.header

ArrayUnits == SeenHeader.data_len * EntryUnits(class)

(* from_bytes copies them.  (In what order is not told apart: with a single   *)
(* producer they no longer change.)                                          *)
CopyNext ==
  /\ SumRead
  /\ ParamsFit
  /\ Len(copied) < ArrayUnits
  /\ copying' = TRUE
  /\ copied' = Append(copied, block[Payload + Len(copied) + 1])
  /\ UNCHANGED <<block, producerVars, pc, class, offset, late, seen, stored, summed, result>>

CopyNoMemory ==
  /\ SumRead
  /\ ParamsFit
  /\ ~ copying
  /\ ArrayUnits > 0
  /\ copying' = TRUE
  /\ Return("FCM_E_NOMEM")
  /\ UNCHANGED offset

EndCopy ==
  /\ SumRead
  /\ ParamsFit
  /\ Len(copied) = ArrayUnits
  /\ copying' = TRUE
  /\ Return(Ok)
  /\ UNCHANGED offset

Idle ==
  /\ pc = "idle"
  /\ source = NoMap
  /\ UNCHANGED vars

Produce == StartWrite \/ RefuseWrite \/ WriteUnit \/ EndWrite \/ ProducerDies

Consume ==
  \/ Open \/ NoMemory \/ OpenUnknown \/ ReadMagic \/ ReadHeader \/ OpenShort \/ ReadStored
  \/ SumNext \/ OpenDifferent \/ RefuseParams \/ EndOpen
  \/ CopyNext \/ CopyNoMemory \/ EndCopy

Next == Produce \/ Consume \/ Idle

Spec == Init /\ [][Next]_vars

(***************************************************************************)
(* Properties                                                               *)
(***************************************************************************)
(* What a map may look like in the block. *)
Images(m) == {Written(m), WrittenByGo(m)}

(* What from_buffer and from_bytes verify the sum of, when they accept a      *)
(* block, was a whole map: never a block that a producer is filling or has    *)
(* died over, nor some of two maps.                                          *)
AcceptsOnlyWhole ==
  [][result' = Ok /\ result # Ok =>
       \E m \in Maps : \E units \in Images(m) :
         stored = SubSeq(units, Len(units) - 1, Len(units))]_vars

(* With a single producer nothing is written once a consumer has accepted the *)
(* block, although it may have begun while the block was being written: a     *)
(* view goes on reading a whole map, and a copy has the arrays of that map.   *)
AcceptedStaysWhole ==
  result = Ok /\ producers <= 1 =>
    \E m \in { x \in Maps : Fits(x) } : \E units \in Images(m) :
      /\ SubSeq(block, 1, Len(units)) = units
      /\ copying => copied = Arrays(m)

(* Called after write_into has returned, in any process, from_buffer returns  *)
(* exactly what it was given, if it is of the class asked for and the payload *)
(* is aligned, and otherwise says what is wrong; so does from_bytes, which     *)
(* does not depend on the alignment.                                         *)
LateOpenIsRight ==
  late /\ pc = "idle" /\ result \notin {"none", "FCM_E_NOMEM"} =>
    LET right == IF copying THEN Read(block, class) ELSE View(block, class, offset)
    IN  /\ result = right.rc
        /\ result = "FCM_E_INVALID_FORMAT" <=> class # published.type
        /\ result = Ok =>
             /\ right.map = published
             /\ seen = SubSeq(block, 1, Len(seen))
             /\ copying => copied = Arrays(published)

(* The seed and the parameters that the lookups of an accepted map use are    *)
(* those of the block whose sum was verified.                                *)
AcceptedHeaderIsWhole ==
  result = Ok /\ pc = "idle" =>
    \E m \in Maps : \E units \in Images(m) : SubSeq(seen, 1, 7) = SubSeq(units, 1, 7)
=============================================================================
