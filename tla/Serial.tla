------------------------------- MODULE Serial -------------------------------
(***************************************************************************)
(* The serialized form of the three kinds of map (constmap.c, from line     *)
(* 871): what the writers produce, what the readers and the views accept,   *)
(* and what they make of it.                                                *)
(*                                                                         *)
(* A buffer is a sequence of units of four bytes, the granularity at which  *)
(* headers differ (28 or 32 bytes) and arrays can be misaligned.  A word of  *)
(* 64 bits is two units.  The checksum is taken to have no collisions: its   *)
(* low half names the units it is of.                                        *)
(***************************************************************************)
EXTENDS Integers, Sequences

CONSTANTS Uint32            \* how many values a uint32_t has

ASSUME SerialAssumption == Uint32 \in Nat \ {0}

(* Units: a number, four characters of a magic, or half of a checksum. *)
Num(k) == [num |-> k]
Tag(s) == [tag |-> s]

(* The number in a unit.  One that is no number is larger than any buffer.   *)
NumOf(u) == IF "num" \in DOMAIN u THEN u.num ELSE Uint32 - 1

(* What the units of a word are: any number each. *)
Number    == 0 .. (Uint32 - 1)
NumUnit   == [num : Number]
WordUnits == NumUnit \X NumUnit

ZeroWord == <<Num(0), Num(0)>>

(* The units of a sequence of words. *)
Units(words) == [k \in 1 .. 2 * Len(words) |-> words[(k + 1) \div 2][((k - 1) % 2) + 1]]

(* The words of an even number of units. *)
WordsIn(units) == [k \in 1 .. (Len(units) \div 2) |-> <<units[2 * k - 1], units[2 * k]>>]

(* FNV-1a of some units.  No two high halves are told apart, so that readers  *)
(* accept at least what the code does.                                       *)
Sum(units) == <<[sum |-> units], [half |-> "high"]>>

Types == {"constmap", "verified", "paired"}

Format(a, b, hash, header) == [magic |-> <<Tag(a), Tag(b)>>, hash |-> hash, header |-> header]

(* Header sizes are in units: 32 bytes are 8 of them. *)
Formats == [type \in Types |->
  CASE type = "constmap" -> << Format("CMAP", "0003", "XXH64", 8),
                               Format("CMAP", "0001", "XXH64", 7),
                               Format("CMAP", "0002", "XXH3", 8) >>
    [] type = "verified" -> << Format("VMAP", "0001", "XXH64", 8),
                               Format("VCMP", "0002", "XXH3", 8) >>
    [] type = "paired"   -> << Format("PMAP", "0001", "XXH64", 8),
                               Format("PVCM", "0001", "XXH3", 8) >>]

(* Slip: the last one is taken. *)
FormatForLast(type, hash) ==
  LET fits == { k \in DOMAIN Formats[type] : Formats[type][k].hash = hash }
  IN Formats[type][CHOOSE k \in fits : \A other \in fits : k >= other]

(* The first format of the table with that hash. *)
FormatFor(type, hash) ==
  LET fits == { k \in DOMAIN Formats[type] : Formats[type][k].hash = hash }
  IN Formats[type][CHOOSE k \in fits : \A other \in fits : k <= other]

(* What one unit of data_len occupies. *)
EntryUnits(type) == IF type = "constmap" THEN 2 ELSE 4

TrailerUnits == 2

(***************************************************************************)
(* Writing                                                                  *)
(***************************************************************************)
Header(m, format, withCount) ==
  format.magic \o m.seed
    \o <<Num(m.segment_length), Num(m.segment_count), Num(m.data_len)>>
    \o (IF withCount THEN <<Num(m.n)>> ELSE << >>)

(* The slots of a paired map are its data and checks, alternating. *)
Interleaved(m) ==
  [k \in 1 .. 2 * m.data_len |-> IF k % 2 = 1 THEN m.data[(k + 1) \div 2] ELSE m.checks[k \div 2]]

ConstmapUnits(m) == Units(m.data)
VerifiedUnits(m) == Units(m.data) \o Units(m.checks)
PairedUnits(m)   == Units(Interleaved(m))

Arrays(m) ==
  CASE m.type = "constmap" -> ConstmapUnits(m)
    [] m.type = "verified" -> VerifiedUnits(m)
    [] m.type = "paired"   -> PairedUnits(m)

SerializedSize(m) == 8 + m.data_len * EntryUnits(m.type) + TrailerUnits

Summed(units) == units \o Sum(units)

Written(m) == Summed(Header(m, FormatFor(m.type, m.hash), TRUE) \o Arrays(m))

(* What the Go and Rust packages write of a map: no count, and for a plain   *)
(* map no room for one.                                                      *)
WrittenByGo(m) ==
  IF m.type = "constmap"
  THEN Summed(Header(m, Formats["constmap"][2], FALSE) \o Arrays(m))
  ELSE Written([m EXCEPT !.n = 0])

(***************************************************************************)
(* Reading                                                                  *)
(***************************************************************************)
Ok == "FCM_OK"

Matching(units, type) ==
  { k \in DOMAIN Formats[type] : SubSeq(units, 1, 2) = Formats[type][k].magic }

(* fcm_parse: the header, if the buffer holds the whole map and its sum. *)
Expected(format, data_len, type) == format.header + data_len * EntryUnits(type) + TrailerUnits

ParsedHeader(units, format) ==
  [format         |-> format,
   seed           |-> SubSeq(units, 3, 4),
   segment_length |-> NumOf(units[5]),
   segment_count  |-> NumOf(units[6]),
   data_len       |-> NumOf(units[7]),
   n              |-> IF format.header = 8 THEN NumOf(units[8]) ELSE 0]

(* Slip: the comparison of the sums is left out. *)
SumMatchesAlways(units, expected) == TRUE

SumMatches(units, expected) ==
  SubSeq(units, expected - 1, expected) = Sum(SubSeq(units, 1, expected - TrailerUnits))

Parse(units, type) ==
  IF Len(units) < 2 THEN [rc |-> "FCM_E_SHORT_BUFFER"]
  ELSE IF Matching(units, type) = {} THEN [rc |-> "FCM_E_INVALID_FORMAT"]
  ELSE LET format == Formats[type][CHOOSE k \in Matching(units, type) : TRUE] IN
       IF Len(units) < format.header + TrailerUnits THEN [rc |-> "FCM_E_SHORT_BUFFER"]
       ELSE LET h        == ParsedHeader(units, format)
                expected == Expected(format, h.data_len, type)
            IN IF Len(units) < expected THEN [rc |-> "FCM_E_SHORT_BUFFER"]
               ELSE IF ~ SumMatches(units, expected) THEN [rc |-> "FCM_E_CHECKSUM"]
               ELSE [rc |-> Ok, header |-> h]

(* fcm_paired_params_ok: the parameters describe exactly that many slots.    *)
(* The product is computed in 64 bits.                                       *)
IsPowerOfTwo(k) == \E e \in 0 .. k : k = 2^e

ParamsOk(segment_length, segment_count, slot_count) ==
  \/ slot_count = 0
  \/ /\ IsPowerOfTwo(segment_length)
     /\ segment_count # 0
     /\ (segment_count + 2) * segment_length = slot_count

(* Slip: no reader checks the parameters. *)
CheckedNever(type) == FALSE

(* Which readers check the parameters. *)
Checked(type) == type = "paired"

(* Slip: the mask is left as memset made it. *)
MaskUnset(segment_length) == 0

(* What fcm_*_set_header makes of the header: two fields are not in it.      *)
Mask(segment_length) == IF segment_length # 0 THEN segment_length - 1 ELSE 0

CountLength(segment_count, segment_length) == (segment_count * segment_length) % Uint32

(* The arrays, out of the words of the payload. *)
ConstmapArrays(words) == [data |-> words, checks |-> << >>]

VerifiedArrays(words) ==
  LET len == Len(words) \div 2
  IN  [data |-> SubSeq(words, 1, len), checks |-> SubSeq(words, len + 1, 2 * len)]

PairedArrays(words) ==
  LET slots == 1 .. (Len(words) \div 2)
  IN  [data |-> [k \in slots |-> words[2 * k - 1]], checks |-> [k \in slots |-> words[2 * k]]]

ArraysIn(type, words) ==
  CASE type = "constmap" -> ConstmapArrays(words)
    [] type = "verified" -> VerifiedArrays(words)
    [] type = "paired"   -> PairedArrays(words)

MapOf(type, h, units) ==
  LET payload == SubSeq(units, h.format.header + 1,
                        h.format.header + h.data_len * EntryUnits(type))
      arrays  == ArraysIn(type, WordsIn(payload))
  IN [type                 |-> type,
      hash                 |-> h.format.hash,
      seed                 |-> h.seed,
      segment_length       |-> h.segment_length,
      segment_length_mask  |-> Mask(h.segment_length),
      segment_count        |-> h.segment_count,
      segment_count_length |-> CountLength(h.segment_count, h.segment_length),
      data_len             |-> h.data_len,
      n                    |-> h.n,
      data                 |-> arrays.data,
      checks               |-> arrays.checks]

(* fcm_*_read; running out of memory is up to the caller's model. *)
Read(units, type) ==
  LET parsed == Parse(units, type)
  IN IF parsed.rc # Ok THEN parsed
     ELSE IF Checked(type)
             /\ ~ ParamsOk(parsed.header.segment_length, parsed.header.segment_count,
                           parsed.header.data_len)
          THEN [rc |-> "FCM_E_INVALID_PARAMS"]
     ELSE [rc |-> Ok, map |-> MapOf(type, parsed.header, units)]

(* fcm_*_view of a buffer that starts that many units after an aligned       *)
(* address: as a read, but the payload has to be aligned to eight bytes.     *)
View(units, type, offset) ==
  LET read == Read(units, type)
  IN IF read.rc = Ok /\ (offset + Parse(units, type).header.format.header) % 2 # 0
     THEN [rc |-> "FCM_E_UNALIGNED"]
     ELSE read

(***************************************************************************)
(* What there is to store                                                   *)
(***************************************************************************)
(* A struct in memory, built or read.                                        *)
IsStruct(m) ==
  /\ m \in [type : Types, hash : {"XXH64", "XXH3"}, seed : WordUnits,
            segment_length : Number, segment_length_mask : Number,
            segment_count : Number, segment_count_length : Number,
            data_len : Number, n : Number, data : Seq(WordUnits), checks : Seq(WordUnits)]
  /\ m.segment_length_mask = Mask(m.segment_length)
  /\ m.segment_count_length = CountLength(m.segment_count, m.segment_length)
  /\ Len(m.data) = m.data_len
  /\ Len(m.checks) = IF m.type = "constmap" THEN 0 ELSE m.data_len

HasFitParams(m) == ParamsOk(m.segment_length, m.segment_count, m.data_len)

(* The formats that can hold it: one that has no count only if it has none.  *)
FormatsOf(m) ==
  { f \in { Formats[m.type][k] : k \in DOMAIN Formats[m.type] } :
      f.hash = m.hash /\ (f.header = 7 => m.n = 0) }

BodyIn(m, format) == Header(m, format, format.header = 8) \o Arrays(m)

(* The units of a buffer in which every sum is that of one of some maps.     *)
Tags == {"CMAP", "VMAP", "VCMP", "PMAP", "PVCM", "0001", "0002", "0003"}

PlainUnit == NumUnit \union [tag : Tags]

SumsOf(maps) == UNION { { [sum |-> BodyIn(m, f)] : f \in FormatsOf(m) } : m \in maps }

UnitsOf(maps) == PlainUnit \union { [half |-> "high"] } \union SumsOf(maps)
=============================================================================
