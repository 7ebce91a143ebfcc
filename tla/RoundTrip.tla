------------------------------ MODULE RoundTrip -----------------------------
(***************************************************************************)
(* What the constructors build (module Build), put through the serialized   *)
(* form (module Serial): written, and read or viewed by another program.    *)
(* Only some fields of a struct are written.  The reader makes up the       *)
(* others, and looks keys up with what it made up.                          *)
(***************************************************************************)
EXTENDS Build, Serial

CONSTANTS UnitBits          \* the bits of a word in one unit (32)

UnitValues == 2^UnitBits

(* In the program a unit has no room for more. *)
ASSUME RoundTripAssumption ==
  /\ UnitValues \in 1 .. Uint32
  /\ 2^WordBits <= UnitValues * UnitValues

(* A word in two units, the low half first, and back. *)
AsUnits(w) == <<Num(w % UnitValues), Num(w \div UnitValues)>>
AsWord(u)  == u[1].num + UnitValues * u[2].num

(* The seed is known by what it does to the keys: it has any eight bytes. *)
Seed == <<Num(0), Num(1)>>

InUnits(table) == [c \in 1 .. out.data_len |-> AsUnits(table[c - 1])]

(* The struct, with the two fields that Build and Geometry write out.        *)
Struct ==
  [type |-> kind, hash |-> out.hash, seed |-> Seed,
   segment_length       |-> out.params.segment_length,
   segment_length_mask  |-> IF out.data_len = 0 THEN 0 ELSE out.params.segment_length - 1,
   segment_count        |-> out.params.segment_count,
   segment_count_length |-> out.params.segment_count * out.params.segment_length,
   data_len             |-> out.data_len,
   n                    |-> out.n,
   data                 |-> InUnits(out.data),
   checks               |-> IF kind = "constmap" THEN << >> ELSE InUnits(out.checks)]

(* fcm_get_h012 from the fields of a struct that was read. *)
CellsIn(m, h) ==
  LET h0 == MulHigh(h, m.segment_count_length)
      h1 == h0 + m.segment_length
  IN << h0,
        Xor(h1, (h \div 2^HashShift) % (m.segment_length_mask + 1)),
        Xor(h1 + m.segment_length, h % (m.segment_length_mask + 1)) >>

XorIn(table, cells) ==
  Xor(Xor(AsWord(table[cells[1] + 1]), AsWord(table[cells[2] + 1])), AsWord(table[cells[3] + 1]))

(* The lookup in a struct that was read, for a key whose mixed hash is h. *)
LookupIn(m, h) ==
  IF m.data_len = 0 THEN IF m.type = "constmap" THEN 0 ELSE NOT_FOUND
  ELSE IF m.type # "constmap" /\ XorIn(m.checks, CellsIn(m, h)) # Fingerprint(h) THEN NOT_FOUND
  ELSE XorIn(m.data, CellsIn(m, h))

(* A key has the mixed hash it was built with only under the hash and the   *)
(* seed it was built with (fcm_hash_key and fcm_hash_block pick the hash).  *)
MixesAlike(m) == m.hash = out.hash /\ m.seed = Seed

(* A map that was built, empty or not, resized or not, is accepted when it  *)
(* is read or viewed, has the size that was announced for it, and answers   *)
(* then exactly as it does now, keys that were never given to it included.  *)
RoundTripKeepsAnswers ==
  (stage = "returned" /\ result = "OK") =>
    LET units == Written(Struct)
        read  == Read(units, kind)
    IN  /\ Len(units) = SerializedSize(Struct)
        /\ read.rc = Ok
        /\ read = View(units, kind, 0)
        /\ read.map.n = out.n
        /\ MixesAlike(read.map)
        /\ \A h \in Word : LookupIn(read.map, h) = Lookup(out, h)
=============================================================================
