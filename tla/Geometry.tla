------------------------------ MODULE Geometry ------------------------------
(***************************************************************************)
(* Where a hash lives in the array: the three cells of fcm_get_h012, the    *)
(* formula by which fcm_peel finds two of them from the third, and the      *)
(* parameters (fcm_params_t) they are computed from.                        *)
(*                                                                         *)
(* An array of array_len cells is cut into segments of segment_length       *)
(* cells.  A hash has one cell in each of three consecutive segments; it is *)
(* the cell's number 0, 1, 2 in that order that the program calls `found'.  *)
(*                                                                         *)
(* segment_length_mask and segment_count_length are always assigned with    *)
(* the two fields they derive from, so they are written out here as         *)
(* segment_length - 1 and segment_count * segment_length; a mask by the     *)
(* former is a remainder because segment_length is a power of two.          *)
(***************************************************************************)
EXTENDS Words, Sequences, FiniteSets

CONSTANTS MaxSize,          \* sizes are 1 .. MaxSize
          SegmentLength,    \* fcm_calculate_segment_length, capped: [1 .. MaxSize -> power of two]
          Capacity,         \* round(size * fcm_calculate_size_factor(size)), 0 for size 1
          HashShift,        \* the bits by which the hash is shifted for cell 1 (18)
          ResizeAbove,      \* segments are resized only for sizes above this (4) ...
          ResizeBelow       \* ... and below this (1000000)

Sizes == 1 .. MaxSize

Positions == 0 .. 2         \* the values of `found'

(* The parameters are resized in attempts 2 and 3 modulo 4 of such a size. *)
Resizable(size) == size > ResizeAbove /\ size < ResizeBelow

(* fcm_init_params: at least three segments, so at least one starting one. *)
SegmentTotal(size) ==
  LET len    == SegmentLength[size]
      needed == (Capacity[size] + len - 1) \div len
  IN  IF needed < 3 THEN 3 ELSE needed

InitParams(size) ==
  [segment_length |-> SegmentLength[size],
   segment_count  |-> SegmentTotal(size) - 2,
   array_len      |-> SegmentTotal(size) * SegmentLength[size]]

(* The two resizings of fcm_peel.  Neither touches array_len. *)
Shrink(params) == [params EXCEPT !.segment_length = @ \div 2,
                                 !.segment_count  = @ * 2 + 2]
Grow(params)   == [params EXCEPT !.segment_length = @ * 2,
                                 !.segment_count  = @ \div 2 - 1]

ASSUME GeometryAssumption ==
  /\ MaxSize \in Nat
  /\ HashShift \in Nat
  /\ 2^HashShift \in Nat \ {0}
  /\ ResizeAbove \in Nat
  /\ ResizeBelow \in Nat
  /\ Capacity \in [Sizes -> Nat]
  /\ SegmentLength \in [Sizes -> PowersOfTwo]
  /\ \A size \in Sizes :
       /\ InitParams(size).array_len <= 2^WordBits     \* positions are words
       /\ Resizable(size) => SegmentLength[size] > 1   \* there is a half to shrink to

(* Parameters as they are in every attempt: whole segments that fill the     *)
(* array, two of them in which no hash has its first cell.                  *)
WellFormed(params) ==
  /\ params \in [segment_length : PowersOfTwo, segment_count : Nat \ {0}, array_len : Nat]
  /\ params.array_len = (params.segment_count + 2) * params.segment_length
  /\ params.array_len <= 2^WordBits

(* The low bits of the hash that displace cell 1 and cell 2 in their segments. *)
Low1(hash, params) == (hash \div 2^HashShift) % params.segment_length
Low2(hash, params) == hash % params.segment_length

(* fcm_get_h012 *)
H0(hash, params) == MulHigh(hash, params.segment_count * params.segment_length)
H1(hash, params) == Xor(H0(hash, params) + params.segment_length, Low1(hash, params))
H2(hash, params) == Xor(H0(hash, params) + 2 * params.segment_length, Low2(hash, params))

(* The cell in which the hash has the given position, and all its cells. *)
CellAt(hash, params, pos) ==
  CASE pos = 0 -> H0(hash, params)
    [] pos = 1 -> H1(hash, params)
    [] pos = 2 -> H2(hash, params)

CellsOf(hash, params) == { CellAt(hash, params, pos) : pos \in Positions }

(* What fcm_peel computes without branches from the cell idx of a hash and  *)
(* its position `found' there: the hash's two other cells, and for each the *)
(* position bits f1, f2 it flips when it takes the hash out of that cell.   *)
(*                                                                         *)
(* The masks is0, is1, is2 repeat one bit over a word, which is all that is *)
(* told of them here.  The bit of is0 is the sign of a byte.                *)
Is0(found) == ((found - 1) % 256) \div 128

(* Slip: whether found is not 0, instead of its low bit. *)
Is1NotZero(found) == IF found = 0 THEN 0 ELSE 1

Is1(found) == found % 2
Is2(found) == found \div 2

(* x & mask, and x & ~mask. *)
Select(bit, x)  == IF bit = 1 THEN x ELSE 0
Without(bit, x) == IF bit = 1 THEN 0 ELSE x

(* seg_len ^ (seg_len_minus2 & mask): forward by one segment, or back by two *)
(* in arithmetic modulo the width.                                          *)
Stride(bit, len) == Xor(len, Select(bit, Xor(len, (-2 * len) % 2^WordBits)))

Other1(idx, hash, found, params) ==
  Xor((idx + Stride(Is2(found), params.segment_length)) % 2^WordBits,
      Xor(Without(Is2(found), Low1(hash, params)), Without(Is0(found), Low2(hash, params))))

(* Slip: from cell 0, the mask of cell 2 is left out. *)
Other2Unmasked(idx, hash, found, params) ==
  Xor((idx - Stride(Is0(found), params.segment_length)) % 2^WordBits,
      Xor(Without(Is0(found), Low1(hash, params)), Select(Is2(found), Low2(hash, params))))

Other2(idx, hash, found, params) ==
  Xor((idx - Stride(Is0(found), params.segment_length)) % 2^WordBits,
      Xor(Without(Is0(found), Low1(hash, params)), Without(Is1(found), Low2(hash, params))))

(* Slip: the positions of the two other cells are exchanged. *)
Flip1Exchanged(found) == Select(Is0(found), 2) + Select(Is2(found), 1)

Flip1(found) == Select(Is0(found), 1) + Select(Is1(found), 2)
Flip2(found) == Select(Is0(found), 2) + Select(Is2(found), 1)
=============================================================================
