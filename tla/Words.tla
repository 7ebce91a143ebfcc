------------------------------- MODULE Words -------------------------------
(***************************************************************************)
(* Machine words of WordBits bits, as constmap.c uses them: uint64_t hashes *)
(* and values, and the uint32_t array positions, which are words as well.   *)
(* The program fixes WordBits = 64; the arithmetic below is the same at     *)
(* every width, so a model checks it at a small one.                        *)
(*                                                                         *)
(* The assumptions are facts of binary arithmetic.  They are stated         *)
(* rather than proved because their proofs are inductions on the width;     *)
(* TLC evaluates each of them at the width of every run.                    *)
(***************************************************************************)
EXTENDS Integers, FiniteSets

CONSTANT WordBits       \* the number of bits of a word

Word     == 0 .. (2^WordBits - 1)
BitIndex == 0 .. (WordBits - 1)

(* Bit b of the word w. *)
Bit(w, b) == (w \div 2^b) % 2

ASSUME WordBitsAssumption ==
  /\ WordBits \in Nat
  /\ WordBits >= 2
  /\ 2^WordBits \in Nat
  /\ 2^WordBits >= 4

(* A word is determined by its bits, and every pattern of bits is a word. *)
ASSUME BitsAssumption ==
  /\ \A a \in Word : \A b \in BitIndex : Bit(a, b) \in {0, 1}
  /\ \A a, c \in Word : (\A b \in BitIndex : Bit(a, b) = Bit(c, b)) => a = c
  /\ \A f \in [BitIndex -> {0, 1}] :
        \E w \in Word : \A b \in BitIndex : Bit(w, b) = f[b]
  /\ \A b \in BitIndex : Bit(0, b) = 0

(* Exclusive or: bit by bit, the sum modulo two. *)
XorTable ==
  [a \in Word |-> [c \in Word |->
     CHOOSE w \in Word :
       \A b \in BitIndex : Bit(w, b) = (Bit(a, b) + Bit(c, b)) % 2]]

Xor(a, c) == XorTable[a][c]

(* w is the XOR of f[x] over the x in S: each of its bits is the parity of  *)
(* the number of x whose f[x] has that bit.                                 *)
IsXorOver(w, f, S) ==
  /\ w \in Word
  /\ \A b \in BitIndex : Bit(w, b) = Cardinality({ x \in S : Bit(f[x], b) = 1 }) % 2

PowersOfTwo == { 2^j : j \in 0 .. WordBits }

ASSUME PowersAssumption ==
  /\ PowersOfTwo \subseteq Nat \ {0}
  /\ \A j \in 0 .. WordBits : j <= 2^j
  /\ 4 \in PowersOfTwo
  /\ \A p \in PowersOfTwo : p <= 2^WordBits
  /\ \A p \in PowersOfTwo \ {1} : p % 2 = 0 /\ p \div 2 \in PowersOfTwo
  /\ \A p \in 1 .. 2^WordBits : (\E j \in 0 .. p : p = 2^j) => p \in PowersOfTwo
  /\ \A c \in 1 .. 2^WordBits :
        \E p \in PowersOfTwo :
           /\ p >= 2 /\ p >= c
           /\ \A q \in PowersOfTwo : (q >= 2 /\ q >= c) => p <= q

(* Exclusive or with a mask below a power of two changes only the remainder. *)
ASSUME XorLowBitsAssumption ==
  \A L \in PowersOfTwo : \A a \in Word : \A m \in Word :
     m < L => /\ Xor(a % L, m) \in 0 .. (L - 1)
              /\ Xor(a, m) = L * (a \div L) + Xor(a % L, m)

(* Shifting right moves each bit down, and zeroes in. *)
ASSUME ShiftAssumption ==
  \A w \in Word : \A s \in 1 .. WordBits :
     /\ w \div 2^s \in Word
     /\ \A b \in BitIndex :
          Bit(w \div 2^s, b) = IF b + s < WordBits THEN Bit(w, b + s) ELSE 0

(* Odd words have inverses. *)
ASSUME OddAssumption ==
  \A f \in Word : f % 2 = 1 => \E g \in Word : (f * g) % 2^WordBits = 1

(* The high word of the double-width product w * n (fcm_mul_high32). *)
MulHigh(w, n) == (w * n) \div 2^WordBits

(* The smallest power of two that is at least two and at least c. *)
CeilPower(c) ==
  CHOOSE p \in PowersOfTwo :
    /\ p >= 2 /\ p >= c
    /\ \A q \in PowersOfTwo : (q >= 2 /\ q >= c) => p <= q
=============================================================================
