------------------------------- MODULE Mixing -------------------------------
(***************************************************************************)
(* The arithmetic that Peel abstracts from: the seeds that fcm_peel draws,   *)
(* one for every attempt, and the mixing of the keys' hashes with a seed.    *)
(* Peel takes a seed for what it does, any mapping of equal hashes to equal  *)
(* words and of distinct ones to distinct words.  That is only right if      *)
(* mixing with any of these seeds loses nothing of a hash, and there is only *)
(* a point in trying again if the next seed has not been tried.             *)
(***************************************************************************)
EXTENDS Peel

CONSTANTS MixShift,         \* the shift of fcm_murmur64: 33
          MixFactors,       \* its two factors
          Golden,           \* what the counter of fcm_splitmix64 goes up by
          SplitShifts,      \* its three shifts: 30, 27, 31
          SplitFactors      \* its two factors

(* The program's multipliers are odd, the counter's increment too. *)
OddWord == { f \in Word : f % 2 = 1 }

ASSUME MixingAssumption ==
  /\ MixShift \in 1 .. WordBits
  /\ MixFactors \in OddWord \X OddWord
  /\ Golden \in OddWord
  /\ SplitShifts \in [1 .. 3 -> 1 .. WordBits]
  /\ SplitFactors \in OddWord \X OddWord

(* Slip: z >> shift, where z ^ (z >> shift) is meant. *)
ShiftOnly(z, shift) == z \div 2^shift

XorShift(z, shift) == Xor(z, z \div 2^shift)

Times(z, factor) == (z * factor) % 2^WordBits

fcm_murmur64(h) ==
  LET h1 == Times(XorShift(h, MixShift), MixFactors[1])
      h2 == Times(XorShift(h1, MixShift), MixFactors[2])
  IN  XorShift(h2, MixShift)

fcm_mixsplit(key, seed) == fcm_murmur64((key + seed) % 2^WordBits)

(* fcm_splitmix64 once it has moved its counter on. *)
fcm_splitmix64(state) ==
  LET z1 == Times(XorShift(state, SplitShifts[1]), SplitFactors[1])
      z2 == Times(XorShift(z1, SplitShifts[2]), SplitFactors[2])
  IN  XorShift(z2, SplitShifts[3])

(* Slip: every attempt draws from a counter of its own. *)
CounterOfItsOwn(attempt) == (1 + Golden) % 2^WordBits

(* rng_counter starts from 1 and is moved on by each draw: one before the     *)
(* first attempt, and one at the end of each that fails.                     *)
Counter(attempt) == (1 + (attempt + 1) * Golden) % 2^WordBits

Seed(attempt) == fcm_splitmix64(Counter(attempt))

(* Hashes that differ are mixed to words that differ in every attempt, so     *)
(* that two equal words under a seed are two keys whose hashes are equal, and *)
(* what an attempt does to the hashes is one of the mappings Peel allows.    *)
MixingLosesNothing ==
  pc = "attempt" =>
    \A g, h \in Word :
      fcm_mixsplit(g, Seed(iteration)) = fcm_mixsplit(h, Seed(iteration)) => g = h

(* An attempt that failed is not tried again: its seed is a new one, as long   *)
(* as the counter has not come round.                                        *)
SeedsAreFresh ==
  pc = "attempt" /\ iteration < 2^WordBits =>
    \A earlier \in 0 .. (iteration - 1) : Seed(earlier) # Seed(iteration)
=============================================================================
