------------------------------- MODULE Build --------------------------------
(***************************************************************************)
(* The constructors of constmap.c and the life of what they build:          *)
(* fcm_constmap_new_with_hash, the verified and the paired variants, their  *)
(* lookups and fcm_*_free.                                                  *)
(*                                                                         *)
(* A constructor rejects some arguments, allocates its buffers, runs        *)
(* fcm_peel (module Peel), assigns the cells along the peeling stack from   *)
(* its top down, and installs the array into *out.  The three constructors  *)
(* differ in the array: values only (constmap), values and checks in two       *)
(* arrays (verified), or values and checks in the slots of one (paired).    *)
(***************************************************************************)
EXTENDS Peel

CONSTANTS Value,            \* the value of each key: Value[k] for key k
          CountLimit,       \* the largest n (0xFFFFFFFF)
          Int32Max,         \* the largest int32_t
          FoldShift         \* the shift of fcm_fingerprint (32)

ASSUME BuildAssumption ==
  /\ Value \in [0 .. (MaxSize - 1) -> Word]
  /\ CountLimit = MaxSize
  /\ Int32Max \in Nat
  /\ FoldShift \in Nat
  /\ 2^FoldShift \in Nat \ {0}

VARIABLES
  kind,             \* which constructor
  n,                \* the number of keys it is given
  hash,             \* the function it is told to hash keys with
  stage,            \* how far the call is
  result,           \* what it returned
  out,              \* *out
  heap,             \* the buffers allocated
  data, checks,     \* the array under assignment
  at                \* the index of the assignment loop

arguments == <<kind, n, hash>>
buildVars == <<kind, n, hash, stage, result, out, heap, data, checks, at>>
allVars   == <<vars, buildVars>>

NOT_FOUND == 2^WordBits - 1

values == [k \in Keys |-> Value[k]]

Kinds == {"constmap", "verified", "paired"}

KnownHashes == {"XXH64", "XXH3"}

Temporaries == {"hashed", "alone", "t2count", "t2hash", "reverse_h", "reverse_order", "pairs"}

(* The buffers of the array itself. *)
ArrayBuffers ==
  CASE kind = "constmap"    -> {"data"}
    [] kind = "verified" -> {"data", "checks"}
    [] kind = "paired"   -> {"slots"}

(* A map struct all of zeroes but for its hash field. *)
Zeroed(h) ==
  [hash |-> h, n |-> 0, data_len |-> 0,
   params |-> [segment_length |-> 0, segment_count |-> 0, array_len |-> 0],
   data |-> << >>, checks |-> << >>, owns |-> {}]

(* What the caller's struct held before the call. *)
Unset == [Zeroed("none") EXCEPT !.n = 1]

-----------------------------------------------------------------------------

BuildInit ==
  /\ Init
  /\ kind \in Kinds
  /\ n \in {0, size, CountLimit + 1}
  /\ hash \in KnownHashes \cup {"unknown"}
  /\ stage = "call"
  /\ result = "none"
  /\ out = Unset
  /\ heap = {}
  /\ data = << >>
  /\ checks = << >>
  /\ at = 0

Finish(code) ==
  /\ stage' = "returned"
  /\ result' = code

RejectHash ==
  /\ stage = "call"
  /\ hash \notin KnownHashes
  /\ Finish("INVALID_FORMAT")
  /\ UNCHANGED <<vars, arguments, out, heap, data, checks, at>>

(* memset and the hash field come before every other check. *)
EmptyInput ==
  /\ stage = "call"
  /\ hash \in KnownHashes
  /\ n = 0
  /\ out' = Zeroed(hash)
  /\ Finish("OK")
  /\ UNCHANGED <<vars, arguments, heap, data, checks, at>>

TooManyKeys ==
  /\ stage = "call"
  /\ hash \in KnownHashes
  /\ n > CountLimit
  /\ out' = Zeroed(hash)
  /\ Finish("LENGTH_MISMATCH")
  /\ UNCHANGED <<vars, arguments, heap, data, checks, at>>

Allocated ==
  /\ stage = "call"
  /\ hash \in KnownHashes
  /\ n \in 1 .. CountLimit
  /\ out' = Zeroed(hash)

(* cleanup: frees every buffer that *out has not taken over. *)
Cleanup(buffers, owned) == buffers \ ((Temporaries \cup ArrayBuffers) \ owned)

(* Some of the buffers could not be allocated: the others are freed. *)
AllocateFails ==
  /\ Allocated
  /\ \E got \in SUBSET (Temporaries \cup ArrayBuffers) :
       /\ got # Temporaries \cup ArrayBuffers
       /\ heap' = Cleanup(got, {})
  /\ Finish("NOMEM")
  /\ UNCHANGED <<vars, arguments, data, checks, at>>

Allocate ==
  /\ Allocated
  /\ heap' = Temporaries \cup ArrayBuffers
  /\ data' = ZeroOn(Cells)
  /\ checks' = ZeroOn(Cells)
  /\ stage' = "peel"
  /\ UNCHANGED <<vars, arguments, result, at>>

(* A step of fcm_peel. *)
PeelStep ==
  /\ stage = "peel"
  /\ pc # "done"
  /\ Next
  /\ UNCHANGED buildVars

PeelFailed ==
  /\ stage = "peel"
  /\ pc = "done"
  /\ rc # "OK"
  /\ Finish(rc)
  /\ heap' = Cleanup(heap, {})
  /\ UNCHANGED <<vars, arguments, out, data, checks, at>>

(* The conversion (int32_t)x of a uint32_t. *)
AsInt32(x) == IF x <= Int32Max THEN x ELSE x - 2 * (Int32Max + 1)

(* What x - 1 may be as an int32_t.  For the least one it is undefined: the  *)
(* builds there are wrap it around, or subtract in a wider register.        *)
LessOne(x) == { x - 1 } \cup IF x = -Int32Max - 1 THEN { Int32Max } ELSE {}

BeginAssign ==
  /\ stage = "peel"
  /\ pc = "done"
  /\ rc = "OK"
  /\ at' \in LessOne(AsInt32(size))
  /\ stage' = "assign"
  /\ UNCHANGED <<vars, arguments, result, out, heap, data, checks>>

-----------------------------------------------------------------------------
(* Assignment. *)

(* Slip: the comparison of the search is the wrong way round. *)
NotAbove(h) == { k \in Keys : mixed[k] <= h }

(* fcm_pair_lookup over the sorted pairs: the value of the first hash that  *)
(* is not below h.  (There is none, and the read is past the end, if all    *)
(* hashes are below h.)                                                     *)
NotBelow(h) == { k \in Keys : mixed[k] >= h }

PairLookup(h) ==
  values[CHOOSE k \in NotBelow(h) : \A j \in NotBelow(h) : mixed[k] <= mixed[j]]

Fingerprint(h) == Xor(h, h \div 2^FoldShift)

(* h012[pos], which repeats after three. *)
Slot(h, pos) == CellAt(h, params, pos % 3)

(* Slip: one of the two other cells is left out. *)
SolvedPartly(table, h, found, x) ==
  [table EXCEPT ![Slot(h, found)] = Xor(x, table[Slot(h, found + 1)])]

(* The cell at which h was alone gets what makes the XOR of h's cells x. *)
Solved(table, h, found, x) ==
  [table EXCEPT ![Slot(h, found)] =
     Xor(Xor(x, table[Slot(h, found + 1)]), table[Slot(h, found + 2)])]

(* Slip: the loop runs from the bottom of the stack up. *)
FromBottom(x) == size - 1 - x

(* The entry of the stack assigned when the loop index is x. *)
FromTop(x) == x

AssignCell ==
  /\ stage = "assign"
  /\ at >= 0
  /\ LET h     == reverse_order[FromTop(at)]
         found == reverse_h[FromTop(at) + 1]
     IN  /\ data' = Solved(data, h, found, PairLookup(h))
         /\ checks' = IF kind = "constmap" THEN checks
                                        ELSE Solved(checks, h, found, Fingerprint(h))
  /\ at' = at - 1
  /\ UNCHANGED <<vars, arguments, stage, result, out, heap>>

(* The array goes to *out, which owns it from here on. *)
Install ==
  /\ stage = "assign"
  /\ at < 0
  /\ out' = [hash |-> hash, n |-> size, data_len |-> params.array_len, params |-> params,
             data |-> data, checks |-> checks, owns |-> ArrayBuffers]
  /\ heap' = Cleanup(heap, ArrayBuffers)
  /\ Finish("OK")
  /\ UNCHANGED <<vars, arguments, data, checks, at>>

(* Slip: the checks of a verified map are forgotten. *)
FreedButChecks == heap \ (out.owns \ {"checks"})

(* The buffers left by fcm_*_free. *)
Freed == heap \ out.owns

(* The caller frees a map it was given: the struct is zeroed as well. *)
Free ==
  /\ stage = "returned"
  /\ result = "OK"
  /\ heap' = Freed
  /\ out' = Zeroed("XXH64")
  /\ stage' = "freed"
  /\ UNCHANGED <<vars, arguments, result, data, checks, at>>

Idle == stage \in {"returned", "freed"} /\ UNCHANGED allVars

(* The call itself, as opposed to what the caller does when it is over. *)
Call ==
  \/ RejectHash
  \/ EmptyInput
  \/ TooManyKeys
  \/ AllocateFails
  \/ Allocate
  \/ PeelStep
  \/ PeelFailed
  \/ BeginAssign
  \/ AssignCell
  \/ Install

BuildNext == Call \/ Free \/ Idle

BuildSpec == BuildInit /\ [][BuildNext]_allVars

(* The thread that called runs until the call returns.  Nobody has to free. *)
CallFairness == WF_allVars(Call)

FairBuildSpec == BuildSpec /\ CallFairness

-----------------------------------------------------------------------------
(* Lookup. *)

XorOfCells(table, h, p) ==
  Xor(Xor(table[H0(h, p)], table[H1(h, p)]), table[H2(h, p)])

(* What the lookup in map m returns for a key whose mixed hash is h. *)
Lookup(m, h) ==
  CASE m.data_len = 0 /\ kind = "constmap" -> 0
    [] m.data_len = 0 /\ kind # "constmap" -> NOT_FOUND
    [] m.data_len # 0 /\ kind = "constmap" -> XorOfCells(m.data, h, m.params)
    [] m.data_len # 0 /\ kind # "constmap" ->
         IF XorOfCells(m.checks, h, m.params) = Fingerprint(h)
         THEN XorOfCells(m.data, h, m.params)
         ELSE NOT_FOUND

-----------------------------------------------------------------------------
(***************************************************************************)
(* Properties.                                                             *)
(***************************************************************************)

Built == stage = "returned" /\ result = "OK" /\ n # 0

(* A map that was built answers every one of its keys with the key's value; *)
(* a verified or paired one never misses a key.                             *)
LookupCorrect ==
  Built => \A k \in Keys : Lookup(out, mixed[k]) = values[k]

(* Assignment never reads past the pairs, and finds the very hash it looks  *)
(* for: each entry of the stack is the mixed hash of one key.               *)
PairFound ==
  (stage = "assign" /\ at >= 0) =>
    \E k \in Keys : /\ mixed[k] = reverse_order[at]
                    /\ PairLookup(reverse_order[at]) = values[k]

(* Assigning a cell never disturbs the hashes assigned before it: those     *)
(* above the loop index keep their values and fingerprints.                 *)
AssignedStays ==
  stage = "assign" =>
    \A j \in (at + 1) .. (size - 1) :
      LET h == reverse_order[j]
      IN  /\ XorOfCells(data, h, params) = PairLookup(h)
          /\ kind # "constmap" => XorOfCells(checks, h, params) = Fingerprint(h)

(* Nothing leaks: whatever path a call took, the buffers allocated when it  *)
(* returned are those *out owns, and none remain after the free.            *)
NoLeak ==
  stage \in {"returned", "freed"} => heap = out.owns /\ (pc = "done" => start_pos_cap = 0)

(* What constmap.h says of the constructors: on error, *out is untouched.   *)
OutUntouchedOnError ==
  (stage = "returned" /\ result # "OK") => out = Unset

-----------------------------------------------------------------------------
(***************************************************************************)
(* The abstract map: what was given, and what lookups of the given keys     *)
(* return while the struct holds a map.                                     *)
(***************************************************************************)

NoKeys == << >>

given == IF n = 0 THEN NoKeys ELSE values

answers ==
  IF Built THEN [k \in Keys |-> Lookup(out, mixed[k])] ELSE NoKeys

status ==
  CASE stage \in {"call", "peel", "assign"}     -> "building"
    [] stage = "returned" /\ result = "OK"      -> "built"
    [] stage = "returned" /\ result # "OK"      -> "failed"
    [] stage = "freed"                          -> "freed"

Map == INSTANCE StaticMap WITH status <- status, given <- given, answers <- answers

(* The constructors implement the abstract map: a call ends once, either    *)
(* failed with nothing answered or built with every key answering what was  *)
(* given, and until it is freed the map goes on answering just that.        *)
ImplementsStaticMap == Map!Spec

(* A call of a constructor ends, whatever seeds it draws and whatever keys  *)
(* it is given, duplicates and keys that never peel included.               *)
CallEnds == Map!Resolves
=============================================================================
