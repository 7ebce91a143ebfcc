---------------------------- MODULE BuildProofs -----------------------------
(***************************************************************************)
(* What is proved about the constructors, for every width of words, number  *)
(* of keys and values, and every kind of map: nothing leaks; and if sizes    *)
(* are not above INT32_MAX, assignment fills the array so that every lookup  *)
(* of a key returns its value, which makes the constructors an               *)
(* implementation of StaticMap; and what they build survives serialization.  *)
(***************************************************************************)
EXTENDS BuildInvariant, PeelTheorems, RoundTrip, SerialProofs

-----------------------------------------------------------------------------
(* Words and cells. *)

(* Whichever cell is set to the XOR of a value and the two other cells, the *)
(* XOR of the three is the value.                                           *)
LEMMA XorOfThree ==
  ASSUME NEW x \in Word, NEW a \in Word, NEW b \in Word
  PROVE  /\ Xor(Xor(Xor(Xor(x, a), b), a), b) = x
         /\ Xor(Xor(b, Xor(Xor(x, a), b)), a) = x
         /\ Xor(Xor(a, b), Xor(Xor(x, a), b)) = x
<1> DEFINE y == Xor(Xor(x, a), b)
<1>1. /\ Xor(x, a) \in Word /\ y \in Word /\ Xor(a, b) \in Word /\ Xor(b, y) \in Word
      /\ Xor(y, b) \in Word /\ Xor(y, a) \in Word
  BY XorBits
<1>2. Xor(y, b) = Xor(x, a) /\ Xor(Xor(y, b), a) = x
  BY <1>1, XorCancels
<1>3. Xor(b, y) = Xor(y, b)
  BY <1>1, XorCommutes
<1>4. Xor(Xor(y, a), b) = Xor(Xor(y, b), a)
  <2>1. Xor(Xor(y, a), b) = Xor(y, Xor(a, b)) /\ Xor(Xor(y, b), a) = Xor(y, Xor(b, a))
    BY <1>1, XorAssociates
  <2>2. Xor(a, b) = Xor(b, a)
    BY XorCommutes
  <2> QED  BY <2>1, <2>2
<1>5. Xor(Xor(a, b), y) = Xor(Xor(y, a), b)
  <2>1. Xor(Xor(a, b), y) = Xor(y, Xor(a, b))
    BY <1>1, XorCommutes
  <2>2. Xor(Xor(y, a), b) = Xor(y, Xor(a, b))
    BY <1>1, XorAssociates
  <2> QED  BY <2>1, <2>2
<1> QED  BY <1>2, <1>3, <1>4, <1>5

LEMMA QuotientBelow ==
  ASSUME NEW L \in Nat \ {0}, NEW x \in Nat
  PROVE  x \div L \in Nat /\ x \div L <= x
<1> DEFINE d == x \div L
           r == x % L
<1>1. d = x \div L /\ r = x % L
  OBVIOUS
<1> HIDE DEF d, r
<1>2. x = d * L + r
  BY <1>1, DivModForm
<1>3. d \in Nat /\ r \in 0 .. (L - 1)
  BY <1>1
<1>4. d * L = d * (L - 1) + d /\ d * (L - 1) \in Nat
  BY <1>3
<1>5. d <= x
  BY <1>2, <1>3, <1>4
<1> QED  BY <1>3, <1>5 DEF d

LEMMA FingerprintIsWord ==
  ASSUME NEW h \in Word
  PROVE  Fingerprint(h) \in Word
<1> DEFINE d == h \div 2^FoldShift
<1>1. 2^FoldShift \in Nat \ {0} /\ h \in Nat /\ h < 2^WordBits /\ 2^WordBits \in Nat
  BY BuildAssumption, WordBitsAssumption DEF Word
<1>2. d \in Nat /\ d <= h
  BY <1>1, QuotientBelow
<1>3. d \in Word
  <2> HIDE DEF d
  <2> QED  BY <1>1, <1>2 DEF Word
<1> QED  BY <1>3, XorBits DEF Fingerprint

LEMMA SlotCases ==
  ASSUME NEW h
  PROVE  /\ Slot(h, 0) = CellAt(h, params, 0) /\ Slot(h, 3) = CellAt(h, params, 0)
         /\ Slot(h, 1) = CellAt(h, params, 1) /\ Slot(h, 4) = CellAt(h, params, 1)
         /\ Slot(h, 2) = CellAt(h, params, 2)
<1>1. 0 % 3 = 0 /\ 3 % 3 = 0 /\ 1 % 3 = 1 /\ 4 % 3 = 1 /\ 2 % 3 = 2
  OBVIOUS
<1> QED  BY <1>1 DEF Slot

(* Solving for one hash sets its XOR, and leaves that of every other hash    *)
(* which does not have the cell that is set.                                *)
LEMMA SolvedCells ==
  ASSUME WellFormed(params), NEW table \in [Cells -> Word], NEW h \in Word,
         NEW found \in Positions, NEW x \in Word
  PROVE  /\ Solved(table, h, found, x) \in [Cells -> Word]
         /\ XorOfCells(Solved(table, h, found, x), h, params) = x
         /\ \A g \in Word :
              CellAt(h, params, found) \notin CellsOf(g, params) =>
                XorOfCells(Solved(table, h, found, x), g, params) = XorOfCells(table, g, params)
<1> DEFINE c0 == CellAt(h, params, 0)
           c1 == CellAt(h, params, 1)
           c2 == CellAt(h, params, 2)
           s  == Solved(table, h, found, x)
<1>1. /\ c0 \in Cells /\ c1 \in Cells /\ c2 \in Cells
      /\ c0 # c1 /\ c0 # c2 /\ c1 # c2
  BY CellsAreThree DEF Cells, Positions
<1>2. c0 = H0(h, params) /\ c1 = H1(h, params) /\ c2 = H2(h, params)
  BY CellAtCases
<1>3. table[c0] \in Word /\ table[c1] \in Word /\ table[c2] \in Word
  <2> HIDE DEF c0, c1, c2
  <2> QED  BY <1>1
<1>4. found \in {0, 1, 2}
  BY DEF Positions
<1>5. /\ found = 0 => s = [table EXCEPT ![c0] = Xor(Xor(x, table[c1]), table[c2])]
      /\ found = 1 => s = [table EXCEPT ![c1] = Xor(Xor(x, table[c2]), table[c0])]
      /\ found = 2 => s = [table EXCEPT ![c2] = Xor(Xor(x, table[c0]), table[c1])]
  <2>1. 0 + 1 = 1 /\ 0 + 2 = 2 /\ 1 + 1 = 2 /\ 1 + 2 = 3 /\ 2 + 1 = 3 /\ 2 + 2 = 4
    OBVIOUS
  <2> QED  BY <2>1, SlotCases DEF Solved
<1>6. /\ Xor(Xor(x, table[c1]), table[c2]) \in Word
      /\ Xor(Xor(x, table[c2]), table[c0]) \in Word
      /\ Xor(Xor(x, table[c0]), table[c1]) \in Word
  <2> HIDE DEF c0, c1, c2
  <2>1. Xor(x, table[c0]) \in Word /\ Xor(x, table[c1]) \in Word /\ Xor(x, table[c2]) \in Word
    BY <1>3, XorBits
  <2> QED  BY <2>1, <1>3, XorBits
<1>7. XorOfCells(s, h, params) = Xor(Xor(s[c0], s[c1]), s[c2])
  BY <1>2 DEF XorOfCells
<1>8. s \in [Cells -> Word] /\ \A c \in Cells : c # CellAt(h, params, found) => s[c] = table[c]
  <2>1. CASE found = 0
    <3>1. s = [table EXCEPT ![c0] = Xor(Xor(x, table[c1]), table[c2])] /\ CellAt(h, params, found) = c0
      BY <1>5, <2>1
    <3> HIDE DEF s, c0, c1, c2
    <3> QED  BY <3>1, <1>1, <1>6
  <2>2. CASE found = 1
    <3>1. s = [table EXCEPT ![c1] = Xor(Xor(x, table[c2]), table[c0])] /\ CellAt(h, params, found) = c1
      BY <1>5, <2>2
    <3> HIDE DEF s, c0, c1, c2
    <3> QED  BY <3>1, <1>1, <1>6
  <2>3. CASE found = 2
    <3>1. s = [table EXCEPT ![c2] = Xor(Xor(x, table[c0]), table[c1])] /\ CellAt(h, params, found) = c2
      BY <1>5, <2>3
    <3> HIDE DEF s, c0, c1, c2
    <3> QED  BY <3>1, <1>1, <1>6
  <2> QED  BY <1>4, <2>1, <2>2, <2>3
<1>9. Xor(Xor(s[c0], s[c1]), s[c2]) = x
  <2>1. CASE found = 0
    <3>1. s = [table EXCEPT ![c0] = Xor(Xor(x, table[c1]), table[c2])]
      BY <1>5, <2>1
    <3> HIDE DEF s, c0, c1, c2
    <3>2. s[c0] = Xor(Xor(x, table[c1]), table[c2]) /\ s[c1] = table[c1] /\ s[c2] = table[c2]
      BY <3>1, <1>1
    <3> QED  BY <3>2, <1>3, XorOfThree
  <2>2. CASE found = 1
    <3>1. s = [table EXCEPT ![c1] = Xor(Xor(x, table[c2]), table[c0])]
      BY <1>5, <2>2
    <3> HIDE DEF s, c0, c1, c2
    <3>2. s[c1] = Xor(Xor(x, table[c2]), table[c0]) /\ s[c0] = table[c0] /\ s[c2] = table[c2]
      BY <3>1, <1>1
    <3> QED  BY <3>2, <1>3, XorOfThree
  <2>3. CASE found = 2
    <3>1. s = [table EXCEPT ![c2] = Xor(Xor(x, table[c0]), table[c1])]
      BY <1>5, <2>3
    <3> HIDE DEF s, c0, c1, c2
    <3>2. s[c2] = Xor(Xor(x, table[c0]), table[c1]) /\ s[c0] = table[c0] /\ s[c1] = table[c1]
      BY <3>1, <1>1
    <3> QED  BY <3>2, <1>3, XorOfThree
  <2> QED  BY <1>4, <2>1, <2>2, <2>3
<1>10. ASSUME NEW g \in Word, CellAt(h, params, found) \notin CellsOf(g, params)
       PROVE  XorOfCells(s, g, params) = XorOfCells(table, g, params)
  <2>1. \A pos \in Positions : CellAt(g, params, pos) \in Cells /\ CellAt(g, params, pos) # CellAt(h, params, found)
    BY <1>10, CellsAreThree DEF Cells, CellsOf
  <2>2. \A pos \in Positions : s[CellAt(g, params, pos)] = table[CellAt(g, params, pos)]
    BY <1>8, <2>1
  <2>3. /\ s[CellAt(g, params, 0)] = table[CellAt(g, params, 0)]
        /\ s[CellAt(g, params, 1)] = table[CellAt(g, params, 1)]
        /\ s[CellAt(g, params, 2)] = table[CellAt(g, params, 2)]
    BY <2>2 DEF Positions
  <2> QED  BY <2>3, CellAtCases DEF XorOfCells
<1> QED  BY <1>7, <1>8, <1>9, <1>10

-----------------------------------------------------------------------------
(* Pairs. *)

(* The search returns the value of the key whose hash it is given. *)
LEMMA PairLookupFinds ==
  ASSUME mixed \in [Keys -> Word], Distinct(mixed, Keys), NEW k \in Keys
  PROVE  PairLookup(mixed[k]) = values[k]
<1> DEFINE h == mixed[k]
           Least(c) == c \in NotBelow(h) /\ \A j \in NotBelow(h) : mixed[c] <= mixed[j]
           c0 == CHOOSE c \in NotBelow(h) : \A j \in NotBelow(h) : mixed[c] <= mixed[j]
<1>1. \A j \in Keys : mixed[j] \in Nat
  BY DEF Word
<1>2. k \in NotBelow(h)
  BY <1>1 DEF NotBelow
<1>3. Least(k)
  BY <1>1, <1>2 DEF NotBelow
<1>4. Least(c0)
  <2> HIDE DEF h
  <2> QED  BY <1>3
<1>5. c0 \in Keys /\ mixed[c0] >= mixed[k] /\ mixed[c0] <= mixed[k]
  <2>1. c0 \in NotBelow(h) /\ mixed[c0] <= mixed[k]
    BY <1>2, <1>4
  <2> HIDE DEF c0
  <2> QED  BY <2>1 DEF NotBelow
<1>6. c0 = k
  <2> HIDE DEF c0
  <2>1. mixed[c0] = mixed[k]
    BY <1>1, <1>5
  <2> QED  BY <2>1, <1>5 DEF Distinct
<1> QED  BY <1>6 DEF PairLookup

LEMMA ValuesAreWords ==
  ASSUME size \in Sizes, NEW k \in Keys
  PROVE  values[k] \in Word
<1>1. k \in 0 .. (MaxSize - 1)
  BY GeometryAssumption DEF Keys, Sizes
<1> QED  BY <1>1, BuildAssumption DEF values

(* After a successful peeling the stack and the keys have the same hashes,   *)
(* one each.                                                                *)
LEMMA StackAndKeys ==
  ASSUME Invariant, PeeledInv, rc = "OK"
  PROVE  /\ WellFormed(params) /\ size \in Sizes /\ size \in Nat
         /\ mixed \in [Keys -> Word] /\ Distinct(mixed, Keys)
         /\ stacksize = size /\ PeelOrder
         /\ \A j \in Keys : reverse_order[j] \in Word /\ reverse_h[j + 1] \in Positions
         /\ \A j \in Keys : \E k \in Keys : reverse_order[j] = mixed[k]
         /\ \A k \in Keys : \E j \in Keys : reverse_order[j] = mixed[k]
<1>1. /\ TypeOK /\ ParamsInv /\ StackInv /\ SuccessIsComplete
      /\ stacksize = size /\ mixed \in Mixings /\ size \in Sizes
  BY DEF Invariant, PeeledInv, TypeOK
<1>2. WellFormed(params) /\ size \in Nat
  BY <1>1, ParamsInvWellFormed, SizeIsNat
<1>3. mixed \in [Keys -> Word] /\ Distinct(mixed, Keys)
  <2>1. Distinct(hashed, Keys)
    BY <1>1 DEF SuccessIsComplete
  <2>2. mixed \in [Keys -> Word] /\ \A j, k \in Keys : mixed[j] = mixed[k] <=> hashed[j] = hashed[k]
    BY <1>1 DEF Mixings
  <2> QED  BY <2>1, <2>2 DEF Distinct
<1>4. ASSUME NEW j \in Keys
      PROVE  reverse_order[j] \in Word /\ reverse_h[j + 1] \in Positions
  <2>1. reverse_order \in [0 .. size -> Word] /\ reverse_h \in Seq(Positions) /\ Len(reverse_h) = size
    BY <1>1 DEF TypeOK
  <2>2. j \in 0 .. size /\ j + 1 \in 1 .. size
    BY <1>2 DEF Keys
  <2> QED  BY <2>1, <2>2
<1>5. Peeled = { mixed[k] : k \in Keys } /\ Peeled = { reverse_order[j] : j \in Keys }
  BY <1>1 DEF SuccessIsComplete, Peeled, Keys
<1> QED  BY <1>1, <1>2, <1>3, <1>4, <1>5 DEF StackInv

LEMMA PairLookupOfStack ==
  ASSUME Invariant, PeeledInv, rc = "OK", NEW j \in Keys
  PROVE  /\ PairLookup(reverse_order[j]) \in Word
         /\ \E k \in Keys : mixed[k] = reverse_order[j] /\ PairLookup(reverse_order[j]) = values[k]
BY StackAndKeys, PairLookupFinds, ValuesAreWords

-----------------------------------------------------------------------------
(* The steps of fcm_peel within a call. *)

LEMMA StepsOfPeel ==
  ASSUME [BuildNext]_allVars
  PROVE  [Next]_vars
BY DEF BuildNext, Call, allVars, vars, RejectHash, EmptyInput, TooManyKeys, AllocateFails,
       Allocate, PeelStep, PeelFailed, BeginAssign, AssignCell, Install, Free, Idle

LEMMA SizeIsGiven ==
  ASSUME [Next]_vars
  PROVE  size' = size
BY DEF Next, vars, inputs, GiveUp, AllocFails, StartAttempt, ScatterKey, EndScatter, CountKey,
       RetryAfterOverflow, EndCount, FillAlone, EndFill, PopStale, PeelHash, Succeed,
       RetryAfterPeel, Returned

LEMMA ArrayLength ==
  ASSUME ParamsInv
  PROVE  params.array_len = InitParams(size).array_len
BY DEF ParamsInv, Shrink, InitParams

LEMMA CellsAreGiven ==
  ASSUME ParamsInv, ParamsInv', [Next]_vars
  PROVE  Cells' = Cells /\ Keys' = Keys
<1>1. size' = size
  BY SizeIsGiven
<1>2. params.array_len = InitParams(size).array_len
  BY ArrayLength
<1>3. params'.array_len = InitParams(size').array_len
  BY DEF ParamsInv, Shrink, InitParams
<1> QED  BY <1>1, <1>2, <1>3 DEF Cells, Keys

LEMMA PeeledInit == BuildInit => PeeledInv
BY DEF BuildInit, Init, PeeledInv

LEMMA PeeledNext ==
  ASSUME Invariant, PeeledInv, [Next]_vars
  PROVE  PeeledInv'
<1>1. CleanInv
  BY DEF Invariant
<1>2. CASE GiveUp \/ AllocFails \/ CountKey
  BY <1>1, <1>2 DEF GiveUp, AllocFails, CountKey, Return, PeeledInv, CleanInv, inputs
<1>3. CASE Succeed
  <2>1. mixed \in Mixings /\ Mixings' = Mixings
    BY <1>1, <1>3 DEF Succeed, CleanInv, Running, Mixings, Keys, inputs
  <2> QED  BY <1>3, <2>1 DEF Succeed, Return, AllPeeled, PeeledInv, inputs
<1>4. CASE StartAttempt \/ ScatterKey \/ EndScatter \/ EndCount \/ FillAlone \/ EndFill
            \/ PopStale \/ PeelHash \/ RetryAfterOverflow \/ RetryAfterPeel
  <2>1. rc = "none" /\ rc' = rc /\ pc' # "done"
    BY <1>1, <1>4 DEF StartAttempt, ScatterKey, EndScatter, EndCount, FillAlone, EndFill,
                      PopStale, PeelHash, RetryAfterOverflow, RetryAfterPeel, Reset, CleanInv
  <2> QED  BY <2>1 DEF PeeledInv
<1>5. CASE UNCHANGED vars
  BY <1>5 DEF vars, PeeledInv, Mixings, Keys
<1> QED  BY <1>2, <1>3, <1>4, <1>5 DEF Next, Returned

-----------------------------------------------------------------------------
(* Ownership of the buffers. *)

LEMMA OwnerInit == BuildInit => OwnerInv
BY DEF BuildInit, OwnerInv, Unset, Zeroed

LEMMA OwnerNext ==
  ASSUME OwnerInv, [BuildNext]_allVars
  PROVE  OwnerInv'
<1>1. \A owned : Cleanup(Temporaries \cup ArrayBuffers, owned) = (Temporaries \cup ArrayBuffers) \cap owned
  BY DEF Cleanup
<1>2. \A got \in SUBSET (Temporaries \cup ArrayBuffers) : Cleanup(got, {}) = {}
  BY DEF Cleanup
<1>3. \A h : Zeroed(h).owns = {}
  BY DEF Zeroed
<1>4. CASE RejectHash
  BY <1>4 DEF RejectHash, Finish, OwnerInv, arguments
<1>5. CASE EmptyInput \/ TooManyKeys
  BY <1>3, <1>5 DEF EmptyInput, TooManyKeys, Finish, OwnerInv, arguments
<1>6. CASE AllocateFails
  <2>1. heap' = {}
    BY <1>2, <1>6 DEF AllocateFails
  <2> QED  BY <2>1, <1>3, <1>6 DEF AllocateFails, Allocated, Finish, OwnerInv, arguments
<1>7. CASE Allocate
  BY <1>3, <1>7 DEF Allocate, Allocated, OwnerInv, arguments, ArrayBuffers
<1>8. CASE PeelStep \/ BeginAssign \/ AssignCell
  BY <1>8 DEF PeelStep, BeginAssign, AssignCell, buildVars, OwnerInv, arguments, ArrayBuffers
<1>9. CASE PeelFailed
  <2>1. heap' = {}
    BY <1>1, <1>9 DEF PeelFailed, OwnerInv
  <2> QED  BY <2>1, <1>9 DEF PeelFailed, Finish, OwnerInv, arguments
<1>10. CASE Install
  <2>1. heap' = ArrayBuffers
    BY <1>1, <1>10 DEF Install, OwnerInv
  <2>2. out'.owns = ArrayBuffers
    BY <1>10 DEF Install
  <2> QED  BY <2>1, <2>2, <1>10 DEF Install, Finish, OwnerInv, arguments
<1>11. CASE Free
  <2>1. heap' = {} /\ out'.owns = {}
    BY <1>3, <1>11 DEF Free, Freed, OwnerInv
  <2> QED  BY <2>1, <1>11 DEF Free, OwnerInv, arguments
<1>12. CASE UNCHANGED allVars
  BY <1>12 DEF allVars, buildVars, OwnerInv, ArrayBuffers
<1> QED  BY <1>4, <1>5, <1>6, <1>7, <1>8, <1>9, <1>10, <1>11, <1>12 DEF BuildNext, Call, Idle

LEMMA InvariantOfCalls ==
  BuildSpec => [](Invariant /\ PeeledInv /\ OwnerInv)
<1>1. BuildInit => Invariant /\ PeeledInv /\ OwnerInv
  BY InvariantInit, PeeledInit, OwnerInit DEF BuildInit
<1>2. Invariant /\ PeeledInv /\ OwnerInv /\ [BuildNext]_allVars
        => (Invariant /\ PeeledInv /\ OwnerInv)'
  BY StepsOfPeel, InvariantNext, PeeledNext, OwnerNext
<1> QED  BY <1>1, <1>2, PTL DEF BuildSpec

(* Whatever path a call takes, the buffers left are those of the map. *)
THEOREM NothingLeaks == BuildSpec => []NoLeak
<1>1. PeeledInv /\ OwnerInv => NoLeak
  BY DEF PeeledInv, OwnerInv, NoLeak
<1> QED  BY <1>1, InvariantOfCalls, PTL

-----------------------------------------------------------------------------
(* Assignment. *)

LEMMA ZeroesAreWords ==
  ASSUME NEW S
  PROVE  ZeroOn(S) \in [S -> Word]
BY ZeroIsWord DEF ZeroOn

(* The stack above the entry assigned does not have the cell that is set.    *)
LEMMA CellsAbove ==
  ASSUME Invariant, PeeledInv, rc = "OK", NEW a \in Keys, NEW j \in Keys, a < j
  PROVE  CellAt(reverse_order[a], params, reverse_h[a + 1]) \notin CellsOf(reverse_order[j], params)
<1>1. PeelOrder /\ stacksize = size
  BY StackAndKeys
<1> QED  BY <1>1 DEF PeelOrder, Pivot, Keys

(* One entry more of the stack has its value and its fingerprint.           *)
LEMMA AssignKeeps ==
  ASSUME Invariant, PeeledInv, OwnerInv, ArrayInv, AssignCell
  PROVE  ArrayInv'
<1> DEFINE h     == reverse_order[at]
           found == reverse_h[at + 1]
           paired == kind # "constmap"
<1>1. /\ stage = "assign" /\ stage' = "assign" /\ at >= 0 /\ at' = at - 1
      /\ data' = Solved(data, h, found, PairLookup(h))
      /\ paired => checks' = Solved(checks, h, found, Fingerprint(h))
      /\ ~ paired => checks' = checks
      /\ UNCHANGED <<size, params, reverse_order, mixed, rc, n, kind>>
  BY DEF AssignCell, FromTop, vars, arguments
<1>2. /\ rc = "OK" /\ n # 0 /\ at \in -1 .. (size - 1)
      /\ data \in [Cells -> Word] /\ checks \in [Cells -> Word] /\ AssignedStays
  BY <1>1 DEF ArrayInv
<1>3. /\ WellFormed(params) /\ size \in Nat
      /\ \A j \in Keys : reverse_order[j] \in Word /\ reverse_h[j + 1] \in Positions
  BY <1>2, StackAndKeys
<1>4. at \in Keys /\ at \in Int
  BY <1>1, <1>2, <1>3 DEF Keys
<1>5. h \in Word /\ found \in Positions /\ PairLookup(h) \in Word /\ Fingerprint(h) \in Word
  BY <1>2, <1>3, <1>4, PairLookupOfStack, FingerprintIsWord
<1>6. /\ data' \in [Cells -> Word]
      /\ XorOfCells(data', h, params) = PairLookup(h)
      /\ \A g \in Word :
           CellAt(h, params, found) \notin CellsOf(g, params) =>
             XorOfCells(data', g, params) = XorOfCells(data, g, params)
  <2> DEFINE x == PairLookup(h)
  <2>1. x \in Word /\ data' = Solved(data, h, found, x)
    BY <1>1, <1>5
  <2> HIDE DEF h, found, x
  <2>2. /\ Solved(data, h, found, x) \in [Cells -> Word]
        /\ XorOfCells(Solved(data, h, found, x), h, params) = x
        /\ \A g \in Word :
             CellAt(h, params, found) \notin CellsOf(g, params) =>
               XorOfCells(Solved(data, h, found, x), g, params) = XorOfCells(data, g, params)
    <3>1. WellFormed(params) /\ data \in [Cells -> Word] /\ h \in Word /\ found \in Positions /\ x \in Word
      BY <1>2, <1>3, <1>5, <2>1
    <3>2. Solved(data, h, found, x) \in [Cells -> Word]
      BY ONLY <3>1, SolvedCells
    <3>3. XorOfCells(Solved(data, h, found, x), h, params) = x
      BY ONLY <3>1, SolvedCells
    <3>4. ASSUME NEW g \in Word, CellAt(h, params, found) \notin CellsOf(g, params)
          PROVE  XorOfCells(Solved(data, h, found, x), g, params) = XorOfCells(data, g, params)
      BY ONLY <3>1, <3>4, SolvedCells
    <3> QED  BY <3>2, <3>3, <3>4
  <2>3. x = PairLookup(h)
    BY DEF x
  <2> QED  BY <2>1, <2>2, <2>3
<1>7. /\ checks' \in [Cells -> Word]
      /\ paired =>
           /\ XorOfCells(checks', h, params) = Fingerprint(h)
           /\ \A g \in Word :
                CellAt(h, params, found) \notin CellsOf(g, params) =>
                  XorOfCells(checks', g, params) = XorOfCells(checks, g, params)
  <2> HIDE DEF h, found, paired
  <2>1. CASE paired
    <3> DEFINE x == Fingerprint(h)
    <3>1. x \in Word /\ checks' = Solved(checks, h, found, x)
      BY <1>1, <1>5, <2>1
    <3>2. x = Fingerprint(h)
      OBVIOUS
    <3> HIDE DEF x
    <3>3. /\ Solved(checks, h, found, x) \in [Cells -> Word]
          /\ XorOfCells(Solved(checks, h, found, x), h, params) = x
          /\ \A g \in Word :
               CellAt(h, params, found) \notin CellsOf(g, params) =>
                 XorOfCells(Solved(checks, h, found, x), g, params) = XorOfCells(checks, g, params)
      <4>1. /\ WellFormed(params) /\ checks \in [Cells -> Word]
            /\ h \in Word /\ found \in Positions /\ x \in Word
        BY <1>2, <1>3, <1>5, <3>1
      <4>2. Solved(checks, h, found, x) \in [Cells -> Word]
        BY ONLY <4>1, SolvedCells
      <4>3. XorOfCells(Solved(checks, h, found, x), h, params) = x
        BY ONLY <4>1, SolvedCells
      <4>4. ASSUME NEW g \in Word, CellAt(h, params, found) \notin CellsOf(g, params)
            PROVE  XorOfCells(Solved(checks, h, found, x), g, params) = XorOfCells(checks, g, params)
        BY ONLY <4>1, <4>4, SolvedCells
      <4> QED  BY <4>2, <4>3, <4>4
    <3> QED  BY <3>1, <3>2, <3>3
  <2>2. CASE ~ paired
    BY <2>2, <1>1, <1>2
  <2> QED  BY <2>1, <2>2
<1>8. Cells' = Cells /\ size' = size /\ \A g : PairLookup(g)' = PairLookup(g)
  BY <1>1 DEF Cells, PairLookup, NotBelow, values, Keys
<1>9. ASSUME NEW j \in at .. (size - 1)
      PROVE  /\ XorOfCells(data', reverse_order[j], params) = PairLookup(reverse_order[j])
             /\ paired => XorOfCells(checks', reverse_order[j], params) = Fingerprint(reverse_order[j])
  <2>1. j \in Keys /\ j \in Int
    BY <1>3, <1>4 DEF Keys
  <2>2. CASE j = at
    BY <2>2, <1>6, <1>7
  <2>3. CASE j # at
    <3>1. at < j /\ j \in (at + 1) .. (size - 1)
      BY <2>1, <2>3, <1>3, <1>4
    <3>2. /\ reverse_order[j] \in Word
          /\ CellAt(h, params, found) \notin CellsOf(reverse_order[j], params)
      BY <2>1, <3>1, <1>2, <1>3, <1>4, CellsAbove
    <3>3. /\ XorOfCells(data, reverse_order[j], params) = PairLookup(reverse_order[j])
          /\ paired => XorOfCells(checks, reverse_order[j], params) = Fingerprint(reverse_order[j])
      BY <3>1, <1>1, <1>2 DEF AssignedStays
    <3> QED  BY <3>2, <3>3, <1>6, <1>7
  <2> QED  BY <2>2, <2>3
<1>10. AssignedStays'
  <2>1. at' + 1 = at
    BY <1>1, <1>4
  <2>2. /\ reverse_order' = reverse_order /\ params' = params /\ kind' = kind /\ size' = size
    BY <1>1
  <2>4. \A j \in at .. (size - 1) :
          /\ XorOfCells(data', reverse_order[j], params) = PairLookup(reverse_order[j])
          /\ paired => XorOfCells(checks', reverse_order[j], params) = Fingerprint(reverse_order[j])
    BY <1>9
  <2>5. SUFFICES ASSUME NEW j \in (at' + 1) .. (size' - 1)
                 PROVE  /\ XorOfCells(data, reverse_order[j], params)' = PairLookup(reverse_order[j])'
                        /\ (paired => XorOfCells(checks, reverse_order[j], params) = Fingerprint(reverse_order[j]))'
    BY DEF AssignedStays
  <2>6. j \in at .. (size - 1)
    BY <2>1, <2>2, <2>5
  <2>7. XorOfCells(data, reverse_order[j], params)' = XorOfCells(data', reverse_order[j], params)
    BY <2>2 DEF XorOfCells
  <2>8. XorOfCells(checks, reverse_order[j], params)' = XorOfCells(checks', reverse_order[j], params)
    BY <2>2 DEF XorOfCells
  <2>9. /\ PairLookup(reverse_order[j])' = PairLookup(reverse_order[j])
        /\ Fingerprint(reverse_order[j])' = Fingerprint(reverse_order[j])
    BY <1>1 DEF PairLookup, NotBelow, values, Keys, Fingerprint
  <2> QED  BY <2>2, <2>4, <2>6, <2>7, <2>8, <2>9
<1>11. at' \in -1 .. (size - 1)
  BY <1>1, <1>3, <1>4 DEF Keys
<1> QED  BY <1>1, <1>2, <1>6, <1>7, <1>8, <1>10, <1>11 DEF ArrayInv

(* The map that is installed answers its keys: each has an entry of the      *)
(* stack, and the search gave that entry the key's value.                   *)
LEMMA InstalledAnswers ==
  ASSUME Invariant, PeeledInv, OwnerInv, ArrayInv, Install
  PROVE  LookupCorrect'
<1>1. /\ stage = "assign" /\ at < 0
      /\ out' = [hash |-> hash, n |-> size, data_len |-> params.array_len, params |-> params,
                 data |-> data, checks |-> checks, owns |-> ArrayBuffers]
      /\ UNCHANGED <<size, params, reverse_order, mixed, kind>>
  BY DEF Install, vars, arguments
<1>2. rc = "OK" /\ at = -1 /\ AssignedStays
  <2>1. rc = "OK" /\ at \in -1 .. (size - 1) /\ AssignedStays
    BY <1>1 DEF ArrayInv
  <2>2. size \in Nat
    BY <2>1, StackAndKeys
  <2> QED  BY <1>1, <2>1, <2>2
<1>3. Keys' = Keys /\ values' = values
  BY <1>1 DEF Keys, values
<1>4. ASSUME NEW k \in Keys
      PROVE  Lookup(out, mixed[k])' = values[k]
  <2>1. PICK j \in Keys : reverse_order[j] = mixed[k]
    BY <1>2, StackAndKeys
  <2>2. PairLookup(mixed[k]) = values[k]
    BY <1>2, StackAndKeys, PairLookupFinds
  <2>3. /\ XorOfCells(data, mixed[k], params) = values[k]
        /\ kind # "constmap" => XorOfCells(checks, mixed[k], params) = Fingerprint(mixed[k])
    <3>1. j \in (at + 1) .. (size - 1)
      BY <1>2 DEF Keys
    <3> QED  BY <1>1, <1>2, <2>1, <2>2, <3>1 DEF AssignedStays
  <2>4. params.array_len # 0
    <3>1. WellFormed(params) /\ mixed[k] \in Word
      BY <1>2, StackAndKeys
    <3>2. CellAt(mixed[k], params, 0) \in 0 .. (params.array_len - 1)
      BY <3>1, CellsAreThree DEF Positions
    <3> QED  BY <3>2
  <2>5. /\ out'.data_len = params.array_len /\ out'.params = params
        /\ out'.data = data /\ out'.checks = checks
    BY <1>1
  <2>6. /\ XorOfCells(out'.data, mixed[k], out'.params) = values[k]
        /\ kind # "constmap" => XorOfCells(out'.checks, mixed[k], out'.params) = Fingerprint(mixed[k])
    BY <2>3, <2>5
  <2>7. /\ XorOfCells(out.data, mixed[k], out.params)' = XorOfCells(out'.data, mixed[k], out'.params)
        /\ XorOfCells(out.checks, mixed[k], out.params)' = XorOfCells(out'.checks, mixed[k], out'.params)
        /\ Fingerprint(mixed[k])' = Fingerprint(mixed[k])
    BY <1>1 DEF XorOfCells, Fingerprint
  <2> QED  BY <1>1, <2>4, <2>5, <2>6, <2>7 DEF Lookup
<1> QED  BY <1>3, <1>4 DEF LookupCorrect

LEMMA SizeFits ==
  ASSUME MaxSize <= Int32Max, size \in Sizes
  PROVE  LessOne(AsInt32(size)) = {size - 1}
<1>1. AsInt32(size) = size /\ size \in Nat /\ Int32Max \in Nat
  BY GeometryAssumption, BuildAssumption DEF AsInt32, Sizes
<1>2. size # -Int32Max - 1
  BY <1>1
<1> QED  BY <1>1, <1>2 DEF LessOne

LEMMA ArrayNext ==
  ASSUME MaxSize <= Int32Max, [BuildNext]_allVars,
         Invariant, Invariant', PeeledInv, OwnerInv, ArrayInv
  PROVE  ArrayInv'
<1>1. Cells' = Cells
  BY StepsOfPeel, CellsAreGiven DEF Invariant
<1>2. CASE RejectHash \/ EmptyInput \/ TooManyKeys \/ AllocateFails \/ PeelFailed \/ Install \/ Free
  <2>1. stage' \in {"returned", "freed"}
    BY <1>2 DEF RejectHash, EmptyInput, TooManyKeys, AllocateFails, PeelFailed, Install, Free, Finish
  <2> QED  BY <2>1 DEF ArrayInv, AssignedStays
<1>3. CASE Allocate
  <2>1. stage' = "peel" /\ data' = ZeroOn(Cells) /\ checks' = ZeroOn(Cells) /\ n' = n /\ n # 0
    BY <1>3 DEF Allocate, Allocated, arguments
  <2> QED  BY <1>1, <2>1, ZeroesAreWords DEF ArrayInv, AssignedStays
<1>4. CASE PeelStep
  BY <1>1, <1>4 DEF PeelStep, buildVars, ArrayInv, AssignedStays
<1>5. CASE BeginAssign
  <2>1. /\ stage = "peel" /\ rc = "OK" /\ stage' = "assign" /\ at' \in LessOne(AsInt32(size))
        /\ UNCHANGED <<size, rc, n, data, checks>>
    BY <1>5 DEF BeginAssign, vars, arguments
  <2>2. size \in Sizes /\ size \in Nat
    BY <2>1, StackAndKeys
  <2>3. at' = size - 1
    BY <2>1, <2>2, SizeFits
  <2>4. AssignedStays'
    BY <2>1, <2>2, <2>3 DEF AssignedStays
  <2>5. at' \in -1 .. (size' - 1)
    BY <2>1, <2>2, <2>3
  <2> QED  BY <1>1, <2>1, <2>4, <2>5 DEF ArrayInv
<1>6. CASE AssignCell
  BY <1>6, AssignKeeps
<1>7. CASE UNCHANGED allVars
  <2>1. UNCHANGED <<size, params, mixed, reverse_order, rc, kind, n, stage, data, checks, at>>
    BY <1>7 DEF allVars, vars, buildVars
  <2>2. AssignedStays' = AssignedStays
    BY <2>1 DEF AssignedStays, XorOfCells, PairLookup, NotBelow, values, Keys, Fingerprint
  <2> QED  BY <1>1, <2>1, <2>2 DEF ArrayInv
<1> QED  BY <1>2, <1>3, <1>4, <1>5, <1>6, <1>7 DEF BuildNext, Call, Idle

LEMMA LookupNext ==
  ASSUME [BuildNext]_allVars, Invariant, PeeledInv, OwnerInv, ArrayInv, LookupCorrect
  PROVE  LookupCorrect'
<1>1. CASE Install
  BY <1>1, InstalledAnswers
<1>2. CASE UNCHANGED allVars
  BY <1>2 DEF allVars, vars, buildVars, LookupCorrect, Built, Lookup, XorOfCells, Fingerprint,
              Keys, values
<1>3. CASE RejectHash \/ EmptyInput \/ TooManyKeys \/ AllocateFails \/ Allocate \/ PeelStep
            \/ PeelFailed \/ BeginAssign \/ AssignCell \/ Free
  <2>1. ~ Built'
    BY <1>3 DEF RejectHash, EmptyInput, TooManyKeys, AllocateFails, Allocated, Allocate, PeelStep,
                PeelFailed, BeginAssign, AssignCell, Free, Finish, Built, arguments, buildVars
  <2> QED  BY <2>1 DEF LookupCorrect
<1> QED  BY <1>1, <1>2, <1>3 DEF BuildNext, Call, Idle

(* As long as no size is above INT32_MAX, the invariant of a construction    *)
(* holds in every state.                                                    *)
THEOREM ConstructionInvariantHolds ==
  ASSUME MaxSize <= Int32Max
  PROVE  BuildSpec => []ConstructionInvariant
<1>1. BuildInit => ConstructionInvariant
  <2>1. BuildInit => ArrayInv /\ LookupCorrect
    BY DEF BuildInit, ArrayInv, AssignedStays, LookupCorrect, Built
  <2> QED  BY <2>1, InvariantInit, PeeledInit, OwnerInit DEF BuildInit, ConstructionInvariant
<1>2. ConstructionInvariant /\ [BuildNext]_allVars => ConstructionInvariant'
  <2> SUFFICES ASSUME ConstructionInvariant, [BuildNext]_allVars PROVE ConstructionInvariant'
    OBVIOUS
  <2>1. Invariant /\ PeeledInv /\ OwnerInv /\ ArrayInv /\ LookupCorrect
    BY DEF ConstructionInvariant
  <2>2. Invariant' /\ PeeledInv' /\ OwnerInv'
    BY <2>1, StepsOfPeel, InvariantNext, PeeledNext, OwnerNext
  <2>3. ArrayInv' /\ LookupCorrect'
    BY <2>1, <2>2, ArrayNext, LookupNext
  <2> QED  BY <2>2, <2>3 DEF ConstructionInvariant
<1> QED  BY <1>1, <1>2, PTL DEF BuildSpec

(* Assigning a cell never disturbs what was assigned above it on the stack. *)
THEOREM AssignedKept ==
  ASSUME MaxSize <= Int32Max
  PROVE  BuildSpec => []AssignedStays
<1>1. ConstructionInvariant => AssignedStays
  BY DEF ConstructionInvariant, ArrayInv
<1> QED  BY <1>1, ConstructionInvariantHolds, PTL

(* The search finds the pair of the very hash it is given. *)
THEOREM PairsFound ==
  ASSUME MaxSize <= Int32Max
  PROVE  BuildSpec => []PairFound
<1>1. ConstructionInvariant => PairFound
  <2> SUFFICES ASSUME ConstructionInvariant, stage = "assign", at >= 0
               PROVE  \E k \in Keys : /\ mixed[k] = reverse_order[at]
                                     /\ PairLookup(reverse_order[at]) = values[k]
    BY DEF PairFound
  <2>1. Invariant /\ PeeledInv /\ rc = "OK" /\ at \in -1 .. (size - 1)
    BY DEF ConstructionInvariant, ArrayInv
  <2>2. at \in Keys
    <3>1. size \in Nat
      BY <2>1, StackAndKeys
    <3> QED  BY <2>1, <3>1 DEF Keys
  <2> QED  BY <2>1, <2>2, PairLookupOfStack
<1> QED  BY <1>1, ConstructionInvariantHolds, PTL

(* A map that was built answers every one of its keys with its value. *)
THEOREM LookupsCorrect ==
  ASSUME MaxSize <= Int32Max
  PROVE  BuildSpec => []LookupCorrect
<1>1. ConstructionInvariant => LookupCorrect
  BY DEF ConstructionInvariant
<1> QED  BY <1>1, ConstructionInvariantHolds, PTL

-----------------------------------------------------------------------------
(* The abstract map. *)

LEMMA AnswersAreGiven ==
  ASSUME OwnerInv, LookupCorrect
  PROVE  AnswersInv
<1> SUFFICES ASSUME status = "built" PROVE answers = given
  BY DEF AnswersInv
<1>1. stage = "returned" /\ result = "OK"
  BY DEF status, OwnerInv
<1>2. CASE n = 0
  BY <1>2 DEF answers, given, Built
<1>3. CASE n # 0
  <2>1. \A k \in Keys : Lookup(out, mixed[k]) = values[k]
    BY <1>1, <1>3 DEF LookupCorrect, Built
  <2>2. answers = [k \in Keys |-> Lookup(out, mixed[k])] /\ given = values
    BY <1>1, <1>3 DEF answers, given, Built
  <2>3. values = [k \in Keys |-> values[k]]
    BY DEF values
  <2> QED  BY <2>1, <2>2, <2>3
<1> QED  BY <1>2, <1>3

LEMMA GivenStays ==
  ASSUME [BuildNext]_allVars
  PROVE  given' = given
<1>1. size' = size
  BY StepsOfPeel, SizeIsGiven
<1>2. n' = n
  BY DEF BuildNext, Call, allVars, buildVars, RejectHash, EmptyInput, TooManyKeys, AllocateFails,
         Allocate, PeelStep, PeelFailed, BeginAssign, AssignCell, Install, Free, Idle, arguments
<1> QED  BY <1>1, <1>2 DEF given, values, Keys

(* Every step of a call, and the free, is a step of the abstract map or is    *)
(* not seen there.                                                          *)
LEMMA StepsOfTheMap ==
  ASSUME [BuildNext]_allVars, OwnerInv, AnswersInv, AnswersInv'
  PROVE  [Map!Next]_<<status, given, answers>>
<1>1. given' = given
  BY GivenStays
<1>2. ~ Built => answers = << >>
  BY DEF answers, NoKeys
<1>3. ~ Built' => answers' = << >>
  BY DEF answers, NoKeys
<1>4. CASE RejectHash \/ TooManyKeys \/ AllocateFails \/ PeelFailed
  <2>1. /\ stage \in {"call", "peel"} /\ stage' = "returned" /\ result' # "OK"
    BY <1>4 DEF RejectHash, TooManyKeys, AllocateFails, Allocated, PeelFailed, Finish
  <2>2. status = "building" /\ status' = "failed" /\ ~ Built /\ ~ Built'
    BY <2>1 DEF status, Built
  <2>3. Map!Fail
    BY <1>1, <1>2, <1>3, <2>2 DEF Map!Fail
  <2> QED  BY <2>3 DEF Map!Next
<1>5. CASE EmptyInput \/ Install
  <2>1. stage \in {"call", "assign"} /\ stage' = "returned" /\ result' = "OK"
    BY <1>5 DEF EmptyInput, Install, Finish
  <2>2. status = "building" /\ status' = "built"
    BY <2>1 DEF status
  <2>3. answers' = given
    BY <1>1, <2>2 DEF AnswersInv
  <2>4. Map!Succeed
    BY <1>1, <2>2, <2>3 DEF Map!Succeed
  <2> QED  BY <2>4 DEF Map!Next
<1>6. CASE Allocate \/ PeelStep \/ BeginAssign \/ AssignCell
  <2>1. stage \in {"call", "peel", "assign"} /\ stage' \in {"call", "peel", "assign"}
    BY <1>6 DEF Allocate, Allocated, PeelStep, BeginAssign, AssignCell, buildVars
  <2>2. status' = status /\ ~ Built /\ ~ Built'
    BY <2>1 DEF status, Built
  <2> QED  BY <1>1, <1>2, <1>3, <2>2
<1>7. CASE Free
  <2>1. stage = "returned" /\ result = "OK" /\ stage' = "freed"
    BY <1>7 DEF Free
  <2>2. status = "built" /\ status' = "freed" /\ ~ Built'
    BY <2>1 DEF status, Built
  <2>3. Map!Discard
    BY <1>1, <1>3, <2>2 DEF Map!Discard, Map!NoMap
  <2> QED  BY <2>3 DEF Map!Next
<1>8. CASE UNCHANGED allVars
  <2>1. UNCHANGED <<stage, result, n, out, kind, size, mixed>>
    BY <1>8 DEF allVars, vars, buildVars
  <2>2. status' = status
    BY <2>1 DEF status
  <2>3. answers' = answers
    BY <2>1 DEF answers, Built, Lookup, XorOfCells, Fingerprint, Keys, NoKeys
  <2> QED  BY <1>1, <2>2, <2>3
<1> QED  BY <1>4, <1>5, <1>6, <1>7, <1>8 DEF BuildNext, Call, Idle

(* The constructors are an implementation of the abstract map: a call fails   *)
(* with nothing answered, or every key answers what was given for it until   *)
(* the map is freed.                                                        *)
THEOREM ConstructorsImplementMap ==
  ASSUME MaxSize <= Int32Max
  PROVE  BuildSpec => ImplementsStaticMap
<1>1. BuildInit => Map!Init
  BY DEF BuildInit, Map!Init, Map!NoMap, status, answers, Built, NoKeys
<1>2. ConstructionInvariant => OwnerInv /\ AnswersInv
  BY AnswersAreGiven DEF ConstructionInvariant
<1>3. OwnerInv /\ AnswersInv /\ AnswersInv' /\ [BuildNext]_allVars
        => [Map!Next]_<<status, given, answers>>
  BY StepsOfTheMap
<1> QED  BY <1>1, <1>2, <1>3, ConstructionInvariantHolds, PTL
         DEF BuildSpec, ImplementsStaticMap, Map!Spec

-----------------------------------------------------------------------------
(* Through the serialized form. *)

(* The fields of a struct are of 32 bits: what the constructors put there    *)
(* has to fit.                                                              *)
FieldsFit == MaxSize < Uint32 /\ \A s \in Sizes : InitParams(s).array_len < Uint32

LEMMA ZeroedFields ==
  ASSUME NEW h
  PROVE  Zeroed(h).hash = h /\ Zeroed(Zeroed(h).hash) = Zeroed(h)
BY DEF Zeroed

LEMMA InstalledNext ==
  ASSUME ConstructionInvariant, InstalledInv, [BuildNext]_allVars
  PROVE  InstalledInv'
<1> USE DEF InstalledInv, HoldsKeys
<1>1. CASE RejectHash \/ TooManyKeys \/ AllocateFails \/ Free
  <2>1. stage' \in {"returned", "freed"} /\ ~ (stage' = "returned" /\ result' = "OK")
    BY <1>1 DEF RejectHash, TooManyKeys, AllocateFails, Free, Finish
  <2> QED  BY <2>1
<1>2. CASE EmptyInput
  <2>1. hash \in KnownHashes /\ stage' = "returned" /\ out' = Zeroed(hash)
    BY <1>2 DEF EmptyInput, Finish
  <2> DEFINE z == Zeroed(hash)
  <2>2. z.hash = hash /\ z = Zeroed(z.hash)
    BY ZeroedFields
  <2> HIDE DEF z
  <2>3. out' = z
    BY <2>1 DEF z
  <2>4. KnownHashes' = KnownHashes /\ Zeroed(out.hash)' = Zeroed(out'.hash)
    BY DEF KnownHashes, Zeroed
  <2> QED  BY <2>1, <2>2, <2>3, <2>4
<1>3. CASE Allocate
  <2>1. hash \in KnownHashes /\ hash' = hash /\ stage' = "peel"
    BY <1>3 DEF Allocate, Allocated, arguments
  <2> QED  BY <2>1 DEF KnownHashes
<1>4. CASE PeelStep \/ BeginAssign \/ AssignCell
  <2>1. stage \in {"peel", "assign"} /\ stage' \in {"peel", "assign"} /\ hash' = hash
    BY <1>4 DEF PeelStep, BeginAssign, AssignCell, buildVars, arguments
  <2> QED  BY <2>1 DEF KnownHashes
<1>5. CASE PeelFailed
  <2>1. stage' = "returned" /\ result' # "OK"
    BY <1>5 DEF PeelFailed, Finish
  <2> QED  BY <2>1
<1>6. CASE Install
  <2>1. /\ stage = "assign" /\ stage' = "returned"
        /\ out' = [hash |-> hash, n |-> size, data_len |-> params.array_len, params |-> params,
                   data |-> data, checks |-> checks, owns |-> ArrayBuffers]
    BY <1>6 DEF Install, Finish
  <2>2. hash \in KnownHashes
    BY <2>1
  <2>3. Invariant /\ PeeledInv /\ ArrayInv /\ rc = "OK"
    BY <2>1 DEF ConstructionInvariant, ArrayInv
  <2>4. WellFormed(params) /\ size \in Sizes
    BY <2>3, StackAndKeys
  <2>5. params.array_len = InitParams(size).array_len
    BY <2>3, ArrayLength DEF Invariant
  <2>6. data \in [0 .. (params.array_len - 1) -> Word] /\ checks \in [0 .. (params.array_len - 1) -> Word]
    BY <2>1, <2>3 DEF ArrayInv, Cells
  <2>7. /\ out'.hash = hash /\ out'.n = size /\ out'.data_len = params.array_len
        /\ out'.params = params /\ out'.data = data /\ out'.checks = checks
    BY <2>1
  <2>8. /\ WellFormed(out'.params) /\ out'.n \in Sizes
        /\ out'.data_len = out'.params.array_len
        /\ out'.data_len \in { InitParams(s).array_len : s \in Sizes }
        /\ {out'.data, out'.checks} \subseteq [0 .. (out'.data_len - 1) -> Word]
    BY <2>4, <2>5, <2>6, <2>7
  <2> QED  BY <2>1, <2>2, <2>7, <2>8 DEF KnownHashes
<1>7. CASE UNCHANGED allVars
  <2>1. UNCHANGED <<stage, hash, result, out>>
    BY <1>7 DEF allVars, buildVars
  <2> QED  BY <2>1 DEF KnownHashes, Zeroed
<1> QED  BY <1>1, <1>2, <1>3, <1>4, <1>5, <1>6, <1>7 DEF BuildNext, Call, Idle

-----------------------------------------------------------------------------
LEMMA QuotientAndRest ==
  ASSUME NEW L \in Nat \ {0}, NEW x \in Nat
  PROVE  x % L \in 0 .. (L - 1) /\ x \div L \in Nat /\ x = (x \div L) * L + (x % L)
<1> DEFINE d == x \div L
           r == x % L
<1>1. d = x \div L /\ r = x % L
  OBVIOUS
<1> HIDE DEF d, r
<1>2. x = d * L + r
  BY <1>1, DivModForm
<1>3. d \in Nat /\ r \in 0 .. (L - 1)
  BY <1>1
<1> QED  BY <1>2, <1>3 DEF d, r

(* A word is what its two units say. *)
LEMMA WordSplit ==
  ASSUME NEW w \in Word
  PROVE  AsUnits(w) \in WordUnits /\ AsWord(AsUnits(w)) = w
<1> DEFINE U == UnitValues
           a == w % U
           b == w \div U
<1>1. U \in Nat \ {0} /\ U <= Uint32 /\ 2^WordBits <= U * U /\ Uint32 \in Nat /\ 2^WordBits \in Nat
  BY RoundTripAssumption, SerialAssumption, WordBitsAssumption
<1>2. w \in Nat /\ w < 2^WordBits
  BY <1>1 DEF Word
<1> DEFINE P == 2^WordBits
<1> HIDE DEF U, P
<1>3. P \in Nat /\ P <= U * U /\ w < P
  BY <1>1, <1>2 DEF P
<1>4. a \in 0 .. (U - 1) /\ b \in Nat /\ w = b * U + a
  <2>1. U \in Nat \ {0} /\ w \in Nat
    BY <1>1, <1>2
  <2>2. /\ w % U \in 0 .. (U - 1) /\ w \div U \in Nat
        /\ w = (w \div U) * U + (w % U)
    BY ONLY <2>1, QuotientAndRest
  <2> QED  BY <2>2
<1> HIDE DEF a, b
<1>5. b < U
  <2> SUFFICES ASSUME b >= U PROVE FALSE
    BY <1>1, <1>4
  <2>1. b * U >= U * U
    BY <1>1, <1>4
  <2>2. b * U \in Nat /\ U * U \in Nat
    BY <1>1, <1>4
  <2> HIDE DEF P
  <2> QED  BY <1>1, <1>2, <1>3, <1>4, <2>1, <2>2
<1>6. AsUnits(w) = <<Num(a), Num(b)>>
  BY DEF AsUnits, a, b, U
<1>7. a \in Number /\ b \in Number
  BY <1>1, <1>4, <1>5 DEF Number
<1>8. Num(a) \in NumUnit /\ Num(b) \in NumUnit
  BY <1>7 DEF Num, NumUnit
<1>9. AsUnits(w) \in WordUnits
  BY <1>6, <1>8 DEF WordUnits
<1>10. AsWord(AsUnits(w)) = a + U * b
  BY <1>6 DEF AsWord, Num, U
<1>11. a + U * b = w
  BY <1>1, <1>4
<1> QED  BY <1>9, <1>10, <1>11

(* The numbers in a struct that holds keys. *)
LEMMA FullNumbers ==
  ASSUME FieldsFit, HoldsKeys, NEW len, len = out.params.segment_length,
         NEW count, count = out.params.segment_count
  PROVE  /\ len \in PowersOfTwo /\ len \in Nat \ {0} /\ count \in Nat \ {0}
         /\ out.data_len = (count + 2) * len /\ out.data_len \in Nat \ {0}
         /\ out.data_len < Uint32 /\ out.data_len <= 2^WordBits
         /\ out.params = [segment_length |-> len, segment_count |-> count, array_len |-> out.data_len]
         /\ count * len \in Nat /\ count * len < Uint32 /\ len < Uint32 /\ count < Uint32
         /\ out.n \in Nat /\ out.n < Uint32
<1>1. out.params \in [segment_length : PowersOfTwo, segment_count : Nat \ {0}, array_len : Nat]
  BY DEF HoldsKeys, WellFormed
<1>2. len \in PowersOfTwo /\ len \in Nat \ {0} /\ count \in Nat \ {0}
  BY <1>1, PowersAssumption
<1>3. out.data_len = (count + 2) * len /\ out.data_len <= 2^WordBits
  BY DEF HoldsKeys, WellFormed
<1>4. out.data_len < Uint32
  BY DEF HoldsKeys, FieldsFit
<1>5. out.params = [segment_length |-> len, segment_count |-> count, array_len |-> out.data_len]
  BY <1>1 DEF HoldsKeys
<1>6. out.n \in Nat /\ out.n < Uint32
  BY GeometryAssumption, SerialAssumption DEF HoldsKeys, FieldsFit, Sizes
<1>7. (count + 2) * len = count * len + 2 * len
  BY <1>2
<1>8. count * len \in Nat /\ count * len >= count
  BY <1>2
<1>9. Uint32 \in Nat
  BY SerialAssumption
<1> QED  BY <1>2, <1>3, <1>4, <1>5, <1>6, <1>7, <1>8, <1>9

(* The array of words as units. *)
LEMMA InUnitsIs ==
  ASSUME NEW table \in [0 .. (out.data_len - 1) -> Word], out.data_len \in Nat
  PROVE  /\ InUnits(table) \in Seq(WordUnits) /\ Len(InUnits(table)) = out.data_len
         /\ \A c \in 0 .. (out.data_len - 1) : AsWord(InUnits(table)[c + 1]) = table[c]
<1> DEFINE len == out.data_len
           u == InUnits(table)
<1>1. u = [c \in 1 .. len |-> AsUnits(table[c - 1])]
  BY DEF InUnits
<1>2. \A c \in 1 .. len : c - 1 \in 0 .. (len - 1)
  OBVIOUS
<1>3. \A c \in 1 .. len : u[c] \in WordUnits
  BY <1>1, <1>2, WordSplit
<1>4. ASSUME NEW c \in 0 .. (len - 1)
      PROVE  AsWord(u[c + 1]) = table[c]
  <2>1. c + 1 \in 1 .. len /\ (c + 1) - 1 = c
    OBVIOUS
  <2>2. u[c + 1] = AsUnits(table[c])
    BY <1>1, <2>1
  <2> QED  BY <2>2, WordSplit
<1> HIDE DEF u
<1>5. u \in Seq(WordUnits) /\ Len(u) = len
  <2>1. u = [c \in 1 .. len |-> u[c]]
    BY <1>1
  <2>2. u \in Seq(WordUnits)
    BY <1>3, <2>1, IsSequence
  <2>3. Len(u) = len
    BY <2>1, <2>2, LenProperties
  <2> QED  BY <2>2, <2>3
<1> QED  BY <1>4, <1>5 DEF u

LEMMA SeedIsWord == Seed \in WordUnits
<1>1. /\ UnitValues \in Nat /\ UnitValues <= Uint32 /\ Uint32 \in Nat
      /\ 4 <= UnitValues * UnitValues
  <2>1. 4 <= 2^WordBits /\ 2^WordBits <= UnitValues * UnitValues /\ UnitValues \in Nat
        /\ 2^WordBits \in Nat /\ UnitValues <= Uint32 /\ Uint32 \in Nat
    BY RoundTripAssumption, SerialAssumption, WordBitsAssumption
  <2> DEFINE U == UnitValues
             P == 2^WordBits
  <2>2. P = 2^WordBits /\ U = UnitValues
    OBVIOUS
  <2> HIDE DEF U, P
  <2>3. 4 <= P /\ P <= U * U /\ U \in Nat /\ P \in Nat
    BY <2>1, <2>2
  <2>4. 4 <= U * U
    BY <2>3
  <2> QED  BY <2>1, <2>2, <2>4
<1> DEFINE U == UnitValues
<1> HIDE DEF U
<1>2. U \in Nat /\ U <= Uint32 /\ Uint32 \in Nat /\ 4 <= U * U
  BY <1>1 DEF U
<1>3. U # 0 /\ U # 1
  BY <1>2
<1>4. 1 < Uint32
  BY <1>2, <1>3
<1>5. 0 \in Number /\ 1 \in Number
  BY <1>2, <1>4 DEF Number
<1> QED  BY <1>5 DEF Seed, WordUnits, NumUnit, Num

(* The empty map, and one that holds keys. *)
LEMMA StructOf ==
  ASSUME FieldsFit, kind \in Kinds, out.hash \in KnownHashes, out = Zeroed(out.hash) \/ HoldsKeys
  PROVE  IsStruct(Struct) /\ HasFitParams(Struct)
<1> DEFINE m == Struct
           len == out.params.segment_length
           count == out.params.segment_count
<1>1. kind \in Types /\ out.hash \in {"XXH64", "XXH3"} /\ Seed \in WordUnits
  BY SeedIsWord DEF Kinds, Types, KnownHashes
<1>2. Uint32 \in Nat \ {0}
  BY SerialAssumption
<1>3. /\ m.type = kind /\ m.data_len = out.data_len
      /\ m.segment_length = len /\ m.segment_count = count /\ m.segment_count_length = count * len
      /\ m.segment_length_mask = IF out.data_len = 0 THEN 0 ELSE len - 1
      /\ m.data = InUnits(out.data)
      /\ m.checks = IF kind = "constmap" THEN << >> ELSE InUnits(out.checks)
  BY DEF Struct
<1>4. /\ len \in Number /\ count \in Number /\ out.data_len \in Number /\ out.n \in Number
      /\ count * len \in Number /\ m.segment_length_mask \in Number
      /\ m.segment_length_mask = Mask(len) /\ CountLength(count, len) = count * len
      /\ ParamsOk(len, count, out.data_len)
      /\ InUnits(out.data) \in Seq(WordUnits) /\ Len(InUnits(out.data)) = out.data_len
      /\ InUnits(out.checks) \in Seq(WordUnits) /\ Len(InUnits(out.checks)) = out.data_len
  <2>1. CASE out = Zeroed(out.hash)
    <3>1. len = 0 /\ count = 0 /\ out.data_len = 0 /\ out.n = 0
      BY <2>1 DEF Zeroed
    <3>2. count * len = 0 /\ m.segment_length_mask = 0
      BY <1>3, <3>1
    <3>3. 0 \in Number
      BY <1>2 DEF Number
    <3>4. Mask(len) = 0 /\ CountLength(count, len) = 0
      BY <1>2, <3>1, <3>2 DEF Mask, CountLength
    <3>5. \A table : InUnits(table) = << >>
      BY <3>1 DEF InUnits
    <3>6. << >> \in Seq(WordUnits) /\ Len(<< >>) = 0
      OBVIOUS
    <3> QED  BY <3>1, <3>2, <3>3, <3>4, <3>5, <3>6 DEF ParamsOk
  <2>2. CASE HoldsKeys
    <3>1. /\ len \in PowersOfTwo /\ len \in Nat \ {0} /\ count \in Nat \ {0}
          /\ out.data_len = (count + 2) * len /\ out.data_len \in Nat \ {0}
          /\ out.data_len < Uint32 /\ out.data_len <= 2^WordBits
          /\ out.params = [segment_length |-> len, segment_count |-> count, array_len |-> out.data_len]
          /\ count * len \in Nat /\ count * len < Uint32 /\ len < Uint32 /\ count < Uint32
          /\ out.n \in Nat /\ out.n < Uint32
      <4> HIDE DEF m, len, count
      <4>1. len = out.params.segment_length /\ count = out.params.segment_count
        BY DEF len, count
      <4> QED  BY <4>1, <2>2, FullNumbers
    <3> HIDE DEF m, len, count
    <3>2. /\ len \in Number /\ count \in Number /\ out.data_len \in Number /\ out.n \in Number
          /\ count * len \in Number
      BY <1>2, <3>1 DEF Number
    <3>3. m.segment_length_mask = len - 1 /\ len - 1 \in Number /\ Mask(len) = len - 1
      BY <1>2, <1>3, <3>1 DEF Number, Mask
    <3>4. CountLength(count, len) = count * len
      <4> DEFINE p == count * len
      <4>1. p \in Nat /\ p < Uint32
        BY <3>1
      <4> HIDE DEF p
      <4>2. p % Uint32 = p
        BY <1>2, <4>1
      <4> QED  BY <4>2 DEF CountLength, p
    <3>5. ParamsOk(len, count, out.data_len)
      <4>1. PICK j \in 0 .. WordBits : len = 2^j
        BY <3>1 DEF PowersOfTwo
      <4>2. j <= 2^j /\ j \in Nat
        BY <4>1, PowersAssumption, WordBitsAssumption
      <4>3. j \in 0 .. len
        BY <4>1, <4>2, <3>1
      <4>4. IsPowerOfTwo(len)
        BY <4>1, <4>3 DEF IsPowerOfTwo
      <4> QED  BY <4>4, <3>1 DEF ParamsOk
    <3>6. /\ InUnits(out.data) \in Seq(WordUnits) /\ Len(InUnits(out.data)) = out.data_len
          /\ InUnits(out.checks) \in Seq(WordUnits) /\ Len(InUnits(out.checks)) = out.data_len
      <4>1. out.data \in [0 .. (out.data_len - 1) -> Word] /\ out.checks \in [0 .. (out.data_len - 1) -> Word]
        BY <2>2 DEF HoldsKeys
      <4> QED  BY <3>1, <4>1, InUnitsIs
    <3> QED  BY <3>2, <3>3, <3>4, <3>5, <3>6
  <2> QED  BY <2>1, <2>2
<1>5. << >> \in Seq(WordUnits) /\ Len(<< >>) = 0
  OBVIOUS
<1>6. m \in [type : Types, hash : {"XXH64", "XXH3"}, seed : WordUnits,
             segment_length : Number, segment_length_mask : Number,
             segment_count : Number, segment_count_length : Number,
             data_len : Number, n : Number, data : Seq(WordUnits), checks : Seq(WordUnits)]
  <2> DEFINE c == IF kind = "constmap" THEN << >> ELSE InUnits(out.checks)
             k == m.segment_length_mask
             p == count * len
             d == InUnits(out.data)
  <2>1. m = [type |-> kind, hash |-> out.hash, seed |-> Seed,
             segment_length |-> len, segment_length_mask |-> k,
             segment_count |-> count, segment_count_length |-> p,
             data_len |-> out.data_len, n |-> out.n, data |-> d, checks |-> c]
    BY DEF Struct
  <2>2. c \in Seq(WordUnits) /\ k \in Number /\ p \in Number /\ d \in Seq(WordUnits)
    BY <1>4, <1>5
  <2> HIDE DEF m, len, count, c, k, p, d
  <2> QED  BY <1>1, <1>4, <2>1, <2>2
<1>7. Len(m.data) = m.data_len /\ Len(m.checks) = IF m.type = "constmap" THEN 0 ELSE m.data_len
  BY <1>3, <1>4, <1>5
<1>8. IsStruct(m)
  <2> HIDE DEF m, len, count
  <2> QED  BY <1>3, <1>4, <1>6, <1>7 DEF IsStruct
<1>9. HasFitParams(m)
  <2> HIDE DEF m, len, count
  <2> QED  BY <1>3, <1>4 DEF HasFitParams
<1> QED  BY <1>8, <1>9

(* The cells of a hash are the same, from the fields and from the parameters. *)
LEMMA CellsFromFields ==
  ASSUME NEW p, WellFormed(p), NEW m, NEW h \in Word,
         m.segment_length = p.segment_length,
         m.segment_length_mask = p.segment_length - 1,
         m.segment_count_length = p.segment_count * p.segment_length
  PROVE  /\ CellsIn(m, h) = <<H0(h, p), H1(h, p), H2(h, p)>>
         /\ H0(h, p) \in 0 .. (p.array_len - 1)
         /\ H1(h, p) \in 0 .. (p.array_len - 1)
         /\ H2(h, p) \in 0 .. (p.array_len - 1)
<1> DEFINE len == p.segment_length
           count == p.segment_count
           x == H0(h, p)
<1>1. /\ CellAt(h, p, 0) \in 0 .. (p.array_len - 1) /\ CellAt(h, p, 1) \in 0 .. (p.array_len - 1)
      /\ CellAt(h, p, 2) \in 0 .. (p.array_len - 1)
  BY CellsAreThree DEF Positions
<1>2. /\ x \in 0 .. (p.array_len - 1) /\ H1(h, p) \in 0 .. (p.array_len - 1)
      /\ H2(h, p) \in 0 .. (p.array_len - 1)
  BY <1>1, CellAtCases
<1>3. len \in Nat \ {0} /\ p.array_len \in Nat
  BY PowersAssumption DEF WellFormed
<1>4. x = MulHigh(h, count * len)
  BY DEF H0
<1>5. H1(h, p) = Xor(x + len, Low1(h, p)) /\ H2(h, p) = Xor(x + 2 * len, Low2(h, p))
  BY DEF H1, H2
<1>6. Low1(h, p) = (h \div 2^HashShift) % len /\ Low2(h, p) = h % len
  BY DEF Low1, Low2
<1>7. m.segment_count_length = count * len /\ m.segment_length = len /\ m.segment_length_mask = len - 1
  OBVIOUS
<1> DEFINE y == h \div 2^HashShift
<1> HIDE DEF len, count, x, y
<1>8. len - 1 + 1 = len /\ (x + len) + len = x + 2 * len
  BY <1>2, <1>3
<1>9. CellsIn(m, h) = << x, Xor(x + len, y % len), Xor((x + len) + len, h % len) >>
  <2>1. m.segment_length_mask + 1 = len
    BY <1>3, <1>7
  <2>2. MulHigh(h, m.segment_count_length) = x
    BY <1>4, <1>7
  <2> QED  BY <1>7, <2>1, <2>2 DEF CellsIn, y
<1>10. CellsIn(m, h) = << x, H1(h, p), H2(h, p) >>
  BY <1>5, <1>6, <1>8, <1>9 DEF y
<1> QED  BY <1>2, <1>10 DEF x

LEMMA CellsRead ==
  ASSUME FieldsFit, HoldsKeys, NEW h \in Word
  PROVE  /\ CellsIn(Struct, h) = <<H0(h, out.params), H1(h, out.params), H2(h, out.params)>>
         /\ H0(h, out.params) \in 0 .. (out.data_len - 1)
         /\ H1(h, out.params) \in 0 .. (out.data_len - 1)
         /\ H2(h, out.params) \in 0 .. (out.data_len - 1)
<1> DEFINE m == Struct
           p == out.params
<1>1. WellFormed(p) /\ out.data_len = p.array_len
  BY DEF HoldsKeys
<1>2. out.data_len # 0
  BY FullNumbers
<1>3. /\ m.segment_length = p.segment_length /\ m.segment_length_mask = p.segment_length - 1
      /\ m.segment_count_length = p.segment_count * p.segment_length
  BY <1>2 DEF Struct
<1> HIDE DEF m, p
<1>4. /\ CellsIn(m, h) = <<H0(h, p), H1(h, p), H2(h, p)>>
      /\ H0(h, p) \in 0 .. (p.array_len - 1)
      /\ H1(h, p) \in 0 .. (p.array_len - 1)
      /\ H2(h, p) \in 0 .. (p.array_len - 1)
  BY <1>1, <1>3, CellsFromFields
<1> QED  BY <1>1, <1>4 DEF m, p

LEMMA XorRead ==
  ASSUME FieldsFit, HoldsKeys, NEW h \in Word, NEW table \in [0 .. (out.data_len - 1) -> Word]
  PROVE  XorIn(InUnits(table), CellsIn(Struct, h)) = XorOfCells(table, h, out.params)
<1> DEFINE x == H0(h, out.params)
           y == H1(h, out.params)
           z == H2(h, out.params)
           u == InUnits(table)
           cells == CellsIn(Struct, h)
<1>1. /\ cells = <<x, y, z>>
      /\ x \in 0 .. (out.data_len - 1) /\ y \in 0 .. (out.data_len - 1) /\ z \in 0 .. (out.data_len - 1)
  BY CellsRead
<1>2. out.data_len \in Nat
  BY FullNumbers
<1>3. \A c \in 0 .. (out.data_len - 1) : AsWord(u[c + 1]) = table[c]
  BY <1>2, InUnitsIs
<1>4. XorOfCells(table, h, out.params) = Xor(Xor(table[x], table[y]), table[z])
  BY DEF XorOfCells
<1>5. XorIn(u, cells) = Xor(Xor(AsWord(u[cells[1] + 1]), AsWord(u[cells[2] + 1])), AsWord(u[cells[3] + 1]))
  BY DEF XorIn
<1> HIDE DEF x, y, z, u, cells
<1>6. cells[1] = x /\ cells[2] = y /\ cells[3] = z
  BY <1>1
<1>7. XorIn(u, cells) = Xor(Xor(table[x], table[y]), table[z])
  BY <1>1, <1>3, <1>5, <1>6
<1> QED  BY <1>4, <1>7 DEF u, cells

LEMMA LookupRead ==
  ASSUME FieldsFit, kind \in Kinds, out = Zeroed(out.hash) \/ HoldsKeys, NEW h \in Word
  PROVE  LookupIn(Struct, h) = Lookup(out, h)
<1> DEFINE m == Struct
<1>1. /\ m.type = kind /\ m.data_len = out.data_len /\ m.data = InUnits(out.data)
      /\ m.checks = IF kind = "constmap" THEN << >> ELSE InUnits(out.checks)
  BY DEF Struct
<1>2. CASE out.data_len = 0
  <2> HIDE DEF m
  <2>1. LookupIn(m, h) = IF kind = "constmap" THEN 0 ELSE NOT_FOUND
    BY <1>1, <1>2 DEF LookupIn
  <2>2. kind = "constmap" => Lookup(out, h) = 0
    BY <1>2 DEF Lookup
  <2>3. kind # "constmap" => Lookup(out, h) = NOT_FOUND
    BY <1>2 DEF Lookup
  <2> QED  BY <2>1, <2>2, <2>3 DEF m
<1>3. CASE out.data_len # 0
  <2>1. HoldsKeys
    <3>1. Zeroed(out.hash).data_len = 0
      BY DEF Zeroed
    <3> QED  BY <1>3, <3>1
  <2>2. /\ out.data \in [0 .. (out.data_len - 1) -> Word]
        /\ out.checks \in [0 .. (out.data_len - 1) -> Word]
    BY <2>1 DEF HoldsKeys
  <2> DEFINE x == XorOfCells(out.data, h, out.params)
             y == XorOfCells(out.checks, h, out.params)
  <2>3. /\ XorIn(m.data, CellsIn(m, h)) = x
        /\ kind # "constmap" => XorIn(m.checks, CellsIn(m, h)) = y
    BY <1>1, <2>1, <2>2, XorRead
  <2>4. CASE kind = "constmap"
    <3>1. Lookup(out, h) = x
      BY <1>3, <2>4 DEF Lookup
    <3> HIDE DEF m, x, y
    <3>2. LookupIn(m, h) = x
      BY <1>1, <1>3, <2>3, <2>4 DEF LookupIn
    <3> QED  BY <3>1, <3>2 DEF m
  <2>5. CASE kind # "constmap"
    <3>1. Lookup(out, h) = IF y = Fingerprint(h) THEN x ELSE NOT_FOUND
      BY <1>3, <2>5 DEF Lookup
    <3> HIDE DEF m, x, y
    <3>2. LookupIn(m, h) = IF y = Fingerprint(h) THEN x ELSE NOT_FOUND
      BY <1>1, <1>3, <2>3, <2>5 DEF LookupIn
    <3> QED  BY <3>1, <3>2 DEF m
  <2> QED  BY <2>4, <2>5
<1> QED  BY <1>2, <1>3

(* A map that was built is written in as many units as announced, and read    *)
(* and viewed as it was: it answers every hash as before.                    *)
THEOREM AnswersSurvive ==
  ASSUME MaxSize <= Int32Max, FieldsFit
  PROVE  BuildSpec => []RoundTripKeepsAnswers
<1>1. BuildInit => InstalledInv
  BY DEF BuildInit, InstalledInv
<1>2. ConstructionInvariant /\ InstalledInv /\ [BuildNext]_allVars => InstalledInv'
  BY InstalledNext
<1>3. BuildSpec => []InstalledInv
  BY <1>1, <1>2, ConstructionInvariantHolds, PTL DEF BuildSpec
<1>4. ConstructionInvariant /\ InstalledInv => RoundTripKeepsAnswers
  <2> SUFFICES ASSUME ConstructionInvariant, InstalledInv, stage = "returned", result = "OK",
                      NEW units, units = Written(Struct), NEW read, read = Read(units, kind)
               PROVE  /\ Len(units) = SerializedSize(Struct)
                      /\ read.rc = Ok
                      /\ read = View(units, kind, 0)
                      /\ read.map.n = out.n
                      /\ MixesAlike(read.map)
                      /\ \A h \in Word : LookupIn(read.map, h) = Lookup(out, h)
    BY DEF RoundTripKeepsAnswers
  <2>1. kind \in Kinds /\ out.hash \in KnownHashes
    BY DEF ConstructionInvariant, OwnerInv, InstalledInv
  <2>2. out = Zeroed(out.hash) \/ HoldsKeys
    BY DEF InstalledInv
  <2>3. IsStruct(Struct) /\ HasFitParams(Struct)
    BY <2>1, <2>2, StructOf
  <2>4. Struct.type = kind /\ Struct.n = out.n /\ Struct.hash = out.hash /\ Struct.seed = Seed
    BY DEF Struct
  <2>5. /\ Len(units) = SerializedSize(Struct)
        /\ Read(units, kind) = [rc |-> Ok, map |-> Struct]
        /\ View(units, kind, 0) = [rc |-> Ok, map |-> Struct]
    <3> DEFINE m == Struct
    <3>1. m = Struct /\ IsStruct(m) /\ HasFitParams(m) /\ units = Written(m) /\ m.type = kind
      BY <2>3, <2>4
    <3> HIDE DEF m
    <3>2. /\ Len(units) = SerializedSize(m)
          /\ Read(units, m.type) = [rc |-> Ok, map |-> m]
          /\ View(units, m.type, 0) = [rc |-> Ok, map |-> m]
      BY ONLY <3>1, WrittenIsRead
    <3> QED  BY <3>1, <3>2
  <2>6. read.rc = Ok /\ read.map = Struct /\ read = View(units, kind, 0)
    BY <2>5
  <2>7. MixesAlike(read.map)
    BY <2>4, <2>6 DEF MixesAlike
  <2>8. \A h \in Word : LookupIn(read.map, h) = Lookup(out, h)
    BY <2>1, <2>2, <2>6, LookupRead
  <2> QED  BY <2>4, <2>5, <2>6, <2>7, <2>8
<1> QED  BY <1>3, <1>4, ConstructionInvariantHolds, PTL

-----------------------------------------------------------------------------
(* Lookups in what was read. *)

(* fcm_paired_params_ok is enough: whatever the bytes are, in a map that is    *)
(* accepted by a reader that checks the parameters, every lookup stays inside  *)
(* the arrays, which it indexes without looking at their length.               *)
THEOREM LookupsStayInside ==
  ASSUME NEW S, \A u \in S : NumOf(u) \in Number,
         NEW units \in Seq(S), NEW type \in Types, Checked(type),
         NEW read, read = Read(units, type), read.rc = Ok,
         read.map.data_len # 0, read.map.data_len <= 2^WordBits,
         NEW h \in Word
  PROVE  \A k \in 1 .. 3 : CellsIn(read.map, h)[k] \in 0 .. (read.map.data_len - 1)
<1> DEFINE parsed == Parse(units, type)
           x == parsed.header
           len == NumOf(units[5])
           count == NumOf(units[6])
           slots == NumOf(units[7])
           m == read.map
<1>1. /\ parsed.rc = Ok
      /\ ParamsOk(x.segment_length, x.segment_count, x.data_len)
      /\ m = MapOf(type, x, units)
  <2>1. Ok = "FCM_OK" /\ "FCM_E_INVALID_PARAMS" # "FCM_OK"
    BY DEF Ok
  <2> HIDE DEF parsed, m
  <2>2. parsed = Parse(units, type) /\ read = Read(units, type) /\ m = read.map
    BY DEF parsed, m
  <2>3. parsed.rc = Ok
    BY <2>2 DEF Read
  <2> DEFINE ok == ParamsOk(parsed.header.segment_length, parsed.header.segment_count,
                            parsed.header.data_len)
  <2>4. read = IF ~ ok THEN [rc |-> "FCM_E_INVALID_PARAMS"]
               ELSE [rc |-> Ok, map |-> MapOf(type, parsed.header, units)]
    BY <2>2, <2>3 DEF Read
  <2> HIDE DEF ok
  <2>5. ok /\ m = MapOf(type, parsed.header, units)
    BY <2>1, <2>2, <2>4
  <2> QED  BY <2>3, <2>5 DEF ok
<1>2. PICK f \in AllFormats(type) :
        /\ ~ (Len(units) < f.header + TrailerUnits)
        /\ x = ParsedHeader(units, f)
  BY <1>1, ParsedOk
<1>3. /\ x.segment_length = len /\ x.segment_count = count /\ x.data_len = slots
  BY <1>2 DEF ParsedHeader
<1>4. /\ m.segment_length = len /\ m.segment_length_mask = Mask(len)
      /\ m.segment_count_length = CountLength(count, len) /\ m.data_len = slots
  <2> HIDE DEF x, m
  <2> QED  BY <1>1, <1>3 DEF MapOf
<1>5. len \in Number /\ count \in Number /\ slots \in Number
  <2>1. f.header \in {7, 8}
    BY FormatShape
  <2>2. Len(units) \in Nat /\ Len(units) >= 7
    BY <1>2, <2>1, LenProperties DEF TrailerUnits
  <2>3. 5 \in 1 .. Len(units) /\ 6 \in 1 .. Len(units) /\ 7 \in 1 .. Len(units)
    BY <2>2
  <2>4. units[5] \in S /\ units[6] \in S /\ units[7] \in S
    BY <2>3, ElementsIn
  <2> QED  BY <2>4
<1>6. slots # 0 /\ slots <= 2^WordBits /\ ParamsOk(len, count, slots)
  BY <1>1, <1>3, <1>4
<1> HIDE DEF parsed, x, len, count, slots, m
<1>7. Uint32 \in Nat /\ len \in Nat /\ count \in Nat /\ slots \in Nat /\ slots < Uint32
      /\ 2^WordBits \in Nat
  BY <1>5, SerialAssumption, WordBitsAssumption DEF Number
<1>8. IsPowerOfTwo(len) /\ count # 0 /\ (count + 2) * len = slots
  BY <1>6 DEF ParamsOk
<1>9. len # 0
  BY <1>6, <1>7, <1>8
<1> DEFINE q == count * len
<1>10. q \in Nat /\ slots = q + 2 * len
  BY <1>7, <1>8
<1>11. q = count * len
  OBVIOUS
<1> HIDE DEF q
<1>12. q < Uint32 /\ len <= slots
  BY <1>7, <1>10
<1>13. q % Uint32 = q
  BY <1>7, <1>10, <1>12
<1>14. m.segment_length_mask = len - 1 /\ m.segment_count_length = count * len
  BY <1>4, <1>9, <1>11, <1>13 DEF Mask, CountLength
<1>15. len \in PowersOfTwo
  <2> DEFINE P == 2^WordBits
  <2>1. P = 2^WordBits
    OBVIOUS
  <2> HIDE DEF P
  <2>2. len \in 1 .. P
    BY <1>6, <1>7, <1>9, <1>12, <2>1
  <2>3. \E j \in 0 .. len : len = 2^j
    BY <1>8 DEF IsPowerOfTwo
  <2> QED  BY <2>1, <2>2, <2>3, PowersAssumption
<1> DEFINE p == [segment_length |-> len, segment_count |-> count, array_len |-> slots]
<1>16. /\ p.segment_length = len /\ p.segment_count = count /\ p.array_len = slots
       /\ p \in [segment_length : PowersOfTwo, segment_count : Nat \ {0}, array_len : Nat]
  BY <1>7, <1>8, <1>15
<1> HIDE DEF p
<1>17. WellFormed(p)
  BY <1>6, <1>8, <1>16 DEF WellFormed
<1>18. /\ m.segment_length = p.segment_length /\ m.segment_length_mask = p.segment_length - 1
       /\ m.segment_count_length = p.segment_count * p.segment_length
  BY <1>4, <1>14, <1>16
<1>19. /\ CellsIn(m, h) = <<H0(h, p), H1(h, p), H2(h, p)>>
       /\ H0(h, p) \in 0 .. (p.array_len - 1)
       /\ H1(h, p) \in 0 .. (p.array_len - 1)
       /\ H2(h, p) \in 0 .. (p.array_len - 1)
  BY <1>17, <1>18, CellsFromFields
<1>20. \A k \in 1 .. 3 : k = 1 \/ k = 2 \/ k = 3
  OBVIOUS
<1>21. \A k \in 1 .. 3 : CellsIn(m, h)[k] \in 0 .. (slots - 1)
  BY <1>16, <1>19, <1>20
<1> QED  BY <1>4, <1>21 DEF m
=============================================================================
