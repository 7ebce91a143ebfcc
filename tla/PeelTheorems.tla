---------------------------- MODULE PeelTheorems ----------------------------
(***************************************************************************)
(* The inductive invariant of fcm_peel holds in every reachable state, for *)
(* every width of words, set of key hashes, number of keys and bound on    *)
(* the attempts; and with it each safety property of Peel.  First the      *)
(* second half of an attempt: nothing is lost between the scatter and the  *)
(* counts, the counts are true, and taking a hash out of its two other     *)
(* cells keeps them so.  Then one lemma per action shows that the action   *)
(* keeps every conjunct.                                                   *)
(***************************************************************************)
EXTENDS PeelProofs

LEMMA DegreeModIsNat == DegreeMod \in Nat \ {0} /\ DegreeMod > 2
BY PeelAssumption

-----------------------------------------------------------------------------
(* The end of the scatter. *)

(* The zero hashes are counted too: they are what the others leave. *)
LEMMA Complements ==
  ASSUME NEW S, IsFiniteSet(S), NEW A, NEW B, A \subseteq S, B \subseteq S,
         Cardinality(A) = Cardinality(B)
  PROVE  Cardinality(S \ A) = Cardinality(S \ B)
<1>1. S \cap A = A /\ S \cap B = B
  OBVIOUS
<1> QED  BY <1>1, FS_Difference

LEMMA ScatterEndKeeps ==
  ASSUME TypeOK, ParamsInv, ScatterInv, EndScatter
  PROVE  ScatterKeepsHashes'
<1>1. /\ pc = "scatter" /\ i = size /\ counted' = reverse_order /\ mixed' = mixed
      /\ Keys' = Keys
  BY DEF EndScatter, inputs, Keys
<1>2. IsFiniteSet(Keys) /\ Placed = Keys
  BY <1>1, SizeIsNat DEF ParamsInv, Keys, Placed
<1>3. ASSUME NEW h \in Word
      PROVE  Cardinality({p \in Keys : reverse_order[p] = h}) = Cardinality({k \in Keys : mixed[k] = h})
  <2>1. CASE h # 0
    BY <1>1, <1>2, <2>1 DEF ScatterInv
  <2>2. CASE h = 0
    <3> DEFINE A == {p \in Keys : reverse_order[p] # 0}
               B == {k \in Keys : mixed[k] # 0}
    <3>1. Cardinality(A) = Cardinality(B)
      BY <1>1, <1>2 DEF ScatterInv
    <3>2. /\ {p \in Keys : reverse_order[p] = h} = Keys \ A
          /\ {k \in Keys : mixed[k] = h} = Keys \ B
      BY <2>2
    <3>3. Cardinality(Keys \ A) = Cardinality(Keys \ B)
      <4>1. A \subseteq Keys /\ B \subseteq Keys
        OBVIOUS
      <4> HIDE DEF A, B
      <4> QED  BY <1>2, <3>1, <4>1, Complements
    <3> QED  BY <3>2, <3>3
  <2> QED  BY <2>1, <2>2
<1> QED  BY <1>1, <1>3 DEF ScatterKeepsHashes

(* What is counted are the hashes of keys ... *)
LEMMA CountedAreMixed ==
  ASSUME size \in Sizes, ScatterKeepsHashes, counted \in [0 .. size -> Word],
         mixed \in [Keys -> Word]
  PROVE  { counted[p] : p \in Keys } = { mixed[k] : k \in Keys }
<1>0. IsFiniteSet(Keys)
  BY SizeIsNat
<1>1. size \in 0 .. size /\ \A p \in Keys : counted[p] \in Word
  BY SizeIsNat DEF Keys
<1>2. counted # << >>
  <2>1. DOMAIN counted = 0 .. size /\ size \in DOMAIN counted
    BY <1>1
  <2>2. DOMAIN << >> = {}
    OBVIOUS
  <2> QED  BY <2>1, <2>2
<1>3. ASSUME NEW h \in Word
      PROVE  (\E p \in Keys : counted[p] = h) <=> (\E k \in Keys : mixed[k] = h)
  <2> DEFINE A == {p \in Keys : counted[p] = h}
             B == {k \in Keys : mixed[k] = h}
  <2>1. Cardinality(A) = Cardinality(B)
    BY <1>2 DEF ScatterKeepsHashes
  <2>2. IsFiniteSet(A) /\ IsFiniteSet(B)
    BY <1>0, FS_Subset
  <2>3. A = {} <=> B = {}
    <3> HIDE DEF A, B
    <3> QED  BY <2>1, <2>2, FS_EmptySet
  <2> QED  BY <2>3
<1> QED  BY <1>1, <1>3

(* ... and a hash counted twice is the hash of two keys. *)
LEMMA CountedTwice ==
  ASSUME size \in Sizes, ScatterKeepsHashes, counted \in [0 .. size -> Word],
         mixed \in [Keys -> Word],
         NEW p \in Keys, NEW q \in Keys, p # q, counted[p] = counted[q]
  PROVE  \E j, k \in Keys : j # k /\ mixed[j] = mixed[k]
<1> DEFINE h == counted[p]
           A == {x \in Keys : counted[x] = h}
           B == {k \in Keys : mixed[k] = h}
<1>1. size \in 0 .. size /\ h \in Word /\ IsFiniteSet(Keys)
  BY SizeIsNat DEF Keys
<1>2. counted # << >>
  <2>1. DOMAIN counted = 0 .. size /\ size \in DOMAIN counted
    BY <1>1
  <2>2. DOMAIN << >> = {}
    OBVIOUS
  <2> QED  BY <2>1, <2>2
<1>3. Cardinality(A) = Cardinality(B)
  BY <1>1, <1>2 DEF ScatterKeepsHashes
<1>4. IsFiniteSet(A) /\ IsFiniteSet(B)
  BY <1>1, FS_Subset
<1>5. p \in A /\ q \in A
  OBVIOUS
<1>6. Cardinality(A) # 1 /\ A # {}
  <2> HIDE DEF A
  <2>1. ASSUME NEW x, A = {x} PROVE FALSE
    BY <1>5, <2>1
  <2>2. IsFiniteSet(A)
    BY <1>4
  <2>3. Cardinality(A) = 1 => \E x : A = {x}
    BY <2>2, FS_Singleton
  <2>4. A # {}
    BY <1>5
  <2> QED  BY <2>1, <2>3, <2>4
<1>7. B # {} /\ ~ \E x : B = {x}
  <2> HIDE DEF A, B
  <2>1. ASSUME NEW x, B = {x} PROVE Cardinality(B) = 1
    BY <2>1, FS_Singleton
  <2>2. B # {}
    BY <1>3, <1>4, <1>6, FS_EmptySet
  <2> QED  BY <1>3, <1>6, <2>1, <2>2
<1>8. PICK j \in B : TRUE
  BY <1>7
<1>9. PICK k \in B : k # j
  <2>1. B # {j}
    BY <1>7
  <2> QED  BY <1>8, <2>1
<1> QED  BY <1>8, <1>9

-----------------------------------------------------------------------------
(* Positions of a hash in its cells. *)

LEMMA PosInCell ==
  ASSUME WellFormed(params), NEW h \in Word, NEW pos \in Positions
  PROVE  PosIn(h, CellAt(h, params, pos)) = pos
BY CellsAreThree DEF PosIn

LEMMA CellHasPos ==
  ASSUME WellFormed(params), NEW h \in Word, NEW c \in CellsOf(h, params)
  PROVE  PosIn(h, c) \in Positions /\ CellAt(h, params, PosIn(h, c)) = c
<1>1. PICK pos \in Positions : c = CellAt(h, params, pos)
  BY DEF CellsOf
<1> QED  BY <1>1, PosInCell

LEMMA PositionsAreWords == Positions \subseteq Word
BY WordBitsAssumption DEF Positions, Word

-----------------------------------------------------------------------------
(* One hash more, or one less, in a cell. *)

LEMMA AgreesMore ==
  ASSUME NEW c, NEW here, IsFiniteSet(here), NEW p, p \notin here, AgreesAt(c, here),
         counted[p] \in Word, NEW pos \in Positions, PosIn(counted[p], c) = pos
  PROVE  /\ (t2deg[c] + 1) % DegreeMod = Cardinality(here \cup {p}) % DegreeMod
         /\ IsXorOver(Xor(t2hash[c], counted[p]), counted, here \cup {p})
         /\ IsXorOver(Xor(t2pos[c], pos),
                      [x \in here \cup {p} |-> PosIn(counted[x], c)], here \cup {p})
<1>1. (t2deg[c] + 1) % DegreeMod = Cardinality(here \cup {p}) % DegreeMod
  <2>1. Cardinality(here \cup {p}) = Cardinality(here) + 1 /\ Cardinality(here) \in Nat
    BY FS_AddElement, FS_CardinalityType
  <2>2. t2deg[c] = Cardinality(here) % DegreeMod
    BY DEF AgreesAt
  <2> QED  BY <2>1, <2>2, DegreeModIsNat, ModSuccessor
<1>2. IsXorOver(Xor(t2hash[c], counted[p]), counted, here \cup {p})
  BY XorOverAdd DEF AgreesAt
<1>3. IsXorOver(Xor(t2pos[c], pos),
                [x \in here \cup {p} |-> PosIn(counted[x], c)], here \cup {p})
  <2> DEFINE f == [x \in here |-> PosIn(counted[x], c)]
             g == [x \in here \cup {p} |-> PosIn(counted[x], c)]
  <2>1. IsXorOver(t2pos[c], f, here)
    BY DEF AgreesAt
  <2>2. (\A x \in here : g[x] = f[x]) /\ g[p] = pos /\ pos \in Word
    BY PositionsAreWords
  <2>3. IsXorOver(Xor(t2pos[c], g[p]), g, here \cup {p})
    <3> HIDE DEF f, g
    <3> QED  BY <2>1, <2>2, XorOverAdd
  <2> QED  BY <2>2, <2>3
<1> QED  BY <1>1, <1>2, <1>3

LEMMA AgreesLess ==
  ASSUME NEW c, NEW here, IsFiniteSet(here), NEW p \in here, AgreesAt(c, here),
         Cardinality(here) < DegreeMod,
         counted[p] \in Word, NEW pos \in Positions, PosIn(counted[p], c) = pos
  PROVE  /\ t2deg[c] \in Nat /\ t2deg[c] = Cardinality(here)
         /\ (t2deg[c] + DegreeMod - 1) % DegreeMod = Cardinality(here \ {p})
         /\ IsXorOver(Xor(t2hash[c], counted[p]), counted, here \ {p})
         /\ IsXorOver(Xor(t2pos[c], pos),
                      [x \in here \ {p} |-> PosIn(counted[x], c)], here \ {p})
<1>1. /\ Cardinality(here) \in Nat /\ Cardinality(here) # 0
      /\ Cardinality(here \ {p}) = Cardinality(here) - 1
  BY FS_CardinalityType, FS_RemoveElement, FS_EmptySet
<1>2. t2deg[c] = Cardinality(here)
  BY <1>1, DegreeModIsNat, ModSmall DEF AgreesAt
<1>3. (t2deg[c] + DegreeMod - 1) % DegreeMod = Cardinality(here) - 1
  <2> DEFINE n == Cardinality(here)
  <2>1. n \in 1 .. (DegreeMod - 1)
    BY <1>1, DegreeModIsNat
  <2> HIDE DEF n
  <2>2. (n + DegreeMod - 1) % DegreeMod = n - 1
    BY <2>1, DegreeModIsNat, ModPredecessor
  <2> QED  BY <1>2, <2>2 DEF n
<1>4. IsXorOver(Xor(t2hash[c], counted[p]), counted, here \ {p})
  BY XorOverRemove DEF AgreesAt
<1>5. IsXorOver(Xor(t2pos[c], pos),
                [x \in here \ {p} |-> PosIn(counted[x], c)], here \ {p})
  <2> DEFINE f == [x \in here |-> PosIn(counted[x], c)]
             g == [x \in here \ {p} |-> PosIn(counted[x], c)]
  <2>1. IsXorOver(t2pos[c], f, here)
    BY DEF AgreesAt
  <2>2. (\A x \in here \ {p} : g[x] = f[x]) /\ f[p] = pos /\ pos \in Word
    BY PositionsAreWords
  <2>3. IsXorOver(Xor(t2pos[c], f[p]), g, here \ {p})
    <3> HIDE DEF f, g
    <3> QED  BY <2>1, <2>2, XorOverRemove
  <2> QED  BY <2>2, <2>3
<1> QED  BY <1>1, <1>2, <1>3, <1>4, <1>5

-----------------------------------------------------------------------------
(* Count. *)

(* The position bits of a cell stay two bits. *)
LEMMA PosBits ==
  ASSUME NEW x \in 0 .. 3, NEW pos \in Positions
  PROVE  Xor(x, pos) \in 0 .. 3 /\ Xor(x, 0) = x
<1>1. 4 \in PowersOfTwo /\ x \in Word /\ pos \in Word /\ pos < 4 /\ x % 4 = x
  <2>1. x % 4 = x
    OBVIOUS
  <2> QED  BY <2>1, PowersAssumption, WordBitsAssumption DEF Word, Positions
<1>2. Xor(x % 4, pos) \in 0 .. (4 - 1)
  BY <1>1, XorLowBitsAssumption
<1> QED  BY <1>1, <1>2, XorZero

(* The three cells of a hash, as counting updates them. *)
LEMMA CountTables ==
  ASSUME TypeOK, WellFormed(params), CountKey, NEW hash \in Word, hash = reverse_order[i]
  PROVE  /\ t2deg' \in [Cells -> 0 .. (DegreeMod - 1)]
         /\ t2pos' \in [Cells -> 0 .. 3]
         /\ t2hash' \in [Cells -> Word]
         /\ CellsOf(hash, params) = {H0(hash, params), H1(hash, params), H2(hash, params)}
         /\ CellsOf(hash, params) \subseteq Cells
         /\ \A at \in Positions :
              LET c == CellAt(hash, params, at)
              IN  /\ t2deg'[c] = (t2deg[c] + 1) % DegreeMod
                  /\ t2pos'[c] = Xor(t2pos[c], at)
                  /\ t2hash'[c] = Xor(t2hash[c], hash)
         /\ \A c \in Cells \ CellsOf(hash, params) :
              t2deg'[c] = t2deg[c] /\ t2pos'[c] = t2pos[c] /\ t2hash'[c] = t2hash[c]
<1> DEFINE i1 == H0(hash, params)
           i2 == H1(hash, params)
           i3 == H2(hash, params)
<1>0. /\ t2deg \in [Cells -> 0 .. (DegreeMod - 1)]
      /\ t2pos \in [Cells -> 0 .. 3]
      /\ t2hash \in [Cells -> Word]
      /\ t2deg' = [t2deg EXCEPT ![i1] = (@ + 1) % DegreeMod,
                                ![i2] = (@ + 1) % DegreeMod,
                                ![i3] = (@ + 1) % DegreeMod]
      /\ t2pos' = [t2pos EXCEPT ![i2] = Xor(@, 1), ![i3] = Xor(@, 2)]
      /\ t2hash' = [t2hash EXCEPT ![i1] = Xor(@, hash), ![i2] = Xor(@, hash),
                                  ![i3] = Xor(@, hash)]
  BY DEF TypeOK, CountKey
<1>1. /\ i1 \in Cells /\ i2 \in Cells /\ i3 \in Cells
      /\ i1 # i2 /\ i1 # i3 /\ i2 # i3
      /\ CellAt(hash, params, 0) = i1 /\ CellAt(hash, params, 1) = i2 /\ CellAt(hash, params, 2) = i3
  <2>1. CellAt(hash, params, 0) = i1 /\ CellAt(hash, params, 1) = i2 /\ CellAt(hash, params, 2) = i3
    BY CellAtCases
  <2>2. 0 \in Positions /\ 1 \in Positions /\ 2 \in Positions
    BY DEF Positions
  <2>3. /\ \A at \in Positions : CellAt(hash, params, at) \in Cells
        /\ \A at1, at2 \in Positions :
              CellAt(hash, params, at1) = CellAt(hash, params, at2) => at1 = at2
    BY CellsAreThree DEF Cells
  <2>4. i1 \in Cells /\ i2 \in Cells /\ i3 \in Cells
    BY ONLY <2>1, <2>2, <2>3
  <2>5. i1 # i2 /\ i1 # i3 /\ i2 # i3
    BY ONLY <2>1, <2>2, <2>3
  <2> QED  BY <2>1, <2>4, <2>5
<1>2. CellsOf(hash, params) = {i1, i2, i3}
  <2>1. Positions = {0, 1, 2}
    BY DEF Positions
  <2> QED  BY <1>1, <2>1 DEF CellsOf
<1> HIDE DEF i1, i2, i3
<1>3. /\ t2deg'[i1] = (t2deg[i1] + 1) % DegreeMod
      /\ t2deg'[i2] = (t2deg[i2] + 1) % DegreeMod
      /\ t2deg'[i3] = (t2deg[i3] + 1) % DegreeMod
      /\ \A c \in Cells \ {i1, i2, i3} : t2deg'[c] = t2deg[c]
      /\ DOMAIN t2deg' = Cells /\ t2deg' = [c \in Cells |-> t2deg'[c]]
  BY ONLY <1>0, <1>1
<1>4. /\ t2pos'[i1] = t2pos[i1]
      /\ t2pos'[i2] = Xor(t2pos[i2], 1)
      /\ t2pos'[i3] = Xor(t2pos[i3], 2)
      /\ \A c \in Cells \ {i1, i2, i3} : t2pos'[c] = t2pos[c]
      /\ DOMAIN t2pos' = Cells /\ t2pos' = [c \in Cells |-> t2pos'[c]]
  BY ONLY <1>0, <1>1
<1>5. /\ t2hash'[i1] = Xor(t2hash[i1], hash)
      /\ t2hash'[i2] = Xor(t2hash[i2], hash)
      /\ t2hash'[i3] = Xor(t2hash[i3], hash)
      /\ \A c \in Cells \ {i1, i2, i3} : t2hash'[c] = t2hash[c]
      /\ DOMAIN t2hash' = Cells /\ t2hash' = [c \in Cells |-> t2hash'[c]]
  BY ONLY <1>0, <1>1
<1>6. t2deg' \in [Cells -> 0 .. (DegreeMod - 1)]
  <2>1. \A c \in Cells : t2deg[c] \in 0 .. (DegreeMod - 1) /\ (t2deg[c] + 1) % DegreeMod \in 0 .. (DegreeMod - 1)
    BY <1>0, DegreeModIsNat
  <2>2. \A c \in Cells : t2deg'[c] \in 0 .. (DegreeMod - 1)
    BY ONLY <1>1, <1>3, <2>1
  <2> QED  BY ONLY <1>3, <2>2
<1>7. t2pos' \in [Cells -> 0 .. 3] /\ t2pos'[i1] = Xor(t2pos[i1], 0)
  <2>1. \A c \in Cells : /\ t2pos[c] \in 0 .. 3 /\ Xor(t2pos[c], 1) \in 0 .. 3
                      /\ Xor(t2pos[c], 2) \in 0 .. 3 /\ Xor(t2pos[c], 0) = t2pos[c]
    BY <1>0, PosBits DEF Positions
  <2>2. \A c \in Cells : t2pos'[c] \in 0 .. 3
    BY ONLY <1>1, <1>4, <2>1
  <2> QED  BY ONLY <1>1, <1>4, <2>1, <2>2
<1>8. t2hash' \in [Cells -> Word]
  <2>1. \A c \in Cells : t2hash[c] \in Word /\ Xor(t2hash[c], hash) \in Word
    BY <1>0, XorBits
  <2>2. \A c \in Cells : t2hash'[c] \in Word
    BY ONLY <1>1, <1>5, <2>1
  <2> QED  BY ONLY <1>5, <2>2
<1>9. ASSUME NEW at \in Positions
      PROVE  LET c == CellAt(hash, params, at)
             IN  /\ t2deg'[c] = (t2deg[c] + 1) % DegreeMod
                 /\ t2pos'[c] = Xor(t2pos[c], at)
                 /\ t2hash'[c] = Xor(t2hash[c], hash)
  <2>1. at = 0 \/ at = 1 \/ at = 2
    BY DEF Positions
  <2>2. CASE at = 0
    BY ONLY <1>1, <1>3, <1>5, <1>7, <2>2
  <2>3. CASE at = 1
    BY ONLY <1>1, <1>3, <1>4, <1>5, <2>3
  <2>4. CASE at = 2
    BY ONLY <1>1, <1>3, <1>4, <1>5, <2>4
  <2> QED  BY ONLY <2>1, <2>2, <2>3, <2>4
<1>10. \A c \in Cells \ CellsOf(hash, params) :
         t2deg'[c] = t2deg[c] /\ t2pos'[c] = t2pos[c] /\ t2hash'[c] = t2hash[c]
  BY ONLY <1>2, <1>3, <1>4, <1>5
<1> QED  BY <1>1, <1>2, <1>6, <1>7, <1>8, <1>9, <1>10 DEF i1, i2, i3

(* What a cell holds, in terms of the cells' updates. *)
LEMMA CountStep ==
  ASSUME TypeOK, ParamsInv, CleanInv, KeptInv, CountInv, CountKey
  PROVE  /\ CountInv'
         /\ t2deg' \in [Cells -> 0 .. (DegreeMod - 1)]
         /\ t2pos' \in [Cells -> 0 .. 3]
         /\ t2hash' \in [Cells -> Word]
         /\ DuplicateHasCause'
<1> DEFINE hash == counted[i]
           Now(c) == { p \in 0 .. i : c \in CellsOf(counted[p], params) }
<1>1. /\ pc = "count" /\ i < size /\ stacksize = 0 /\ reverse_order = counted
      /\ counted \in [0 .. size -> Word] /\ rc = "none" /\ mixed \in Mixings
      /\ UNCHANGED <<size, hashed, params, mixed, reverse_order, counted, reverse_h, stacksize>>
  BY DEF CountKey, inputs, CleanInv, CountInv, KeptInv, Counting, Running
<1>2. size \in Nat /\ size >= 1 /\ i \in Keys /\ i \in Nat /\ Keys \subseteq 0 .. size
  BY <1>1, SizeIsNat DEF ParamsInv, Keys, TypeOK
<1>3. WellFormed(params) /\ hash \in Word
  BY <1>1, <1>2, ParamsInvWellFormed
<1>4. /\ t2deg' \in [Cells -> 0 .. (DegreeMod - 1)]
      /\ t2pos' \in [Cells -> 0 .. 3]
      /\ t2hash' \in [Cells -> Word]
      /\ CellsOf(hash, params) = {H0(hash, params), H1(hash, params), H2(hash, params)}
      /\ CellsOf(hash, params) \subseteq Cells
      /\ \A at \in Positions :
           LET c == CellAt(hash, params, at)
           IN  /\ t2deg'[c] = (t2deg[c] + 1) % DegreeMod
               /\ t2pos'[c] = Xor(t2pos[c], at)
               /\ t2hash'[c] = Xor(t2hash[c], hash)
      /\ \A c \in Cells \ CellsOf(hash, params) :
           t2deg'[c] = t2deg[c] /\ t2pos'[c] = t2pos[c] /\ t2hash'[c] = t2hash[c]
  <2>1. hash = reverse_order[i]
    BY <1>1
  <2> HIDE DEF hash
  <2> QED  BY <1>3, <2>1, CountTables
<1>5. /\ Pivots = {} /\ Remaining = 0 .. (i - 1)
      /\ \A c : Covering(c) = { p \in 0 .. (i - 1) : c \in CellsOf(counted[p], params) }
  BY <1>1 DEF Pivots, Remaining, Covering
<1>6. ASSUME NEW c \in Cells
      PROVE  /\ IsFiniteSet(Covering(c)) /\ i \notin Covering(c)
             /\ Now(c) = IF c \in CellsOf(hash, params) THEN Covering(c) \cup {i} ELSE Covering(c)
             /\ AgreesAt(c, Covering(c))
  <2>1. IsFiniteSet(0 .. (i - 1)) /\ 0 .. i = (0 .. (i - 1)) \cup {i} /\ i \notin 0 .. (i - 1)
    BY <1>2, FS_Interval
  <2>2. IsFiniteSet(Covering(c)) /\ i \notin Covering(c)
    BY <1>5, <2>1, FS_Subset
  <2>3. ASSUME NEW p
        PROVE  p \in Now(c) <=> p \in Covering(c) \/ (p = i /\ c \in CellsOf(hash, params))
    BY <1>5, <2>1
  <2>4. Now(c) = IF c \in CellsOf(hash, params) THEN Covering(c) \cup {i} ELSE Covering(c)
    <3> HIDE DEF Now
    <3> QED  BY <2>3
  <2>5. AgreesAt(c, Covering(c))
    BY <1>1, <1>5 DEF CountInv, Counting
  <2> QED  BY <2>2, <2>4, <2>5
<1>7. ASSUME NEW c \in Cells
      PROVE  /\ t2deg'[c] = Cardinality(Now(c)) % DegreeMod
             /\ IsXorOver(t2hash'[c], counted, Now(c))
             /\ IsXorOver(t2pos'[c], [p \in Now(c) |-> PosIn(counted[p], c)], Now(c))
  <2>1. CASE c \in CellsOf(hash, params)
    <3>1. PICK at \in Positions : c = CellAt(hash, params, at)
      BY <2>1 DEF CellsOf
    <3>2. PosIn(counted[i], c) = at
      BY <1>3, <3>1, PosInCell
    <3>3. Now(c) = Covering(c) \cup {i}
      BY <1>6, <2>1
    <3>4. /\ (t2deg[c] + 1) % DegreeMod = Cardinality(Now(c)) % DegreeMod
          /\ IsXorOver(Xor(t2hash[c], hash), counted, Now(c))
          /\ IsXorOver(Xor(t2pos[c], at), [p \in Now(c) |-> PosIn(counted[p], c)], Now(c))
      <4> HIDE DEF Now
      <4> QED  BY <1>3, <1>6, <3>2, <3>3, AgreesMore
    <3> HIDE DEF Now, hash
    <3> QED  BY <1>4, <3>1, <3>4
  <2>2. CASE c \notin CellsOf(hash, params)
    <3>1. Now(c) = Covering(c)
      BY <1>6, <2>2
    <3>2. t2deg'[c] = t2deg[c] /\ t2pos'[c] = t2pos[c] /\ t2hash'[c] = t2hash[c]
      BY <1>4, <2>2
    <3> HIDE DEF Now
    <3> QED  BY <1>6, <3>1, <3>2 DEF AgreesAt
  <2> QED  BY <2>1, <2>2
<1>8. ASSUME ~ has_error, NEW c \in CellsOf(hash, params)
      PROVE  /\ Cardinality(Covering(c)) \in 0 .. (DegreeMod - 1)
             /\ Cardinality(Now(c)) = Cardinality(Covering(c)) + 1
             /\ t2deg'[c] = (Cardinality(Covering(c)) + 1) % DegreeMod
  <2>1. c \in Cells
    BY <1>4
  <2>2. Cardinality(Covering(c)) < DegreeMod
    BY <1>1, <1>8, <2>1 DEF CountInv, Counting
  <2>3. Now(c) = Covering(c) \cup {i} /\ IsFiniteSet(Covering(c)) /\ i \notin Covering(c)
    BY <1>6, <2>1
  <2>4. Cardinality(Now(c)) = Cardinality(Covering(c)) + 1 /\ Cardinality(Covering(c)) \in Nat
    BY <2>3, FS_AddElement, FS_CardinalityType
  <2>5. t2deg'[c] = Cardinality(Now(c)) % DegreeMod
    BY <1>7, <2>1
  <2> HIDE DEF Now
  <2> QED  BY <2>2, <2>4, <2>5, DegreeModIsNat
<1>9. CASE pc' = "done"
  <2>1. /\ rc' = "DUPLICATE_KEY" /\ i' = i
        /\ \E c \in CellsOf(hash, params) : Cancelled(c)'
    BY <1>1, <1>4, <1>9 DEF CountKey, Return
  <2>2. CountInv'
    BY <1>9 DEF CountInv, Counting
  <2>3. ASSUME \A c \in Cells : ~ (Cardinality(Now(c)) >= DegreeMod + 2)
        PROVE  ~ Distinct(hashed, Keys)
    <3>1. PICK c \in CellsOf(hash, params) : t2hash'[c] = 0 /\ t2deg'[c] = 2
      BY <2>1 DEF Cancelled
    <3>2. c \in Cells
      BY <1>4
    <3>3. Cardinality(Covering(c)) = 1
      <4> DEFINE n == Cardinality(Now(c))
      <4>1. n = Cardinality(Covering(c)) + 1 /\ Cardinality(Covering(c)) \in Nat
        <5>1. Now(c) = Covering(c) \cup {i} /\ IsFiniteSet(Covering(c)) /\ i \notin Covering(c)
          BY <1>6, <3>2
        <5> HIDE DEF Now
        <5> QED  BY <5>1, FS_AddElement, FS_CardinalityType
      <4>2. n \in Nat /\ n % DegreeMod = 2 /\ ~ (n >= DegreeMod + 2)
        <5>1. t2deg'[c] = Cardinality(Now(c)) % DegreeMod
          BY <1>7, <3>2
        <5>2. ~ (Cardinality(Now(c)) >= DegreeMod + 2)
          BY <2>3, <3>2
        <5> HIDE DEF Now
        <5> QED  BY <3>1, <4>1, <5>1, <5>2
      <4> HIDE DEF n
      <4>3. n # DegreeMod
        <5>1. (1 * DegreeMod + 0) % DegreeMod = 0 /\ 1 * DegreeMod + 0 = DegreeMod
          BY DegreeModIsNat, DivModOf
        <5> QED  BY <4>2, <5>1
      <4>4. n # DegreeMod + 1
        <5>1. (1 * DegreeMod + 1) % DegreeMod = 1 /\ 1 * DegreeMod + 1 = DegreeMod + 1
          BY DegreeModIsNat, DivModOf
        <5> QED  BY <4>2, <5>1
      <4>5. n \in 0 .. (DegreeMod - 1)
        BY <4>2, <4>3, <4>4, DegreeModIsNat
      <4>6. n % DegreeMod = n
        BY <4>5, DegreeModIsNat, ModSmall
      <4> QED  BY <4>1, <4>2, <4>6
    <3>4. PICK p : Covering(c) = {p}
      BY <1>6, <3>2, <3>3, FS_Singleton
    <3>5. p \in 0 .. (i - 1) /\ p # i /\ p \in Keys
      <4>1. p \in 0 .. (i - 1)
        BY <1>5, <3>4
      <4> QED  BY <1>2, <4>1 DEF Keys
    <3>6. Now(c) = {p, i}
      <4>1. Now(c) = {p} \cup {i}
        BY <1>6, <3>2, <3>4
      <4> QED  BY <4>1
    <3>7. IsXorOver(0, counted, {p, i})
      <4> HIDE DEF Now
      <4> QED  BY <1>7, <3>1, <3>2, <3>6
    <3>8. counted[p] \in Word /\ counted[i] \in Word
      BY <1>1, <1>2, <3>5
    <3>9. counted[p] = counted[i]
      BY <3>5, <3>7, <3>8, XorOverTwo
    <3>10. PICK j \in Keys, k \in Keys : j # k /\ mixed[j] = mixed[k]
      <4>1. mixed \in [Keys -> Word] /\ size \in Sizes /\ ScatterKeepsHashes
        BY DEF TypeOK, ParamsInv, KeptInv
      <4> QED  BY <1>1, <1>2, <3>5, <3>9, <4>1, CountedTwice
    <3>11. hashed[j] = hashed[k]
      BY <1>1, <3>10 DEF Mixings
    <3> QED  BY <3>10, <3>11 DEF Distinct
  <2>4. Keys' = Keys /\ hashed' = hashed /\ Cells' = Cells /\ \A c : CountedIn(c)' = Now(c)
    BY <1>1, <2>1 DEF Keys, Cells, CountedIn
  <2>5. DuplicateHasCause'
    <3> HIDE DEF Now
    <3> QED  BY <2>1, <2>3, <2>4 DEF DuplicateHasCause, Distinct
  <2> QED  BY <1>4, <2>2, <2>5
<1>10. CASE pc' # "done"
  <2>1. /\ pc' = pc /\ i' = i + 1 /\ rc' = rc
        /\ has_error' = (has_error \/ \E c \in CellsOf(hash, params) : t2deg'[c] = 0)
    BY <1>1, <1>4, <1>10 DEF CountKey, Return, Wrapped
  <2>2. Pivots' = {} /\ Cells' = Cells /\ \A c : Covering(c)' = Now(c)
    <3>1. Remaining' = 0 .. i
      BY <1>1, <1>2, <2>1 DEF Remaining
    <3>2. Pivots' = {}
      BY <1>1 DEF Pivots
    <3>3. Cells' = Cells
      BY <1>1 DEF Cells
    <3>4. \A c : Covering(c)' = { p \in 0 .. i : c \in CellsOf(counted[p], params) }
      BY <1>1, <3>1 DEF Covering
    <3> QED  BY <3>2, <3>3, <3>4
  <2>3. ASSUME NEW c \in Cells PROVE AgreesAt(c, Covering(c))'
    <3>2. \A h : PosIn(h, c)' = PosIn(h, c)
      BY <1>1 DEF PosIn
    <3>3. /\ t2deg'[c] = Cardinality(Covering(c)') % DegreeMod
          /\ IsXorOver(t2hash'[c], counted, Covering(c)')
          /\ IsXorOver(t2pos'[c], [p \in Covering(c)' |-> PosIn(counted[p], c)], Covering(c)')
      <4> HIDE DEF Now
      <4> QED  BY <1>7, <2>2
    <3>4. [p \in Covering(c)' |-> PosIn(counted[p], c)'] = [p \in Covering(c)' |-> PosIn(counted[p], c)]
      BY <1>1, <3>2
    <3> QED  BY <1>1, <3>3, <3>4 DEF AgreesAt
  <2>4. ASSUME ~ has_error', NEW c \in Cells PROVE Cardinality(Covering(c)') < DegreeMod
    <3>1. ~ has_error
      BY <2>1, <2>4
    <3>2. CASE c \in CellsOf(hash, params)
      <4>1. t2deg'[c] # 0
        BY <2>1, <2>4, <3>2
      <4> DEFINE n == Cardinality(Covering(c))
      <4> HIDE DEF n
      <4>2. /\ n \in 0 .. (DegreeMod - 1) /\ Cardinality(Now(c)) = n + 1
            /\ (n + 1) % DegreeMod # 0
        BY <1>8, <3>1, <3>2, <4>1 DEF n
      <4>3. n + 1 # DegreeMod
        <5>1. (1 * DegreeMod + 0) % DegreeMod = 0
          BY DegreeModIsNat, DivModOf
        <5> QED  BY <4>2, <5>1, DegreeModIsNat
      <4>4. Cardinality(Now(c)) < DegreeMod
        <5> HIDE DEF Now
        <5> QED  BY <4>2, <4>3, DegreeModIsNat
      <4> QED  BY <2>2, <4>4
    <3>3. CASE c \notin CellsOf(hash, params)
      <4>1. Covering(c)' = Covering(c)
        BY <1>6, <2>2, <3>3
      <4> QED  BY <1>1, <3>1, <4>1 DEF CountInv, Counting
    <3> QED  BY <3>2, <3>3
  <2>5. reverse_order' = counted'
    BY <1>1
  <2>6. CountInv'
    BY <2>2, <2>3, <2>4, <2>5 DEF CountInv
  <2>7. DuplicateHasCause'
    BY <1>1, <2>1 DEF DuplicateHasCause
  <2> QED  BY <1>4, <2>6, <2>7
<1> QED  BY <1>9, <1>10

-----------------------------------------------------------------------------
(* The alone stack. *)

LEMMA PushKeepsDistinct ==
  ASSUME NEW S, NEW s \in Seq(S), Distinct(s, DOMAIN s), NEW c \in S,
         \A n \in DOMAIN s : s[n] # c
  PROVE  /\ Append(s, c) \in Seq(S)
         /\ Distinct(Append(s, c), DOMAIN Append(s, c))
         /\ \A n \in DOMAIN Append(s, c) :
              Append(s, c)[n] = c \/ \E m \in DOMAIN s : Append(s, c)[n] = s[m]
<1> DEFINE t == Append(s, c)
<1>1. /\ Len(s) \in Nat /\ DOMAIN s = 1 .. Len(s)
      /\ t \in Seq(S) /\ Len(t) = Len(s) + 1 /\ DOMAIN t = 1 .. (Len(s) + 1)
      /\ \A n \in 1 .. Len(s) : t[n] = s[n]
      /\ t[Len(s) + 1] = c
  OBVIOUS
<1> HIDE DEF t
<1>2. \A n \in DOMAIN t : n \in DOMAIN s \/ n = Len(s) + 1
  BY <1>1
<1>3. ASSUME NEW m \in DOMAIN t, NEW n \in DOMAIN t, t[m] = t[n] PROVE m = n
  <2>1. CASE m \in DOMAIN s /\ n \in DOMAIN s
    <3>1. s[m] = s[n]
      BY <1>1, <1>3, <2>1
    <3> QED  BY <2>1, <3>1 DEF Distinct
  <2>2. CASE m \in DOMAIN s /\ n = Len(s) + 1
    BY <1>1, <1>3, <2>2
  <2>3. CASE m = Len(s) + 1 /\ n \in DOMAIN s
    BY <1>1, <1>3, <2>3
  <2> QED  BY <1>2, <2>1, <2>2, <2>3
<1>4. Distinct(t, DOMAIN t)
  BY <1>3 DEF Distinct
<1>5. ASSUME NEW n \in DOMAIN t PROVE t[n] = c \/ \E m \in DOMAIN s : t[n] = s[m]
  BY <1>1, <1>2
<1> QED  BY <1>1, <1>4, <1>5 DEF t

LEMMA PopKeepsDistinct ==
  ASSUME NEW S, NEW s \in Seq(S), Distinct(s, DOMAIN s), Len(s) > 0
  PROVE  LET t == SubSeq(s, 1, Len(s) - 1)
         IN  /\ t \in Seq(S) /\ s[Len(s)] \in S /\ Len(s) \in DOMAIN s
             /\ Distinct(t, DOMAIN t)
             /\ \A n \in DOMAIN t : n \in DOMAIN s /\ t[n] = s[n] /\ t[n] # s[Len(s)]
<1> DEFINE t == SubSeq(s, 1, Len(s) - 1)
<1>1. /\ Len(s) \in Nat /\ Len(s) > 0 /\ DOMAIN s = 1 .. Len(s)
      /\ s[Len(s)] \in S /\ Len(s) \in DOMAIN s
  OBVIOUS
<1>2. /\ t \in Seq(S) /\ Len(t) = Len(s) - 1 /\ DOMAIN t = 1 .. (Len(s) - 1)
      /\ \A n \in 1 .. (Len(s) - 1) : t[n] = s[n]
  BY <1>1
<1> HIDE DEF t
<1>3. \A n \in DOMAIN t : n \in DOMAIN s /\ t[n] = s[n] /\ n # Len(s)
  BY <1>1, <1>2
<1>4. \A n \in DOMAIN t : t[n] # s[Len(s)]
  BY <1>1, <1>3 DEF Distinct
<1>5. Distinct(t, DOMAIN t)
  BY <1>3 DEF Distinct
<1> QED  BY <1>1, <1>2, <1>3, <1>4, <1>5 DEF t

(* Pushing a cell that is not on the stack. *)
LEMMA PushedKeeps ==
  ASSUME NEW S, NEW s \in Seq(S), Distinct(s, DOMAIN s), NEW deg, NEW c \in S,
         deg[c] = 2 => \A n \in DOMAIN s : s[n] # c
  PROVE  /\ Pushed(s, deg, c) \in Seq(S)
         /\ Distinct(Pushed(s, deg, c), DOMAIN Pushed(s, deg, c))
         /\ \A n \in DOMAIN Pushed(s, deg, c) :
              \/ deg[c] = 2 /\ Pushed(s, deg, c)[n] = c
              \/ \E m \in DOMAIN s : Pushed(s, deg, c)[n] = s[m]
<1>1. CASE deg[c] = 2
  <2>1. Pushed(s, deg, c) = Append(s, c)
    BY <1>1 DEF Pushed
  <2>2. \A n \in DOMAIN s : s[n] # c
    BY <1>1
  <2> QED  BY <1>1, <2>1, <2>2, PushKeepsDistinct
<1>2. CASE deg[c] # 2
  <2>1. Pushed(s, deg, c) = s
    BY <1>2 DEF Pushed
  <2> QED  BY <2>1
<1> QED  BY <1>1, <1>2

-----------------------------------------------------------------------------
(* Peel. *)

(* What peeling reads in the cell on top: the one hash remaining there, at  *)
(* the position it has there.                                               *)
LEMMA PeelFinds ==
  ASSUME TypeOK, ParamsInv, KeptInv, CountInv, AloneInv, CleanInv,
         pc = "peel", qsize > 0, IsAlone(Top)
  PROVE  /\ Top \in Cells \ Pivots
         /\ \E p \in Remaining :
              /\ Covering(Top) = {p}
              /\ t2hash[Top] = counted[p] /\ counted[p] \in Word
              /\ t2pos[Top] \in Positions
              /\ Top = CellAt(counted[p], params, t2pos[Top])
<1>1. /\ Top \in Cells /\ Top \notin Pivots
  <2>1. alone \in Seq(Cells) /\ Len(alone) > 0
    BY DEF TypeOK, qsize
  <2>2. Top \in Cells /\ Len(alone) \in DOMAIN alone
    BY <2>1 DEF Top
  <2> QED  BY <2>2 DEF AloneInv, Top
<1>2. WellFormed(params) /\ counted \in [0 .. size -> Word] /\ Keys \subseteq 0 .. size /\ IsFiniteSet(Keys)
  <2>1. size \in Nat /\ size >= 1 /\ IsFiniteSet(Keys)
    BY SizeIsNat DEF ParamsInv
  <2> QED  BY <2>1, ParamsInvWellFormed DEF KeptInv, Counting, Keys
<1>3. Remaining \subseteq Keys /\ Covering(Top) \subseteq Remaining /\ IsFiniteSet(Covering(Top))
  <2>1. Remaining \subseteq Keys
    BY DEF Remaining
  <2>2. Covering(Top) \subseteq Remaining
    BY DEF Covering
  <2>3. Covering(Top) \in SUBSET Keys
    BY <2>1, <2>2
  <2> QED  BY <1>2, <2>1, <2>2, <2>3, FS_Subset
<1>4. AgreesAt(Top, Covering(Top)) /\ Cardinality(Covering(Top)) < DegreeMod
  BY <1>1 DEF CountInv, Counting, CleanInv
<1>5. Cardinality(Covering(Top)) = 1
  <2> DEFINE n == Cardinality(Covering(Top))
  <2>1. n \in Nat
    BY <1>3, FS_CardinalityType
  <2>2. n < DegreeMod /\ n % DegreeMod = 1
    BY <1>4 DEF AgreesAt, IsAlone
  <2> HIDE DEF n
  <2>3. n = 1
    <3>1. n % DegreeMod = n
      BY <2>1, <2>2, DegreeModIsNat, ModSmall
    <3> QED  BY <2>2, <3>1
  <2> QED  BY <2>3 DEF n
<1>6. PICK p : Covering(Top) = {p}
  BY <1>3, <1>5, FS_Singleton
<1>7. p \in Remaining /\ p \in Keys /\ counted[p] \in Word /\ Top \in CellsOf(counted[p], params)
  <2>1. p \in Remaining /\ Top \in CellsOf(counted[p], params)
    BY <1>6 DEF Covering
  <2> QED  BY <1>2, <1>3, <2>1
<1>8. t2hash[Top] = counted[p]
  <2>1. IsXorOver(t2hash[Top], counted, {p})
    BY <1>4, <1>6 DEF AgreesAt
  <2> QED  BY <1>7, <2>1, XorOverOne
<1>9. PosIn(counted[p], Top) \in Positions /\ CellAt(counted[p], params, PosIn(counted[p], Top)) = Top
  BY <1>2, <1>7, CellHasPos
<1>10. t2pos[Top] = PosIn(counted[p], Top)
  <2> DEFINE f == [x \in {p} |-> PosIn(counted[x], Top)]
  <2>1. IsXorOver(t2pos[Top], f, {p})
    BY <1>4, <1>6 DEF AgreesAt
  <2>2. f[p] = PosIn(counted[p], Top) /\ f[p] \in Word
    BY <1>9, PositionsAreWords
  <2>3. t2pos[Top] = f[p]
    <3> HIDE DEF f
    <3> QED  BY <2>1, <2>2, XorOverOne
  <2> QED  BY <2>2, <2>3
<1> QED  BY <1>1, <1>6, <1>7, <1>8, <1>9, <1>10

(* A peeled hash's cells: the one on top and the two others. *)
LEMMA PeelCells ==
  ASSUME WellFormed(params), NEW hash \in Word, NEW found \in Positions,
         NEW top, top = CellAt(hash, params, found)
  PROVE  LET other1 == Other1(top, hash, found, params)
             other2 == Other2(top, hash, found, params)
         IN  /\ other1 \in Cells /\ other2 \in Cells
             /\ top # other1 /\ top # other2 /\ other1 # other2
             /\ CellsOf(hash, params) = {top, other1, other2}
             /\ Flip1(found) \in Positions /\ PosIn(hash, other1) = Flip1(found)
             /\ Flip2(found) \in Positions /\ PosIn(hash, other2) = Flip2(found)
<1> DEFINE pos1 == (found + 1) % 3
           pos2 == (found + 2) % 3
           c(at) == CellAt(hash, params, at)
<1>1. /\ pos1 \in Positions /\ pos2 \in Positions
      /\ found # pos1 /\ found # pos2 /\ pos1 # pos2
      /\ Positions = {found, pos1, pos2}
  BY DEF Positions
<1>2. /\ Other1(top, hash, found, params) = c(pos1)
      /\ Other2(top, hash, found, params) = c(pos2)
      /\ Flip1(found) = pos1 /\ Flip2(found) = pos2
  BY OthersFound
<1>3. /\ \A at \in Positions : c(at) \in Cells
      /\ \A at1, at2 \in Positions : c(at1) = c(at2) => at1 = at2
  BY CellsAreThree DEF Cells
<1>4. PosIn(hash, c(pos1)) = pos1 /\ PosIn(hash, c(pos2)) = pos2
  BY <1>1, PosInCell
<1>5. CellsOf(hash, params) = {c(found), c(pos1), c(pos2)}
  <2> HIDE DEF pos1, pos2
  <2> QED  BY <1>1 DEF CellsOf
<1>6. /\ c(pos1) \in Cells /\ c(pos2) \in Cells
      /\ c(found) # c(pos1) /\ c(found) # c(pos2) /\ c(pos1) # c(pos2)
  <2> HIDE DEF pos1, pos2, c
  <2> QED  BY ONLY <1>1, <1>3, found \in Positions
<1> HIDE DEF pos1, pos2
<1> QED  BY <1>1, <1>2, <1>4, <1>5, <1>6

(* The tables after a hash was taken out of its two other cells. *)
LEMMA PeelTables ==
  ASSUME TypeOK, PeelHash,
         NEW o1 \in Cells, NEW o2 \in Cells, o1 # o2,
         o1 = Other1(Top, t2hash[Top], t2pos[Top], params),
         o2 = Other2(Top, t2hash[Top], t2pos[Top], params),
         t2hash[Top] \in Word,
         Flip1(t2pos[Top]) \in Positions, Flip2(t2pos[Top]) \in Positions
  PROVE  /\ t2deg' \in [Cells -> 0 .. (DegreeMod - 1)]
         /\ t2pos' \in [Cells -> 0 .. 3]
         /\ t2hash' \in [Cells -> Word]
         /\ t2deg'[o1] = (t2deg[o1] + DegreeMod - 1) % DegreeMod
         /\ t2deg'[o2] = (t2deg[o2] + DegreeMod - 1) % DegreeMod
         /\ t2pos'[o1] = Xor(t2pos[o1], Flip1(t2pos[Top]))
         /\ t2pos'[o2] = Xor(t2pos[o2], Flip2(t2pos[Top]))
         /\ t2hash'[o1] = Xor(t2hash[o1], t2hash[Top])
         /\ t2hash'[o2] = Xor(t2hash[o2], t2hash[Top])
         /\ \A c \in Cells \ {o1, o2} :
              t2deg'[c] = t2deg[c] /\ t2pos'[c] = t2pos[c] /\ t2hash'[c] = t2hash[c]
         /\ Uncounted(t2deg, o1)[o2] = t2deg[o2]
<1> DEFINE hash == t2hash[Top]
           f1 == Flip1(t2pos[Top])
           f2 == Flip2(t2pos[Top])
<1>1. /\ t2deg \in [Cells -> 0 .. (DegreeMod - 1)]
      /\ t2pos \in [Cells -> 0 .. 3]
      /\ t2hash \in [Cells -> Word]
  BY DEF TypeOK
<1>2. /\ t2deg' = [[t2deg EXCEPT ![o1] = (@ + DegreeMod - 1) % DegreeMod]
                     EXCEPT ![o2] = (@ + DegreeMod - 1) % DegreeMod]
      /\ t2pos' = [t2pos EXCEPT ![o1] = Xor(@, f1), ![o2] = Xor(@, f2)]
      /\ t2hash' = [t2hash EXCEPT ![o1] = Xor(@, hash), ![o2] = Xor(@, hash)]
  BY DEF PeelHash, Uncounted
<1>3. hash \in Word /\ f1 \in Positions /\ f2 \in Positions
  OBVIOUS
<1> HIDE DEF hash, f1, f2
<1>4. /\ t2deg'[o1] = (t2deg[o1] + DegreeMod - 1) % DegreeMod
      /\ t2deg'[o2] = (t2deg[o2] + DegreeMod - 1) % DegreeMod
      /\ \A c \in Cells \ {o1, o2} : t2deg'[c] = t2deg[c]
      /\ t2deg' = [c \in Cells |-> t2deg'[c]]
  BY <1>1, <1>2
<1>5. /\ t2pos'[o1] = Xor(t2pos[o1], f1)
      /\ t2pos'[o2] = Xor(t2pos[o2], f2)
      /\ \A c \in Cells \ {o1, o2} : t2pos'[c] = t2pos[c]
      /\ t2pos' = [c \in Cells |-> t2pos'[c]]
  BY <1>1, <1>2
<1>6. /\ t2hash'[o1] = Xor(t2hash[o1], hash)
      /\ t2hash'[o2] = Xor(t2hash[o2], hash)
      /\ \A c \in Cells \ {o1, o2} : t2hash'[c] = t2hash[c]
      /\ t2hash' = [c \in Cells |-> t2hash'[c]]
  BY <1>1, <1>2
<1>7. t2deg' \in [Cells -> 0 .. (DegreeMod - 1)]
  <2>1. \A c \in Cells : /\ t2deg[c] \in 0 .. (DegreeMod - 1)
                         /\ (t2deg[c] + DegreeMod - 1) % DegreeMod \in 0 .. (DegreeMod - 1)
    BY <1>1, DegreeModIsNat
  <2>2. \A c \in Cells : t2deg'[c] \in 0 .. (DegreeMod - 1)
    BY <1>4, <2>1
  <2> QED  BY ONLY <1>4, <2>2
<1>8. t2pos' \in [Cells -> 0 .. 3]
  <2>1. \A c \in Cells : /\ t2pos[c] \in 0 .. 3
                         /\ Xor(t2pos[c], f1) \in 0 .. 3
                         /\ Xor(t2pos[c], f2) \in 0 .. 3
    BY <1>1, <1>3, PosBits
  <2>2. \A c \in Cells : t2pos'[c] \in 0 .. 3
    BY <1>5, <2>1
  <2> QED  BY ONLY <1>5, <2>2
<1>9. t2hash' \in [Cells -> Word]
  <2>1. \A c \in Cells : t2hash[c] \in Word /\ Xor(t2hash[c], hash) \in Word
    BY <1>1, <1>3, XorBits
  <2>2. \A c \in Cells : t2hash'[c] \in Word
    BY <1>6, <2>1
  <2> QED  BY ONLY <1>6, <2>2
<1>10. Uncounted(t2deg, o1)[o2] = t2deg[o2]
  BY <1>1 DEF Uncounted
<1> QED  BY <1>4, <1>5, <1>6, <1>7, <1>8, <1>9, <1>10 DEF hash, f1, f2

(* A step that peels keeps the counts true, no cell on the alone stack      *)
(* twice, and the peeling order.                                            *)
LEMMA PeelTurn ==
  ASSUME TypeOK, ParamsInv, CleanInv, KeptInv, CountInv, AloneInv, StackInv, PeelHash
  PROVE  /\ CountInv' /\ AloneInv' /\ StackInv'
         /\ t2deg' \in [Cells -> 0 .. (DegreeMod - 1)]
         /\ t2pos' \in [Cells -> 0 .. 3]
         /\ t2hash' \in [Cells -> Word]
         /\ alone' \in Seq(Cells)
         /\ reverse_order' \in [0 .. size -> Word] /\ reverse_order'[size] = 1
         /\ reverse_h' \in Seq(Positions)
         /\ stacksize' \in 0 .. size /\ stacksize' = Len(reverse_h')
<1> DEFINE hash  == t2hash[Top]
           found == t2pos[Top]
           o1 == Other1(Top, hash, found, params)
           o2 == Other2(Top, hash, found, params)
<1>1. /\ pc = "peel" /\ qsize > 0 /\ IsAlone(Top) /\ ~ has_error
      /\ UNCHANGED <<size, pc, i, rc, params, mixed, counted, has_error>>
      /\ reverse_h' = Append(reverse_h, found)
      /\ reverse_order' = [reverse_order EXCEPT ![stacksize] = hash]
      /\ alone' = Pushed(Pushed(Popped, t2deg, o1), Uncounted(t2deg, o1), o2)
      /\ stacksize' = stacksize + 1
  BY DEF PeelHash, inputs, CleanInv
<1>2. PICK p \in Remaining :
        /\ Covering(Top) = {p}
        /\ hash = counted[p] /\ hash \in Word /\ found \in Positions
        /\ Top = CellAt(hash, params, found)
  BY <1>1, PeelFinds
<1>3. Top \in Cells \ Pivots
  BY <1>1, PeelFinds
<1>4. /\ o1 \in Cells /\ o2 \in Cells
      /\ Top # o1 /\ Top # o2 /\ o1 # o2
      /\ CellsOf(hash, params) = {Top, o1, o2}
      /\ Flip1(found) \in Positions /\ PosIn(hash, o1) = Flip1(found)
      /\ Flip2(found) \in Positions /\ PosIn(hash, o2) = Flip2(found)
  <2>1. WellFormed(params)
    BY ParamsInvWellFormed
  <2> HIDE DEF hash, found
  <2> QED  BY <1>2, <2>1, PeelCells
<1>5. /\ t2deg' \in [Cells -> 0 .. (DegreeMod - 1)]
      /\ t2pos' \in [Cells -> 0 .. 3]
      /\ t2hash' \in [Cells -> Word]
      /\ t2deg'[o1] = (t2deg[o1] + DegreeMod - 1) % DegreeMod
      /\ t2deg'[o2] = (t2deg[o2] + DegreeMod - 1) % DegreeMod
      /\ t2pos'[o1] = Xor(t2pos[o1], Flip1(found))
      /\ t2pos'[o2] = Xor(t2pos[o2], Flip2(found))
      /\ t2hash'[o1] = Xor(t2hash[o1], hash)
      /\ t2hash'[o2] = Xor(t2hash[o2], hash)
      /\ \A c \in Cells \ {o1, o2} :
           t2deg'[c] = t2deg[c] /\ t2pos'[c] = t2pos[c] /\ t2hash'[c] = t2hash[c]
      /\ Uncounted(t2deg, o1)[o2] = t2deg[o2]
  BY <1>2, <1>4, PeelTables
<1> HIDE DEF hash, found, o1, o2
<1>6. /\ size \in Nat /\ IsFiniteSet(Keys) /\ Keys \subseteq 0 .. size /\ Keys = 0 .. (size - 1)
      /\ Remaining = { q \in Keys : counted[q] \notin Peeled }
      /\ IsFiniteSet(Remaining) /\ Remaining \subseteq Keys
      /\ \A c : Covering(c) \subseteq Remaining /\ IsFiniteSet(Covering(c))
  <2>1. size \in Nat /\ IsFiniteSet(Keys) /\ Keys \subseteq 0 .. size
    BY SizeIsNat DEF ParamsInv, Keys
  <2>2. Remaining = { q \in Keys : counted[q] \notin Peeled }
    BY <1>1 DEF Remaining
  <2>3. Remaining \in SUBSET Keys
    BY <2>2
  <2>4. IsFiniteSet(Remaining)
    BY <2>1, <2>3, FS_Subset
  <2>5. \A c : Covering(c) \in SUBSET Remaining
    BY DEF Covering
  <2>6. \A c : IsFiniteSet(Covering(c))
    BY <2>4, <2>5, FS_Subset
  <2> QED  BY <2>1, <2>2, <2>3, <2>4, <2>5, <2>6 DEF Keys
<1>7. stacksize \in Keys /\ stacksize \in Nat /\ stacksize + 1 \in 0 .. size
  <2>1. stacksize \in 0 .. size /\ Cardinality(Remaining) = size - stacksize
    BY <1>1 DEF TypeOK, StackInv
  <2>2. Cardinality(Remaining) \in Nat /\ Cardinality(Remaining) # 0
    BY <1>2, <1>6, FS_CardinalityType, FS_EmptySet
  <2> QED  BY <1>6, <2>1, <2>2
<1>8. /\ reverse_order' \in [0 .. size -> Word] /\ reverse_order'[size] = 1
      /\ reverse_order'[stacksize] = hash
      /\ \A j \in 0 .. (stacksize - 1) : reverse_order'[j] = reverse_order[j]
  <2>1. reverse_order \in [0 .. size -> Word] /\ reverse_order[size] = 1
    BY DEF TypeOK, CleanInv
  <2>2. stacksize \in 0 .. size /\ stacksize # size /\ size \in 0 .. size
    BY <1>6, <1>7
  <2>3. \A j \in 0 .. (stacksize - 1) : j \in 0 .. size /\ j # stacksize
    BY <1>6, <1>7
  <2> QED  BY <1>1, <1>2, <2>1, <2>2, <2>3
<1>9. /\ reverse_h' \in Seq(Positions) /\ stacksize' = Len(reverse_h')
      /\ reverse_h'[stacksize + 1] = found
      /\ \A j \in 0 .. (stacksize - 1) : reverse_h'[j + 1] = reverse_h[j + 1]
  <2>1. reverse_h \in Seq(Positions) /\ stacksize = Len(reverse_h)
    BY DEF TypeOK
  <2>2. \A j \in 0 .. (stacksize - 1) : j + 1 \in 1 .. stacksize
    BY <1>7
  <2> QED  BY <1>1, <1>2, <2>1, <2>2
<1>10. 0 .. (stacksize' - 1) = (0 .. (stacksize - 1)) \cup {stacksize}
  BY <1>1, <1>7
<1>11. Peeled' = Peeled \cup {hash} /\ hash \notin Peeled
  <2>1. Peeled' = { reverse_order'[j] : j \in 0 .. (stacksize' - 1) }
    BY DEF Peeled
  <2>2. Peeled' = { reverse_order[j] : j \in 0 .. (stacksize - 1) } \cup {hash}
    BY <1>8, <1>10, <2>1
  <2> QED  BY <1>2, <1>6, <2>2 DEF Peeled
<1>12. /\ \A j \in 0 .. (stacksize - 1) : Pivot(j)' = Pivot(j)
       /\ Pivots' = Pivots \cup {Top}
  <2>1. \A j : Pivot(j)' = CellAt(reverse_order'[j], params, reverse_h'[j + 1])
    BY <1>1 DEF Pivot
  <2>2. \A j \in 0 .. (stacksize - 1) : Pivot(j)' = Pivot(j)
    BY <1>8, <1>9, <2>1 DEF Pivot
  <2>3. CellAt(reverse_order'[stacksize], params, reverse_h'[stacksize + 1]) = Top
    BY <1>2, <1>8, <1>9
  <2>4. { CellAt(reverse_order'[j], params, reverse_h'[j + 1]) : j \in 0 .. (stacksize' - 1) }
          = Pivots \cup {Top}
    BY <1>10, <2>1, <2>2, <2>3 DEF Pivots
  <2>5. Pivots' = { CellAt(reverse_order'[j], params, reverse_h'[j + 1]) : j \in 0 .. (stacksize' - 1) }
    BY <1>1 DEF Pivots, Pivot
  <2> QED  BY <2>2, <2>4, <2>5
<1>13. Remaining' = Remaining \ {p}
  <2>1. ASSUME NEW q \in Remaining, counted[q] = hash PROVE q = p
    <3>1. Top \in CellsOf(counted[q], params)
      BY <1>4, <2>1
    <3>2. q \in Covering(Top)
      BY <3>1 DEF Covering
    <3> QED  BY <1>2, <3>2
  <2>2. Remaining' = { q \in Keys : counted[q] \notin Peeled \cup {hash} }
    BY <1>1, <1>11 DEF Remaining, Keys
  <2> QED  BY <1>2, <1>6, <2>1, <2>2
<1>14. /\ Cells' = Cells
       /\ \A c : Covering(c)' = Covering(c) \ {p}
       /\ \A c : p \in Covering(c) <=> c \in {Top, o1, o2}
  <2>1. \A c : Covering(c)' = { q \in Remaining \ {p} : c \in CellsOf(counted[q], params) }
    BY <1>1, <1>13 DEF Covering
  <2>2. \A c : p \in Covering(c) <=> c \in {Top, o1, o2}
    BY <1>2, <1>4 DEF Covering
  <2>3. \A c : Covering(c)' = Covering(c) \ {p}
    BY <2>1 DEF Covering
  <2> QED  BY <1>1, <2>2, <2>3 DEF Cells
<1>15. \A c \in {o1, o2} : c \in Cells \ Pivots'
  <2>1. \A c \in Pivots : Covering(c) = {}
    BY <1>1 DEF CountInv, Counting
  <2> QED  BY <1>4, <1>12, <1>14, <2>1
<1>16. ASSUME NEW c \in Cells \ Pivots'
       PROVE  AgreesAt(c, Covering(c)) /\ Cardinality(Covering(c)) < DegreeMod
  BY <1>1, <1>12 DEF CountInv, Counting
<1>17. ASSUME NEW c \in {o1, o2}
       PROVE  /\ t2deg[c] \in Nat /\ t2deg[c] = Cardinality(Covering(c)) /\ t2deg[c] >= 1
              /\ t2deg'[c] = t2deg[c] - 1
              /\ t2deg'[c] = Cardinality(Covering(c)')
              /\ IsXorOver(t2hash'[c], counted, Covering(c)')
              /\ IsXorOver(t2pos'[c], [x \in Covering(c)' |-> PosIn(counted[x], c)], Covering(c)')
  <2>1. PICK pos \in Positions :
          /\ PosIn(counted[p], c) = pos
          /\ t2deg'[c] = (t2deg[c] + DegreeMod - 1) % DegreeMod
          /\ t2pos'[c] = Xor(t2pos[c], pos)
          /\ t2hash'[c] = Xor(t2hash[c], counted[p])
    BY <1>2, <1>4, <1>5
  <2>2. AgreesAt(c, Covering(c)) /\ Cardinality(Covering(c)) < DegreeMod
    BY <1>15, <1>16
  <2>3. p \in Covering(c) /\ IsFiniteSet(Covering(c)) /\ counted[p] \in Word
    BY <1>2, <1>6, <1>14
  <2>4. /\ t2deg[c] \in Nat /\ t2deg[c] = Cardinality(Covering(c))
        /\ (t2deg[c] + DegreeMod - 1) % DegreeMod = Cardinality(Covering(c) \ {p})
        /\ IsXorOver(Xor(t2hash[c], counted[p]), counted, Covering(c) \ {p})
        /\ IsXorOver(Xor(t2pos[c], pos),
                     [x \in Covering(c) \ {p} |-> PosIn(counted[x], c)], Covering(c) \ {p})
    BY <2>1, <2>2, <2>3, AgreesLess
  <2>5. /\ Cardinality(Covering(c) \ {p}) = Cardinality(Covering(c)) - 1
        /\ Cardinality(Covering(c)) # 0
    BY <2>3, FS_RemoveElement, FS_EmptySet
  <2>6. Covering(c)' = Covering(c) \ {p}
    BY <1>14
  <2> QED  BY <2>1, <2>4, <2>5, <2>6
<1>18. \A c : Covering(c)' \in SUBSET Covering(c)
  BY <1>14
<1>19. ASSUME NEW c \in Cells \ Pivots' PROVE AgreesAt(c, Covering(c))'
  <2>1. \A h : PosIn(h, c)' = PosIn(h, c)
    BY <1>1 DEF PosIn
  <2>2. /\ t2deg'[c] = Cardinality(Covering(c)') % DegreeMod
        /\ IsXorOver(t2hash'[c], counted, Covering(c)')
        /\ IsXorOver(t2pos'[c], [x \in Covering(c)' |-> PosIn(counted[x], c)], Covering(c)')
    <3>1. CASE c \in {o1, o2}
      <4>1. t2deg'[c] \in 0 .. (DegreeMod - 1)
        BY <1>5
      <4>2. t2deg'[c] = t2deg'[c] % DegreeMod
        BY <4>1, DegreeModIsNat, ModSmall
      <4> QED  BY <1>17, <3>1, <4>2
    <3>2. CASE c \notin {o1, o2}
      <4>1. Covering(c)' = Covering(c)
        BY <1>12, <1>14, <3>2
      <4>2. t2deg'[c] = t2deg[c] /\ t2pos'[c] = t2pos[c] /\ t2hash'[c] = t2hash[c]
        BY <1>5, <3>2
      <4> QED  BY <1>16, <4>1, <4>2 DEF AgreesAt
    <3> QED  BY <3>1, <3>2
  <2>3. [x \in Covering(c)' |-> PosIn(counted[x], c)'] = [x \in Covering(c)' |-> PosIn(counted[x], c)]
    BY <1>1, <2>1
  <2> QED  BY <1>1, <2>2, <2>3 DEF AgreesAt
<1>20. CountInv'
  <2>1. ASSUME NEW c \in Cells PROVE Cardinality(Covering(c)') < DegreeMod
    <3>1. Cardinality(Covering(c)) < DegreeMod
      BY <1>1 DEF CountInv, Counting
    <3>2. Cardinality(Covering(c)') <= Cardinality(Covering(c))
      BY <1>6, <1>18, FS_Subset
    <3>3. Cardinality(Covering(c)') \in Nat /\ Cardinality(Covering(c)) \in Nat
      BY <1>6, <1>18, FS_Subset, FS_CardinalityType
    <3> QED  BY <3>1, <3>2, <3>3, DegreeModIsNat
  <2>2. ASSUME NEW c \in Pivots' PROVE Covering(c)' = {}
    <3>1. c = Top \/ Covering(c) = {}
      BY <1>1, <1>12, <2>2 DEF CountInv, Counting
    <3> QED  BY <1>2, <1>14, <3>1
  <2> QED  BY <1>1, <1>14, <1>19, <2>1, <2>2 DEF CountInv
<1>21. AloneInv' /\ alone' \in Seq(Cells)
  <2>1. /\ Popped \in Seq(Cells) /\ Distinct(Popped, DOMAIN Popped)
        /\ \A n \in DOMAIN Popped : n \in DOMAIN alone /\ Popped[n] = alone[n] /\ Popped[n] # Top
    <3>1. alone \in Seq(Cells) /\ Distinct(alone, DOMAIN alone) /\ Len(alone) > 0
      BY <1>1 DEF TypeOK, AloneInv, qsize
    <3> QED  BY <3>1, PopKeepsDistinct DEF Popped, Top
  <2>2. \A n \in DOMAIN Popped : /\ Popped[n] \notin Pivots' /\ t2deg[Popped[n]] <= 1
                                 /\ Popped[n] \in Cells
    BY <1>1, <1>12, <2>1 DEF AloneInv
  <2> DEFINE s1 == Pushed(Popped, t2deg, o1)
             s2 == Pushed(s1, Uncounted(t2deg, o1), o2)
  <2>3. /\ s1 \in Seq(Cells) /\ Distinct(s1, DOMAIN s1)
        /\ \A n \in DOMAIN s1 : \/ t2deg[o1] = 2 /\ s1[n] = o1
                                \/ \E m \in DOMAIN Popped : s1[n] = Popped[m]
    <3>1. t2deg[o1] = 2 => \A n \in DOMAIN Popped : Popped[n] # o1
      BY <2>2
    <3> QED  BY <1>4, <2>1, <3>1, PushedKeeps
  <2>4. /\ s2 \in Seq(Cells) /\ Distinct(s2, DOMAIN s2)
        /\ \A n \in DOMAIN s2 : \/ t2deg[o2] = 2 /\ s2[n] = o2
                                \/ \E m \in DOMAIN s1 : s2[n] = s1[m]
    <3>1. Uncounted(t2deg, o1)[o2] = 2 => \A n \in DOMAIN s1 : s1[n] # o2
      <4> HIDE DEF s1
      <4>1. ASSUME t2deg[o2] = 2, NEW n \in DOMAIN s1, s1[n] = o2 PROVE FALSE
        <5>1. PICK m \in DOMAIN Popped : s1[n] = Popped[m]
          BY <1>4, <2>3, <4>1
        <5>2. t2deg[Popped[m]] <= 1
          BY <2>2
        <5> QED  BY <4>1, <5>1, <5>2
      <4> QED  BY <1>5, <4>1
    <3> HIDE DEF s1
    <3> QED  BY <1>4, <1>5, <2>3, <3>1, PushedKeeps
  <2>5. alone' = s2
    BY <1>1
  <2> HIDE DEF s1, s2
  <2>6. ASSUME NEW n \in DOMAIN alone'
        PROVE  alone'[n] \notin Pivots' /\ t2deg'[alone'[n]] <= 1
    <3>1. \/ t2deg[o2] = 2 /\ alone'[n] = o2
          \/ t2deg[o1] = 2 /\ alone'[n] = o1
          \/ \E m \in DOMAIN Popped : alone'[n] = Popped[m]
      BY <2>3, <2>4, <2>5
    <3>2. CASE alone'[n] \in {o1, o2} /\ t2deg[alone'[n]] = 2
      <4>1. t2deg'[alone'[n]] = 1
        BY <1>17, <3>2
      <4> QED  BY <1>15, <3>2, <4>1
    <3>3. ASSUME NEW m \in DOMAIN Popped, alone'[n] = Popped[m]
          PROVE  alone'[n] \notin Pivots' /\ t2deg'[alone'[n]] <= 1
      <4>1. Popped[m] \notin Pivots' /\ t2deg[Popped[m]] <= 1 /\ Popped[m] \in Cells
        BY <2>2
      <4>2. t2deg'[Popped[m]] <= 1
        <5>1. CASE Popped[m] \in {o1, o2}
          BY <1>17, <4>1, <5>1
        <5>2. CASE Popped[m] \notin {o1, o2}
          BY <1>5, <4>1, <5>2
        <5> QED  BY <5>1, <5>2
      <4> QED  BY <3>3, <4>1, <4>2
    <3> QED  BY <3>1, <3>2, <3>3
  <2>7. Distinct(alone, DOMAIN alone)'
    BY <2>4, <2>5 DEF Distinct
  <2> QED  BY <1>1, <2>4, <2>5, <2>6, <2>7 DEF AloneInv
<1>22. StackInv'
  <2>1. ASSUME NEW j \in 0 .. (stacksize' - 1), NEW k \in 0 .. (stacksize' - 1), j < k
        PROVE  Pivot(j)' \notin CellsOf(reverse_order'[k], params)
    <3>1. j \in 0 .. (stacksize - 1) /\ (k \in 0 .. (stacksize - 1) \/ k = stacksize)
      BY <1>7, <1>10, <2>1
    <3>2. CASE k \in 0 .. (stacksize - 1)
      BY <1>8, <1>12, <2>1, <3>1, <3>2 DEF StackInv, PeelOrder
    <3>3. CASE k = stacksize
      <4>1. Pivot(j) \in Pivots
        BY <3>1 DEF Pivots
      <4>2. Covering(Pivot(j)) = {}
        BY <1>1, <4>1 DEF CountInv, Counting
      <4>3. Pivot(j) \notin CellsOf(hash, params)
        BY <1>2, <4>2 DEF Covering
      <4> QED  BY <1>8, <1>12, <3>1, <3>3, <4>3
    <3> QED  BY <3>1, <3>2, <3>3
  <2>2. PeelOrder'
    BY <1>1, <2>1 DEF PeelOrder
  <2>3. Distinct(reverse_order, 0 .. (stacksize - 1))'
    <3>1. ASSUME NEW j \in 0 .. (stacksize' - 1), NEW k \in 0 .. (stacksize' - 1),
                 reverse_order'[j] = reverse_order'[k]
          PROVE  j = k
      <4>1. \A m \in 0 .. (stacksize - 1) : reverse_order'[m] # hash
        BY <1>8, <1>11 DEF Peeled
      <4>2. j \in 0 .. (stacksize - 1) /\ k \in 0 .. (stacksize - 1) => j = k
        BY <1>8, <3>1 DEF StackInv, StackHoldsKeys, Distinct
      <4> QED  BY <1>8, <1>10, <3>1, <4>1, <4>2
    <3> QED  BY <3>1 DEF Distinct
  <2>4. hash \in { counted[q] : q \in Keys }
    BY <1>2, <1>6
  <2>5. { counted[q] : q \in Keys } = { mixed[k] : k \in Keys }
    <3>1. /\ size \in Sizes /\ ScatterKeepsHashes /\ counted \in [0 .. size -> Word]
          /\ mixed \in [Keys -> Word]
      BY <1>1 DEF ParamsInv, KeptInv, Counting, TypeOK
    <3> QED  BY <3>1, CountedAreMixed
  <2>6. Peeled' \subseteq { counted[q] : q \in Keys }
    BY <1>1, <1>11, <2>4 DEF StackInv
  <2>7. Keys' = Keys
    BY <1>1 DEF Keys
  <2>8. Cardinality(Remaining') = size - stacksize'
    <3>1. Cardinality(Remaining') = Cardinality(Remaining) - 1
      BY <1>2, <1>6, <1>13, FS_RemoveElement
    <3>2. Cardinality(Remaining) = size - stacksize
      BY <1>1 DEF StackInv
    <3> QED  BY <1>1, <1>6, <1>7, <3>1, <3>2
  <2>9. StackHoldsKeys'
    <3>1. Peeled' \subseteq { mixed'[k] : k \in Keys' }
      BY <1>1, <2>5, <2>6, <2>7
    <3> QED  BY <2>3, <3>1 DEF StackHoldsKeys
  <2>10. Peeled' \subseteq { counted'[q] : q \in Keys' }
    BY <1>1, <2>6, <2>7
  <2> QED  BY <1>1, <2>2, <2>8, <2>9, <2>10 DEF StackInv
<1> QED  BY <1>1, <1>5, <1>7, <1>8, <1>9, <1>20, <1>21, <1>22

-----------------------------------------------------------------------------
(* What several actions need. *)

(* Resizing leaves the array as long as it was. *)
LEMMA ArrayKept ==
  ASSUME ParamsInv, ParamsInv', size' = size
  PROVE  params'.array_len = params.array_len /\ Cells' = Cells
<1>1. \A n : Shrink(InitParams(n)).array_len = InitParams(n).array_len
  BY DEF Shrink, InitParams
<1>2. params'.array_len = params.array_len
  BY <1>1 DEF ParamsInv
<1> QED  BY <1>2 DEF Cells

LEMMA NothingPeeled ==
  ASSUME stacksize = 0
  PROVE  Peeled = {} /\ Pivots = {} /\ PeelOrder /\ StackHoldsKeys
<1>1. 0 .. (stacksize - 1) = {}
  OBVIOUS
<1> QED  BY <1>1 DEF Peeled, Pivots, PeelOrder, StackHoldsKeys, Distinct

LEMMA NothingPeeledNext ==
  ASSUME stacksize' = 0
  PROVE  Peeled' = {} /\ Pivots' = {} /\ PeelOrder' /\ StackHoldsKeys'
<1>1. 0 .. (stacksize' - 1) = {}
  OBVIOUS
<1> QED  BY <1>1 DEF Peeled, Pivots, PeelOrder, StackHoldsKeys, Distinct

(* An empty alone stack is as it should be. *)
LEMMA NoneAloneNext ==
  ASSUME alone' = << >>
  PROVE  AloneInv'
<1>1. DOMAIN << >> = {}
  OBVIOUS
<1> QED  BY <1>1 DEF AloneInv, Distinct

LEMMA ZeroTables ==
  /\ ZeroOn(Cells) \in [Cells -> 0 .. (DegreeMod - 1)]
  /\ ZeroOn(Cells) \in [Cells -> 0 .. 3]
  /\ ZeroOn(Cells) \in [Cells -> Word]
  /\ \A c \in Cells : ZeroOn(Cells)[c] = 0
BY DegreeModIsNat, ZeroIsWord DEF ZeroOn

LEMMA EmptyOrderType ==
  ASSUME size \in Sizes
  PROVE  EmptyOrder \in [0 .. size -> Word] /\ EmptyOrder[size] = 1
<1>1. size \in Nat /\ 0 \in Word /\ 1 \in Word
  BY SizeIsNat, WordBitsAssumption DEF Word
<1> QED  BY <1>1 DEF EmptyOrder

(* The parts of TypeOK that the parameters' invariant gives. *)
LEMMA ParamsType ==
  ASSUME ParamsInv'
  PROVE  /\ size' \in Sizes /\ iteration' \in 0 .. (MaxIterations + 1)
         /\ params' \in {InitParams(size'), Shrink(InitParams(size'))}
BY DEF ParamsInv

-----------------------------------------------------------------------------
(* The actions. *)

LEMMA InvariantInit == Init => Invariant
<1> SUFFICES ASSUME Init PROVE Invariant
  OBVIOUS
<1>1. /\ size \in Sizes /\ hashed \in [Keys -> KeyHash] /\ pc = "attempt" /\ iteration = 0
      /\ i = 0 /\ rc = "none" /\ params = InitParams(size) /\ mixed = ZeroOn(Keys)
      /\ start_pos = << >> /\ start_pos_cap = 0 /\ reverse_order = EmptyOrder
      /\ t2deg = ZeroOn(Cells) /\ t2pos = ZeroOn(Cells) /\ t2hash = ZeroOn(Cells)
      /\ has_error = FALSE /\ alone = << >> /\ reverse_h = << >> /\ stacksize = 0
      /\ counted = << >>
  BY DEF Init, Keys, Cells
<1>2. size \in Nat /\ size >= 1
  BY <1>1, SizeIsNat
<1>3. ParamsInv
  BY ParamsInvInit
<1>4. reverse_order \in [0 .. size -> Word] /\ reverse_order[size] = 1
  BY <1>1, EmptyOrderType
<1>5. TypeOK
  <2>1. mixed \in [Keys -> Word]
    BY <1>1, ZeroIsWord DEF ZeroOn
  <2>2. iteration \in 0 .. (MaxIterations + 1) /\ i \in 0 .. size
    BY <1>1, <1>2, PeelAssumption
  <2>3. alone \in Seq(Cells) /\ reverse_h \in Seq(Positions) /\ stacksize = Len(reverse_h)
    BY <1>1
  <2>4. stacksize \in 0 .. size /\ start_pos_cap \in Nat
    BY <1>1, <1>2
  <2> QED  BY <1>1, <1>4, <2>1, <2>2, <2>3, <2>4, ZeroTables DEF TypeOK, ReturnCodes
<1>6. CleanInv
  BY <1>1, <1>4 DEF CleanInv, Running
<1>7. ScatterInv /\ CountInv /\ SuccessIsComplete /\ DuplicateHasCause
  BY <1>1 DEF ScatterInv, CountInv, Counting, SuccessIsComplete, DuplicateHasCause
<1>8. KeptInv
  BY <1>1 DEF KeptInv, ScatterKeepsHashes, Counting
<1>9. AloneInv
  <2>1. DOMAIN << >> = {}
    OBVIOUS
  <2> QED  BY <1>1, <2>1 DEF AloneInv, Distinct
<1>10. StackInv
  BY <1>1, NothingPeeled DEF StackInv
<1> QED  BY <1>3, <1>5, <1>6, <1>7, <1>8, <1>9, <1>10 DEF Invariant

LEMMA InvariantStartAttempt ==
  ASSUME Invariant, ParamsInv', StartAttempt
  PROVE  Invariant'
<1>1. /\ TypeOK /\ ParamsInv /\ CleanInv
      /\ pc = "attempt" /\ pc' = "scatter" /\ i' = 0 /\ mixed' \in Mixings
      /\ UNCHANGED <<size, hashed, iteration, rc, reverse_order, t2deg, t2pos, t2hash,
                     has_error, alone, reverse_h, stacksize, counted>>
  BY DEF StartAttempt, inputs, tables, Invariant
<1>2. /\ reverse_order = EmptyOrder /\ t2deg = ZeroOn(Cells) /\ t2pos = ZeroOn(Cells)
      /\ t2hash = ZeroOn(Cells) /\ ~ has_error /\ counted = << >> /\ alone = << >>
      /\ stacksize = 0 /\ rc = "none" /\ reverse_order[size] = 1
  BY <1>1 DEF CleanInv
<1>3. size \in Nat /\ Cells' = Cells /\ Keys' = Keys
  BY <1>1, ArrayKept, SizeIsNat DEF ParamsInv, Keys
<1>4. /\ ScatterInv' /\ start_pos' \in [0 .. (BlockCount' - 1) -> 0 .. size]
      /\ start_pos_cap' \in Nat
  <2>1. WellFormed(params')
    BY InitParamsWellFormed, ShrunkWellFormed DEF ParamsInv
  <2> QED  BY <1>1, <2>1, ScatterInvStart
<1>5. TypeOK'
  <2>1. mixed' \in [Keys -> Word]
    BY <1>1 DEF Mixings
  <2>2. i' \in 0 .. size'
    BY <1>1, <1>3
  <2> QED  BY <1>1, <1>2, <1>3, <1>4, <2>1, <2>2, ParamsType DEF TypeOK
<1>6. CleanInv'
  <2>1. Mixings' = Mixings
    BY <1>1, <1>3 DEF Mixings
  <2> QED  BY <1>1, <1>2, <1>3, <2>1 DEF CleanInv
<1>7. CountInv' /\ SuccessIsComplete' /\ DuplicateHasCause'
  BY <1>1, <1>2 DEF CountInv, Counting, SuccessIsComplete, DuplicateHasCause
<1>8. KeptInv'
  BY <1>1, <1>2 DEF KeptInv, ScatterKeepsHashes, Counting
<1>9. AloneInv'
  BY <1>1, <1>2, NoneAloneNext
<1>10. StackInv'
  BY <1>1, <1>2, NothingPeeledNext DEF StackInv
<1> QED  BY <1>4, <1>5, <1>6, <1>7, <1>8, <1>9, <1>10 DEF Invariant

LEMMA InvariantScatterKey ==
  ASSUME Invariant, ParamsInv', ScatterKey
  PROVE  Invariant'
<1>1. /\ TypeOK /\ ParamsInv /\ CleanInv /\ ScatterInv
      /\ pc = "scatter" /\ pc' = "scatter" /\ i < size /\ i' = i + 1
      /\ UNCHANGED <<size, hashed, iteration, rc, params, mixed, start_pos_cap, t2deg, t2pos,
                     t2hash, has_error, alone, reverse_h, stacksize, counted>>
  BY DEF ScatterKey, inputs, tables, Invariant
<1>2. /\ t2deg = ZeroOn(Cells) /\ t2pos = ZeroOn(Cells)
      /\ t2hash = ZeroOn(Cells) /\ ~ has_error /\ counted = << >> /\ alone = << >>
      /\ stacksize = 0 /\ rc = "none" /\ mixed \in Mixings
  BY <1>1 DEF CleanInv, Running
<1>3. size \in Nat /\ Cells' = Cells /\ Keys' = Keys
  BY <1>1, ArrayKept, SizeIsNat DEF ParamsInv, Keys
<1>4. /\ ScatterInv' /\ start_pos' \in [0 .. (BlockCount' - 1) -> 0 .. size]
      /\ reverse_order' \in [0 .. size -> Word] /\ reverse_order'[size] = 1
  BY <1>1, ScatterInvStep
<1>5. TypeOK'
  <2>1. i' \in 0 .. size'
    BY <1>1, <1>3 DEF TypeOK
  <2> QED  BY <1>1, <1>2, <1>3, <1>4, <2>1, ParamsType DEF TypeOK
<1>6. CleanInv'
  <2>1. Mixings' = Mixings
    BY <1>1, <1>3 DEF Mixings
  <2> QED  BY <1>1, <1>2, <1>3, <1>4, <2>1 DEF CleanInv
<1>7. CountInv' /\ SuccessIsComplete' /\ DuplicateHasCause'
  BY <1>1, <1>2 DEF CountInv, Counting, SuccessIsComplete, DuplicateHasCause
<1>8. KeptInv'
  BY <1>1, <1>2 DEF KeptInv, ScatterKeepsHashes, Counting
<1>9. AloneInv'
  BY <1>1, <1>2, NoneAloneNext
<1>10. StackInv'
  BY <1>1, <1>2, NothingPeeledNext DEF StackInv
<1> QED  BY <1>4, <1>5, <1>6, <1>7, <1>8, <1>9, <1>10 DEF Invariant

LEMMA InvariantEndScatter ==
  ASSUME Invariant, ParamsInv', EndScatter
  PROVE  Invariant'
<1>1. /\ TypeOK /\ ParamsInv /\ CleanInv /\ ScatterInv
      /\ pc = "scatter" /\ pc' = "count" /\ i' = 0 /\ start_pos' = << >>
      /\ counted' = reverse_order
      /\ UNCHANGED <<size, hashed, iteration, rc, params, mixed, start_pos_cap, reverse_order,
                     t2deg, t2pos, t2hash, has_error, alone, reverse_h, stacksize>>
  BY DEF EndScatter, inputs, tables, Invariant
<1>2. /\ t2deg = ZeroOn(Cells) /\ t2pos = ZeroOn(Cells)
      /\ t2hash = ZeroOn(Cells) /\ ~ has_error /\ alone = << >>
      /\ stacksize = 0 /\ rc = "none" /\ mixed \in Mixings /\ reverse_order[size] = 1
  BY <1>1 DEF CleanInv, Running
<1>3. size \in Nat /\ Cells' = Cells /\ Keys' = Keys
  BY <1>1, ArrayKept, SizeIsNat DEF ParamsInv, Keys
<1>4. counted' \in [0 .. size -> Word]
  BY <1>1 DEF TypeOK
<1>5. TypeOK'
  <2>1. i' \in 0 .. size'
    BY <1>1, <1>3 DEF TypeOK
  <2> QED  BY <1>1, <1>2, <1>3, <1>4, <2>1, ParamsType DEF TypeOK
<1>6. CleanInv'
  <2>1. Mixings' = Mixings
    BY <1>1, <1>3 DEF Mixings
  <2> QED  BY <1>1, <1>2, <1>3, <1>4, <2>1 DEF CleanInv
<1>7. SuccessIsComplete' /\ DuplicateHasCause' /\ ScatterInv'
  BY <1>1, <1>2 DEF SuccessIsComplete, DuplicateHasCause, ScatterInv
<1>8. KeptInv'
  BY <1>1, <1>3, <1>4, ScatterEndKeeps DEF KeptInv
<1>9. AloneInv'
  BY <1>1, <1>2, NoneAloneNext
<1>10. StackInv'
  BY <1>1, <1>2, NothingPeeledNext DEF StackInv
<1>11. CountInv'
  <2>1. Pivots' = {} /\ \A c : Covering(c)' = {}
    <3>1. Remaining' = {}
      BY <1>1 DEF Remaining
    <3>2. Pivots' = {}
      BY <1>1, <1>2, NothingPeeledNext
    <3> QED  BY <3>1, <3>2 DEF Covering
  <2>2. ASSUME NEW c \in Cells PROVE AgreesAt(c, Covering(c))' /\ Cardinality(Covering(c)') < DegreeMod
    <3>1. t2deg'[c] = 0 /\ t2pos'[c] = 0 /\ t2hash'[c] = 0
      BY <1>1, <1>2 DEF ZeroOn
    <3>2. Cardinality({}) = 0 /\ 0 % DegreeMod = 0 /\ 0 < DegreeMod
      BY FS_EmptySet, DegreeModIsNat, ModSmall
    <3>3. /\ IsXorOver(0, counted', {})
          /\ IsXorOver(0, [x \in {} |-> PosIn(counted[x], c)]', {})
      BY XorOverEmpty
    <3> QED  BY <2>1, <3>1, <3>2, <3>3 DEF AgreesAt
  <2> QED  BY <1>1, <1>3, <2>1, <2>2 DEF CountInv
<1> QED  BY <1>5, <1>6, <1>7, <1>8, <1>9, <1>10, <1>11 DEF Invariant

LEMMA InvariantCountKey ==
  ASSUME Invariant, ParamsInv', CountKey
  PROVE  Invariant'
<1>1. /\ TypeOK /\ ParamsInv /\ CleanInv /\ KeptInv /\ CountInv
      /\ pc = "count" /\ i < size
      /\ UNCHANGED <<size, hashed, iteration, params, mixed, start_pos, reverse_order,
                     alone, reverse_h, stacksize, counted>>
  BY DEF CountKey, inputs, Invariant
<1>2. /\ alone = << >> /\ stacksize = 0 /\ rc = "none" /\ mixed \in Mixings
      /\ reverse_order[size] = 1 /\ start_pos = << >>
  BY <1>1 DEF CleanInv, Running, TypeOK
<1>3. size \in Nat /\ Cells' = Cells /\ Keys' = Keys
  BY <1>1, ArrayKept, SizeIsNat DEF ParamsInv, Keys
<1>4. \/ pc' = "done" /\ rc' = "DUPLICATE_KEY" /\ start_pos_cap' = 0 /\ UNCHANGED <<i, has_error>>
      \/ pc' = "count" /\ rc' = "none" /\ start_pos_cap' = start_pos_cap /\ i' = i + 1
         /\ has_error' \in BOOLEAN
  <2>1. has_error \in BOOLEAN
    BY <1>1 DEF TypeOK
  <2> QED  BY <1>1, <1>2, <2>1 DEF CountKey, Return
<1>5. /\ CountInv' /\ DuplicateHasCause'
      /\ t2deg' \in [Cells -> 0 .. (DegreeMod - 1)]
      /\ t2pos' \in [Cells -> 0 .. 3]
      /\ t2hash' \in [Cells -> Word]
  BY <1>1, CountStep
<1>6. TypeOK'
  <2>1. i' \in 0 .. size' /\ start_pos_cap' \in Nat /\ has_error' \in BOOLEAN /\ rc' \in ReturnCodes
    BY <1>1, <1>3, <1>4 DEF TypeOK, ReturnCodes
  <2> QED  BY <1>1, <1>2, <1>3, <1>4, <1>5, <2>1, ParamsType DEF TypeOK
<1>7. CleanInv'
  <2>1. Mixings' = Mixings
    BY <1>1, <1>3 DEF Mixings
  <2> QED  BY <1>1, <1>2, <1>4, <2>1 DEF CleanInv
<1>8. SuccessIsComplete' /\ ScatterInv'
  BY <1>4 DEF SuccessIsComplete, ScatterInv
<1>9. KeptInv'
  <2>1. counted \in [0 .. size -> Word] /\ ScatterKeepsHashes
    BY <1>1 DEF KeptInv, Counting
  <2> QED  BY <1>1, <1>3, <2>1 DEF KeptInv, ScatterKeepsHashes
<1>10. AloneInv'
  BY <1>1, <1>2, NoneAloneNext
<1>11. StackInv'
  BY <1>1, <1>2, <1>4, NothingPeeledNext DEF StackInv
<1> QED  BY <1>5, <1>6, <1>7, <1>8, <1>9, <1>10, <1>11 DEF Invariant

LEMMA InvariantReset ==
  ASSUME Invariant, ParamsInv', RetryAfterOverflow \/ RetryAfterPeel
  PROVE  Invariant'
<1>1. /\ TypeOK /\ ParamsInv /\ CleanInv /\ pc \in {"count", "peel"} /\ Reset
      /\ UNCHANGED <<size, hashed, rc, params, start_pos, start_pos_cap>>
  BY DEF RetryAfterOverflow, RetryAfterPeel, inputs, Invariant
<1>2. rc = "none" /\ reverse_order[size] = 1 /\ start_pos = << >>
  BY <1>1 DEF CleanInv, TypeOK
<1>3. size \in Nat /\ size \in Sizes /\ Cells' = Cells /\ Keys' = Keys
  BY <1>1, ArrayKept, SizeIsNat DEF ParamsInv, Keys
<1>4. /\ pc' = "attempt" /\ i' = 0 /\ has_error' = FALSE /\ alone' = << >> /\ reverse_h' = << >>
      /\ stacksize' = 0 /\ counted' = << >> /\ mixed' = ZeroOn(Keys)
      /\ reverse_order' = [p \in 0 .. size |-> IF p < size THEN 0 ELSE reverse_order[p]]
  BY <1>1 DEF Reset
<1>5. t2deg' = ZeroOn(Cells) /\ t2pos' = ZeroOn(Cells) /\ t2hash' = ZeroOn(Cells)
  <2>1. DOMAIN t2deg = Cells /\ DOMAIN t2pos = Cells /\ DOMAIN t2hash = Cells
    BY <1>1 DEF TypeOK
  <2> QED  BY <1>1, <2>1 DEF Reset, ClearedTable
<1>6. reverse_order' = EmptyOrder
  <2>1. \A p \in 0 .. size : (IF p < size THEN 0 ELSE reverse_order[p]) = IF p = size THEN 1 ELSE 0
    BY <1>2, <1>3
  <2> QED  BY <1>4, <2>1 DEF EmptyOrder
<1>7. EmptyOrder \in [0 .. size -> Word] /\ EmptyOrder[size] = 1 /\ EmptyOrder' = EmptyOrder
  BY <1>1, <1>3, EmptyOrderType DEF EmptyOrder
<1>8. TypeOK'
  <2>1. mixed' \in [Keys -> Word]
    BY <1>4, ZeroIsWord DEF ZeroOn
  <2>2. i' \in 0 .. size' /\ stacksize' \in 0 .. size' /\ stacksize' = Len(reverse_h')
    BY <1>1, <1>3, <1>4
  <2>3. alone' \in Seq(Cells) /\ reverse_h' \in Seq(Positions)
    BY <1>4
  <2>4. start_pos_cap' \in Nat /\ hashed' \in [Keys -> KeyHash] /\ rc' \in ReturnCodes
    BY <1>1 DEF TypeOK
  <2> QED  BY <1>1, <1>2, <1>3, <1>4, <1>5, <1>6, <1>7, <2>1, <2>2, <2>3, <2>4, ParamsType,
              ZeroTables DEF TypeOK
<1>9. CleanInv'
  BY <1>1, <1>2, <1>3, <1>4, <1>5, <1>6, <1>7 DEF CleanInv, Running
<1>10. ScatterInv' /\ CountInv' /\ SuccessIsComplete' /\ DuplicateHasCause'
  BY <1>1, <1>2, <1>4 DEF ScatterInv, CountInv, Counting, SuccessIsComplete, DuplicateHasCause
<1>11. KeptInv'
  BY <1>4 DEF KeptInv, ScatterKeepsHashes, Counting
<1>12. AloneInv'
  BY <1>4, NoneAloneNext
<1>13. StackInv'
  BY <1>4, NothingPeeledNext DEF StackInv
<1> QED  BY <1>8, <1>9, <1>10, <1>11, <1>12, <1>13 DEF Invariant

(* With no hash on the stack, every entry remains. *)
LEMMA AllRemain ==
  ASSUME stacksize = 0, pc # "count"
  PROVE  Remaining = Keys
BY NothingPeeled DEF Remaining

LEMMA InvariantEndCount ==
  ASSUME Invariant, ParamsInv', EndCount
  PROVE  Invariant'
<1>1. /\ TypeOK /\ ParamsInv /\ CleanInv /\ KeptInv /\ CountInv
      /\ pc = "count" /\ i = size /\ ~ has_error /\ pc' = "fill" /\ i' = 0
      /\ UNCHANGED <<size, hashed, iteration, rc, params, mixed, start_pos, start_pos_cap,
                     reverse_order, t2deg, t2pos, t2hash, has_error, alone, reverse_h,
                     stacksize, counted>>
  BY DEF EndCount, inputs, tables, Invariant
<1>2. /\ alone = << >> /\ stacksize = 0 /\ rc = "none" /\ mixed \in Mixings
      /\ reverse_order[size] = 1 /\ start_pos = << >>
  BY <1>1 DEF CleanInv, Running, TypeOK
<1>3. size \in Nat /\ Cells' = Cells /\ Keys' = Keys
  BY <1>1, ArrayKept, SizeIsNat DEF ParamsInv, Keys
<1>4. TypeOK'
  <2>1. params.array_len \in Nat
    BY <1>1, ParamsInvWellFormed DEF WellFormed
  <2>2. i' \in 0 .. params'.array_len
    BY <1>1, <2>1
  <2> QED  BY <1>1, <1>2, <1>3, <2>2, ParamsType DEF TypeOK
<1>5. CleanInv'
  <2>1. Mixings' = Mixings
    BY <1>1, <1>3 DEF Mixings
  <2> QED  BY <1>1, <1>2, <2>1 DEF CleanInv
<1>6. SuccessIsComplete' /\ ScatterInv' /\ DuplicateHasCause'
  BY <1>1, <1>2 DEF SuccessIsComplete, ScatterInv, DuplicateHasCause
<1>7. KeptInv'
  BY <1>1, <1>3 DEF KeptInv, ScatterKeepsHashes, Counting
<1>8. AloneInv'
  BY <1>1, <1>2, NoneAloneNext
<1>9. StackInv'
  BY <1>1, <1>2, NothingPeeledNext DEF StackInv
<1>10. CountInv'
  <2>1. Remaining' = Remaining
    <3>1. Remaining = Keys
      BY <1>1 DEF Remaining, Keys
    <3>2. Remaining' = Keys
      <4>1. Peeled' = {}
        BY <1>1, <1>2, NothingPeeledNext
      <4> QED  BY <1>1, <1>3, <4>1 DEF Remaining
    <3> QED  BY <3>1, <3>2
  <2>2. Pivots' = Pivots /\ \A c : Covering(c)' = Covering(c)
    <3>1. Pivots' = {} /\ Pivots = {}
      BY <1>1, <1>2, NothingPeeledNext, NothingPeeled
    <3> QED  BY <1>1, <2>1, <3>1 DEF Covering
  <2>3. ASSUME NEW c \in Cells \ Pivots PROVE AgreesAt(c, Covering(c))'
    <3>1. AgreesAt(c, Covering(c))
      BY <1>1, <2>3 DEF CountInv, Counting
    <3>2. \A h : PosIn(h, c)' = PosIn(h, c)
      BY <1>1 DEF PosIn
    <3>3. [x \in Covering(c) |-> PosIn(counted[x], c)]' = [x \in Covering(c) |-> PosIn(counted[x], c)]
      BY <1>1, <2>2, <3>2
    <3> QED  BY <1>1, <2>2, <3>1, <3>3 DEF AgreesAt
  <2> QED  BY <1>1, <1>3, <2>2, <2>3 DEF CountInv, Counting
<1> QED  BY <1>4, <1>5, <1>6, <1>7, <1>8, <1>9, <1>10 DEF Invariant

(* The counts stay true while neither they nor the stack of hashes change. *)
LEMMA CountsUntouched ==
  ASSUME CountInv, pc \in {"fill", "peel"}, pc' \in {"fill", "peel"}, Cells' = Cells, Keys' = Keys,
         UNCHANGED <<params, counted, reverse_order, reverse_h, stacksize,
                     t2deg, t2pos, t2hash, has_error>>
  PROVE  /\ CountInv'
         /\ Peeled' = Peeled /\ Pivots' = Pivots /\ Remaining' = Remaining
         /\ \A j : Pivot(j)' = Pivot(j)
<1>1. \A j : Pivot(j)' = Pivot(j)
  BY DEF Pivot
<1>2. Peeled' = Peeled /\ Pivots' = Pivots
  BY <1>1 DEF Peeled, Pivots
<1>3. Remaining' = Remaining
  BY <1>2 DEF Remaining
<1>4. \A c : Covering(c)' = Covering(c)
  BY <1>3 DEF Covering
<1>5. ASSUME NEW c \in Cells \ Pivots PROVE AgreesAt(c, Covering(c))'
  <2>1. AgreesAt(c, Covering(c))
    BY <1>5 DEF CountInv, Counting
  <2>2. \A h : PosIn(h, c)' = PosIn(h, c)
    BY DEF PosIn
  <2>3. [x \in Covering(c) |-> PosIn(counted[x], c)]' = [x \in Covering(c) |-> PosIn(counted[x], c)]
    BY <1>4, <2>2
  <2> QED  BY <1>4, <2>1, <2>3 DEF AgreesAt
<1>6. CountInv'
  BY <1>2, <1>4, <1>5 DEF CountInv, Counting
<1> QED  BY <1>1, <1>2, <1>3, <1>6

LEMMA InvariantFillAlone ==
  ASSUME Invariant, ParamsInv', FillAlone
  PROVE  Invariant'
<1>1. /\ TypeOK /\ ParamsInv /\ CleanInv /\ KeptInv /\ CountInv /\ AloneInv
      /\ pc = "fill" /\ i < params.array_len /\ pc' = "fill" /\ i' = i + 1
      /\ alone' = (IF IsAlone(i) THEN Append(alone, i) ELSE alone)
      /\ UNCHANGED <<size, hashed, iteration, rc, params, mixed, start_pos, start_pos_cap,
                     reverse_order, t2deg, t2pos, t2hash, has_error, reverse_h,
                     stacksize, counted>>
  BY DEF FillAlone, inputs, tables, Invariant
<1>2. /\ stacksize = 0 /\ rc = "none" /\ mixed \in Mixings /\ ~ has_error
      /\ reverse_order[size] = 1 /\ start_pos = << >>
  BY <1>1 DEF CleanInv, Running, TypeOK
<1>3. size \in Nat /\ Cells' = Cells /\ Keys' = Keys
  BY <1>1, ArrayKept, SizeIsNat DEF ParamsInv, Keys
<1>4. i \in Cells /\ i \in Nat /\ i' \in 0 .. params.array_len
  <2>1. params.array_len \in Nat
    BY <1>1, ParamsInvWellFormed DEF WellFormed
  <2>2. i \in 0 .. params.array_len
    BY <1>1 DEF TypeOK
  <2> QED  BY <1>1, <2>1, <2>2 DEF Cells
<1>5. Pivots = {} /\ Pivots' = {}
  BY <1>1, <1>2, NothingPeeled, NothingPeeledNext
<1>6. AloneInv' /\ alone' \in Seq(Cells)
  <2>1. /\ alone \in Seq(Cells) /\ Distinct(alone, DOMAIN alone)
        /\ \A n \in DOMAIN alone : alone[n] < i /\ t2deg[alone[n]] <= 1
    BY <1>1 DEF TypeOK, AloneInv
  <2>2. CASE IsAlone(i)
    <3>1. alone' = Append(alone, i)
      BY <1>1, <2>2
    <3>2. \A n \in DOMAIN alone : alone[n] # i
      BY <1>4, <2>1
    <3>3. /\ alone' \in Seq(Cells) /\ Distinct(alone', DOMAIN alone')
          /\ \A n \in DOMAIN alone' : alone'[n] = i \/ \E m \in DOMAIN alone : alone'[n] = alone[m]
      BY <1>4, <2>1, <3>1, <3>2, PushKeepsDistinct
    <3>4. ASSUME NEW n \in DOMAIN alone' PROVE alone'[n] < i + 1 /\ t2deg[alone'[n]] <= 1
      <4>1. CASE alone'[n] = i
        BY <1>4, <2>2, <4>1 DEF IsAlone
      <4>2. CASE \E m \in DOMAIN alone : alone'[n] = alone[m]
        <5>1. PICK m \in DOMAIN alone : alone'[n] = alone[m]
          BY <4>2
        <5>2. alone[m] < i /\ t2deg[alone[m]] <= 1 /\ alone[m] \in Cells
          BY <2>1
        <5>3. alone[m] \in Nat
          BY <1>1, <5>2, ParamsInvWellFormed DEF WellFormed, Cells
        <5> QED  BY <1>4, <5>1, <5>2, <5>3
      <4> QED  BY <3>3, <4>1, <4>2
    <3>5. Distinct(alone, DOMAIN alone)'
      BY <3>3 DEF Distinct
    <3> QED  BY <1>1, <1>5, <3>3, <3>4, <3>5 DEF AloneInv
  <2>3. CASE ~ IsAlone(i)
    <3>1. alone' = alone
      BY <1>1, <2>3
    <3>2. ASSUME NEW n \in DOMAIN alone PROVE alone[n] < i + 1
      <4>1. alone[n] < i /\ alone[n] \in Cells
        BY <2>1
      <4>2. alone[n] \in Nat
        BY <1>1, <4>1, ParamsInvWellFormed DEF WellFormed, Cells
      <4> QED  BY <1>4, <4>1, <4>2
    <3>3. Distinct(alone, DOMAIN alone)'
      BY <2>1, <3>1 DEF Distinct
    <3> QED  BY <1>1, <1>5, <2>1, <3>1, <3>2, <3>3 DEF AloneInv
  <2> QED  BY <2>2, <2>3
<1>7. TypeOK'
  BY <1>1, <1>2, <1>3, <1>4, <1>6, ParamsType DEF TypeOK
<1>8. CleanInv'
  <2>1. Mixings' = Mixings
    BY <1>1, <1>3 DEF Mixings
  <2> QED  BY <1>1, <1>2, <2>1 DEF CleanInv
<1>9. SuccessIsComplete' /\ ScatterInv' /\ DuplicateHasCause'
  BY <1>1, <1>2 DEF SuccessIsComplete, ScatterInv, DuplicateHasCause
<1>10. KeptInv'
  BY <1>1, <1>3 DEF KeptInv, ScatterKeepsHashes, Counting
<1>11. StackInv'
  BY <1>1, <1>2, NothingPeeledNext DEF StackInv
<1>12. CountInv'
  BY <1>1, <1>3, CountsUntouched
<1> QED  BY <1>6, <1>7, <1>8, <1>9, <1>10, <1>11, <1>12 DEF Invariant

LEMMA InvariantEndFill ==
  ASSUME Invariant, ParamsInv', EndFill
  PROVE  Invariant'
<1>1. /\ TypeOK /\ ParamsInv /\ CleanInv /\ KeptInv /\ CountInv /\ AloneInv
      /\ pc = "fill" /\ pc' = "peel" /\ i' = 0
      /\ UNCHANGED <<size, hashed, iteration, rc, params, mixed, start_pos, start_pos_cap,
                     reverse_order, t2deg, t2pos, t2hash, has_error, alone, reverse_h,
                     stacksize, counted>>
  BY DEF EndFill, inputs, tables, Invariant
<1>2. /\ stacksize = 0 /\ rc = "none" /\ mixed \in Mixings /\ ~ has_error
      /\ reverse_order[size] = 1 /\ start_pos = << >>
  BY <1>1 DEF CleanInv, Running, TypeOK
<1>3. size \in Nat /\ Cardinality(Keys) = size /\ Cells' = Cells /\ Keys' = Keys
  BY <1>1, ArrayKept, SizeIsNat DEF ParamsInv, Keys
<1>4. CountInv' /\ Pivots' = Pivots /\ Remaining' = Remaining
  BY <1>1, <1>3, CountsUntouched
<1>5. TypeOK'
  <2>1. i' \in 0 .. size'
    BY <1>1, <1>3
  <2> QED  BY <1>1, <1>2, <1>3, <2>1, ParamsType DEF TypeOK
<1>6. CleanInv'
  <2>1. Mixings' = Mixings
    BY <1>1, <1>3 DEF Mixings
  <2> QED  BY <1>1, <1>2, <2>1 DEF CleanInv
<1>7. SuccessIsComplete' /\ ScatterInv' /\ DuplicateHasCause'
  BY <1>1, <1>2 DEF SuccessIsComplete, ScatterInv, DuplicateHasCause
<1>8. KeptInv'
  BY <1>1, <1>3 DEF KeptInv, ScatterKeepsHashes, Counting
<1>9. AloneInv'
  BY <1>1, <1>4 DEF AloneInv, Distinct
<1>10. StackInv'
  <2>1. Cardinality(Remaining') = size - stacksize
    BY <1>1, <1>2, <1>3, <1>4, AllRemain
  <2> QED  BY <1>1, <1>2, <2>1, NothingPeeledNext DEF StackInv
<1> QED  BY <1>4, <1>5, <1>6, <1>7, <1>8, <1>9, <1>10 DEF Invariant

LEMMA InvariantPopStale ==
  ASSUME Invariant, ParamsInv', PopStale
  PROVE  Invariant'
<1>1. /\ TypeOK /\ ParamsInv /\ CleanInv /\ KeptInv /\ CountInv /\ AloneInv /\ StackInv
      /\ pc = "peel" /\ pc' = "peel" /\ qsize > 0 /\ alone' = Popped
      /\ UNCHANGED <<size, hashed, iteration, i, rc, params, mixed, start_pos, start_pos_cap,
                     reverse_order, t2deg, t2pos, t2hash, has_error, reverse_h,
                     stacksize, counted>>
  BY DEF PopStale, inputs, tables, Invariant
<1>2. Cells' = Cells /\ Keys' = Keys
  BY <1>1, ArrayKept DEF Keys
<1>3. rc = "none" /\ ~ has_error
  BY <1>1 DEF CleanInv
<1>4. /\ CountInv' /\ Peeled' = Peeled /\ Pivots' = Pivots /\ Remaining' = Remaining
      /\ \A j : Pivot(j)' = Pivot(j)
  BY <1>1, <1>2, CountsUntouched
<1>5. /\ alone' \in Seq(Cells) /\ Distinct(alone', DOMAIN alone')
      /\ \A n \in DOMAIN alone' : n \in DOMAIN alone /\ alone'[n] = alone[n]
  <2>1. alone \in Seq(Cells) /\ Distinct(alone, DOMAIN alone) /\ Len(alone) > 0
    BY <1>1 DEF TypeOK, AloneInv, qsize
  <2> QED  BY <1>1, <2>1, PopKeepsDistinct DEF Popped
<1>6. AloneInv'
  <2>1. Distinct(alone, DOMAIN alone)'
    BY <1>5 DEF Distinct
  <2> QED  BY <1>1, <1>4, <1>5, <2>1 DEF AloneInv
<1>7. TypeOK'
  BY <1>1, <1>2, <1>5, ParamsType DEF TypeOK
<1>8. CleanInv'
  <2>1. Mixings' = Mixings
    BY <1>1, <1>2 DEF Mixings
  <2> QED  BY <1>1, <2>1 DEF CleanInv, Running
<1>9. SuccessIsComplete' /\ ScatterInv' /\ DuplicateHasCause'
  BY <1>1, <1>3 DEF SuccessIsComplete, ScatterInv, DuplicateHasCause
<1>10. KeptInv'
  BY <1>1, <1>2 DEF KeptInv, ScatterKeepsHashes, Counting
<1>11. StackInv'
  <2>1. PeelOrder'
    BY <1>1, <1>4 DEF StackInv, PeelOrder
  <2>2. StackHoldsKeys'
    BY <1>1, <1>2, <1>4 DEF StackInv, StackHoldsKeys, Distinct
  <2> QED  BY <1>1, <1>2, <1>4, <2>1, <2>2 DEF StackInv
<1> QED  BY <1>4, <1>6, <1>7, <1>8, <1>9, <1>10, <1>11 DEF Invariant

LEMMA InvariantPeelHash ==
  ASSUME Invariant, ParamsInv', PeelHash
  PROVE  Invariant'
<1>1. /\ TypeOK /\ ParamsInv /\ CleanInv /\ KeptInv /\ CountInv /\ AloneInv /\ StackInv
      /\ pc = "peel" /\ pc' = "peel"
      /\ UNCHANGED <<size, hashed, iteration, i, rc, params, mixed, start_pos, start_pos_cap,
                     has_error, counted>>
  BY DEF PeelHash, inputs, Invariant
<1>2. Cells' = Cells /\ Keys' = Keys
  BY <1>1, ArrayKept DEF Keys
<1>3. rc = "none" /\ ~ has_error
  BY <1>1 DEF CleanInv
<1>4. /\ CountInv' /\ AloneInv' /\ StackInv'
      /\ t2deg' \in [Cells -> 0 .. (DegreeMod - 1)]
      /\ t2pos' \in [Cells -> 0 .. 3]
      /\ t2hash' \in [Cells -> Word]
      /\ alone' \in Seq(Cells)
      /\ reverse_order' \in [0 .. size -> Word] /\ reverse_order'[size] = 1
      /\ reverse_h' \in Seq(Positions)
      /\ stacksize' \in 0 .. size /\ stacksize' = Len(reverse_h')
  BY <1>1, PeelTurn
<1>5. TypeOK'
  BY <1>1, <1>2, <1>4, ParamsType DEF TypeOK
<1>6. CleanInv'
  <2>1. Mixings' = Mixings
    BY <1>1, <1>2 DEF Mixings
  <2> QED  BY <1>1, <1>4, <2>1 DEF CleanInv, Running
<1>7. SuccessIsComplete' /\ ScatterInv' /\ DuplicateHasCause'
  BY <1>1, <1>3 DEF SuccessIsComplete, ScatterInv, DuplicateHasCause
<1>8. KeptInv'
  BY <1>1, <1>2 DEF KeptInv, ScatterKeepsHashes, Counting
<1> QED  BY <1>4, <1>5, <1>6, <1>7, <1>8 DEF Invariant

(* The stack is full only if every hash is on it, once: then the hashes are *)
(* as many as the keys, so no two keys have the same.                       *)
LEMMA FullStack ==
  ASSUME TypeOK, ParamsInv, CleanInv, KeptInv, StackInv, pc = "peel", stacksize = size
  PROVE  Distinct(hashed, Keys) /\ Peeled = { mixed[k] : k \in Keys }
<1>1. /\ size \in Sizes /\ size \in Nat /\ IsFiniteSet(Keys) /\ Cardinality(Keys) = size
      /\ ScatterKeepsHashes /\ counted \in [0 .. size -> Word] /\ mixed \in [Keys -> Word]
      /\ mixed \in Mixings
  BY SizeIsNat DEF ParamsInv, KeptInv, Counting, TypeOK, CleanInv, Running
<1>2. { counted[p] : p \in Keys } = { mixed[k] : k \in Keys }
  BY <1>1, CountedAreMixed
<1>3. Remaining = { p \in Keys : counted[p] \notin Peeled }
  BY DEF Remaining
<1>4. Remaining = {}
  <2>1. Cardinality(Remaining) = 0
    <3>1. Cardinality(Remaining) = size - stacksize
      BY DEF StackInv
    <3> QED  BY <1>1, <3>1
  <2>2. IsFiniteSet(Remaining)
    <3>1. Remaining \in SUBSET Keys
      BY <1>3
    <3> QED  BY <1>1, <3>1, FS_Subset
  <2> QED  BY <2>1, <2>2, FS_EmptySet
<1>5. Peeled = { mixed[k] : k \in Keys }
  BY <1>2, <1>3, <1>4 DEF StackInv
<1>6. Keys = 0 .. (stacksize - 1)
  BY DEF Keys
<1>7. Cardinality(Peeled) = size /\ IsFiniteSet(Peeled)
  <2> DEFINE f == [j \in Keys |-> reverse_order[j]]
  <2>1. f \in Surjection(Keys, Peeled)
    <3>1. f \in [Keys -> Peeled] /\ \A h \in Peeled : \E j \in Keys : f[j] = h
      BY <1>6 DEF Peeled
    <3> QED  BY <3>1 DEF Surjection
  <2>2. f \in Injection(Keys, Peeled)
    <3>1. \A j, k \in Keys : f[j] = f[k] => j = k
      BY <1>6 DEF StackInv, StackHoldsKeys, Distinct
    <3>2. f \in [Keys -> Peeled]
      BY <2>1 DEF Surjection
    <3> HIDE DEF f
    <3> QED  BY <3>1, <3>2 DEF Injection, IsInjective
  <2> HIDE DEF f
  <2> QED  BY <1>1, <2>1, <2>2, FS_Surjection
<1>8. mixed \in Injection(Keys, Peeled)
  <2>1. mixed \in Surjection(Keys, Peeled)
    <3>1. mixed \in [Keys -> Peeled]
      BY <1>1, <1>5
    <3>2. \A h \in Peeled : \E k \in Keys : mixed[k] = h
      BY <1>5
    <3> QED  BY <3>1, <3>2 DEF Surjection
  <2> QED  BY <1>1, <1>7, <2>1, FS_SurjSameCardinalityImpliesInj
<1>9. \A j, k \in Keys : mixed[j] = mixed[k] => j = k
  BY <1>8 DEF Injection, IsInjective
<1>10. Distinct(hashed, Keys)
  BY <1>1, <1>9 DEF Mixings, Distinct
<1> QED  BY <1>5, <1>10

(* The returns. *)
LEMMA InvariantReturn ==
  ASSUME Invariant, ParamsInv', GiveUp \/ AllocFails \/ Succeed
  PROVE  Invariant'
<1>1. /\ TypeOK /\ ParamsInv /\ CleanInv /\ KeptInv /\ AloneInv /\ StackInv
      /\ pc' = "done" /\ start_pos_cap' = 0
      /\ UNCHANGED <<size, hashed, iteration, i, mixed, start_pos, reverse_order, t2deg, t2pos,
                     t2hash, has_error, alone, reverse_h, stacksize, counted>>
  BY DEF GiveUp, AllocFails, Succeed, Return, inputs, tables, Invariant
<1>2. /\ pc \in {"attempt", "peel"}
      /\ pc = "attempt" => rc' \in {"CONSTRUCT_FAIL", "NOMEM"}
      /\ pc = "peel" => stacksize = size /\ rc' = "OK" /\ params' = params
  BY DEF GiveUp, AllocFails, Succeed, Return, AllPeeled
<1>3. Cells' = Cells /\ Keys' = Keys /\ start_pos = << >> /\ i = 0 /\ size \in Nat
  BY <1>1, <1>2, ArrayKept, SizeIsNat DEF Keys, CleanInv, TypeOK, ParamsInv
<1>4. TypeOK'
  <2>1. i' \in 0 .. size' /\ rc' \in ReturnCodes
    BY <1>1, <1>2, <1>3 DEF ReturnCodes
  <2> QED  BY <1>1, <1>2, <1>3, <2>1, ParamsType DEF TypeOK
<1>5. CleanInv' /\ ScatterInv' /\ CountInv' /\ DuplicateHasCause'
  BY <1>1, <1>2 DEF CleanInv, ScatterInv, CountInv, DuplicateHasCause, Running, Counting
<1>6. KeptInv'
  BY <1>1, <1>3 DEF KeptInv, ScatterKeepsHashes, Counting
<1>7. AloneInv' /\ PeelOrder' /\ StackHoldsKeys' /\ Peeled' = Peeled
  <2>1. CASE pc = "attempt"
    <3>1. stacksize = 0 /\ alone = << >>
      BY <1>1, <2>1 DEF CleanInv
    <3> QED  BY <1>1, <3>1, NothingPeeled, NothingPeeledNext, NoneAloneNext
  <2>2. CASE pc = "peel"
    <3>1. Peeled' = Peeled /\ (\A j : Pivot(j)' = Pivot(j)) /\ params' = params
      BY <1>1, <1>2, <2>2 DEF Peeled, Pivot
    <3>2. Pivots' = Pivots
      BY <1>1, <3>1 DEF Pivots
    <3>3. PeelOrder'
      BY <1>1, <3>1 DEF PeelOrder, StackInv
    <3>4. StackHoldsKeys'
      BY <1>1, <1>3, <3>1 DEF StackHoldsKeys, StackInv, Distinct
    <3>5. AloneInv'
      BY <1>1, <3>2 DEF AloneInv, Distinct
    <3> QED  BY <3>1, <3>3, <3>4, <3>5
  <2> QED  BY <1>2, <2>1, <2>2
<1>8. StackInv'
  BY <1>1, <1>7 DEF StackInv
<1>9. SuccessIsComplete'
  <2>1. CASE pc = "attempt"
    BY <1>2, <2>1 DEF SuccessIsComplete
  <2>2. CASE pc = "peel"
    <3>1. Distinct(hashed, Keys) /\ Peeled = { mixed[k] : k \in Keys }
      BY <1>1, <1>2, <2>2, FullStack
    <3> QED  BY <1>1, <1>3, <1>7, <3>1 DEF SuccessIsComplete, Distinct
  <2> QED  BY <1>2, <2>1, <2>2
<1> QED  BY <1>4, <1>5, <1>6, <1>7, <1>8, <1>9 DEF Invariant

LEMMA InvariantStutter ==
  ASSUME Invariant, ParamsInv', UNCHANGED vars
  PROVE  Invariant'
<1>1. UNCHANGED <<size, hashed, pc, iteration, i, rc, params, mixed, start_pos, start_pos_cap,
                  reverse_order, t2deg, t2pos, t2hash, has_error, alone, reverse_h,
                  stacksize, counted>>
  BY DEF vars
<1>2. /\ TypeOK /\ ParamsInv /\ CleanInv /\ ScatterInv /\ KeptInv /\ CountInv /\ AloneInv
      /\ StackInv /\ SuccessIsComplete /\ DuplicateHasCause
  BY DEF Invariant
<1>3. /\ Cells' = Cells /\ Keys' = Keys /\ Mixings' = Mixings /\ Peeled' = Peeled
      /\ BlockCount' = BlockCount /\ Blocks' = Blocks /\ Placed' = Placed
      /\ \A j : Pivot(j)' = Pivot(j)
  BY <1>1 DEF Cells, Keys, Mixings, Peeled, BlockCount, Blocks, Placed, Pivot
<1>4. Pivots' = Pivots /\ Remaining' = Remaining
  BY <1>1, <1>3 DEF Pivots, Remaining
<1>5. TypeOK'
  BY <1>1, <1>2, <1>3 DEF TypeOK
<1>6. CleanInv' /\ KeptInv'
  <2>1. CleanInv'
    <3>1. EmptyOrder' = EmptyOrder
      BY <1>1 DEF EmptyOrder
    <3> QED  BY <1>1, <1>2, <1>3, <3>1 DEF CleanInv
  <2>2. KeptInv'
    BY <1>1, <1>2, <1>3 DEF KeptInv, ScatterKeepsHashes
  <2> QED  BY <2>1, <2>2
<1>7. ScatterInv'
  <2>1. \A b : Start(b)' = Start(b)
    BY <1>1, <1>3 DEF Start, BlockStart
  <2>2. Visited' = Visited
    BY <1>1, <1>3, <2>1 DEF Visited
  <2> QED  BY <1>1, <1>2, <1>3, <2>1, <2>2 DEF ScatterInv
<1>8. CountInv'
  <2>1. \A c : Covering(c)' = Covering(c)
    BY <1>1, <1>4 DEF Covering
  <2>2. ASSUME NEW c, AgreesAt(c, Covering(c)) PROVE AgreesAt(c, Covering(c))'
    <3>1. \A h : PosIn(h, c)' = PosIn(h, c)
      BY <1>1 DEF PosIn
    <3>2. [x \in Covering(c) |-> PosIn(counted[x], c)]' = [x \in Covering(c) |-> PosIn(counted[x], c)]
      BY <1>1, <2>1, <3>1
    <3> QED  BY <1>1, <2>1, <2>2, <3>2 DEF AgreesAt
  <2> QED  BY <1>1, <1>2, <1>3, <1>4, <2>1, <2>2 DEF CountInv
<1>9. AloneInv'
  BY <1>1, <1>2, <1>4 DEF AloneInv, Distinct
<1>10. PeelOrder' /\ StackHoldsKeys'
  BY <1>1, <1>2, <1>3 DEF StackInv, PeelOrder, StackHoldsKeys, Distinct
<1>11. StackInv'
  BY <1>1, <1>2, <1>3, <1>4, <1>10 DEF StackInv
<1>12. SuccessIsComplete' /\ DuplicateHasCause'
  <2>1. \A c : CountedIn(c)' = CountedIn(c)
    BY <1>1 DEF CountedIn
  <2> QED  BY <1>1, <1>2, <1>3, <2>1 DEF SuccessIsComplete, DuplicateHasCause, Distinct
<1> QED  BY <1>5, <1>6, <1>7, <1>8, <1>9, <1>11, <1>12 DEF Invariant

-----------------------------------------------------------------------------
(* The theorems. *)

LEMMA InvariantNext == Invariant /\ [Next]_vars => Invariant'
<1> SUFFICES ASSUME Invariant, [Next]_vars PROVE Invariant'
  OBVIOUS
<1>1. ParamsInv'
  BY ParamsInvNext DEF Invariant
<1>2. CASE GiveUp \/ AllocFails \/ Succeed
  BY <1>1, <1>2, InvariantReturn
<1>3. CASE StartAttempt
  BY <1>1, <1>3, InvariantStartAttempt
<1>4. CASE ScatterKey
  BY <1>1, <1>4, InvariantScatterKey
<1>5. CASE EndScatter
  BY <1>1, <1>5, InvariantEndScatter
<1>6. CASE CountKey
  BY <1>1, <1>6, InvariantCountKey
<1>7. CASE RetryAfterOverflow \/ RetryAfterPeel
  BY <1>1, <1>7, InvariantReset
<1>8. CASE EndCount
  BY <1>1, <1>8, InvariantEndCount
<1>9. CASE FillAlone
  BY <1>1, <1>9, InvariantFillAlone
<1>10. CASE EndFill
  BY <1>1, <1>10, InvariantEndFill
<1>11. CASE PopStale
  BY <1>1, <1>11, InvariantPopStale
<1>12. CASE PeelHash
  BY <1>1, <1>12, InvariantPeelHash
<1>13. CASE Returned \/ UNCHANGED vars
  BY <1>1, <1>13, InvariantStutter DEF Returned
<1> QED  BY <1>2, <1>3, <1>4, <1>5, <1>6, <1>7, <1>8, <1>9, <1>10, <1>11, <1>12, <1>13 DEF Next

(* Every state fcm_peel reaches satisfies the inductive invariant. *)
THEOREM InvariantHolds == Spec => []Invariant
<1> QED  BY InvariantInit, InvariantNext, PTL DEF Spec

(* Every variable keeps its type: no loop runs off the array it indexes.    *)
THEOREM TypeCorrect == Spec => []TypeOK
<1>1. Invariant => TypeOK
  BY DEF Invariant
<1> QED  BY <1>1, InvariantHolds, PTL

(* The probing loop of the scatter always finds an entry. *)
THEOREM ScatterNeverStuck == Spec => []ScatterHasRoom
<1>1. Invariant => ScatterHasRoom
  <2> SUFFICES ASSUME Invariant, pc = "scatter", i < size PROVE \E b \in Blocks : HasRoom(b)
    BY DEF ScatterHasRoom
  <2>1. TypeOK /\ ParamsInv /\ ScatterInv /\ size \in Sizes
    BY DEF Invariant, ParamsInv
  <2> QED  BY <2>1, ParamsInvWellFormed, ScatterFindsRoom
<1> QED  BY <1>1, InvariantHolds, PTL

(* What is counted are the keys' mixed hashes, each as often as it occurs. *)
THEOREM ScatterLosesNothing == Spec => []ScatterKeepsHashes
<1>1. Invariant => ScatterKeepsHashes
  BY DEF Invariant, KeptInv
<1> QED  BY <1>1, InvariantHolds, PTL

(* The counts of every cell tell the truth about the hashes remaining. *)
THEOREM CountsTrue == Spec => []CountsAgree
<1>1. Invariant => CountsAgree
  <2> SUFFICES ASSUME Invariant, pc \in {"count", "peel"}
               PROVE  /\ \A c \in Cells \ Pivots : AgreesAt(c, Covering(c))
                      /\ \A c \in Pivots : Covering(c) = {}
    BY DEF CountsAgree, AgreesAt
  <2> QED  BY DEF Invariant, CountInv, Counting
<1> QED  BY <1>1, InvariantHolds, PTL

(* Every hash of the stack was peeled at a cell of its own, ... *)
LEMMA PivotsCount ==
  ASSUME TypeOK, ParamsInv, PeelOrder
  PROVE  Pivots \subseteq Cells /\ IsFiniteSet(Pivots) /\ Cardinality(Pivots) = stacksize
<1> DEFINE J == 0 .. (stacksize - 1)
           f == [j \in J |-> Pivot(j)]
<1>1. stacksize \in Nat /\ stacksize <= size /\ size \in Nat /\ Len(reverse_h) = stacksize
  BY SizeIsNat DEF TypeOK, ParamsInv
<1>2. ASSUME NEW j \in J
      PROVE  Pivot(j) \in CellsOf(reverse_order[j], params) /\ Pivot(j) \in Cells
  <2>1. reverse_h \in Seq(Positions) /\ reverse_order \in [0 .. size -> Word]
    BY DEF TypeOK
  <2>2. j + 1 \in 1 .. Len(reverse_h) /\ j \in 0 .. size
    BY <1>1
  <2>3. reverse_h[j + 1] \in Positions /\ reverse_order[j] \in Word
    BY <2>1, <2>2
  <2> QED  BY <2>3, ParamsInvWellFormed, CellsAreThree DEF Pivot, CellsOf, Cells
<1>3. ASSUME NEW j \in J, NEW k \in J, Pivot(j) = Pivot(k) PROVE j = k
  <2>1. ~ (j < k) /\ ~ (k < j)
    BY <1>2, <1>3 DEF PeelOrder
  <2> QED  BY <2>1
<1>4. f \in Surjection(J, Pivots) /\ f \in Injection(J, Pivots)
  <2>1. f \in [J -> Pivots] /\ \A c \in Pivots : \E j \in J : f[j] = c
    BY DEF Pivots
  <2>2. \A j, k \in J : f[j] = f[k] => j = k
    BY <1>3
  <2> HIDE DEF f, J
  <2> QED  BY <2>1, <2>2 DEF Surjection, Injection, IsInjective
<1>5. IsFiniteSet(J) /\ Cardinality(J) = stacksize
  <2>1. 0 \in Int /\ stacksize - 1 \in Int
    BY <1>1
  <2>2. Cardinality(J) = IF 0 > stacksize - 1 THEN 0 ELSE stacksize - 1 - 0 + 1
    BY <2>1, FS_Interval
  <2>3. Cardinality(J) = stacksize
    BY <1>1, <2>2
  <2> QED  BY <2>1, <2>3, FS_Interval
<1>6. IsFiniteSet(Pivots) /\ Cardinality(Pivots) = Cardinality(J)
  <2> HIDE DEF f, J
  <2> QED  BY <1>4, <1>5, FS_Surjection
<1> QED  BY <1>2, <1>5, <1>6 DEF Pivots

(* ... and the cells of the alone stack are others, so the two never need   *)
(* more entries together than the array has cells.                          *)
THEOREM AloneNeverFull == Spec => []AloneHasRoom
<1>1. Invariant => AloneHasRoom
  <2> SUFFICES ASSUME Invariant PROVE Len(alone) + stacksize <= params.array_len
    BY DEF Invariant, AloneInv, AloneHasRoom
  <2> DEFINE D == DOMAIN alone
             A == { alone[n] : n \in D }
             f == [n \in D |-> alone[n]]
  <2>1. /\ TypeOK /\ ParamsInv /\ PeelOrder /\ AloneInv
        /\ alone \in Seq(Cells) /\ D = 1 .. Len(alone) /\ Len(alone) \in Nat
        /\ params.array_len \in Nat /\ stacksize \in Nat
    <3>1. TypeOK /\ ParamsInv /\ PeelOrder /\ AloneInv
      BY DEF Invariant, StackInv
    <3>2. alone \in Seq(Cells) /\ stacksize \in Nat
      BY <3>1, SizeIsNat DEF TypeOK, ParamsInv
    <3> QED  BY <3>1, <3>2, ParamsInvWellFormed DEF WellFormed
  <2>2. IsFiniteSet(D) /\ Cardinality(D) = Len(alone)
    <3>1. 1 \in Int /\ Len(alone) \in Int
      BY <2>1
    <3>2. /\ IsFiniteSet(1 .. Len(alone))
          /\ Cardinality(1 .. Len(alone)) = IF 1 > Len(alone) THEN 0 ELSE Len(alone) - 1 + 1
      BY <3>1, FS_Interval
    <3> QED  BY <2>1, <3>2
  <2>3. f \in Surjection(D, A) /\ f \in Injection(D, A)
    <3>1. f \in [D -> A] /\ \A c \in A : \E n \in D : f[n] = c
      OBVIOUS
    <3>2. \A m, n \in D : f[m] = f[n] => m = n
      BY <2>1 DEF AloneInv, Distinct
    <3> HIDE DEF f, D, A
    <3> QED  BY <3>1, <3>2 DEF Surjection, Injection, IsInjective
  <2>4. IsFiniteSet(A) /\ Cardinality(A) = Len(alone)
    <3> HIDE DEF f, D, A
    <3> QED  BY <2>2, <2>3, FS_Surjection
  <2>5. A \subseteq Cells \ Pivots
    BY <2>1 DEF AloneInv
  <2>6. /\ Pivots \subseteq Cells /\ IsFiniteSet(Pivots) /\ Cardinality(Pivots) = stacksize
    BY <2>1, PivotsCount
  <2>7. IsFiniteSet(Cells) /\ Cardinality(Cells) = params.array_len
    <3>1. 0 \in Int /\ params.array_len - 1 \in Int
      BY <2>1
    <3>2. /\ Cardinality(Cells) = IF 0 > params.array_len - 1 THEN 0 ELSE params.array_len - 1 - 0 + 1
          /\ IsFiniteSet(Cells)
      BY <3>1, FS_Interval DEF Cells
    <3> QED  BY <2>1, <3>2
  <2>8. Cardinality(A \cup Pivots) = Len(alone) + stacksize
    <3>1. A \cap Pivots = {}
      BY <2>5
    <3> HIDE DEF A
    <3>2. Cardinality(A \cup Pivots) = Cardinality(A) + Cardinality(Pivots) - Cardinality({})
      BY <2>4, <2>6, <3>1, FS_Union
    <3> QED  BY <2>1, <2>4, <2>6, <3>2, FS_EmptySet
  <2>9. Cardinality(A \cup Pivots) <= Cardinality(Cells)
    <3>1. A \cup Pivots \in SUBSET Cells
      BY <2>5, <2>6
    <3> HIDE DEF A
    <3> QED  BY <2>7, <3>1, FS_Subset
  <2> QED  BY <2>7, <2>8, <2>9
<1> QED  BY <1>1, InvariantHolds, PTL

(* No hash has a cell at which one further down the stack was peeled. *)
THEOREM PeelOrderHolds == Spec => []PeelOrder
<1>1. Invariant => PeelOrder
  BY DEF Invariant, StackInv
<1> QED  BY <1>1, InvariantHolds, PTL

(* The stack holds hashes of keys, each once. *)
THEOREM StackIsOfKeys == Spec => []StackHoldsKeys
<1>1. Invariant => StackHoldsKeys
  BY DEF Invariant, StackInv
<1> QED  BY <1>1, InvariantHolds, PTL

(* Success means that the hashes are distinct and all of them peeled. *)
THEOREM SuccessComplete == Spec => []SuccessIsComplete
<1>1. Invariant => SuccessIsComplete
  BY DEF Invariant
<1> QED  BY <1>1, InvariantHolds, PTL

(* A reported duplicate is two keys of one hash, or a cell in which the     *)
(* count has wrapped and come to two again.                                 *)
THEOREM DuplicatesHaveCause == Spec => []DuplicateHasCause
<1>1. Invariant => DuplicateHasCause
  BY DEF Invariant
<1> QED  BY <1>1, InvariantHolds, PTL

(* A retry starts from the tables the first attempt started from. *)
THEOREM RetryClean == Spec => RetryStartsClean
<1>1. ASSUME Invariant, [Next]_vars, iteration' # iteration
      PROVE  /\ reverse_order' = EmptyOrder
             /\ \A c \in Cells : t2deg'[c] = 0 /\ t2pos'[c] = 0 /\ t2hash'[c] = 0
  <2>1. RetryAfterOverflow \/ RetryAfterPeel
    BY <1>1 DEF Next, vars, GiveUp, AllocFails, StartAttempt, ScatterKey, EndScatter, CountKey,
                EndCount, FillAlone, EndFill, PopStale, PeelHash, Succeed, Returned
  <2>2. Invariant'
    BY <1>1, InvariantNext
  <2>3. pc' = "attempt" /\ UNCHANGED <<size, params>>
    BY <2>1 DEF RetryAfterOverflow, RetryAfterPeel, Reset, inputs
  <2>4. /\ reverse_order' = EmptyOrder'
        /\ t2deg' = ZeroOn(Cells') /\ t2pos' = ZeroOn(Cells') /\ t2hash' = ZeroOn(Cells')
    BY <2>2, <2>3 DEF Invariant, CleanInv, ZeroOn
  <2>5. EmptyOrder' = EmptyOrder /\ Cells' = Cells
    BY <2>3 DEF EmptyOrder, Cells
  <2> QED  BY <2>4, <2>5 DEF ZeroOn
<1> QED  BY <1>1, InvariantHolds, PTL DEF Spec, RetryStartsClean
=============================================================================
