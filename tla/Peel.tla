-------------------------------- MODULE Peel --------------------------------
(***************************************************************************)
(* fcm_peel (constmap.c): the construction loop shared by the three kinds   *)
(* of map.  Given the hashes of the keys it looks for a seed under which    *)
(* the keys' mixed hashes can be peeled: taken one by one out of an array,  *)
(* each at a moment when it is alone in one of its three cells.             *)
(*                                                                         *)
(* Every attempt draws a seed, sorts the mixed hashes by their high bits    *)
(* ("scatter"), counts for each cell how many hashes cover it and what      *)
(* they XOR to ("count"), collects the cells covered once ("fill"), and     *)
(* peels ("peel").  It ends the call, or it resets the tables and the next  *)
(* attempt starts.  A step of the model is one turn of one of these loops.  *)
(*                                                                         *)
(* The seed is represented by what it does: fcm_mixsplit(hashed[k], seed)   *)
(* is a bijection of the word hashed[k], so an attempt maps equal hashes to *)
(* equal words and distinct hashes to distinct words, and nothing else is   *)
(* known about them.                                                        *)
(***************************************************************************)
EXTENDS Geometry

CONSTANTS KeyHash,          \* the hashes of keys, before mixing
          MaxIterations,    \* FCM_MAX_ITERATIONS (100)
          DegreeMod         \* how far the count in a t2count byte goes (64)

ASSUME PeelAssumption ==
  /\ MaxIterations \in Nat
  /\ DegreeMod \in Nat
  /\ DegreeMod > 2

VARIABLES
  \* the arguments
  size,             \* the number of keys
  hashed,           \* hashed[k]: the hash of key k
  \* control
  pc,               \* which loop is running
  iteration,        \* the attempt, from 0
  i,                \* the index of the scatter, count and fill loops
  rc,               \* the return code, "none" while running
  \* parameters
  params,           \* *params, without the seed
  mixed,            \* mixed[k]: key k's hash mixed with the attempt's seed
  \* tables
  start_pos,        \* where each block's next hash goes; only the scatter uses it
  start_pos_cap,    \* the number of blocks start_pos is allocated for, 0 if it is not
  reverse_order,    \* the mixed hashes in block order, later the peeling stack
  t2deg,            \* t2count[c] >> 2: the number of hashes counted in cell c
  t2pos,            \* t2count[c] & 3: the XOR of their positions there
  t2hash,           \* the XOR of these hashes
  has_error,        \* a count has wrapped
  alone,            \* the cells found to be covered once, as a stack
  reverse_h,        \* the position at which each hash on the stack was alone
  stacksize,
  \* history
  counted           \* the contents of reverse_order when counting started

inputs == <<size, hashed>>
tables == <<t2deg, t2pos, t2hash>>
vars   == <<size, hashed, pc, iteration, i, rc, params, mixed, start_pos, start_pos_cap,
            reverse_order, t2deg, t2pos, t2hash, has_error, alone, reverse_h, stacksize, counted>>

Keys  == 0 .. (size - 1)
Cells == 0 .. (params.array_len - 1)

ZeroOn(S) == [x \in S |-> 0]

(* reverse_order has a last entry that is never empty: where a block has no *)
(* room left, start_pos points to it and not past the array.                *)
EmptyOrder == [p \in 0 .. size |-> IF p = size THEN 1 ELSE 0]

-----------------------------------------------------------------------------

Init ==
  /\ size \in Sizes
  /\ hashed \in [0 .. (size - 1) -> KeyHash]
  /\ pc = "attempt"
  /\ iteration = 0
  /\ i = 0
  /\ rc = "none"
  /\ params = InitParams(size)
  /\ mixed = ZeroOn(0 .. (size - 1))
  /\ start_pos = << >>
  /\ start_pos_cap = 0
  /\ reverse_order = EmptyOrder
  /\ t2deg = ZeroOn(0 .. (params.array_len - 1))
  /\ t2pos = ZeroOn(0 .. (params.array_len - 1))
  /\ t2hash = ZeroOn(0 .. (params.array_len - 1))
  /\ has_error = FALSE
  /\ alone = << >>
  /\ reverse_h = << >>
  /\ stacksize = 0
  /\ counted = << >>

(* Every return frees start_pos. *)
Return(code) ==
  /\ pc' = "done"
  /\ rc' = code
  /\ start_pos_cap' = 0

(* The attempts are used up. *)
Exhausted == iteration > MaxIterations

GiveUp ==
  /\ pc = "attempt"
  /\ Exhausted
  /\ Return("CONSTRUCT_FAIL")
  /\ UNCHANGED <<inputs, iteration, i, params, mixed, start_pos, reverse_order, tables,
                 has_error, alone, reverse_h, stacksize, counted>>

(* Slip: the segments are restored that were never halved. *)
ResizedParamsOnlyGrown ==
  IF Resizable(size) /\ iteration % 4 = 3 THEN Grow(params) ELSE params

ResizedParams ==
  CASE Resizable(size) /\ iteration % 4 = 2 -> Shrink(params)
    [] Resizable(size) /\ iteration % 4 = 3 -> Grow(params)
    [] OTHER -> params

(* An attempt with more blocks than any before it fails to grow start_pos. *)
AllocFails ==
  /\ pc = "attempt"
  /\ ~ Exhausted
  /\ params' = ResizedParams
  /\ CeilPower(params'.segment_count) > start_pos_cap
  /\ Return("NOMEM")
  /\ UNCHANGED <<inputs, iteration, i, mixed, start_pos, reverse_order, tables, has_error,
                 alone, reverse_h, stacksize, counted>>

(* The words the keys' hashes may be mixed to under one seed. *)
Mixings ==
  { m \in [Keys -> Word] :
      \A j, k \in Keys : (m[j] = m[k]) <=> (hashed[j] = hashed[k]) }

(* Slip: the blocks start one entry late. *)
BlockStartLate(b, blocks) == (b * size) \div blocks + 1

(* Where block b of so many starts in reverse_order. *)
BlockStart(b, blocks) == (b * size) \div blocks

(* An attempt starts: the segments are resized, and the blocks laid out. *)
StartAttempt ==
  /\ pc = "attempt"
  /\ ~ Exhausted
  /\ params' = ResizedParams
  /\ mixed' \in Mixings
  /\ LET blocks == CeilPower(params'.segment_count)
     IN  /\ start_pos' = [b \in 0 .. (blocks - 1) |-> BlockStart(b, blocks)]
         /\ start_pos_cap' = IF blocks > start_pos_cap THEN blocks ELSE start_pos_cap
  /\ pc' = "scatter"
  /\ i' = 0
  /\ UNCHANGED <<inputs, iteration, rc, reverse_order, tables, has_error, alone, reverse_h,
                 stacksize, counted>>

-----------------------------------------------------------------------------
(* Scatter. *)

Blocks == DOMAIN start_pos

BlockCount == CeilPower(params.segment_count)

(* The block tried for a hash at the d-th probe, cyclically from its own. *)
Probe(hash, d) == (MulHigh(hash, BlockCount) + d) % BlockCount

(* Slip: only the end of the array stops a block. *)
HasRoomBeforeEnd(b) == start_pos[b] < size

HasRoom(b) == reverse_order[start_pos[b]] = 0

(* Key i is put into the first block with room. *)
ScatterKey ==
  /\ pc = "scatter"
  /\ i < size
  /\ \E d \in Blocks :
       LET b == Probe(mixed[i], d)
       IN  /\ HasRoom(b)
           /\ \A e \in Blocks : e < d => ~ HasRoom(Probe(mixed[i], e))
           /\ reverse_order' = [reverse_order EXCEPT ![start_pos[b]] = mixed[i]]
           /\ start_pos' = [start_pos EXCEPT ![b] = @ + 1]
  /\ i' = i + 1
  /\ UNCHANGED <<inputs, pc, iteration, rc, params, mixed, start_pos_cap, tables,
                 has_error, alone, reverse_h, stacksize, counted>>

EndScatter ==
  /\ pc = "scatter"
  /\ i = size
  /\ pc' = "count"
  /\ i' = 0
  /\ start_pos' = << >>
  /\ counted' = reverse_order
  /\ UNCHANGED <<inputs, iteration, rc, params, mixed, start_pos_cap, reverse_order,
                 tables, has_error, alone, reverse_h, stacksize>>

-----------------------------------------------------------------------------
(* Count. *)

(* Slip: the number of hashes is not looked at. *)
CancelledAnyNumber(c) == t2hash[c] = 0 /\ t2deg[c] # 0

(* A cell holding two hashes that cancel: the same hash twice.  (The code   *)
(* tests this only if the three t2hash have no common bit, which a zero     *)
(* among them implies.)                                                     *)
Cancelled(c) == t2hash[c] = 0 /\ t2deg[c] = 2 /\ t2pos[c] = 0

(* Slip: nothing is said of a count that has wrapped. *)
WrappedNever(c) == FALSE

(* The hash just counted was as many as the count can hold. *)
Wrapped(c) == t2deg[c] = 0

CountKey ==
  /\ pc = "count"
  /\ i < size
  /\ LET hash == reverse_order[i]
         i1   == H0(hash, params)
         i2   == H1(hash, params)
         i3   == H2(hash, params)
     IN  /\ t2deg'  = [t2deg EXCEPT ![i1] = (@ + 1) % DegreeMod,
                                    ![i2] = (@ + 1) % DegreeMod,
                                    ![i3] = (@ + 1) % DegreeMod]
         /\ t2pos'  = [t2pos EXCEPT ![i2] = Xor(@, 1),
                                    ![i3] = Xor(@, 2)]
         /\ t2hash' = [t2hash EXCEPT ![i1] = Xor(@, hash),
                                     ![i2] = Xor(@, hash),
                                     ![i3] = Xor(@, hash)]
         /\ \/ /\ \E c \in {i1, i2, i3} : Cancelled(c)'
               /\ Return("DUPLICATE_KEY")
               /\ UNCHANGED <<i, has_error>>
            \/ /\ ~ \E c \in {i1, i2, i3} : Cancelled(c)'
               /\ has_error' = (has_error \/ \E c \in {i1, i2, i3} : Wrapped(c)')
               /\ i' = i + 1
               /\ UNCHANGED <<pc, rc, start_pos_cap>>
  /\ UNCHANGED <<inputs, iteration, params, mixed, start_pos, reverse_order, alone,
                 reverse_h, stacksize, counted>>

(* Slip: a table is left as it is. *)
KeptTable(table) == table

ClearedTable(table) == ZeroOn(DOMAIN table)

(* The tables are cleared for another attempt, with another seed.  The      *)
(* stacks are local to an attempt: what they held is not read again.        *)
Reset ==
  /\ reverse_order' = [p \in 0 .. size |-> IF p < size THEN 0 ELSE reverse_order[p]]
  /\ t2deg'  = ClearedTable(t2deg)
  /\ t2pos'  = ClearedTable(t2pos)
  /\ t2hash' = ClearedTable(t2hash)
  /\ has_error' = FALSE
  /\ alone' = << >>
  /\ reverse_h' = << >>
  /\ stacksize' = 0
  /\ counted' = << >>
  /\ mixed' = ZeroOn(Keys)
  /\ iteration' = iteration + 1
  /\ i' = 0
  /\ pc' = "attempt"

RetryAfterOverflow ==
  /\ pc = "count"
  /\ i = size
  /\ has_error
  /\ Reset
  /\ UNCHANGED <<inputs, rc, params, start_pos, start_pos_cap>>

EndCount ==
  /\ pc = "count"
  /\ i = size
  /\ ~ has_error
  /\ pc' = "fill"
  /\ i' = 0
  /\ UNCHANGED <<inputs, iteration, rc, params, mixed, start_pos, start_pos_cap,
                 reverse_order, tables, has_error, alone, reverse_h, stacksize, counted>>

-----------------------------------------------------------------------------
(* Fill and peel. *)

IsAlone(c) == t2deg[c] = 1

FillAlone ==
  /\ pc = "fill"
  /\ i < params.array_len
  /\ alone' = IF IsAlone(i) THEN Append(alone, i) ELSE alone
  /\ i' = i + 1
  /\ UNCHANGED <<inputs, pc, iteration, rc, params, mixed, start_pos, start_pos_cap,
                 reverse_order, tables, has_error, reverse_h, stacksize, counted>>

EndFill ==
  /\ pc = "fill"
  /\ i = params.array_len
  /\ pc' = "peel"
  /\ i' = 0
  /\ UNCHANGED <<inputs, iteration, rc, params, mixed, start_pos, start_pos_cap,
                 reverse_order, tables, has_error, alone, reverse_h, stacksize, counted>>

qsize == Len(alone)
Top   == alone[Len(alone)]
Popped == SubSeq(alone, 1, Len(alone) - 1)

(* The cell on top has lost its hash since it was put there. *)
PopStale ==
  /\ pc = "peel"
  /\ qsize > 0
  /\ ~ IsAlone(Top)
  /\ alone' = Popped
  /\ UNCHANGED <<inputs, pc, iteration, i, rc, params, mixed, start_pos, start_pos_cap,
                 reverse_order, tables, has_error, reverse_h, stacksize, counted>>

(* One hash fewer is counted in cell c. *)
Uncounted(deg, c) == [deg EXCEPT ![c] = (@ + DegreeMod - 1) % DegreeMod]

(* Slip: the cell is pushed also when no hash will remain in it. *)
PushedEmpty(stack, deg, c) == IF deg[c] <= 2 THEN Append(stack, c) ELSE stack

(* The cell is put on the alone stack if one hash will remain in it. *)
Pushed(stack, deg, c) == IF deg[c] = 2 THEN Append(stack, c) ELSE stack

(* The hash alone in the cell on top is put on the stack and taken out of   *)
(* its two other cells, which become alone in turn if two were counted      *)
(* there.  The cell itself keeps its counts.                                *)
PeelHash ==
  /\ pc = "peel"
  /\ qsize > 0
  /\ IsAlone(Top)
  /\ LET hash   == t2hash[Top]
         found  == t2pos[Top]
         other1 == Other1(Top, hash, found, params)
         other2 == Other2(Top, hash, found, params)
         deg1   == Uncounted(t2deg, other1)
     IN  /\ reverse_h' = Append(reverse_h, found)
         /\ reverse_order' = [reverse_order EXCEPT ![stacksize] = hash]
         /\ alone' = Pushed(Pushed(Popped, t2deg, other1), deg1, other2)
         /\ t2deg' = Uncounted(deg1, other2)
         /\ t2pos' = [t2pos EXCEPT ![other1] = Xor(@, Flip1(found)),
                                   ![other2] = Xor(@, Flip2(found))]
         /\ t2hash' = [t2hash EXCEPT ![other1] = Xor(@, hash),
                                     ![other2] = Xor(@, hash)]
  /\ stacksize' = stacksize + 1
  /\ UNCHANGED <<inputs, pc, iteration, i, rc, params, mixed, start_pos,
                 start_pos_cap, has_error, counted>>

(* Slip: the attempt succeeds once no cell is alone. *)
NoneAlone == Len(alone) = 0

AllPeeled == stacksize = size

(* Every hash has been peeled: the call succeeds. *)
Succeed ==
  /\ pc = "peel"
  /\ qsize = 0
  /\ AllPeeled
  /\ Return("OK")
  /\ UNCHANGED <<inputs, iteration, i, params, mixed, start_pos, reverse_order,
                 tables, has_error, alone, reverse_h, stacksize, counted>>

(* Some hashes are never alone under this seed: another is tried. *)
RetryAfterPeel ==
  /\ pc = "peel"
  /\ qsize = 0
  /\ ~ AllPeeled
  /\ Reset
  /\ UNCHANGED <<inputs, rc, params, start_pos, start_pos_cap>>

(* The call has returned; nothing runs any more. *)
Returned == pc = "done" /\ UNCHANGED vars

-----------------------------------------------------------------------------

Next ==
  \/ GiveUp
  \/ AllocFails
  \/ StartAttempt
  \/ ScatterKey
  \/ EndScatter
  \/ CountKey
  \/ RetryAfterOverflow
  \/ EndCount
  \/ FillAlone
  \/ EndFill
  \/ PopStale
  \/ PeelHash
  \/ Succeed
  \/ RetryAfterPeel
  \/ Returned

Spec == Init /\ [][Next]_vars

-----------------------------------------------------------------------------
(***************************************************************************)
(* Properties.                                                             *)
(***************************************************************************)

ReturnCodes == {"none", "OK", "DUPLICATE_KEY", "CONSTRUCT_FAIL", "NOMEM"}

Distinct(f, S) == \A x, y \in S : f[x] = f[y] => x = y

(* Every variable keeps its type; in particular the indices of the loops    *)
(* stay within the arrays they index.                                       *)
TypeOK ==
  /\ size \in Sizes
  /\ hashed \in [Keys -> KeyHash]
  /\ pc \in {"attempt", "scatter", "count", "fill", "peel", "done"}
  /\ iteration \in 0 .. (MaxIterations + 1)
  /\ i \in 0 .. (IF pc = "fill" THEN params.array_len ELSE size)
  /\ rc \in ReturnCodes
  /\ params \in {InitParams(size), Shrink(InitParams(size))}
  /\ mixed \in [Keys -> Word]
  /\ start_pos \in IF pc = "scatter" THEN [0 .. (BlockCount - 1) -> 0 .. size] ELSE {<< >>}
  /\ start_pos_cap \in Nat
  /\ reverse_order \in [0 .. size -> Word]
  /\ t2deg \in [Cells -> 0 .. (DegreeMod - 1)]
  /\ t2pos \in [Cells -> 0 .. 3]
  /\ t2hash \in [Cells -> Word]
  /\ has_error \in BOOLEAN
  /\ alone \in Seq(Cells)
  /\ reverse_h \in Seq(Positions)
  /\ stacksize \in 0 .. size
  /\ stacksize = Len(reverse_h)
  /\ counted \in IF counted = << >> THEN {<< >>} ELSE [0 .. size -> Word]

(* The formula that finds a hash's other two cells from any one of them     *)
(* (fcm_peel, other1 and other2) agrees with fcm_get_h012 under every       *)
(* parameters an attempt may meet, and flips there the bits of the          *)
(* positions the hash has in them.                                          *)
OthersAreTheHashsCells ==
  pc = "attempt" =>
   \A hash \in Word, found \in Positions :
    LET idx  == CellAt(hash, params, found)
        pos1 == (found + 1) % 3
        pos2 == (found + 2) % 3
    IN  /\ Other1(idx, hash, found, params) = CellAt(hash, params, pos1)
        /\ Other2(idx, hash, found, params) = CellAt(hash, params, pos2)
        /\ Flip1(found) = pos1
        /\ Flip2(found) = pos2

(* The probing loop always ends: while a key remains to be placed, some     *)
(* block points at an empty entry, although an entry holding a zero hash    *)
(* looks empty and may be overwritten by another block.                     *)
ScatterHasRoom ==
  (pc = "scatter" /\ i < size) => \E b \in Blocks : HasRoom(b)

(* The scatter loses and duplicates no hash: what is counted is each mixed  *)
(* hash as often as it occurs, a zero one included.                         *)
ScatterKeepsHashes ==
  counted # << >> =>
    \A h \in Word :
      Cardinality({p \in Keys : counted[p] = h}) = Cardinality({k \in Keys : mixed[k] = h})

(* The entries of the counted array that are in the counts: those counted   *)
(* so far, less those whose hash is on the stack.                           *)
Peeled == { reverse_order[j] : j \in 0 .. (stacksize - 1) }

Remaining ==
  IF pc = "count" THEN 0 .. (i - 1)
                  ELSE { p \in Keys : counted[p] \notin Peeled }

Covering(c) == { p \in Remaining : c \in CellsOf(counted[p], params) }

PosIn(hash, c) == CHOOSE pos \in Positions : CellAt(hash, params, pos) = c

(* The cell at which the j-th hash of the stack was alone. *)
Pivot(j) == CellAt(reverse_order[j], params, reverse_h[j + 1])

Pivots == { Pivot(j) : j \in 0 .. (stacksize - 1) }

(* The counts tell the truth about the hashes remaining: their number in    *)
(* each cell (up to the width of the count), their XOR and the XOR of their *)
(* positions.  A cell whose hash was peeled keeps stale counts, and no      *)
(* remaining hash has it.                                                   *)
CountsAgree ==
  pc \in {"count", "peel"} =>
    /\ \A c \in Cells \ Pivots :
         LET here == Covering(c)
         IN  /\ t2deg[c] = Cardinality(here) % DegreeMod
             /\ IsXorOver(t2hash[c], counted, here)
             /\ IsXorOver(t2pos[c], [p \in here |-> PosIn(counted[p], c)], here)
    /\ \A c \in Pivots : Covering(c) = {}

(* No cell is put on the alone stack twice, and none after it was peeled at;*)
(* so the stack, of array_len entries, has room for the unconditional write *)
(* past its top.                                                            *)
AloneHasRoom ==
  /\ Distinct(alone, DOMAIN alone)
  /\ \A n \in DOMAIN alone : alone[n] \notin Pivots
  /\ pc = "peel" => Len(alone) + stacksize <= params.array_len

(* Every hash is peeled at a cell no later hash of the stack has: filling   *)
(* the cells from the top of the stack down never disturbs one filled.      *)
PeelOrder ==
  \A j, k \in 0 .. (stacksize - 1) :
    j < k => Pivot(j) \notin CellsOf(reverse_order[k], params)

(* What is on the stack are hashes of keys, each of them once. *)
StackHoldsKeys ==
  /\ Distinct(reverse_order, 0 .. (stacksize - 1))
  /\ Peeled \subseteq { mixed[k] : k \in Keys }

(* The construction succeeds only for distinct key hashes, whatever cells   *)
(* hide a duplicate from the check, and then every key is on the stack.     *)
SuccessIsComplete ==
  rc = "OK" =>
    /\ Distinct(hashed, Keys)
    /\ Peeled = { mixed[k] : k \in Keys }

(* A reported duplicate has one of two causes: two keys have the same hash, *)
(* or so many hashes were counted in one cell that their number, having     *)
(* wrapped, was taken for two, which the program tests for before it looks  *)
(* at has_error.  In particular the report is true of every map of fewer    *)
(* than DegreeMod + 2 keys.                                                 *)
CountedIn(c) == { p \in 0 .. i : c \in CellsOf(counted[p], params) }

DuplicateHasCause ==
  rc = "DUPLICATE_KEY" =>
    \/ ~ Distinct(hashed, Keys)
    \/ \E c \in Cells : Cardinality(CountedIn(c)) >= DegreeMod + 2

(* An action property: an attempt that ends without a result starts the     *)
(* next one from the tables the first one started from.                     *)
RetryStartsClean ==
  [][ iteration' # iteration =>
        /\ reverse_order' = EmptyOrder
        /\ \A c \in Cells : t2deg'[c] = 0 /\ t2pos'[c] = 0 /\ t2hash'[c] = 0 ]_vars
=============================================================================
