--------------------------- MODULE PeelInvariant ----------------------------
(***************************************************************************)
(* The inductive invariant of fcm_peel: what each loop relies on from the   *)
(* loops before it, and what it keeps while it runs.                        *)
(***************************************************************************)
EXTENDS Peel

Running == {"scatter", "count", "fill", "peel"}

Counting == {"count", "fill", "peel"}

(* The parameters depend on the attempt alone: they are shrunk in the       *)
(* attempts that are 2 modulo 4, and still are when the next one starts.    *)
Shrunk == Resizable(size) /\ iteration % 4 = (IF pc = "attempt" THEN 3 ELSE 2)

ParamsInv ==
  /\ size \in Sizes
  /\ iteration \in 0 .. (MaxIterations + 1)
  /\ pc \in Running => iteration <= MaxIterations
  /\ \/ params = InitParams(size)
     \/ Resizable(size) /\ params = Shrink(InitParams(size))
  /\ pc # "done" => params = IF Shrunk THEN Shrink(InitParams(size)) ELSE InitParams(size)

(* What is untouched yet, or cleared. *)
CleanInv ==
  /\ pc = "attempt" => reverse_order = EmptyOrder
  /\ pc \in {"attempt", "scatter"} =>
       /\ t2deg = ZeroOn(Cells) /\ t2pos = ZeroOn(Cells) /\ t2hash = ZeroOn(Cells)
       /\ ~ has_error
       /\ counted = << >>
  /\ pc \in {"attempt", "scatter", "count"} => alone = << >>
  /\ pc \notin {"peel", "done"} => stacksize = 0
  /\ pc \in {"fill", "peel"} => ~ has_error
  /\ pc \in {"attempt", "peel"} => i = 0
  /\ pc # "done" => rc = "none"
  /\ reverse_order[size] = 1
  /\ pc \in Running => mixed \in Mixings

(* The entries a block has written, or written over, since its start. *)
Start(b) == BlockStart(b, BlockCount)

Visited == { v \in Blocks \X Keys : Start(v[1]) <= v[2] /\ v[2] < start_pos[v[1]] }

Placed == 0 .. (i - 1)

(* The scatter has visited as many entries as it has placed keys, and the   *)
(* non-zero entries are the non-zero hashes placed.                         *)
ScatterInv ==
  pc = "scatter" =>
    /\ \A b \in Blocks : Start(b) <= start_pos[b]
    /\ Cardinality(Visited) = i
    /\ \A p \in Keys : reverse_order[p] # 0 => \E b \in Blocks : <<b, p>> \in Visited
    /\ Cardinality({p \in Keys : reverse_order[p] # 0})
         = Cardinality({k \in Placed : mixed[k] # 0})
    /\ \A h \in Word \ {0} :
         Cardinality({p \in Keys : reverse_order[p] = h})
           = Cardinality({k \in Placed : mixed[k] = h})

KeptInv ==
  /\ ScatterKeepsHashes
  /\ pc \in Counting => counted \in [0 .. size -> Word]

(* The counts of a cell are those of the entries of here. *)
AgreesAt(c, here) ==
  /\ t2deg[c] = Cardinality(here) % DegreeMod
  /\ IsXorOver(t2hash[c], counted, here)
  /\ IsXorOver(t2pos[c], [p \in here |-> PosIn(counted[p], c)], here)

CountInv ==
  /\ pc = "count" => reverse_order = counted
  /\ pc \in Counting =>
       /\ \A c \in Cells \ Pivots : AgreesAt(c, Covering(c))
       /\ ~ has_error => \A c \in Cells : Cardinality(Covering(c)) < DegreeMod
       /\ \A c \in Pivots : Covering(c) = {}

AloneInv ==
  /\ Distinct(alone, DOMAIN alone)
  /\ \A n \in DOMAIN alone : alone[n] \notin Pivots
  /\ pc \in {"fill", "peel"} => \A n \in DOMAIN alone : t2deg[alone[n]] <= 1
  /\ pc = "fill" => \A n \in DOMAIN alone : alone[n] < i

StackInv ==
  /\ PeelOrder
  /\ StackHoldsKeys
  /\ pc = "peel" =>
       /\ Cardinality(Remaining) = size - stacksize
       /\ Peeled \subseteq { counted[p] : p \in Keys }

Invariant ==
  /\ TypeOK
  /\ ParamsInv
  /\ CleanInv
  /\ ScatterInv
  /\ KeptInv
  /\ CountInv
  /\ AloneInv
  /\ StackInv
  /\ SuccessIsComplete
  /\ DuplicateHasCause
=============================================================================
