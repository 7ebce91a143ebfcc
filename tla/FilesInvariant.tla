--------------------------- MODULE FilesInvariant ---------------------------
(***************************************************************************)
(* Why a load returns only maps that were saved: wherever units are, each    *)
(* stored sum among them is the sum of a map, and it sums all of that map's   *)
(* form, so that what a reader accepts is that map and not a mixture.        *)
(***************************************************************************)
EXTENDS Files

(* The maps a program may have, if it may have those of others.              *)
Known == Originals \union Foreign

GoodUnit == UnitsOf(Known)

Labels == {"idle", "opened", "writing", "closing", "reading"}

FilesTypes ==
  /\ file \in Seq(GoodUnit)
  /\ bytes \in Seq(GoodUnit)
  /\ pc \in [Threads -> Labels]
  /\ held \in [Threads -> Known \union {NoMap}]
  /\ class \in [Threads -> Types]
  /\ buffer \in [Threads -> Seq(GoodUnit)]
  /\ size \in [Threads -> Nat]
  /\ at \in [Threads -> Nat]
  /\ DOMAIN outcome = Threads

FilesInv ==
  /\ FilesTypes
  /\ \A t \in Threads : pc[t] = "opened" => held[t] # NoMap
  /\ \A t \in Threads : pc[t] \in {"writing", "closing"} => at[t] <= Len(buffer[t])
=============================================================================
