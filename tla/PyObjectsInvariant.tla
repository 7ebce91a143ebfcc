------------------------- MODULE PyObjectsInvariant --------------------------
(***************************************************************************)
(* The inductive invariant of the Python layer: who may hold what at each    *)
(* point of a call, and what a thread in __init__ has read of its dict.     *)
(***************************************************************************)
EXTENDS PyObjects

(* The texts of keys.  The prover does not know of a literal that it is a     *)
(* string.                                                                  *)
Texts == STRING \union {"freed", "garbage"}

Contents == Seq(Texts \X Int)

Labels == {"idle", "opening", "sized", "reading", "building", "built", "copying",
           "getting", "sizing", "batch"}

(* A call has a reference to its object for as long as it runs, the one that *)
(* opens it excepted; so the object outlives the calls.                     *)
RefsInv ==
  /\ pc \in [Threads -> Labels]
  /\ refs \subseteq Threads
  /\ object \in {"none", "opening", "fresh", "ready", "gone"}
  /\ object \in {"none", "opening", "gone"} => refs = {}
  /\ \A t \in Threads : pc[t] \notin {"idle", "opening"} => t \in refs
  /\ \A t \in Threads : pc[t] = "opening" => object = "opening"
  /\ \A t, u \in Threads : pc[t] = "opening" /\ pc[u] = "opening" => t = u

(* The struct is null until the object is ready and again when it is gone;   *)
(* the copy into it is made by one thread, before it is ready.               *)
StructInv ==
  /\ heap \in Seq(Contents)
  /\ struct \in {Null, InBuffer} \union (1 .. Len(heap))
  /\ object # "ready" => struct = Null
  /\ built \in [Threads -> 0 .. Len(heap)]
  /\ \A t \in Threads : built[t] # Null <=> pc[t] \in {"built", "copying"}
  /\ \A t \in Threads : pc[t] = "copying" => object = "fresh"
  /\ \A t, u \in Threads : pc[t] = "copying" /\ pc[u] = "copying" => t = u

(* The maps of threads and of the object are there, and are different ones;  *)
(* and every map that is there is one of these.                             *)
HoldInv ==
  /\ \A t \in Threads : built[t] # Null => heap[built[t]] # Freed
  /\ \A t, u \in Threads : built[t] # Null /\ built[t] = built[u] => t = u
  /\ struct \in DOMAIN heap => heap[struct] # Freed /\ \A t \in Threads : built[t] # struct
  /\ \A i \in DOMAIN heap : heap[i] # Freed => struct = i \/ \E t \in Threads : built[t] = i

ExportInv ==
  /\ exports = (IF struct = InBuffer \/ object = "opening" THEN 1 ELSE 0)
  /\ struct = InBuffer \/ object = "opening" => ~ closed

(* The parts of the invariant that are about maps, references and buffers.    *)
HoldersInv ==
  /\ RefsInv
  /\ StructInv
  /\ HoldInv
  /\ ExportInv

(* What a thread in __init__ has read of a dict are entries of the right     *)
(* types, and words.                                                        *)
ReadOf(t) ==
  /\ pc[t] \in {"idle", "sized"} => read[t] = << >>
  /\ pc[t] \in {"sized", "reading"} => Entries(t) \in Dicts
  /\ pc[t] \in {"sized", "reading", "building"} => size[t] \in Nat
  /\ pc[t] \in {"reading", "building"} =>
       read[t] \in Seq([kind : STRING, text : STRING] \X Nat)

ReadInv ==
  /\ freeThreaded \in BOOLEAN
  /\ dict \in Dicts
  /\ DOMAIN copy = Threads /\ DOMAIN read = Threads /\ DOMAIN size = Threads
  /\ \A t \in Threads : ReadOf(t)

(* If no other code runs where this layer allocates, a thread in __init__ has *)
(* read a part of one dict, with the size that dict has.                     *)
ReadsOf(t, d) ==
  /\ size[t] = Len(d)
  /\ Len(read[t]) <= Len(d)
  /\ \A k \in DOMAIN read[t] : IsGood(d[k]) /\ read[t][k] = <<d[k].key, Word(d[k].value.number)>>

IsOneDict(contents) ==
  \/ contents \in {Freed, Stored}
  \/ \E d \in Dicts : (\A k \in DOMAIN d : IsAllowed(d[k])) /\ contents = WordsOf(d)

OneDictOf(t) ==
  /\ pc[t] \in {"sized", "reading"} => ReadsOf(t, Entries(t))
  /\ pc[t] = "building" => \E d \in Dicts : ReadsOf(t, d) /\ Len(read[t]) = Len(d)

OneDictInv ==
  /\ \A t \in Threads : OneDictOf(t)
  /\ \A i \in DOMAIN heap : IsOneDict(heap[i])

(* A lookup that began when the object was known to have its entries has     *)
(* found them, and they stay where they are for as long as it runs.          *)
FoundBy(t) == pc[t] = "getting" /\ after[t] => known /\ points[t] = struct

FoundInv ==
  /\ class \in {"constmap", "verified"}
  /\ known \in BOOLEAN
  /\ after \in [Threads -> BOOLEAN]
  /\ DOMAIN points = Threads
  /\ known => object \in {"ready", "gone"}
  /\ object = "ready" => struct # Null
  /\ \A t \in Threads : FoundBy(t)
  /\ \A i \in DOMAIN heap : ~ HasDuplicate(heap[i])

(* If no other code runs where this layer allocates, a batch reads one list, *)
(* and has written what single lookups of its keys give, up to the end of a  *)
(* chunk.                                                                   *)
BatchOf(t) ==
  /\ pc[t] = "sizing" => read[t] = << >>
  /\ pc[t] \in {"sizing", "batch"} =>
       Items(t) \in Lists /\ size[t] = Len(Items(t)) /\ (after[t] => known)
  /\ pc[t] = "batch" =>
       /\ Len(read[t]) \in 0 .. size[t]
       /\ read[t] = [k \in 1 .. Len(read[t]) |-> read[t][k]]
       /\ Len(read[t]) = size[t] \/ Len(read[t]) % Chunk = 0
       /\ out[t] = [k \in 1 .. size[t] |-> out[t][k]]
       /\ \A k \in 1 .. Len(read[t]) :
            /\ IsKey(Items(t)[k])
            /\ after[t] => out[t][k] = LookupIn(EntriesAt(struct), Items(t)[k].text)
       /\ \A k \in (Len(read[t]) + 1) .. size[t] : out[t][k] = NotWritten

BatchInv ==
  /\ list \in Lists
  /\ DOMAIN out = Threads
  /\ \A t \in Threads : BatchOf(t)
=============================================================================
