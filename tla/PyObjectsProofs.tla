-------------------------- MODULE PyObjectsProofs ---------------------------
(***************************************************************************)
(* What is proved about the Python layer, for every number of threads,     *)
(* every set of dicts and lists and width of values, with and without the  *)
(* GIL: a map is held once and freed once, a buffer is exported exactly    *)
(* while it is read, and the object that threads share implements the map  *)
(* object of MapObject; and, where no other code runs inside allocations,  *)
(* every map is that of one dict, and the batches give what the single     *)
(* lookups give.                                                           *)
(***************************************************************************)
EXTENDS PyObjectsInvariant, SequenceTheorems, TLAPS

(* Who refers to the object, and who holds which map. *)

LEMMA HoldersInit == Init => HoldersInv
BY DEF Init, HoldersInv, RefsInv, StructInv, HoldInv, ExportInv, Labels, Null, InBuffer

(* A thread goes on within a call, or ends it, and holds no map.            *)
LEMMA HoldersMove ==
  ASSUME HoldersInv, NEW t \in Threads, t \in refs,
         NEW to \in Labels \ {"opening", "built", "copying"},
         pc[t] \notin {"opening", "built", "copying"},
         pc' = [pc EXCEPT ![t] = to],
         UNCHANGED <<heap, object, struct, exports, closed, refs, built>>
  PROVE  HoldersInv'
<1>1. RefsInv'
  BY DEF HoldersInv, RefsInv
<1>2. StructInv'
  BY DEF HoldersInv, RefsInv, StructInv
<1>3. HoldInv' /\ ExportInv'
  BY DEF HoldersInv, HoldInv, ExportInv
<1> QED  BY <1>1, <1>2, <1>3 DEF HoldersInv

LEMMA ReturnKeeps ==
  ASSUME HoldersInv, NEW t \in Threads, NEW what, Return(t, what)
  PROVE  /\ pc' = [pc EXCEPT ![t] = "idle"]
         /\ built' = [built EXCEPT ![t] = Null]
         /\ pc[t] \notin {"built", "copying"} => built' = built
<1>1. pc' = [pc EXCEPT ![t] = "idle"] /\ built' = [built EXCEPT ![t] = Null]
  BY DEF Return, Goto
<1>2. ASSUME pc[t] \notin {"built", "copying"} PROVE built' = built
  <2>1. built \in [Threads -> 0 .. Len(heap)] /\ built[t] = Null
    BY <1>2 DEF HoldersInv, StructInv
  <2> QED  BY <1>1, <2>1
<1> QED  BY <1>1, <1>2

LEMMA HoldersReturn ==
  ASSUME HoldersInv, NEW t \in Threads, t \in refs,
         pc[t] \notin {"opening", "built", "copying"},
         \E what : Return(t, what),
         UNCHANGED <<heap, object, struct, exports, closed, refs>>
  PROVE  HoldersInv'
<1>1. pc' = [pc EXCEPT ![t] = "idle"] /\ built' = built
  BY ReturnKeeps
<1>2. "idle" \in Labels \ {"opening", "built", "copying"}
  BY DEF Labels
<1> QED  BY <1>1, <1>2, HoldersMove

(* The steps of calls that do not touch the object. *)
Moves(t) ==
  \/ TakeDict(t) \/ Allocate(t) \/ ReadEntry(t) \/ EndRead(t)
  \/ BeginGet(t) \/ BeginBatch(t) \/ TakeOut(t) \/ BatchChunk(t)

Returns(t) ==
  \/ RefuseArguments(t) \/ NoRoom(t) \/ RefuseEntry(t) \/ BuildFails(t)
  \/ EndGet(t) \/ NoOut(t) \/ BatchRefused(t) \/ EndBatch(t)

LEMMA HoldersMoves ==
  ASSUME HoldersInv, NEW t \in Threads, Moves(t)
  PROVE  HoldersInv'
<1>1. UNCHANGED <<heap, object, struct, exports, closed, refs, built>>
  BY DEF Moves, TakeDict, Allocate, ReadEntry, EndRead, BeginGet, BeginBatch, TakeOut, BatchChunk,
         shared, locals
<1>2. pc[t] \in {"idle", "sized", "reading", "sizing", "batch"} /\ (pc[t] = "idle" => t \in refs)
  BY DEF Moves, TakeDict, Allocate, ReadEntry, MoreEntries, EndRead, BeginGet, BeginBatch, TakeOut,
         BatchChunk, Call, At
<1>3. t \in refs
  BY <1>2 DEF HoldersInv, RefsInv
<1>4. pc \in [Threads -> Labels]
  BY DEF HoldersInv, RefsInv
<1>5. \E to \in {"sized", "reading", "building", "getting", "sizing", "batch"} :
        pc' = [pc EXCEPT ![t] = to]
  <2>1. CASE ReadEntry(t)
    <3>1. pc' = pc /\ pc[t] = "reading"
      BY <2>1 DEF ReadEntry, MoreEntries, At
    <3>2. pc' = [pc EXCEPT ![t] = "reading"]
      BY <3>1, <1>4
    <3> QED  BY <3>2
  <2>2. CASE BatchChunk(t)
    <3>1. pc' = pc /\ pc[t] = "batch"
      BY <2>2 DEF BatchChunk, At
    <3>2. pc' = [pc EXCEPT ![t] = "batch"]
      BY <3>1, <1>4
    <3> QED  BY <3>2
  <2>3. CASE TakeDict(t) \/ Allocate(t) \/ EndRead(t) \/ BeginGet(t) \/ BeginBatch(t) \/ TakeOut(t)
    BY <2>3 DEF TakeDict, Allocate, EndRead, BeginGet, BeginBatch, TakeOut, Goto
  <2> QED  BY <2>1, <2>2, <2>3 DEF Moves
<1>6. PICK to \in {"sized", "reading", "building", "getting", "sizing", "batch"} :
        pc' = [pc EXCEPT ![t] = to]
  BY <1>5
<1>7. to \in Labels \ {"opening", "built", "copying"}
  BY DEF Labels
<1> QED  BY <1>1, <1>2, <1>3, <1>6, <1>7, HoldersMove

LEMMA HoldersReturns ==
  ASSUME HoldersInv, NEW t \in Threads, Returns(t)
  PROVE  HoldersInv'
<1>1. UNCHANGED <<heap, object, struct, exports, closed, refs>>
  BY DEF Returns, RefuseArguments, NoRoom, RefuseEntry, BuildFails, EndGet, NoOut, BatchRefused,
         EndBatch, shared
<1>2. /\ pc[t] \in {"idle", "sized", "reading", "building", "getting", "sizing", "batch"}
      /\ pc[t] = "idle" => t \in refs
  BY DEF Returns, RefuseArguments, NoRoom, RefuseEntry, MoreEntries, BuildFails, EndGet, NoOut,
         BatchRefused, EndBatch, Call, At
<1>3. t \in refs
  BY <1>2 DEF HoldersInv, RefsInv
<1>4. \E what : Return(t, what)
  BY DEF Returns, RefuseArguments, NoRoom, RefuseEntry, BuildFails, EndGet, NoOut, BatchRefused,
         EndBatch, Raise
<1> QED  BY <1>1, <1>2, <1>3, <1>4, HoldersReturn

(* The object comes to be, ... *)
LEMMA HoldersOpen ==
  ASSUME HoldersInv, NEW t \in Threads,
         New(t) \/ FromBuffer(t) \/ OpenFails(t) \/ OpenDone(t)
  PROVE  HoldersInv'
<1>1. CASE New(t)
  <2>1. /\ object = "none" /\ object' = "fresh" /\ refs' = {t} /\ pc[t] = "idle"
        /\ UNCHANGED <<heap, struct, exports, closed, pc, built>>
    BY <1>1 DEF New, At, locals
  <2>2. \A u \in Threads : pc[u] \in {"idle", "opening"} /\ pc[u] # "opening"
    BY <2>1 DEF HoldersInv, RefsInv
  <2>3. RefsInv' /\ StructInv'
    BY <2>1, <2>2 DEF HoldersInv, RefsInv, StructInv
  <2>4. HoldInv' /\ ExportInv'
    BY <2>1 DEF HoldersInv, HoldInv, ExportInv
  <2> QED  BY <2>3, <2>4 DEF HoldersInv
<1>2. CASE FromBuffer(t)
  <2>1. /\ object = "none" /\ object' = "opening" /\ ~ closed /\ exports' = exports + 1
        /\ pc[t] = "idle" /\ pc' = [pc EXCEPT ![t] = "opening"]
        /\ UNCHANGED <<heap, struct, refs, closed, built>>
    BY <1>2 DEF FromBuffer, At, locals, Goto
  <2>2. struct = Null /\ exports = 0
    BY <2>1 DEF HoldersInv, StructInv, ExportInv, Null, InBuffer
  <2>3. \A u \in Threads : pc[u] # "opening"
    BY <2>1 DEF HoldersInv, RefsInv
  <2>4. RefsInv'
    BY <2>1, <2>3 DEF HoldersInv, RefsInv, Labels
  <2>5. StructInv'
    BY <2>1, <2>2 DEF HoldersInv, RefsInv, StructInv
  <2>6. HoldInv' /\ ExportInv'
    BY <2>1, <2>2 DEF HoldersInv, HoldInv, ExportInv, Null, InBuffer
  <2> QED  BY <2>4, <2>5, <2>6 DEF HoldersInv
<1>3. CASE OpenFails(t) \/ OpenDone(t)
  <2>1. pc[t] = "opening" /\ \E what : Return(t, what)
    BY <1>3 DEF OpenFails, OpenDone, At, Raise
  <2>2. pc' = [pc EXCEPT ![t] = "idle"] /\ built' = built
    BY <2>1, ReturnKeeps
  <2>3. /\ object = "opening" /\ struct = Null /\ refs = {} /\ exports = 1 /\ ~ closed
        /\ \A u \in Threads : pc[u] \in {"idle", "opening"} /\ (u # t => pc[u] # "opening")
    BY <2>1 DEF HoldersInv, RefsInv, StructInv, ExportInv
  <2>4. CASE OpenFails(t)
    <3>1. object' = "none" /\ exports' = 0 /\ UNCHANGED <<heap, struct, closed, refs>>
      BY <2>3, <2>4 DEF OpenFails
    <3>2. RefsInv'
      BY <2>2, <2>3, <3>1 DEF HoldersInv, RefsInv, Labels
    <3>3. StructInv'
      BY <2>2, <2>3, <3>1 DEF HoldersInv, RefsInv, StructInv
    <3>4. HoldInv' /\ ExportInv'
      BY <2>2, <2>3, <3>1 DEF HoldersInv, HoldInv, ExportInv, Null, InBuffer
    <3> QED  BY <3>2, <3>3, <3>4 DEF HoldersInv
  <2>5. CASE OpenDone(t)
    <3>1. object' = "ready" /\ struct' = InBuffer /\ refs' = {t} /\ UNCHANGED <<heap, exports, closed>>
      BY <2>5 DEF OpenDone
    <3>2. RefsInv'
      BY <2>2, <2>3, <3>1 DEF HoldersInv, RefsInv, Labels
    <3>3. StructInv'
      BY <2>2, <2>3, <3>1 DEF HoldersInv, RefsInv, StructInv
    <3>4. HoldInv'
      <4>1. InBuffer \notin DOMAIN heap /\ Null \notin DOMAIN heap
        BY DEF HoldersInv, StructInv, InBuffer, Null
      <4> QED  BY <4>1, <2>2, <2>3, <3>1 DEF HoldersInv, HoldInv
    <3>5. ExportInv'
      BY <2>3, <3>1 DEF ExportInv
    <3> QED  BY <3>2, <3>3, <3>4, <3>5 DEF HoldersInv
  <2> QED  BY <1>3, <2>4, <2>5
<1> QED  BY <1>1, <1>2, <1>3

(* A map is new when it is built: nobody holds it yet.                       *)
LEMMA HeapGrows ==
  ASSUME heap \in Seq(Contents), NEW map \in Contents,
         heap' = Append(heap, map)
  PROVE  /\ heap' \in Seq(Contents) /\ Len(heap') = Len(heap) + 1
         /\ Len(heap) \in Nat
         /\ DOMAIN heap = 1 .. Len(heap) /\ DOMAIN heap' = 1 .. (Len(heap) + 1)
         /\ \A i \in DOMAIN heap : heap'[i] = heap[i]
         /\ heap'[Len(heap) + 1] = map
OBVIOUS

LEMMA FreedIsContents == Freed \in Contents
<1>1. <<"freed", -1>> \in Texts \X Int
  BY DEF Texts
<1> DEFINE x == <<"freed", -1>>
<1>2. <<x>> \in Seq(Texts \X Int)
  <2>1. x \in Texts \X Int
    BY <1>1
  <2> HIDE DEF x
  <2> QED  BY <2>1
<1> QED  BY <1>2 DEF Freed, Contents

LEMMA HoldersFromBytes ==
  ASSUME HoldersInv, NEW t \in Threads, FromBytes(t), Stored # Freed, Stored \in Contents
  PROVE  HoldersInv'
<1>1. /\ object = "none" /\ object' = "ready" /\ refs' = {t} /\ pc[t] = "idle"
      /\ struct' = Len(heap) + 1 /\ heap' = Append(heap, Stored)
      /\ UNCHANGED <<exports, closed, pc, built>>
  BY DEF FromBytes, At, locals
<1>2. \A u \in Threads : pc[u] \in {"idle", "opening"} /\ pc[u] # "opening"
  BY <1>1 DEF HoldersInv, RefsInv
<1>3. RefsInv'
  BY <1>1, <1>2 DEF HoldersInv, RefsInv
<1>4. heap \in Seq(Contents) /\ struct = Null /\ \A u \in Threads : built[u] = Null
  BY <1>1, <1>2 DEF HoldersInv, StructInv
<1>5. /\ heap' \in Seq(Contents) /\ Len(heap') = Len(heap) + 1
      /\ Len(heap) \in Nat
      /\ DOMAIN heap = 1 .. Len(heap) /\ DOMAIN heap' = 1 .. (Len(heap) + 1)
      /\ \A i \in DOMAIN heap : heap'[i] = heap[i]
      /\ heap'[Len(heap) + 1] = Stored
  BY <1>1, <1>4, HeapGrows
<1>6. StructInv'
  <2>1. built' \in [Threads -> 0 .. Len(heap')]
    BY <1>1, <1>5 DEF HoldersInv, StructInv
  <2>2. struct' \in 1 .. Len(heap')
    BY <1>1, <1>5
  <2> QED  BY <2>1, <2>2, <1>1, <1>2, <1>4, <1>5 DEF HoldersInv, StructInv
<1>7. HoldInv'
  <2>1. \A i \in DOMAIN heap : heap[i] = Freed
    <3>1. \A i \in DOMAIN heap : heap[i] # Freed => struct = i \/ \E u \in Threads : built[u] = i
      BY DEF HoldersInv, HoldInv
    <3>2. \A i \in DOMAIN heap : i # Null
      BY <1>5 DEF Null
    <3> QED  BY ONLY <1>4, <3>1, <3>2
  <2> QED  BY <2>1, <1>1, <1>4, <1>5 DEF HoldInv, Null
<1>8. ExportInv'
  BY <1>1, <1>4, <1>5 DEF HoldersInv, ExportInv, Null, InBuffer
<1> QED  BY <1>3, <1>6, <1>7, <1>8 DEF HoldersInv

(* ... a map is built, ... *)
LEMMA HoldersBuild ==
  ASSUME HoldersInv, NEW t \in Threads, BuildMap(t),
         Given(t) # Freed, Given(t) \in Contents
  PROVE  HoldersInv'
<1>1. /\ pc[t] = "building" /\ pc' = [pc EXCEPT ![t] = "built"]
      /\ built' = [built EXCEPT ![t] = Len(heap) + 1] /\ heap' = Append(heap, Given(t))
      /\ UNCHANGED <<object, struct, exports, closed, refs>>
  BY DEF BuildMap, At, Goto
<1>2. heap \in Seq(Contents) /\ built[t] = Null
  BY <1>1 DEF HoldersInv, StructInv
<1>3. /\ heap' \in Seq(Contents) /\ Len(heap') = Len(heap) + 1
      /\ Len(heap) \in Nat
      /\ DOMAIN heap = 1 .. Len(heap) /\ DOMAIN heap' = 1 .. (Len(heap) + 1)
      /\ \A i \in DOMAIN heap : heap'[i] = heap[i]
      /\ heap'[Len(heap) + 1] = Given(t)
  BY <1>1, <1>2, HeapGrows
<1>4. RefsInv'
  BY <1>1 DEF HoldersInv, RefsInv, Labels
<1>5. /\ built' \in [Threads -> 0 .. Len(heap')]
      /\ built'[t] = Len(heap) + 1 /\ \A u \in Threads \ {t} : built'[u] = built[u]
      /\ \A u \in Threads : built[u] \in 0 .. Len(heap)
  BY <1>1, <1>3 DEF HoldersInv, StructInv
<1>6. struct \in {Null, InBuffer} \union (1 .. Len(heap'))
  BY <1>3 DEF HoldersInv, StructInv
<1>7. StructInv'
  BY <1>1, <1>3, <1>5, <1>6 DEF HoldersInv, StructInv, RefsInv, Null
<1>8. HoldInv'
  <2>0. /\ \A u \in Threads : built[u] # Null => built[u] \in DOMAIN heap /\ built[u] # Len(heap) + 1
        /\ Len(heap) + 1 \notin DOMAIN heap /\ Len(heap) + 1 # Null
        /\ HoldInv
    BY <1>3, <1>5 DEF HoldersInv, Null
  <2>1. \A u \in Threads : built'[u] # Null => heap'[built'[u]] # Freed
    <3>1. SUFFICES ASSUME NEW u \in Threads, built'[u] # Null PROVE heap'[built'[u]] # Freed
      OBVIOUS
    <3>2. CASE u = t
      BY <3>2, <1>3, <1>5
    <3>3. CASE u # t
      <4>1. built'[u] = built[u] /\ built[u] \in DOMAIN heap /\ heap[built[u]] # Freed
        BY <3>1, <3>3, <1>5, <2>0 DEF HoldInv
      <4> QED  BY <4>1, <1>3
    <3> QED  BY <3>2, <3>3
  <2>2. \A u, v \in Threads : built'[u] # Null /\ built'[u] = built'[v] => u = v
    <3>1. \A u, v \in Threads : built[u] # Null /\ built[u] = built[v] => u = v
      BY <2>0 DEF HoldInv
    <3>2. Len(heap) + 1 # Null /\ \A u \in Threads : built[u] # Len(heap) + 1
      BY <1>3, <1>5 DEF Null
    <3> QED  BY ONLY <3>1, <3>2, <1>5
  <2>3. struct' \in DOMAIN heap' => heap'[struct'] # Freed /\ \A u \in Threads : built'[u] # struct'
    <3>1. struct' = struct /\ (struct \in DOMAIN heap' => struct \in DOMAIN heap)
      BY <1>1, <1>3 DEF HoldersInv, StructInv, Null, InBuffer
    <3>2. struct \in DOMAIN heap =>
            heap[struct] # Freed /\ struct # Len(heap) + 1 /\ \A u \in Threads : built[u] # struct
      BY <2>0 DEF HoldInv
    <3>3. struct \in DOMAIN heap => heap'[struct] = heap[struct]
      BY <1>3
    <3> QED  BY ONLY <3>1, <3>2, <3>3, <1>5
  <2>4. \A i \in DOMAIN heap' : heap'[i] # Freed => struct' = i \/ \E u \in Threads : built'[u] = i
    <3>1. SUFFICES ASSUME NEW i \in DOMAIN heap', heap'[i] # Freed
                   PROVE  struct' = i \/ \E u \in Threads : built'[u] = i
      OBVIOUS
    <3>2. CASE i = Len(heap) + 1
      BY <3>2, <1>5
    <3>3. CASE i # Len(heap) + 1
      <4>1. i \in DOMAIN heap /\ heap[i] # Freed
        BY <3>1, <3>3, <1>3
      <4>2. struct = i \/ \E u \in Threads : built[u] = i
        BY <4>1 DEF HoldersInv, HoldInv
      <4>3. ASSUME NEW u \in Threads, built[u] = i PROVE u # t
        BY <4>1, <4>3, <1>2, <1>3 DEF Null
      <4> QED  BY <4>2, <4>3, <1>1, <1>5
    <3> QED  BY <3>2, <3>3
  <2> QED  BY <2>1, <2>2, <2>3, <2>4 DEF HoldInv
<1>9. ExportInv'
  BY <1>1 DEF HoldersInv, ExportInv
<1> QED  BY <1>4, <1>7, <1>8, <1>9 DEF HoldersInv

(* ... and handed over, ... *)
LEMMA HoldersBegin ==
  ASSUME HoldersInv, NEW t \in Threads, BeginInstall(t)
  PROVE  HoldersInv'
<1>1. /\ pc[t] = "built" /\ pc' = [pc EXCEPT ![t] = "copying"] /\ object = "fresh"
      /\ \A u \in Threads : pc[u] # "copying"
      /\ UNCHANGED <<heap, object, struct, exports, closed, refs, built>>
  BY DEF BeginInstall, Enter, At, Goto, FreeToInstall, shared, locals
<1>2. RefsInv'
  BY <1>1 DEF HoldersInv, RefsInv, Labels
<1>3. StructInv'
  BY <1>1 DEF HoldersInv, RefsInv, StructInv
<1>4. HoldInv' /\ ExportInv'
  BY <1>1 DEF HoldersInv, HoldInv, ExportInv
<1> QED  BY <1>2, <1>3, <1>4 DEF HoldersInv

LEMMA HoldersFinish ==
  ASSUME HoldersInv, NEW t \in Threads, FinishInstall(t)
  PROVE  HoldersInv'
<1>1. /\ pc[t] = "copying" /\ struct' = built[t] /\ object' = "ready"
      /\ UNCHANGED <<heap, exports, closed, refs>>
  BY DEF FinishInstall, At
<1>2. pc' = [pc EXCEPT ![t] = "idle"] /\ built' = [built EXCEPT ![t] = Null]
  BY ReturnKeeps DEF FinishInstall
<1>3. /\ object = "fresh" /\ struct = Null /\ built[t] \in 1 .. Len(heap)
      /\ \A u \in Threads \ {t} : pc[u] # "copying"
      /\ DOMAIN heap = 1 .. Len(heap) /\ Len(heap) \in Nat
  BY <1>1 DEF HoldersInv, StructInv, Null
<1>4. /\ built' \in [Threads -> 0 .. Len(heap)]
      /\ built'[t] = Null /\ \A u \in Threads \ {t} : built'[u] = built[u]
  BY <1>2, <1>3 DEF HoldersInv, StructInv, Null
<1>5. RefsInv'
  BY <1>1, <1>2, <1>3 DEF HoldersInv, RefsInv, Labels
<1>6. StructInv'
  BY <1>1, <1>2, <1>3, <1>4 DEF HoldersInv, RefsInv, StructInv, Null
<1>7. HoldInv'
  <2>1. /\ \A u \in Threads : built[u] # Null => heap[built[u]] # Freed
        /\ \A u, v \in Threads : built[u] # Null /\ built[u] = built[v] => u = v
        /\ \A i \in DOMAIN heap : heap[i] # Freed => struct = i \/ \E u \in Threads : built[u] = i
    BY DEF HoldersInv, HoldInv
  <2>2. struct \notin DOMAIN heap /\ built[t] # Null
    BY <1>3 DEF Null
  <2>3. heap[built[t]] # Freed /\ \A u \in Threads : built'[u] # built[t]
    BY <2>1, <2>2, <1>4
  <2>4. \A i \in DOMAIN heap : heap[i] # Freed => struct' = i \/ \E u \in Threads : built'[u] = i
    BY ONLY <1>1, <1>4, <2>1, <2>2
  <2>5. \A u, v \in Threads : built'[u] # Null /\ built'[u] = built'[v] => u = v
    BY ONLY <1>4, <2>1
  <2>6. \A u \in Threads : built'[u] # Null => heap[built'[u]] # Freed
    BY ONLY <1>4, <2>1
  <2> QED  BY <1>1, <2>3, <2>4, <2>5, <2>6 DEF HoldInv
<1>8. ExportInv'
  <2>1. struct' # InBuffer /\ exports = 0
    BY <1>1, <1>3 DEF HoldersInv, ExportInv, InBuffer, Null
  <2> QED  BY <2>1, <1>1 DEF ExportInv
<1> QED  BY <1>5, <1>6, <1>7, <1>8 DEF HoldersInv

(* A map is freed: whoever held it holds it no more, and the others hold      *)
(* other maps.                                                              *)
LEMMA HeapFrees ==
  ASSUME heap \in Seq(Contents), NEW i \in DOMAIN heap, heap' = [heap EXCEPT ![i] = Freed]
  PROVE  /\ heap' \in Seq(Contents) /\ Len(heap') = Len(heap) /\ DOMAIN heap' = DOMAIN heap
         /\ heap'[i] = Freed /\ \A j \in DOMAIN heap \ {i} : heap'[j] = heap[j]
<1>1. Freed \in Contents
  BY FreedIsContents
<1> HIDE DEF Freed, Contents
<1> QED  BY <1>1

LEMMA HoldersDiscard ==
  ASSUME HoldersInv, NEW t \in Threads, Discard(t)
  PROVE  HoldersInv'
<1>1. /\ pc[t] = "built" /\ heap' = [heap EXCEPT ![built[t]] = Freed]
      /\ UNCHANGED <<object, struct, exports, closed, refs>>
  BY DEF Discard, Enter, At
<1>2. pc' = [pc EXCEPT ![t] = "idle"] /\ built' = [built EXCEPT ![t] = Null]
  BY ReturnKeeps DEF Discard, Raise
<1>3. heap \in Seq(Contents) /\ built[t] \in DOMAIN heap /\ built[t] # Null
  BY <1>1 DEF HoldersInv, StructInv, Null
<1>4. /\ heap' \in Seq(Contents) /\ Len(heap') = Len(heap) /\ DOMAIN heap' = DOMAIN heap
      /\ heap'[built[t]] = Freed /\ \A j \in DOMAIN heap \ {built[t]} : heap'[j] = heap[j]
  BY <1>1, <1>3, HeapFrees
<1>5. /\ built' \in [Threads -> 0 .. Len(heap)]
      /\ built'[t] = Null /\ \A u \in Threads \ {t} : built'[u] = built[u]
  BY <1>2, <1>3 DEF HoldersInv, StructInv, Null
<1>6. RefsInv'
  BY <1>1, <1>2 DEF HoldersInv, RefsInv, Labels
<1>7. StructInv'
  BY <1>1, <1>2, <1>4, <1>5 DEF HoldersInv, RefsInv, StructInv, Null
<1>8. HoldInv'
  <2>1. HoldInv
    BY DEF HoldersInv
  <2>2. \A u \in Threads : built[u] # Null => built[u] \in DOMAIN heap
    BY <1>3 DEF HoldersInv, StructInv, Null
  <2>3. \A u \in Threads : built'[u] # Null => heap'[built'[u]] # Freed
    <3>1. SUFFICES ASSUME NEW u \in Threads, built'[u] # Null PROVE heap'[built'[u]] # Freed
      OBVIOUS
    <3>2. u # t /\ built'[u] = built[u] /\ built[u] # Null
      BY <3>1, <1>5
    <3>3. built[u] \in DOMAIN heap \ {built[t]} /\ heap[built[u]] # Freed
      BY <3>2, <2>1, <2>2 DEF HoldInv
    <3> QED  BY <3>2, <3>3, <1>4
  <2>4. \A u, v \in Threads : built'[u] # Null /\ built'[u] = built'[v] => u = v
    BY <2>1, <1>5 DEF HoldInv
  <2>5. struct \in DOMAIN heap => heap'[struct] # Freed /\ \A u \in Threads : built'[u] # struct
    <3>1. struct \in DOMAIN heap => heap[struct] # Freed /\ \A u \in Threads : built[u] # struct
      BY <2>1 DEF HoldInv
    <3>2. struct \in DOMAIN heap => struct # Null
      BY <1>3 DEF Null
    <3> QED  BY ONLY <3>1, <3>2, <1>4, <1>5, t \in Threads
  <2>6. \A i \in DOMAIN heap : heap'[i] # Freed => struct = i \/ \E u \in Threads : built'[u] = i
    <3>1. \A i \in DOMAIN heap : heap[i] # Freed => struct = i \/ \E u \in Threads : built[u] = i
      BY <2>1 DEF HoldInv
    <3> QED  BY ONLY <3>1, <1>4, <1>5
  <2> QED  BY <1>1, <1>4, <2>3, <2>4, <2>5, <2>6 DEF HoldInv
<1>9. ExportInv'
  BY <1>1 DEF HoldersInv, ExportInv
<1> QED  BY <1>6, <1>7, <1>8, <1>9 DEF HoldersInv

(* ... and references come and go.                                          *)
LEMMA HoldersShare ==
  ASSUME HoldersInv, NEW t \in Threads, NEW u \in Threads, Share(t, u)
  PROVE  HoldersInv'
<1>1. /\ t \in refs /\ refs' = refs \union {u}
      /\ UNCHANGED <<heap, object, struct, exports, closed, pc, built>>
  BY DEF Share, Call, locals
<1>2. RefsInv'
  BY <1>1 DEF HoldersInv, RefsInv
<1>3. StructInv' /\ HoldInv' /\ ExportInv'
  BY <1>1 DEF HoldersInv, StructInv, HoldInv, ExportInv
<1> QED  BY <1>2, <1>3 DEF HoldersInv

LEMMA HoldersDrop ==
  ASSUME HoldersInv, NEW t \in Threads, Drop(t)
  PROVE  HoldersInv'
<1>1. pc[t] = "idle" /\ t \in refs /\ refs' = refs \ {t} /\ UNCHANGED <<closed, pc, built>>
  BY DEF Drop, Call, At, locals
<1>2. CASE refs # {t}
  <2>1. UNCHANGED <<heap, object, struct, exports>>
    BY <1>2 DEF Drop
  <2>2. RefsInv'
    BY <1>1, <2>1 DEF HoldersInv, RefsInv
  <2>3. StructInv' /\ HoldInv' /\ ExportInv'
    BY <1>1, <2>1 DEF HoldersInv, StructInv, HoldInv, ExportInv
  <2> QED  BY <2>2, <2>3 DEF HoldersInv
<1>3. CASE refs = {t}
  <2>1. /\ object' = "gone" /\ struct' = Null
        /\ exports' = IF struct = InBuffer THEN exports - 1 ELSE exports
        /\ heap' = IF struct \in DOMAIN heap THEN [heap EXCEPT ![struct] = Freed] ELSE heap
    BY <1>3 DEF Drop
  <2>2. object \in {"fresh", "ready"} /\ \A u \in Threads : pc[u] = "idle"
    BY <1>1, <1>3 DEF HoldersInv, RefsInv
  <2>3. heap \in Seq(Contents) /\ \A u \in Threads : built[u] = Null
    BY <2>2 DEF HoldersInv, StructInv
  <2>4. /\ heap' \in Seq(Contents) /\ Len(heap') = Len(heap) /\ DOMAIN heap' = DOMAIN heap
        /\ struct \in DOMAIN heap => heap'[struct] = Freed
        /\ \A j \in DOMAIN heap \ {struct} : heap'[j] = heap[j]
    <3>1. CASE struct \in DOMAIN heap
      BY <3>1, <2>1, <2>3, HeapFrees
    <3>2. CASE struct \notin DOMAIN heap
      BY <3>2, <2>1, <2>3
    <3> QED  BY <3>1, <3>2
  <2>5. RefsInv'
    BY <1>1, <1>3, <2>1, <2>2 DEF HoldersInv, RefsInv
  <2>6. StructInv'
    BY <1>1, <2>1, <2>2, <2>4 DEF HoldersInv, RefsInv, StructInv
  <2>7. HoldInv'
    <3>1. \A j \in DOMAIN heap : heap'[j] = Freed
      <4>1. \A j \in DOMAIN heap : heap[j] # Freed => struct = j
        <5>1. \A j \in DOMAIN heap : j # Null
          BY <2>3 DEF Null
        <5>2. \A j \in DOMAIN heap : heap[j] # Freed => struct = j \/ \E u \in Threads : built[u] = j
          BY DEF HoldersInv, HoldInv
        <5> QED  BY ONLY <5>1, <5>2, <2>3
      <4> QED  BY <4>1, <2>4
    <3>2. Null \notin DOMAIN heap
      BY <2>3 DEF Null
    <3> QED  BY <3>1, <3>2, <1>1, <2>1, <2>3, <2>4 DEF HoldInv
  <2>8. ExportInv'
    BY <1>1, <2>1, <2>2 DEF HoldersInv, ExportInv, Null, InBuffer
  <2> QED  BY <2>5, <2>6, <2>7, <2>8 DEF HoldersInv
<1> QED  BY <1>2, <1>3

LEMMA HoldersOthers ==
  ASSUME HoldersInv, CloseBuffer \/ Changes \/ UNCHANGED vars
  PROVE  HoldersInv'
<1>1. UNCHANGED <<heap, object, struct, exports, refs, pc, built>>
  BY DEF CloseBuffer, Changes, vars, shared, locals
<1>2. closed' = closed \/ (closed' = TRUE /\ exports = 0)
  BY DEF CloseBuffer, Changes, vars, shared
<1>3. RefsInv' /\ StructInv' /\ HoldInv'
  BY <1>1 DEF HoldersInv, RefsInv, StructInv, HoldInv
<1>4. ExportInv'
  BY <1>1, <1>2 DEF HoldersInv, ExportInv
<1> QED  BY <1>3, <1>4 DEF HoldersInv

-----------------------------------------------------------------------------
(* What a thread in __init__ has read. *)

LEMMA ReadInit == ASSUME PyObjectsAssumption, Init PROVE ReadInv
BY DEF Init, ReadInv, ReadOf

(* A number fits if it is in the range the code names, and one in the range    *)
(* of words is its own word: a result of all ones is told from a failure.    *)
LEMMA Conversions ==
  ASSUME PyObjectsAssumption, NEW i \in Int
  PROVE  /\ Fits(i) <=> IsInRange(i)
         /\ Word(i) = IF 0 <= i /\ i < 2^WordBits THEN i
                      ELSE AsSigned(i).word % 2^WordBits
         /\ IsInRange(i) /\ ~ (0 <= i /\ i < 2^WordBits) => AsSigned(i).word = i
<1> DEFINE m == 2^WordBits
           h == 2^(WordBits - 1)
<1>1. m \in Nat /\ h \in Nat /\ h < m
  BY DEF PyObjectsAssumption
<1>2. AllOnes = m - 1
  BY DEF AllOnes
<1>3. /\ UnsignedFails(i) <=> ~ (0 <= i /\ i <= m - 1)
      /\ 0 <= i /\ i <= m - 1 => AsUnsigned(i).word = i
  BY <1>2 DEF UnsignedFails, Fails, AsUnsigned, Converted
<1>4. /\ SignedFails(i) <=> ~ (-h <= i /\ i <= h - 1)
      /\ -h <= i /\ i <= h - 1 => AsSigned(i).word = i
  BY DEF SignedFails, Fails, AsSigned, Converted
<1>5. IsInRange(i) <=> -h <= i /\ i <= m - 1
  <2>1. IsInRange(i) <=> i \in -h .. (m - 1)
    BY DEF IsInRange
  <2> HIDE DEF m, h
  <2> QED  BY <1>1, <2>1
<1>6. Word(i) = IF UnsignedFails(i) THEN AsSigned(i).word % m ELSE AsUnsigned(i).word
  BY DEF Word
<1> HIDE DEF m, h
<1>7. i <= m - 1 <=> i < m
  BY <1>1
<1>8. Fits(i) <=> IsInRange(i)
  BY <1>1, <1>3, <1>4, <1>5 DEF Fits
<1>9. Word(i) = IF 0 <= i /\ i < m THEN i ELSE AsSigned(i).word % m
  BY <1>3, <1>6, <1>7
<1>10. IsInRange(i) /\ ~ (0 <= i /\ i < m) => AsSigned(i).word = i
  BY <1>1, <1>4, <1>5, <1>7
<1> QED  BY <1>8, <1>9, <1>10 DEF m

(* An entry is read if and only if it is allowed. *)
LEMMA GoodIsAllowed ==
  ASSUME PyObjectsAssumption, NEW entry, entry.value.number \in Int
  PROVE  IsGood(entry) <=> IsAllowed(entry)
BY Conversions DEF IsGood, IsAllowed

LEMMA EntriesAreTyped ==
  ASSUME PyObjectsAssumption, NEW d \in Dicts
  PROVE  /\ Len(d) \in Nat /\ DOMAIN d = 1 .. Len(d)
         /\ \A k \in 1 .. Len(d) : d[k].value.number \in Int
<1> DEFINE Entry == [key : [kind : STRING, text : STRING], value : [kind : STRING, number : Int]]
<1>1. d \in Seq(Entry)
  BY DEF PyObjectsAssumption
<1> HIDE DEF Entry
<1>2. Len(d) \in Nat /\ DOMAIN d = 1 .. Len(d) /\ \A k \in 1 .. Len(d) : d[k] \in Entry
  BY <1>1
<1>3. \A e \in Entry : e.value.number \in Int
  BY DEF Entry
<1> QED  BY <1>2, <1>3

(* A word is a natural number. *)
LEMMA WordIsNat ==
  ASSUME PyObjectsAssumption, NEW i \in Int, Fits(i)
  PROVE  Word(i) \in Nat
<1> DEFINE m == 2^WordBits
<1>1. m \in Nat \ {0}
  <2>1. m \in Nat /\ 2^(WordBits - 1) \in 0 .. (m - 1)
    BY DEF PyObjectsAssumption
  <2> HIDE DEF m
  <2> QED  BY <2>1
<1>2. IsInRange(i)
  BY Conversions
<1>3. Word(i) = IF 0 <= i /\ i < m THEN i ELSE i % m
  BY <1>2, Conversions
<1> HIDE DEF m
<1>4. i % m \in Nat
  BY <1>1
<1> QED  BY <1>3, <1>4

(* A step of one thread leaves to the others what they have read.            *)
LEMMA ReadStep ==
  ASSUME ReadInv, NEW t \in Threads, UNCHANGED <<freeThreaded, dict>>,
         DOMAIN copy' = Threads, DOMAIN read' = Threads, DOMAIN size' = Threads,
         \A u \in Threads \ {t} :
           pc'[u] = pc[u] /\ copy'[u] = copy[u] /\ read'[u] = read[u] /\ size'[u] = size[u],
         ReadOf(t)'
  PROVE  ReadInv'
<1>1. ASSUME NEW u \in Threads \ {t} PROVE ReadOf(u)'
  <2>1. ReadOf(u)
    BY DEF ReadInv
  <2> QED  BY <2>1 DEF ReadOf, Entries
<1>2. \A u \in Threads : ReadOf(u)'
  BY <1>1
<1> QED  BY <1>2 DEF ReadInv

LEMMA ReadReturn ==
  ASSUME ReadInv, pc \in [Threads -> Labels], NEW t \in Threads, NEW what, Return(t, what)
  PROVE  ReadInv'
<1>1. /\ UNCHANGED <<freeThreaded, dict>>
      /\ pc' = [pc EXCEPT ![t] = "idle"] /\ copy' = [copy EXCEPT ![t] = << >>]
      /\ read' = [read EXCEPT ![t] = << >>] /\ size' = [size EXCEPT ![t] = 0]
  BY DEF Return, Goto, world
<1>2. /\ DOMAIN copy = Threads /\ DOMAIN read = Threads /\ DOMAIN size = Threads
      /\ DOMAIN pc = Threads
  BY DEF ReadInv
<1>3. /\ DOMAIN copy' = Threads /\ DOMAIN read' = Threads /\ DOMAIN size' = Threads
      /\ \A u \in Threads \ {t} :
           pc'[u] = pc[u] /\ copy'[u] = copy[u] /\ read'[u] = read[u] /\ size'[u] = size[u]
  BY <1>1, <1>2
<1>4. pc'[t] = "idle" /\ read'[t] = << >>
  BY <1>1, <1>2
<1>5. ReadOf(t)'
  BY <1>4 DEF ReadOf
<1> QED  BY <1>1, <1>3, <1>5, ReadStep

(* A step that leaves what was read alone, and does not begin to read.       *)
LEMMA ReadElsewhere ==
  ASSUME ReadInv, pc \in [Threads -> Labels], NEW t \in Threads,
         NEW to \in {"opening", "built", "copying", "getting", "batch"},
         pc' = [pc EXCEPT ![t] = to] \/ pc' = pc,
         UNCHANGED <<freeThreaded, dict, copy, read, size>>
  PROVE  ReadInv'
<1>1. /\ DOMAIN copy' = Threads /\ DOMAIN read' = Threads /\ DOMAIN size' = Threads
      /\ \A u \in Threads \ {t} :
           pc'[u] = pc[u] /\ copy'[u] = copy[u] /\ read'[u] = read[u] /\ size'[u] = size[u]
  BY DEF ReadInv
<1>2. ReadOf(t)
  BY DEF ReadInv
<1>3. ReadOf(t)'
  BY <1>2 DEF ReadOf, Entries
<1> QED  BY <1>1, <1>3, ReadStep

LEMMA ReadTakes ==
  ASSUME PyObjectsAssumption, ReadInv, pc \in [Threads -> Labels], NEW t \in Threads,
         TakeDict(t) \/ BeginBatch(t) \/ Allocate(t) \/ EndRead(t)
  PROVE  ReadInv'
<1>1. /\ UNCHANGED <<freeThreaded, dict, read>>
      /\ \E to \in Labels : pc' = [pc EXCEPT ![t] = to]
      /\ copy' = copy \/ \E c : copy' = [copy EXCEPT ![t] = c]
      /\ size' = size \/ \E n : size' = [size EXCEPT ![t] = n]
  BY DEF TakeDict, BeginBatch, Allocate, EndRead, Goto, world, shared, locals, Labels
<1>2. /\ DOMAIN copy = Threads /\ DOMAIN read = Threads /\ DOMAIN size = Threads
      /\ DOMAIN pc = Threads /\ ReadOf(t) /\ dict \in Dicts /\ freeThreaded \in BOOLEAN
  BY DEF ReadInv
<1>3. /\ DOMAIN copy' = Threads /\ DOMAIN read' = Threads /\ DOMAIN size' = Threads
      /\ \A u \in Threads \ {t} :
           pc'[u] = pc[u] /\ copy'[u] = copy[u] /\ read'[u] = read[u] /\ size'[u] = size[u]
  BY <1>1, <1>2
<1>4. ReadOf(t)'
  <2>1. CASE TakeDict(t)
    <3>1. /\ pc[t] = "idle" /\ pc'[t] = "sized" /\ read'[t] = read[t] /\ size'[t] = Len(dict)
          /\ copy'[t] = IF freeThreaded THEN dict ELSE << >>
      BY <2>1, <1>2 DEF TakeDict, Call, At, Goto, shared
    <3>2. Entries(t)' = dict
      BY <3>1, <1>1 DEF Entries
    <3>3. Len(dict) \in Nat
      BY <1>2 DEF PyObjectsAssumption
    <3> QED  BY <3>1, <3>2, <3>3, <1>2 DEF ReadOf
  <2>2. CASE BeginBatch(t)
    <3>1. pc'[t] = "sizing"
      BY <2>2, <1>2 DEF BeginBatch, Goto
    <3> QED  BY <3>1 DEF ReadOf
  <2>3. CASE Allocate(t)
    <3>1. pc[t] = "sized" /\ pc'[t] = "reading" /\ UNCHANGED <<copy, read, size>>
      BY <2>3, <1>2 DEF Allocate, At, Goto, locals
    <3> QED  BY <3>1, <1>1, <1>2 DEF ReadOf, Entries
  <2>4. CASE EndRead(t)
    <3>1. pc[t] = "reading" /\ pc'[t] = "building" /\ UNCHANGED <<read, size>>
      BY <2>4, <1>2 DEF EndRead, At, Goto
    <3> QED  BY <3>1, <1>2 DEF ReadOf
  <2> QED  BY <2>1, <2>2, <2>3, <2>4
<1> QED  BY <1>1, <1>3, <1>4, ReadStep

LEMMA ReadReads ==
  ASSUME PyObjectsAssumption, ReadInv, pc \in [Threads -> Labels], NEW t \in Threads,
         ReadEntry(t)
  PROVE  ReadInv'
<1> DEFINE e == NextEntry(t)
           Keys == [kind : STRING, text : STRING]
<1>1. /\ pc[t] = "reading" /\ Len(read[t]) < Len(Entries(t)) /\ IsGood(e)
      /\ read' = [read EXCEPT ![t] = Append(@, <<e.key, Word(e.value.number)>>)]
      /\ UNCHANGED <<freeThreaded, dict, pc, copy, size>>
  BY DEF ReadEntry, MoreEntries, At, world
<1>2. /\ DOMAIN copy = Threads /\ DOMAIN read = Threads /\ DOMAIN size = Threads
      /\ Entries(t) \in Dicts /\ size[t] \in Nat /\ read[t] \in Seq(Keys \X Nat)
  BY <1>1 DEF ReadInv, ReadOf
<1>3. e \in [key : Keys, value : [kind : STRING, number : Int]]
  <2>1. Entries(t) \in Seq([key : Keys, value : [kind : STRING, number : Int]])
    BY <1>2 DEF PyObjectsAssumption
  <2>2. Len(read[t]) + 1 \in 1 .. Len(Entries(t))
    BY <1>1, <1>2, <2>1
  <2>3. \A R : \A s \in Seq(R), k \in 1 .. Len(Entries(t)) : s = Entries(t) => s[k] \in R
    OBVIOUS
  <2>4. Entries(t)[Len(read[t]) + 1] \in [key : Keys, value : [kind : STRING, number : Int]]
    BY ONLY <2>1, <2>2, <2>3
  <2> QED  BY <2>4 DEF NextEntry
<1>4. e.key \in Keys /\ Word(e.value.number) \in Nat
  <2>1. e.value.number \in Int /\ Fits(e.value.number)
    BY <1>1, <1>3 DEF IsGood
  <2>2. Word(e.value.number) \in Nat
    BY <2>1, WordIsNat
  <2> QED  BY <2>2, <1>3
<1>5. /\ DOMAIN read' = Threads
      /\ read'[t] = Append(read[t], <<e.key, Word(e.value.number)>>)
      /\ \A u \in Threads \ {t} : read'[u] = read[u]
  BY <1>1, <1>2
<1>6. read'[t] \in Seq(Keys \X Nat)
  <2> HIDE DEF e, Keys
  <2> QED  BY <1>2, <1>4, <1>5
<1>7. ReadOf(t)'
  BY <1>1, <1>2, <1>6 DEF ReadOf, Entries
<1>8. /\ DOMAIN copy' = Threads /\ DOMAIN read' = Threads /\ DOMAIN size' = Threads
      /\ \A u \in Threads \ {t} :
           pc'[u] = pc[u] /\ copy'[u] = copy[u] /\ read'[u] = read[u] /\ size'[u] = size[u]
  BY <1>1, <1>2, <1>5
<1>9. UNCHANGED <<freeThreaded, dict>>
  BY <1>1
<1> QED  BY ONLY ReadInv, t \in Threads, <1>7, <1>8, <1>9, ReadStep

LEMMA ReadBatch ==
  ASSUME ReadInv, pc \in [Threads -> Labels], NEW t \in Threads, BatchChunk(t)
  PROVE  ReadInv'
<1>1. /\ pc[t] = "batch" /\ \E r : read' = [read EXCEPT ![t] = r]
      /\ UNCHANGED <<freeThreaded, dict, pc, copy, size>>
  BY DEF BatchChunk, At, world
<1>2. DOMAIN copy = Threads /\ DOMAIN read = Threads /\ DOMAIN size = Threads
  BY DEF ReadInv
<1>3. /\ DOMAIN copy' = Threads /\ DOMAIN read' = Threads /\ DOMAIN size' = Threads
      /\ \A u \in Threads \ {t} :
           pc'[u] = pc[u] /\ copy'[u] = copy[u] /\ read'[u] = read[u] /\ size'[u] = size[u]
  BY <1>1, <1>2
<1>4. ReadOf(t)'
  BY <1>1 DEF ReadOf
<1> QED  BY <1>1, <1>3, <1>4, ReadStep

LEMMA ReadOthers ==
  ASSUME ReadInv, CloseBuffer \/ Changes \/ UNCHANGED vars
  PROVE  ReadInv'
<1>1. UNCHANGED <<freeThreaded, pc, copy, read, size>>
  BY DEF CloseBuffer, Changes, vars, world, locals
<1>2. dict' \in Dicts
  BY DEF CloseBuffer, Changes, vars, world, ReadInv
<1>3. ASSUME NEW t \in Threads PROVE ReadOf(t)'
  <2>1. ReadOf(t) /\ freeThreaded \in BOOLEAN
    BY DEF ReadInv
  <2>2. pc[t] \in {"sized", "reading"} => Entries(t)' \in Dicts
    BY <1>1, <1>2, <2>1 DEF ReadOf, Entries
  <2> QED  BY <1>1, <2>1, <2>2 DEF ReadOf
<1> QED  BY <1>1, <1>2, <1>3 DEF ReadInv

LEMMA IsSequence ==
  ASSUME NEW S, NEW n \in Nat, NEW f, f = [k \in 1 .. n |-> f[k]], \A k \in 1 .. n : f[k] \in S
  PROVE  f \in Seq(S)
<1>1. f \in [1 .. n -> S]
  OBVIOUS
<1> QED  BY <1>1, SeqDef

(* What is given to the core is of the right type, and is not a freed map:    *)
(* it has no negative words.                                                *)
LEMMA GivenIsContents ==
  ASSUME ReadInv, NEW t \in Threads, pc[t] = "building"
  PROVE  Given(t) \in Contents /\ Given(t) # Freed
<1> DEFINE Keys == [kind : STRING, text : STRING]
<1>1. size[t] \in Nat /\ read[t] \in Seq(Keys \X Nat)
  BY DEF ReadInv, ReadOf
<1>2. \A k \in 1 .. size[t] : Given(t)[k] \in Texts \X Nat
  <2>1. SUFFICES ASSUME NEW k \in 1 .. size[t] PROVE Given(t)[k] \in Texts \X Nat
    OBVIOUS
  <2>2. Given(t)[k] = IF k \in DOMAIN read[t] /\ IsAlive(t, read[t][k][1])
                      THEN <<read[t][k][1].text, read[t][k][2]>> ELSE Garbage
    BY DEF Given
  <2>3. Garbage \in Texts \X Nat
    BY DEF Garbage, Texts
  <2>4. ASSUME k \in DOMAIN read[t] PROVE <<read[t][k][1].text, read[t][k][2]>> \in Texts \X Nat
    <3>1. read[t][k] \in Keys \X Nat
      BY <1>1, <2>4
    <3> QED  BY <3>1 DEF Texts
  <2> QED  BY <2>2, <2>3, <2>4
<1>3. Given(t) = [k \in 1 .. size[t] |-> Given(t)[k]]
  BY DEF Given
<1>5. Given(t) \in Contents
  <2>1. \A k \in 1 .. size[t] : Given(t)[k] \in Texts \X Int
    BY <1>2
  <2>2. Given(t) \in Seq(Texts \X Int)
    <3> DEFINE g == Given(t)
               n == size[t]
    <3>1. n \in Nat /\ g = [k \in 1 .. n |-> g[k]] /\ \A k \in 1 .. n : g[k] \in Texts \X Int
      BY <1>1, <1>3, <2>1
    <3> HIDE DEF g, n
    <3>2. g \in Seq(Texts \X Int)
      BY ONLY <3>1, IsSequence
    <3> QED  BY <3>2 DEF g
  <2> QED  BY <2>2 DEF Contents
<1>6. Given(t) # Freed
  <2>1. SUFFICES ASSUME Given(t) = Freed PROVE FALSE
    OBVIOUS
  <2>2. 1 \in DOMAIN Freed /\ Freed[1][2] = -1
    BY DEF Freed
  <2>3. DOMAIN Given(t) = 1 .. size[t]
    BY DEF Given
  <2>4. Given(t)[1] \in Texts \X Nat
    BY <2>1, <2>2, <2>3, <1>2
  <2> QED  BY <2>1, <2>2, <2>4
<1> QED  BY <1>5, <1>6

LEMMA StoredIsContents ==
  ASSUME PyObjectsAssumption
  PROVE  Stored \in Contents /\ Stored # Freed
<1>1. Stored \in Seq(STRING \X Nat)
  BY DEF PyObjectsAssumption
<1>2. \A k \in 1 .. Len(Stored) : Stored[k] \in STRING \X Nat
  BY <1>1
<1>3. \A k \in 1 .. Len(Stored) : Stored[k] \in Texts \X Int
  BY <1>2 DEF Texts
<1>4. Stored = [k \in 1 .. Len(Stored) |-> Stored[k]] /\ Len(Stored) \in Nat
  BY <1>1
<1>5. Stored \in Contents
  BY <1>3, <1>4, IsSequence DEF Contents
<1>6. Stored # Freed
  <2>1. SUFFICES ASSUME Stored = Freed PROVE FALSE
    OBVIOUS
  <2>2. Len(Freed) = 1 /\ Freed[1][2] = -1
    BY DEF Freed
  <2> QED  BY <2>1, <2>2, <1>2
<1> QED  BY <1>5, <1>6

-----------------------------------------------------------------------------
(* Every map is held once. *)

LEMMA HeldStep ==
  ASSUME PyObjectsAssumption, HoldersInv, ReadInv, [Next]_vars
  PROVE  HoldersInv' /\ ReadInv'
<1>0. pc \in [Threads -> Labels]
  BY DEF HoldersInv, RefsInv
<1>1. CASE CloseBuffer \/ Changes \/ UNCHANGED vars
  BY <1>1, HoldersOthers, ReadOthers
<1>2. CASE \E t \in Threads : Moves(t)
  <2>1. PICK t \in Threads : Moves(t)
    BY <1>2
  <2>2. HoldersInv'
    BY <2>1, HoldersMoves
  <2>3. CASE TakeDict(t) \/ BeginBatch(t) \/ Allocate(t) \/ EndRead(t)
    BY <2>3, <1>0, <2>2, ReadTakes
  <2>4. CASE ReadEntry(t)
    BY <2>4, <1>0, <2>2, ReadReads
  <2>5. CASE BatchChunk(t)
    BY <2>5, <1>0, <2>2, ReadBatch
  <2>6. CASE BeginGet(t) \/ TakeOut(t)
    <3>1. UNCHANGED <<freeThreaded, dict, copy, read, size>>
      BY <2>6 DEF BeginGet, TakeOut, world
    <3>2. pc' = [pc EXCEPT ![t] = "getting"] \/ pc' = [pc EXCEPT ![t] = "batch"]
      BY <2>6 DEF BeginGet, TakeOut, Goto
    <3> QED  BY <3>1, <3>2, <1>0, <2>2, ReadElsewhere
  <2> QED  BY <2>1, <2>3, <2>4, <2>5, <2>6 DEF Moves
<1>3. CASE \E t \in Threads : Returns(t)
  <2>1. PICK t \in Threads : Returns(t)
    BY <1>3
  <2>2. HoldersInv'
    BY <2>1, HoldersReturns
  <2>3. \E what : Return(t, what)
    BY <2>1 DEF Returns, RefuseArguments, NoRoom, RefuseEntry, BuildFails, EndGet, NoOut,
                BatchRefused, EndBatch, Raise
  <2> QED  BY <2>2, <2>3, <1>0, ReadReturn
<1>4. CASE \E t \in Threads : New(t) \/ FromBytes(t) \/ FromBuffer(t) \/ OpenFails(t) \/ OpenDone(t)
  <2>1. PICK t \in Threads : New(t) \/ FromBytes(t) \/ FromBuffer(t) \/ OpenFails(t) \/ OpenDone(t)
    BY <1>4
  <2>2. HoldersInv'
    BY <2>1, HoldersOpen, HoldersFromBytes, StoredIsContents
  <2>3. CASE New(t) \/ FromBytes(t) \/ FromBuffer(t)
    <3>1. UNCHANGED <<freeThreaded, dict, copy, read, size>>
      BY <2>3 DEF New, FromBytes, FromBuffer, world, locals
    <3>2. pc' = pc \/ pc' = [pc EXCEPT ![t] = "opening"]
      BY <2>3 DEF New, FromBytes, FromBuffer, Goto
    <3> QED  BY <3>1, <3>2, <1>0, <2>2, ReadElsewhere
  <2>4. CASE OpenFails(t) \/ OpenDone(t)
    <3>1. \E what : Return(t, what)
      BY <2>4 DEF OpenFails, OpenDone, Raise
    <3> QED  BY <3>1, <1>0, <2>2, ReadReturn
  <2> QED  BY <2>1, <2>3, <2>4
<1>5. CASE \E t \in Threads : BuildMap(t) \/ BeginInstall(t) \/ FinishInstall(t) \/ Discard(t)
  <2>1. PICK t \in Threads : BuildMap(t) \/ BeginInstall(t) \/ FinishInstall(t) \/ Discard(t)
    BY <1>5
  <2>2. CASE BuildMap(t)
    <3>1. pc[t] = "building"
      BY <2>2 DEF BuildMap, At
    <3>2. HoldersInv'
      BY <2>2, <3>1, GivenIsContents, HoldersBuild
    <3>3. UNCHANGED <<freeThreaded, dict, copy, read, size>>
      BY <2>2 DEF BuildMap, world
    <3>4. pc' = [pc EXCEPT ![t] = "built"]
      BY <2>2 DEF BuildMap, Goto
    <3> QED  BY <3>2, <3>3, <3>4, <1>0, ReadElsewhere
  <2>3. CASE BeginInstall(t)
    <3>1. UNCHANGED <<freeThreaded, dict, copy, read, size>>
      BY <2>3 DEF BeginInstall, world, locals
    <3>2. pc' = [pc EXCEPT ![t] = "copying"]
      BY <2>3 DEF BeginInstall, Goto
    <3> QED  BY <2>3, <3>1, <3>2, <1>0, HoldersBegin, ReadElsewhere
  <2>4. CASE FinishInstall(t) \/ Discard(t)
    <3>1. \E what : Return(t, what)
      BY <2>4 DEF FinishInstall, Discard, Raise
    <3> QED  BY <2>4, <3>1, <1>0, HoldersFinish, HoldersDiscard, ReadReturn
  <2> QED  BY <2>1, <2>2, <2>3, <2>4
<1>6. CASE \E t \in Threads : Drop(t) \/ \E u \in Threads : Share(t, u)
  <2>1. PICK t \in Threads : Drop(t) \/ \E u \in Threads : Share(t, u)
    BY <1>6
  <2>2. HoldersInv'
    BY <2>1, HoldersDrop, HoldersShare
  <2>3. UNCHANGED <<freeThreaded, dict, pc, copy, read, size>>
    BY <2>1 DEF Drop, Share, world, locals
  <2> QED  BY <2>2, <2>3, <1>0, ReadElsewhere
<1> QED
  BY <1>1, <1>2, <1>3, <1>4, <1>5, <1>6 DEF Next, Moves, Returns

LEMMA HeldImplies == ASSUME HoldersInv PROVE HeldOnce
<1>1. /\ \A t \in Threads : built[t] # Null => heap[built[t]] # Freed
      /\ \A t, u \in Threads : built[t] # Null /\ built[t] = built[u] => t = u
      /\ struct \in DOMAIN heap => heap[struct] # Freed /\ \A t \in Threads : built[t] # struct
      /\ \A i \in DOMAIN heap : heap[i] # Freed => struct = i \/ \E t \in Threads : built[t] = i
      /\ \A i \in DOMAIN heap : i # Null
  BY DEF HoldersInv, StructInv, HoldInv, Null
<1>2. ASSUME NEW i \in DOMAIN heap, heap[i] = Freed PROVE Holders(i) = {}
  BY <1>1, <1>2 DEF Holders
<1>3. ASSUME NEW i \in DOMAIN heap, heap[i] # Freed
      PROVE  \E h \in Threads \union {"object"} : Holders(i) = {h}
  <2>1. CASE struct = i
    <3>1. Holders(i) = {"object"}
      BY <1>1, <1>3, <2>1 DEF Holders
    <3> QED  BY <3>1
  <2>2. CASE struct # i
    <3>1. PICK t \in Threads : built[t] = i
      BY <1>1, <1>3, <2>2
    <3>2. \A u \in Threads : built[u] = i => u = t
      BY <1>1, <1>3, <3>1
    <3>3. Holders(i) = {t}
      BY <2>2, <3>1, <3>2 DEF Holders
    <3> QED  BY <3>3
  <2> QED  BY <2>1, <2>2
<1>4. \A i \in DOMAIN heap :
        IF heap[i] = Freed THEN Holders(i) = {}
        ELSE \E h \in Threads \union {"object"} : Holders(i) = {h}
  BY <1>2, <1>3
<1> QED  BY <1>4 DEF HoldersInv, ExportInv, HeldOnce

(* Every map that the core built is held by one thread or by the object until *)
(* it is freed, and a buffer is exported exactly while something reads it,      *)
(* whichever code runs in between: no __init__, open, drop or failure in any   *)
(* order frees a map twice, reads one that is freed or leaks one.            *)
THEOREM MapsHeldOnce == Spec => []HeldOnce
<1>1. PyObjectsAssumption
  BY PyObjectsAssumption
<1>2. Init => HoldersInv /\ ReadInv
  BY <1>1, HoldersInit, ReadInit
<1>3. (HoldersInv /\ ReadInv) /\ [Next]_vars => (HoldersInv /\ ReadInv)'
  BY <1>1, HeldStep
<1>4. HoldersInv /\ ReadInv => HeldOnce
  BY HeldImplies
<1> QED  BY <1>2, <1>3, <1>4, PTL DEF Spec

-----------------------------------------------------------------------------
(* Every map is that of one dict, where no other code runs in allocations.   *)

(* An integer is its quotient times the divisor and its remainder, in one way. *)
LEMMA Remainder ==
  ASSUME NEW L \in Nat \ {0}, NEW x \in Int, NEW q \in Int, NEW o \in 0 .. (L - 1),
         x = q * L + o, NEW d, NEW r, d = x \div L, r = x % L
  PROVE  r = o
<1>1. r \in 0 .. (L - 1)
  OBVIOUS
<1>2. d \in Int
  OBVIOUS
<1>3. r = x - L * d
  BY <1>1, <1>2, Z3
<1>4. d * L + r = q * L + o
  BY ONLY <1>1, <1>2, <1>3, L \in Nat, x \in Int, q \in Int, o \in 0 .. (L - 1), x = q * L + o
<1>5. ~ (d > q)
  <2> SUFFICES ASSUME d >= q + 1 PROVE FALSE
    BY <1>2
  <2>1. d * L >= (q + 1) * L
    BY <1>2
  <2> QED  BY ONLY <1>1, <1>2, <1>4, <2>1, L \in Nat, q \in Int, o \in 0 .. (L - 1)
<1>6. ~ (d < q)
  <2> SUFFICES ASSUME d + 1 <= q PROVE FALSE
    BY <1>2
  <2>1. (d + 1) * L <= q * L
    BY <1>2
  <2> QED  BY ONLY <1>1, <1>2, <1>4, <2>1, L \in Nat, q \in Int, o \in 0 .. (L - 1)
<1>7. d = q
  BY <1>2, <1>5, <1>6
<1> QED  BY ONLY <1>1, <1>4, <1>7, L \in Nat, q \in Int, o \in 0 .. (L - 1)

(* A word is the value reduced to the width. *)
LEMMA WordIsModulo ==
  ASSUME PyObjectsAssumption, NEW i \in Int, Fits(i)
  PROVE  Word(i) = i % 2^WordBits
<1> DEFINE m == 2^WordBits
<1>1. m \in Nat \ {0}
  <2>1. m \in Nat /\ 2^(WordBits - 1) \in 0 .. (m - 1)
    BY DEF PyObjectsAssumption
  <2> HIDE DEF m
  <2> QED  BY <2>1
<1>2. IsInRange(i)
  BY Conversions
<1>3. Word(i) = IF 0 <= i /\ i < m THEN i ELSE i % m
  BY <1>2, Conversions
<1> HIDE DEF m
<1>4. 0 <= i /\ i < m => i % m = i
  <2> DEFINE d == i \div m
             r == i % m
  <2>1. d = i \div m /\ r = i % m
    OBVIOUS
  <2> HIDE DEF d, r
  <2>2. SUFFICES ASSUME 0 <= i, i < m PROVE r = i
    BY <2>1
  <2>3. m \in Nat \ {0} /\ i \in 0 .. (m - 1) /\ i = 0 * m + i
    BY <1>1, <2>2
  <2> QED  BY <2>1, <2>3, Remainder
<1> QED  BY <1>3, <1>4 DEF m

(* A step of one thread leaves alone where the others are and what they read. *)
OthersKeep(t) ==
  /\ UNCHANGED <<freeThreaded, dict>>
  /\ \A u \in Threads \ {t} :
       pc'[u] = pc[u] /\ copy'[u] = copy[u] /\ read'[u] = read[u] /\ size'[u] = size[u]

Opens(t) == New(t) \/ FromBytes(t) \/ FromBuffer(t) \/ OpenFails(t) \/ OpenDone(t)

Hands(t) == BuildMap(t) \/ BeginInstall(t) \/ FinishInstall(t) \/ Discard(t)

Refers(t) == Drop(t) \/ \E u \in Threads : Share(t, u)

LEMMA StepKeeps ==
  ASSUME ReadInv, pc \in [Threads -> Labels], NEW t \in Threads,
         Moves(t) \/ Returns(t) \/ Opens(t) \/ Hands(t) \/ Refers(t)
  PROVE  OthersKeep(t)
<1>1. DOMAIN copy = Threads /\ DOMAIN read = Threads /\ DOMAIN size = Threads /\ DOMAIN pc = Threads
  BY DEF ReadInv
<1>2. ASSUME \E what : Return(t, what) PROVE OthersKeep(t)
  BY <1>1, <1>2 DEF Return, Goto, world, OthersKeep
<1>3. CASE Moves(t)
  <2>1. CASE TakeDict(t) \/ Allocate(t) \/ ReadEntry(t) \/ EndRead(t)
    BY <1>1, <2>1 DEF TakeDict, Allocate, ReadEntry, EndRead, Goto, world, locals, OthersKeep
  <2>2. CASE BeginGet(t) \/ BeginBatch(t) \/ TakeOut(t)
    BY <1>1, <2>2 DEF BeginGet, BeginBatch, TakeOut, Goto, world, locals, OthersKeep
  <2>3. CASE BatchChunk(t)
    <3>1. UNCHANGED <<freeThreaded, dict, pc, copy, size>> /\ \E r : read' = [read EXCEPT ![t] = r]
      BY <2>3 DEF BatchChunk, world
    <3> QED  BY <1>1, <3>1 DEF OthersKeep
  <2> QED  BY <1>3, <2>1, <2>2, <2>3 DEF Moves
<1>4. CASE Returns(t)
  BY <1>2, <1>4 DEF Returns, RefuseArguments, NoRoom, RefuseEntry, BuildFails, EndGet, NoOut,
                    BatchRefused, EndBatch, Raise
<1>5. CASE Opens(t)
  <2>1. CASE New(t) \/ FromBytes(t) \/ FromBuffer(t)
    BY <1>1, <2>1 DEF New, FromBytes, FromBuffer, Goto, world, locals, OthersKeep
  <2>2. CASE OpenFails(t) \/ OpenDone(t)
    BY <1>2, <2>2 DEF OpenFails, OpenDone, Raise
  <2> QED  BY <1>5, <2>1, <2>2 DEF Opens
<1>6. CASE Hands(t)
  <2>1. CASE BuildMap(t) \/ BeginInstall(t)
    BY <1>1, <2>1 DEF BuildMap, BeginInstall, Goto, world, locals, OthersKeep
  <2>2. CASE FinishInstall(t) \/ Discard(t)
    BY <1>2, <2>2 DEF FinishInstall, Discard, Raise
  <2> QED  BY <1>6, <2>1, <2>2 DEF Hands
<1>7. CASE Refers(t)
  BY <1>7 DEF Refers, Drop, Share, world, locals, OthersKeep
<1> QED  BY <1>3, <1>4, <1>5, <1>6, <1>7

(* Other threads' parts of the invariant are about what is left alone.       *)
LEMMA OneDictStep ==
  ASSUME NEW t \in Threads, \A u \in Threads : OneDictOf(u), OthersKeep(t), OneDictOf(t)'
  PROVE  \A u \in Threads : OneDictOf(u)'
<1>1. ASSUME NEW u \in Threads \ {t} PROVE OneDictOf(u)'
  <2>1. OneDictOf(u)
    OBVIOUS
  <2> QED  BY <2>1 DEF OneDictOf, ReadsOf, Entries, OthersKeep
<1> QED  BY <1>1

(* A thread that is not in __init__, or has it over, has read nothing yet.   *)
LEMMA NotReading ==
  ASSUME pc \in [Threads -> Labels], NEW t \in Threads,
         \/ BeginGet(t) \/ BeginBatch(t) \/ TakeOut(t) \/ BatchChunk(t)
         \/ Returns(t) \/ Opens(t) \/ Hands(t) \/ Refers(t)
  PROVE  OneDictOf(t)'
<1>1. ASSUME \E what : Return(t, what) PROVE pc'[t] = "idle"
  BY <1>1 DEF Return, Goto
<1>2. CASE BeginGet(t) \/ BeginBatch(t) \/ TakeOut(t) \/ BatchChunk(t)
  <2>1. pc'[t] \in {"getting", "sizing", "batch"}
    BY <1>2 DEF BeginGet, BeginBatch, TakeOut, BatchChunk, At, Goto
  <2> QED  BY <2>1 DEF OneDictOf
<1>3. CASE Returns(t)
  <2>1. \E what : Return(t, what)
    BY <1>3 DEF Returns, RefuseArguments, NoRoom, RefuseEntry, BuildFails, EndGet, NoOut,
                BatchRefused, EndBatch, Raise
  <2> QED  BY <1>1, <2>1 DEF OneDictOf
<1>4. CASE Opens(t)
  <2>1. CASE New(t) \/ FromBytes(t) \/ FromBuffer(t)
    <3>1. pc'[t] \in {"idle", "opening"}
      BY <2>1 DEF New, FromBytes, FromBuffer, At, Goto
    <3> QED  BY <3>1 DEF OneDictOf
  <2>2. CASE OpenFails(t) \/ OpenDone(t)
    <3>1. \E what : Return(t, what)
      BY <2>2 DEF OpenFails, OpenDone, Raise
    <3> QED  BY <1>1, <3>1 DEF OneDictOf
  <2> QED  BY <1>4, <2>1, <2>2 DEF Opens
<1>5. CASE Hands(t)
  <2>1. CASE BuildMap(t) \/ BeginInstall(t)
    <3>1. pc'[t] \in {"built", "copying"}
      BY <2>1 DEF BuildMap, BeginInstall, Goto
    <3> QED  BY <3>1 DEF OneDictOf
  <2>2. CASE FinishInstall(t) \/ Discard(t)
    <3>1. \E what : Return(t, what)
      BY <2>2 DEF FinishInstall, Discard, Raise
    <3> QED  BY <1>1, <3>1 DEF OneDictOf
  <2> QED  BY <1>5, <2>1, <2>2 DEF Hands
<1>6. CASE Refers(t)
  <2>1. pc'[t] = "idle"
    BY <1>6 DEF Refers, Drop, Share, Call, At
  <2> QED  BY <2>1 DEF OneDictOf
<1> QED  BY <1>2, <1>3, <1>4, <1>5, <1>6

(* A thread in __init__ reads on in the same dict. *)
LEMMA OneDictReads ==
  ASSUME PyObjectsAssumption, RefsInv, ReadInv, NEW t \in Threads, OneDictOf(t),
         TakeDict(t) \/ Allocate(t) \/ ReadEntry(t) \/ EndRead(t)
  PROVE  OneDictOf(t)'
<1>1. /\ DOMAIN copy = Threads /\ DOMAIN read = Threads /\ DOMAIN size = Threads
      /\ DOMAIN pc = Threads /\ ReadOf(t) /\ dict \in Dicts
      /\ UNCHANGED <<freeThreaded, dict>>
  BY DEF RefsInv, ReadInv, TakeDict, Allocate, ReadEntry, EndRead, world
<1>2. \A d \in Dicts : d \in Seq([key : [kind : STRING, text : STRING],
                                  value : [kind : STRING, number : Int]])
  BY DEF PyObjectsAssumption
<1>3. CASE TakeDict(t)
  <2>1. /\ pc[t] = "idle" /\ pc'[t] = "sized" /\ read'[t] = read[t] /\ size'[t] = Len(dict)
        /\ copy'[t] = IF freeThreaded THEN dict ELSE << >>
    BY <1>1, <1>3 DEF TakeDict, Call, At, Goto, shared
  <2>2. Entries(t)' = dict /\ read'[t] = << >>
    BY <1>1, <2>1 DEF Entries, ReadOf
  <2>3. Len(dict) \in Nat
    BY <1>1, <1>2
  <2>4. ReadsOf(t, Entries(t))'
    BY <2>1, <2>2, <2>3 DEF ReadsOf
  <2> QED  BY <2>1, <2>4 DEF OneDictOf
<1>4. CASE Allocate(t)
  <2>1. pc[t] = "sized" /\ pc'[t] = "reading" /\ UNCHANGED <<copy, read, size>>
    BY <1>1, <1>4 DEF Allocate, At, Goto, locals
  <2> QED  BY <1>1, <2>1 DEF OneDictOf, ReadsOf, Entries
<1>5. CASE ReadEntry(t)
  <2> DEFINE e == Entries(t)
             n == Len(read[t])
             w == <<e[n + 1].key, Word(e[n + 1].value.number)>>
  <2>1. /\ pc[t] = "reading" /\ n < Len(e) /\ IsGood(e[n + 1])
        /\ read' = [read EXCEPT ![t] = Append(read[t], w)]
        /\ UNCHANGED <<pc, copy, size>>
    BY <1>5 DEF ReadEntry, MoreEntries, At, NextEntry
  <2>2. /\ e \in Dicts /\ read[t] \in Seq([kind : STRING, text : STRING] \X Nat)
        /\ size[t] = Len(e) /\ n <= Len(e)
        /\ \A k \in DOMAIN read[t] :
             IsGood(e[k]) /\ read[t][k] = <<e[k].key, Word(e[k].value.number)>>
    BY <1>1, <2>1 DEF ReadOf, OneDictOf, ReadsOf
  <2>3. read'[t] = Append(read[t], w) /\ Entries(t)' = e
    BY <1>1, <2>1 DEF Entries
  <2>4. /\ n \in Nat /\ Len(e) \in Nat /\ DOMAIN read[t] = 1 .. n
        /\ Len(read'[t]) = n + 1 /\ DOMAIN read'[t] = 1 .. (n + 1)
        /\ \A k \in 1 .. n : read'[t][k] = read[t][k]
        /\ read'[t][n + 1] = w
    <3>1. n \in Nat /\ DOMAIN read[t] = 1 .. n
      BY <2>2
    <3>2. Len(e) \in Nat
      BY <1>2, <2>2
    <3> HIDE DEF w
    <3> QED  BY <2>2, <2>3, <3>1, <3>2
  <2>5. \A k \in 1 .. (n + 1) :
          IsGood(e[k]) /\ read'[t][k] = <<e[k].key, Word(e[k].value.number)>>
    <3>1. SUFFICES ASSUME NEW k \in 1 .. (n + 1)
                   PROVE  IsGood(e[k]) /\ read'[t][k] = <<e[k].key, Word(e[k].value.number)>>
      OBVIOUS
    <3>2. k \in 1 .. n \/ k = n + 1
      BY <2>4
    <3> HIDE DEF e, n
    <3>3. CASE k \in 1 .. n
      BY ONLY <2>2, <2>4, <3>3
    <3>4. CASE k = n + 1
      BY <2>1, <2>4, <3>4
    <3> QED  BY <3>2, <3>3, <3>4
  <2>6. n + 1 <= Len(e)
    BY <2>1, <2>4
  <2>7. ReadsOf(t, Entries(t))'
    BY <2>1, <2>2, <2>3, <2>4, <2>5, <2>6 DEF ReadsOf
  <2> QED  BY <2>1, <2>7 DEF OneDictOf
<1>6. CASE EndRead(t)
  <2> DEFINE e == Entries(t)
  <2>1. /\ pc[t] = "reading" /\ Len(read[t]) >= Len(e)
        /\ pc'[t] = "building" /\ UNCHANGED <<read, size>>
    BY <1>1, <1>6 DEF EndRead, At, Goto
  <2>2. /\ e \in Dicts /\ read[t] \in Seq([kind : STRING, text : STRING] \X Nat)
        /\ ReadsOf(t, e)
    BY <1>1, <2>1 DEF ReadOf, OneDictOf
  <2>3. Len(read[t]) = Len(e)
    <3>1. Len(read[t]) \in Nat /\ Len(read[t]) <= Len(e)
      BY <2>2 DEF ReadsOf
    <3>2. Len(e) \in Nat
      BY <1>2, <2>2
    <3> QED  BY <2>1, <3>1, <3>2
  <2> HIDE DEF e
  <2>4. \E d \in Dicts : ReadsOf(t, d)' /\ Len(read'[t]) = Len(d)
    <3>1. Len(read'[t]) = Len(e)
      BY <2>1, <2>3
    <3>2. \A d : ReadsOf(t, d) => ReadsOf(t, d)'
      BY <2>1 DEF ReadsOf
    <3> QED  BY <2>2, <3>1, <3>2
  <2> QED  BY <2>1, <2>4 DEF OneDictOf
<1> QED  BY <1>3, <1>4, <1>5, <1>6

(* Without other code in allocations, a dict changes while a thread reads it  *)
(* only if the thread reads a copy.                                         *)
LEMMA OneDictOthers ==
  ASSUME ~ Reentrant, ReadInv, \A t \in Threads : OneDictOf(t),
         CloseBuffer \/ Changes \/ UNCHANGED vars
  PROVE  \A t \in Threads : OneDictOf(t)'
<1>1. UNCHANGED <<freeThreaded, pc, copy, read, size>>
  BY DEF CloseBuffer, Changes, vars, world, locals
<1>2. freeThreaded \/ dict' = dict \/ \A t \in Threads : pc[t] \in {"idle", "building"}
  BY DEF CloseBuffer, Changes, vars, world, OthersRun, Outside
<1>3. ASSUME NEW t \in Threads PROVE OneDictOf(t)'
  <2>1. OneDictOf(t) /\ freeThreaded \in BOOLEAN
    BY DEF ReadInv
  <2>2. pc[t] \in {"sized", "reading"} => Entries(t)' = Entries(t)
    BY <1>1, <1>2, <2>1 DEF Entries
  <2> QED  BY <1>1, <2>1, <2>2 DEF OneDictOf, ReadsOf
<1> QED  BY <1>3

(* The core reads what was read: the keys are kept while it runs.            *)
LEMMA GivenIsOneDict ==
  ASSUME PyObjectsAssumption, ReadInv, NEW t \in Threads, pc[t] = "building", OneDictOf(t)
  PROVE  IsOneDict(Given(t))
<1>1. PICK d \in Dicts : ReadsOf(t, d) /\ Len(read[t]) = Len(d)
  BY DEF OneDictOf
<1>2. d \in Seq([key : [kind : STRING, text : STRING], value : [kind : STRING, number : Int]])
  BY DEF PyObjectsAssumption
<1>3. read[t] \in Seq([kind : STRING, text : STRING] \X Nat)
  BY DEF ReadInv, ReadOf
<1>4. /\ Len(d) \in Nat /\ DOMAIN d = 1 .. Len(d) /\ DOMAIN read[t] = 1 .. Len(d)
      /\ size[t] = Len(d)
  BY <1>1, <1>2, <1>3 DEF ReadsOf
<1>5. \A k \in DOMAIN d :
        IsGood(d[k]) /\ read[t][k] = <<d[k].key, Word(d[k].value.number)>>
  BY <1>1, <1>4 DEF ReadsOf
<1>6. \A k \in 1 .. Len(d) : Word(d[k].value.number) = d[k].value.number % 2^WordBits
  <2>1. SUFFICES ASSUME NEW k \in 1 .. Len(d)
                 PROVE  Word(d[k].value.number) = d[k].value.number % 2^WordBits
    OBVIOUS
  <2>2. d[k] \in [key : [kind : STRING, text : STRING], value : [kind : STRING, number : Int]]
    <3>1. \A R : \A s \in Seq(R) : \A j \in 1 .. Len(s) : s[j] \in R
      OBVIOUS
    <3> QED  BY ONLY <1>2, <2>1, <3>1
  <2>3. d[k].value.number \in Int /\ Fits(d[k].value.number)
    BY <1>4, <1>5, <2>2 DEF IsGood
  <2> QED  BY <2>3, WordIsModulo
<1>7. \A k \in 1 .. Len(d) : k \in DOMAIN read[t] /\ IsAlive(t, read[t][k][1])
  BY <1>4 DEF IsAlive, Kept
<1>8. \A k \in 1 .. Len(d) : Given(t)[k] = <<read[t][k][1].text, read[t][k][2]>>
  BY <1>4, <1>7 DEF Given
<1>9. \A k \in 1 .. Len(d) : /\ read[t][k][1].text = d[k].key.text
                             /\ read[t][k][2] = d[k].value.number % 2^WordBits
  <2>1. SUFFICES ASSUME NEW k \in 1 .. Len(d)
                 PROVE  /\ read[t][k][1].text = d[k].key.text
                        /\ read[t][k][2] = d[k].value.number % 2^WordBits
    OBVIOUS
  <2>2. k \in DOMAIN d
    BY <1>4
  <2>3. read[t][k] = <<d[k].key, Word(d[k].value.number)>>
    BY ONLY <1>5, <2>2
  <2>4. Word(d[k].value.number) = d[k].value.number % 2^WordBits
    BY ONLY <1>6, <2>1
  <2> QED  BY ONLY <2>3, <2>4
<1>10. \A k \in DOMAIN d : Given(t)[k] = <<d[k].key.text, d[k].value.number % 2^WordBits>>
  BY ONLY <1>4, <1>8, <1>9
<1>11. Given(t) = WordsOf(d)
  <2> DEFINE g == Given(t)
             D == DOMAIN d
  <2>1. g = [k \in 1 .. Len(d) |-> g[k]]
    <3>1. size[t] = Len(d)
      BY <1>4
    <3>2. Given(t) = [k \in 1 .. size[t] |-> Given(t)[k]]
      BY ONLY DEF Given
    <3> QED  BY ONLY <3>1, <3>2
  <2>2. D = 1 .. Len(d) /\ \A k \in D : g[k] = <<d[k].key.text, d[k].value.number % 2^WordBits>>
    BY <1>4, <1>10
  <2> HIDE DEF g, D
  <2>3. g = [k \in D |-> <<d[k].key.text, d[k].value.number % 2^WordBits>>]
    BY ONLY <2>1, <2>2
  <2> QED  BY <2>3 DEF g, D, WordsOf
<1>12. \A k \in DOMAIN d : IsAllowed(d[k])
  BY <1>4, <1>5, EntriesAreTyped, GoodIsAllowed
<1> QED  BY <1>11, <1>12 DEF IsOneDict

(* The heap changes by a map that is built, stored or freed.                 *)
LEMMA HeapSteps ==
  ASSUME HoldersInv, [Next]_vars
  PROVE  \/ heap' = heap
         \/ \E i \in DOMAIN heap : heap' = [heap EXCEPT ![i] = Freed]
         \/ heap' = Append(heap, Stored)
         \/ \E t \in Threads : BuildMap(t)
<1>1. CASE UNCHANGED vars \/ CloseBuffer \/ Changes
  BY <1>1 DEF vars, CloseBuffer, Changes, shared
<1>2. CASE \E t \in Threads : Moves(t) \/ Returns(t)
  <2>1. PICK t \in Threads : Moves(t) \/ Returns(t)
    BY <1>2
  <2>2. CASE Moves(t)
    BY <2>2 DEF Moves, TakeDict, Allocate, ReadEntry, EndRead, BeginGet, BeginBatch, TakeOut,
                BatchChunk, shared
  <2>3. CASE Returns(t)
    BY <2>3 DEF Returns, RefuseArguments, NoRoom, RefuseEntry, BuildFails, EndGet, NoOut,
                BatchRefused, EndBatch, shared
  <2> QED  BY <2>1, <2>2, <2>3
<1>3. CASE \E t \in Threads : Opens(t)
  BY <1>3 DEF Opens, New, FromBytes, FromBuffer, OpenFails, OpenDone
<1>4. CASE \E t \in Threads : Hands(t)
  <2>1. PICK t \in Threads : Hands(t)
    BY <1>4
  <2>2. CASE BuildMap(t)
    BY <2>2
  <2>3. CASE BeginInstall(t) \/ FinishInstall(t)
    BY <2>3 DEF BeginInstall, FinishInstall, shared
  <2>4. CASE Discard(t)
    <3>1. pc[t] = "built" /\ heap' = [heap EXCEPT ![built[t]] = Freed]
      BY <2>4 DEF Discard, Enter, At
    <3>2. built[t] \in DOMAIN heap
      BY <3>1 DEF HoldersInv, StructInv, Null
    <3> QED  BY <3>1, <3>2
  <2> QED  BY <2>1, <2>2, <2>3, <2>4 DEF Hands
<1>5. CASE \E t \in Threads : Refers(t)
  BY <1>5 DEF Refers, Drop, Share
<1> QED  BY <1>1, <1>2, <1>3, <1>4, <1>5 DEF Next, Moves, Returns, Opens, Hands, Refers

(* And only what the core built, or what was stored, comes to be a map.      *)
LEMMA HeapOneDict ==
  ASSUME PyObjectsAssumption, HoldersInv, ReadInv, OneDictInv, [Next]_vars
  PROVE  \A i \in DOMAIN heap' : IsOneDict(heap'[i])
<1>1. /\ heap \in Seq(Contents) /\ \A i \in DOMAIN heap : IsOneDict(heap[i])
      /\ \A t \in Threads : OneDictOf(t)
  BY DEF HoldersInv, StructInv, OneDictInv
<1>2. \/ heap' = heap
      \/ \E i \in DOMAIN heap : heap' = [heap EXCEPT ![i] = Freed]
      \/ heap' = Append(heap, Stored)
      \/ \E t \in Threads : pc[t] = "building" /\ heap' = Append(heap, Given(t))
  <2>1. \A t \in Threads : BuildMap(t) => pc[t] = "building" /\ heap' = Append(heap, Given(t))
    BY DEF BuildMap, At
  <2> QED  BY <2>1, HeapSteps
<1>3. CASE heap' = heap
  BY <1>1, <1>3
<1>4. CASE \E i \in DOMAIN heap : heap' = [heap EXCEPT ![i] = Freed]
  <2>1. PICK i \in DOMAIN heap : heap' = [heap EXCEPT ![i] = Freed]
    BY <1>4
  <2>2. /\ DOMAIN heap' = DOMAIN heap /\ heap'[i] = Freed
        /\ \A j \in DOMAIN heap \ {i} : heap'[j] = heap[j]
    BY <1>1, <2>1, HeapFrees
  <2>3. IsOneDict(Freed)
    BY DEF IsOneDict
  <2> QED  BY <1>1, <2>2, <2>3
<1>5. ASSUME NEW map \in Contents, heap' = Append(heap, map), IsOneDict(map)
      PROVE  \A i \in DOMAIN heap' : IsOneDict(heap'[i])
  <2>1. /\ Len(heap) \in Nat /\ DOMAIN heap = 1 .. Len(heap)
        /\ DOMAIN heap' = 1 .. (Len(heap) + 1)
        /\ \A i \in DOMAIN heap : heap'[i] = heap[i]
        /\ heap'[Len(heap) + 1] = map
    BY <1>1, <1>5, HeapGrows
  <2>2. \A i \in DOMAIN heap' : i \in DOMAIN heap \/ i = Len(heap) + 1
    BY <2>1
  <2> QED  BY <1>1, <1>5, <2>1, <2>2
<1>6. CASE heap' = Append(heap, Stored)
  <2>1. IsOneDict(Stored)
    BY DEF IsOneDict
  <2> QED  BY <2>1, <1>5, <1>6, StoredIsContents
<1>7. CASE \E t \in Threads : pc[t] = "building" /\ heap' = Append(heap, Given(t))
  <2>1. PICK t \in Threads : pc[t] = "building" /\ heap' = Append(heap, Given(t))
    BY <1>7
  <2>2. Given(t) \in Contents /\ IsOneDict(Given(t))
    BY <1>1, <2>1, GivenIsContents, GivenIsOneDict
  <2> QED  BY <2>1, <2>2, <1>5
<1> QED  BY <1>2, <1>3, <1>4, <1>6, <1>7

LEMMA OneDictNext ==
  ASSUME PyObjectsAssumption, ~ Reentrant, HoldersInv, ReadInv, OneDictInv, [Next]_vars
  PROVE  OneDictInv'
<1>1. /\ pc \in [Threads -> Labels] /\ RefsInv /\ \A t \in Threads : OneDictOf(t)
  BY DEF HoldersInv, RefsInv, OneDictInv
<1>2. \A t \in Threads : OneDictOf(t)'
  <2>1. CASE CloseBuffer \/ Changes \/ UNCHANGED vars
    BY <1>1, <2>1, OneDictOthers
  <2>2. CASE \E t \in Threads : Moves(t) \/ Returns(t) \/ Opens(t) \/ Hands(t) \/ Refers(t)
    <3>1. PICK t \in Threads : Moves(t) \/ Returns(t) \/ Opens(t) \/ Hands(t) \/ Refers(t)
      BY <2>2
    <3>2. OthersKeep(t)
      BY <1>1, <3>1, StepKeeps
    <3>3. OneDictOf(t)'
      <4>1. CASE TakeDict(t) \/ Allocate(t) \/ ReadEntry(t) \/ EndRead(t)
        BY <1>1, <4>1, OneDictReads
      <4>2. CASE ~ (TakeDict(t) \/ Allocate(t) \/ ReadEntry(t) \/ EndRead(t))
        <5>1. \/ BeginGet(t) \/ BeginBatch(t) \/ TakeOut(t) \/ BatchChunk(t)
              \/ Returns(t) \/ Opens(t) \/ Hands(t) \/ Refers(t)
          BY <3>1, <4>2 DEF Moves
        <5> QED  BY <1>1, <5>1, NotReading
      <4> QED  BY <4>1, <4>2
    <3> QED  BY <1>1, <3>2, <3>3, OneDictStep
  <2> QED  BY <2>1, <2>2 DEF Next, Moves, Returns, Opens, Hands, Refers
<1>3. \A i \in DOMAIN heap' : IsOneDict(heap'[i])
  BY HeapOneDict
<1> QED  BY <1>2, <1>3 DEF OneDictInv

LEMMA OneDictInit == Init => OneDictInv
<1>1. SUFFICES ASSUME Init PROVE OneDictInv
  OBVIOUS
<1>2. heap = << >> /\ \A t \in Threads : pc[t] = "idle"
  BY <1>1 DEF Init
<1> QED  BY <1>2 DEF OneDictInv, OneDictOf

LEMMA OneDictImplies ==
  ASSUME OneDictInv
  PROVE  BuildsFromOneDict
<1>1. \A t \in Threads : pc[t] = "building" => Len(read[t]) = size[t]
  BY DEF OneDictInv, OneDictOf, ReadsOf
<1>2. ASSUME NEW i \in DOMAIN heap
      PROVE  \/ heap[i] \in {Freed, Stored}
             \/ \E d \in Dicts : (\A k \in DOMAIN d : IsAllowed(d[k])) /\ heap[i] = WordsOf(d)
  <2>1. IsOneDict(heap[i])
    BY DEF OneDictInv
  <2> QED  BY <2>1 DEF IsOneDict
<1> QED  BY <1>1, <1>2 DEF BuildsFromOneDict

(* Where no other code runs in the allocations of this layer, every map that   *)
(* was built is what one state of the dict said, every value reduced to a      *)
(* word, although other threads change the dict and drop its keys.           *)
THEOREM MapsOfOneDict ==
  ASSUME ~ Reentrant
  PROVE  Spec => []BuildsFromOneDict
<1>1. PyObjectsAssumption
  BY PyObjectsAssumption
<1>2. Init => HoldersInv /\ ReadInv /\ OneDictInv
  BY <1>1, HoldersInit, ReadInit, OneDictInit
<1>3. (HoldersInv /\ ReadInv /\ OneDictInv) /\ [Next]_vars => (HoldersInv /\ ReadInv /\ OneDictInv)'
  <2>1. SUFFICES ASSUME HoldersInv, ReadInv, OneDictInv, [Next]_vars
                 PROVE  HoldersInv' /\ ReadInv' /\ OneDictInv'
    OBVIOUS
  <2>2. HoldersInv' /\ ReadInv'
    BY <1>1, <2>1, HeldStep
  <2>3. OneDictInv'
    BY <1>1, <2>1, OneDictNext, ~ Reentrant
  <2> QED  BY <2>2, <2>3
<1>4. HoldersInv /\ ReadInv /\ OneDictInv => BuildsFromOneDict
  BY OneDictImplies
<1> QED  BY <1>2, <1>3, <1>4, PTL DEF Spec

-----------------------------------------------------------------------------
(* What lookups have found. *)

LEMMA FoundInit == Init => FoundInv
<1> SUFFICES ASSUME Init PROVE FoundInv
  OBVIOUS
<1>1. /\ class \in {"constmap", "verified"} /\ known = FALSE /\ object = "none"
      /\ after = [t \in Threads |-> FALSE] /\ points = [t \in Threads |-> Null]
      /\ heap = << >> /\ \A t \in Threads : pc[t] = "idle"
  BY DEF Init
<1>2. known \in BOOLEAN /\ after \in [Threads -> BOOLEAN] /\ DOMAIN points = Threads
  BY <1>1
<1>3. \A t \in Threads : FoundBy(t)
  BY <1>1 DEF FoundBy
<1>4. DOMAIN heap = {}
  BY <1>1
<1> QED  BY <1>1, <1>2, <1>3, <1>4 DEF FoundInv

(* What a step of one thread does to the state of lookups. *)
LookupsKeep(t) ==
  /\ class' = class
  /\ after' = after \/ \E b \in BOOLEAN : after' = [after EXCEPT ![t] = b]
  /\ points' = points \/ \E p : points' = [points EXCEPT ![t] = p]
  /\ \A u \in Threads \ {t} : pc'[u] = pc[u]

LEMMA ReturnLookups ==
  ASSUME pc \in [Threads -> Labels], NEW t \in Threads, NEW what, Return(t, what)
  PROVE  LookupsKeep(t) /\ pc'[t] # "getting"
BY DEF Return, Goto, world, LookupsKeep

LEMMA StepLookups ==
  ASSUME known \in BOOLEAN, pc \in [Threads -> Labels], NEW t \in Threads,
         Moves(t) \/ Returns(t) \/ Opens(t) \/ Hands(t) \/ Refers(t)
  PROVE  LookupsKeep(t) /\ (pc'[t] = "getting" => BeginGet(t))
<1>1. CASE Moves(t)
  <2>1. CASE TakeDict(t) \/ Allocate(t) \/ EndRead(t) \/ BeginGet(t) \/ BeginBatch(t) \/ TakeOut(t)
    BY <2>1 DEF TakeDict, Allocate, EndRead, BeginGet, BeginBatch, TakeOut, Goto, world, locals,
                LookupsKeep
  <2>2. CASE ReadEntry(t)
    BY <2>2 DEF ReadEntry, MoreEntries, At, world, LookupsKeep
  <2>3. CASE BatchChunk(t)
    <3>1. UNCHANGED <<class, pc, points, after>> /\ pc[t] = "batch"
      BY <2>3 DEF BatchChunk, At, world
    <3> QED  BY <3>1 DEF LookupsKeep
  <2> QED  BY <1>1, <2>1, <2>2, <2>3 DEF Moves
<1>2. CASE Returns(t)
  <2>1. \E what : Return(t, what)
    BY <1>2 DEF Returns, RefuseArguments, NoRoom, RefuseEntry, BuildFails, EndGet, NoOut,
                BatchRefused, EndBatch, Raise
  <2> QED  BY <2>1, ReturnLookups
<1>3. CASE Opens(t)
  <2>1. CASE New(t) \/ FromBytes(t) \/ FromBuffer(t)
    BY <2>1 DEF New, FromBytes, FromBuffer, At, Goto, world, locals, LookupsKeep
  <2>2. CASE OpenFails(t) \/ OpenDone(t)
    <3>1. \E what : Return(t, what)
      BY <2>2 DEF OpenFails, OpenDone, Raise
    <3> QED  BY <3>1, ReturnLookups
  <2> QED  BY <1>3, <2>1, <2>2 DEF Opens
<1>4. CASE Hands(t)
  <2>1. CASE BuildMap(t) \/ BeginInstall(t)
    BY <2>1 DEF BuildMap, BeginInstall, Goto, world, locals, LookupsKeep
  <2>2. CASE FinishInstall(t) \/ Discard(t)
    <3>1. \E what : Return(t, what)
      BY <2>2 DEF FinishInstall, Discard, Raise
    <3> QED  BY <3>1, ReturnLookups
  <2> QED  BY <1>4, <2>1, <2>2 DEF Hands
<1>5. CASE Refers(t)
  BY <1>5 DEF Refers, Drop, Share, Call, At, world, locals, LookupsKeep
<1> QED  BY <1>1, <1>2, <1>3, <1>4, <1>5

(* What a step does to the object: most leave it alone. *)
LeavesAlone == UNCHANGED <<object, struct>> /\ known' = known

(* A map is put into an object that has none. *)
Fills ==
  /\ object \in {"none", "opening", "fresh"}
  /\ object' = "ready"
  /\ known' = TRUE
  /\ struct' # Null
  /\ \/ struct' = InBuffer /\ heap' = heap
     \/ struct' \in DOMAIN heap' /\ heap'[struct'] # Freed

(* The last reference to the object is dropped. *)
Loses ==
  /\ object \in {"fresh", "ready"}
  /\ object' = "gone"
  /\ struct' = Null
  /\ known' = known
  /\ \A t \in Threads : pc[t] = "idle" /\ pc'[t] = "idle"

(* The object comes and goes without a map, or turns out to have one. *)
StaysUnset ==
  /\ object \in {"none", "opening"} /\ object' \in {"none", "opening", "fresh"}
  /\ struct' = struct /\ known' = known

TurnsOut ==
  /\ object = "ready"
  /\ UNCHANGED <<object, struct>>
  /\ known' = TRUE

LEMMA StepObject ==
  ASSUME HoldersInv, HoldersInv', [Next]_vars
  PROVE  LeavesAlone \/ Fills \/ Loses \/ StaysUnset \/ TurnsOut
<1>1. CASE CloseBuffer \/ Changes \/ UNCHANGED vars
  BY <1>1 DEF CloseBuffer, Changes, vars, shared, LeavesAlone
<1>2. CASE \E t \in Threads : Moves(t)
  BY <1>2 DEF Moves, TakeDict, Allocate, ReadEntry, EndRead, BeginGet, BeginBatch, TakeOut,
              BatchChunk, shared, LeavesAlone
<1>3. CASE \E t \in Threads : Returns(t)
  BY <1>3 DEF Returns, RefuseArguments, NoRoom, RefuseEntry, BuildFails, EndGet, NoOut,
              BatchRefused, EndBatch, shared, LeavesAlone
<1>4. CASE \E t \in Threads : Opens(t)
  <2>1. PICK t \in Threads : Opens(t)
    BY <1>4
  <2>2. CASE New(t)
    BY <2>2 DEF New, StaysUnset
  <2>3. CASE FromBuffer(t)
    BY <2>3 DEF FromBuffer, StaysUnset
  <2>4. CASE OpenFails(t)
    <3>1. object = "opening"
      BY <2>4 DEF OpenFails, At, HoldersInv, RefsInv
    <3> QED  BY <2>4, <3>1 DEF OpenFails, StaysUnset
  <2>5. CASE OpenDone(t)
    <3>1. object = "opening"
      BY <2>5 DEF OpenDone, At, HoldersInv, RefsInv
    <3> QED  BY <2>5, <3>1 DEF OpenDone, Fills, InBuffer, Null
  <2>6. CASE FromBytes(t)
    <3>1. object = "none" /\ object' = "ready" /\ known' = TRUE /\ struct' = Len(heap) + 1 /\ heap' = Append(heap, Stored)
      BY <2>6 DEF FromBytes
    <3>2. heap \in Seq(Contents)
      BY DEF HoldersInv, StructInv
    <3>3. struct' # Null /\ struct' \in DOMAIN heap'
      BY <3>1, <3>2 DEF Null
    <3>4. heap'[struct'] # Freed
      BY <3>3 DEF HoldersInv, HoldInv
    <3> QED  BY <3>1, <3>3, <3>4 DEF Fills
  <2> QED  BY <2>1, <2>2, <2>3, <2>4, <2>5, <2>6 DEF Opens
<1>5. CASE \E t \in Threads : Hands(t)
  <2>1. PICK t \in Threads : Hands(t)
    BY <1>5
  <2>2. CASE BuildMap(t) \/ BeginInstall(t)
    BY <2>2 DEF BuildMap, BeginInstall, shared, LeavesAlone
  <2>3. CASE FinishInstall(t)
    <3>1. pc[t] = "copying" /\ object' = "ready" /\ known' = TRUE /\ struct' = built[t] /\ heap' = heap
      BY <2>3 DEF FinishInstall, At
    <3>2. object = "fresh" /\ built[t] # Null /\ built[t] \in DOMAIN heap
      BY <3>1 DEF HoldersInv, StructInv, Null
    <3>3. heap'[struct'] # Freed
      BY <3>1, <3>2 DEF HoldersInv, HoldInv
    <3> QED  BY <3>1, <3>2, <3>3 DEF Fills
  <2>4. CASE Discard(t)
    <3>1. pc[t] = "built" /\ object # "fresh" /\ known' = TRUE /\ UNCHANGED <<object, struct>>
      BY <2>4 DEF Discard, Enter, At, FreeToInstall
    <3>2. object = "ready"
      BY <3>1 DEF HoldersInv, RefsInv
    <3> QED  BY <3>1, <3>2 DEF TurnsOut
  <2> QED  BY <2>1, <2>2, <2>3, <2>4 DEF Hands
<1>6. CASE \E t \in Threads : Refers(t)
  <2>1. PICK t \in Threads : Refers(t)
    BY <1>6
  <2>2. CASE \E u \in Threads : Share(t, u)
    BY <2>2 DEF Share, LeavesAlone
  <2>3. CASE Drop(t) /\ refs # {t}
    BY <2>3 DEF Drop, LeavesAlone
  <2>4. CASE Drop(t) /\ refs = {t}
    <3>1. pc[t] = "idle" /\ object' = "gone" /\ struct' = Null /\ known' = known /\ pc' = pc
      BY <2>4 DEF Drop, Call, At
    <3>2. object \in {"fresh", "ready"} /\ \A u \in Threads : pc[u] = "idle"
      BY <2>4, <3>1 DEF HoldersInv, RefsInv
    <3> QED  BY <3>1, <3>2 DEF Loses
  <2> QED  BY <2>1, <2>2, <2>3, <2>4 DEF Refers
<1> QED
  BY <1>1, <1>2, <1>3, <1>4, <1>5, <1>6 DEF Next, Moves, Returns, Opens, Hands, Refers

(* No map has a key twice: the core refuses one that would.                  *)
LEMMA NoDuplicates ==
  ASSUME PyObjectsAssumption, HoldersInv, ReadInv, FoundInv, [Next]_vars
  PROVE  \A i \in DOMAIN heap' : ~ HasDuplicate(heap'[i])
<1>1. heap \in Seq(Contents) /\ \A i \in DOMAIN heap : ~ HasDuplicate(heap[i])
  BY DEF HoldersInv, StructInv, FoundInv
<1>2. ~ HasDuplicate(Freed) /\ ~ HasDuplicate(Stored)
  <2>1. DOMAIN Freed = {1}
    BY DEF Freed
  <2> QED  BY <2>1 DEF HasDuplicate, PyObjectsAssumption
<1>3. \/ heap' = heap
      \/ \E i \in DOMAIN heap : heap' = [heap EXCEPT ![i] = Freed]
      \/ \E map \in Contents : heap' = Append(heap, map) /\ ~ HasDuplicate(map)
  <2>1. CASE \E t \in Threads : BuildMap(t)
    <3>1. PICK t \in Threads : BuildMap(t)
      BY <2>1
    <3>2. pc[t] = "building" /\ heap' = Append(heap, Given(t)) /\ ~ HasDuplicate(Given(t))
      BY <3>1 DEF BuildMap, At
    <3>3. Given(t) \in Contents
      BY <3>2, GivenIsContents
    <3> QED  BY <3>2, <3>3
  <2>2. CASE ~ \E t \in Threads : BuildMap(t)
    <3>1. \/ heap' = heap
          \/ \E i \in DOMAIN heap : heap' = [heap EXCEPT ![i] = Freed]
          \/ heap' = Append(heap, Stored)
      BY <2>2, HeapSteps
    <3> QED  BY <1>2, <3>1, StoredIsContents
  <2> QED  BY <2>1, <2>2
<1>4. CASE heap' = heap
  BY <1>1, <1>4
<1>5. CASE \E i \in DOMAIN heap : heap' = [heap EXCEPT ![i] = Freed]
  <2>1. PICK i \in DOMAIN heap : heap' = [heap EXCEPT ![i] = Freed]
    BY <1>5
  <2>2. /\ DOMAIN heap' = DOMAIN heap /\ heap'[i] = Freed
        /\ \A j \in DOMAIN heap \ {i} : heap'[j] = heap[j]
    BY <1>1, <2>1, HeapFrees
  <2> QED  BY <1>1, <1>2, <2>2
<1>6. CASE \E map \in Contents : heap' = Append(heap, map) /\ ~ HasDuplicate(map)
  <2>1. PICK map \in Contents : heap' = Append(heap, map) /\ ~ HasDuplicate(map)
    BY <1>6
  <2>2. /\ Len(heap) \in Nat /\ DOMAIN heap = 1 .. Len(heap)
        /\ DOMAIN heap' = 1 .. (Len(heap) + 1)
        /\ \A i \in DOMAIN heap : heap'[i] = heap[i]
        /\ heap'[Len(heap) + 1] = map
    BY <1>1, <2>1, HeapGrows
  <2>3. \A i \in DOMAIN heap' : i \in DOMAIN heap \/ i = Len(heap) + 1
    BY <2>2
  <2> QED  BY <1>1, <2>1, <2>2, <2>3
<1> QED  BY <1>3, <1>4, <1>5, <1>6

(* A lookup that begins now finds the struct as it is, if the object is       *)
(* known to have its entries: nobody copies into it any more.                *)
LEMMA BeginFinds ==
  ASSUME HoldersInv, FoundInv, NEW t \in Threads, BeginGet(t)
  PROVE  after'[t] => known' /\ points'[t] = struct'
<1>1. /\ after' = [after EXCEPT ![t] = known] /\ points' = [points EXCEPT ![t] = InStruct]
      /\ UNCHANGED <<struct, known>>
  BY DEF BeginGet, shared
<1>2. after'[t] = known /\ points'[t] = InStruct
  BY <1>1 DEF FoundInv
<1>3. ASSUME known PROVE InStruct = struct
  <2>1. object \in {"ready", "gone"}
    BY <1>3 DEF FoundInv
  <2>2. \A u \in Threads : pc[u] # "copying"
    BY <2>1 DEF HoldersInv, StructInv
  <2> QED  BY <2>2 DEF InStruct
<1> QED  BY <1>1, <1>2, <1>3

LEMMA FoundNext ==
  ASSUME PyObjectsAssumption, HoldersInv, HoldersInv', ReadInv, FoundInv, [Next]_vars
  PROVE  FoundInv'
<1>0. pc \in [Threads -> Labels]
  BY DEF HoldersInv, RefsInv
<1>1. \A i \in DOMAIN heap' : ~ HasDuplicate(heap'[i])
  BY NoDuplicates
<1>2. LeavesAlone \/ Fills \/ Loses \/ StaysUnset \/ TurnsOut
  BY StepObject
<1>3. known' \in BOOLEAN /\ (known => known')
  <2>1. known' = known \/ known' = TRUE
    BY <1>2 DEF LeavesAlone, Fills, Loses, StaysUnset, TurnsOut
  <2> QED  BY <2>1 DEF FoundInv
<1>4. known' => object' \in {"ready", "gone"}
  BY <1>2 DEF FoundInv, LeavesAlone, Fills, Loses, StaysUnset, TurnsOut
<1>5. object' = "ready" => struct' # Null
  BY <1>2 DEF FoundInv, LeavesAlone, Fills, Loses, StaysUnset, TurnsOut
<1>6. ASSUME NEW u \in Threads, FoundBy(u), pc'[u] = pc[u], after'[u] = after[u], points'[u] = points[u]
      PROVE  FoundBy(u)'
  <2>1. SUFFICES ASSUME pc[u] = "getting", after[u] PROVE known' /\ points[u] = struct'
    BY <1>6 DEF FoundBy
  <2>2. known /\ points[u] = struct /\ object \in {"ready", "gone"}
    BY <1>6, <2>1 DEF FoundBy, FoundInv
  <2>3. struct' = struct
    BY <1>2, <2>1, <2>2 DEF LeavesAlone, Fills, Loses, StaysUnset, TurnsOut
  <2> QED  BY <1>3, <2>2, <2>3
<1>7. /\ class' \in {"constmap", "verified"} /\ after' \in [Threads -> BOOLEAN]
      /\ DOMAIN points' = Threads /\ \A u \in Threads : FoundBy(u)'
  <2>1. CASE CloseBuffer \/ Changes \/ UNCHANGED vars
    <3>1. UNCHANGED <<class, pc, after, points>>
      BY <2>1 DEF CloseBuffer, Changes, vars, world, locals
    <3>2. \A u \in Threads : FoundBy(u)'
      BY <1>6, <3>1 DEF FoundInv
    <3> QED  BY <3>1, <3>2 DEF FoundInv
  <2>2. CASE \E t \in Threads : Moves(t) \/ Returns(t) \/ Opens(t) \/ Hands(t) \/ Refers(t)
    <3>1. PICK t \in Threads : Moves(t) \/ Returns(t) \/ Opens(t) \/ Hands(t) \/ Refers(t)
      BY <2>2
    <3>2. LookupsKeep(t) /\ (pc'[t] = "getting" => BeginGet(t))
      BY <1>0, <3>1, StepLookups DEF FoundInv
    <3>3. /\ after' \in [Threads -> BOOLEAN] /\ DOMAIN points' = Threads
          /\ \A u \in Threads \ {t} :
               pc'[u] = pc[u] /\ after'[u] = after[u] /\ points'[u] = points[u]
      BY <3>2 DEF LookupsKeep, FoundInv
    <3>4. \A u \in Threads \ {t} : FoundBy(u)'
      BY <1>6, <3>3 DEF FoundInv
    <3>5. FoundBy(t)'
      BY <3>2, BeginFinds DEF FoundBy
    <3>6. class' \in {"constmap", "verified"}
      BY <3>2 DEF LookupsKeep, FoundInv
    <3> QED  BY <3>3, <3>4, <3>5, <3>6
  <2> QED  BY <2>1, <2>2 DEF Next, Moves, Returns, Opens, Hands, Refers
<1> QED  BY <1>1, <1>3, <1>4, <1>5, <1>7 DEF FoundInv

-----------------------------------------------------------------------------
(* What the object holds, as MapObject sees it. *)

LEMMA HeapKinds ==
  ASSUME PyObjectsAssumption, HoldersInv, ReadInv, [Next]_vars
  PROVE  /\ \/ heap' = heap
            \/ \E i \in DOMAIN heap : heap' = [heap EXCEPT ![i] = Freed]
            \/ \E map \in Contents : heap' = Append(heap, map)
         /\ DOMAIN heap \subseteq DOMAIN heap'
<1>1. heap \in Seq(Contents)
  BY DEF HoldersInv, StructInv
<1>2. \A t \in Threads : BuildMap(t) => \E map \in Contents : heap' = Append(heap, map)
  BY GivenIsContents DEF BuildMap, At
<1>3. \/ heap' = heap
      \/ \E i \in DOMAIN heap : heap' = [heap EXCEPT ![i] = Freed]
      \/ \E map \in Contents : heap' = Append(heap, map)
  BY <1>2, HeapSteps, StoredIsContents
<1>4. ASSUME NEW map \in Contents, heap' = Append(heap, map) PROVE DOMAIN heap \subseteq DOMAIN heap'
  <2>1. DOMAIN heap = 1 .. Len(heap) /\ DOMAIN heap' = 1 .. (Len(heap) + 1) /\ Len(heap) \in Nat
    BY <1>1, <1>4, HeapGrows
  <2> QED  BY <2>1
<1>5. DOMAIN heap \subseteq DOMAIN heap'
  BY <1>3, <1>4
<1> QED  BY <1>3, <1>5

LEMMA ContentKept ==
  ASSUME PyObjectsAssumption, HoldersInv, HoldersInv', ReadInv, [Next]_vars,
         LeavesAlone \/ TurnsOut \/ StaysUnset
  PROVE  Content' = Content
<1>1. struct' = struct /\ (object' = "gone" <=> object = "gone")
  BY DEF LeavesAlone, TurnsOut, StaysUnset
<1>2. ASSUME struct \in DOMAIN heap PROVE heap'[struct] = heap[struct]
  <2>1. heap \in Seq(Contents) /\ struct \in DOMAIN heap'
    BY <1>2, <1>1, HeapKinds DEF HoldersInv, StructInv
  <2>2. heap'[struct] # Freed
    BY <1>1, <2>1 DEF HoldersInv, HoldInv
  <2>3. CASE heap' = heap
    BY <2>3
  <2>4. CASE \E i \in DOMAIN heap : heap' = [heap EXCEPT ![i] = Freed]
    <3>1. PICK i \in DOMAIN heap : heap' = [heap EXCEPT ![i] = Freed]
      BY <2>4
    <3>2. heap'[i] = Freed /\ \A j \in DOMAIN heap \ {i} : heap'[j] = heap[j]
      BY <2>1, <3>1, HeapFrees
    <3> QED  BY <1>2, <2>2, <3>2
  <2>5. CASE \E map \in Contents : heap' = Append(heap, map)
    <3>1. PICK map \in Contents : heap' = Append(heap, map)
      BY <2>5
    <3>2. \A i \in DOMAIN heap : heap'[i] = heap[i]
      BY <2>1, <3>1, HeapGrows
    <3> QED  BY <1>2, <3>2
  <2> QED  BY <2>3, <2>4, <2>5, HeapKinds
<1>3. struct \in {Null, InBuffer} \union DOMAIN heap
  BY DEF HoldersInv, StructInv
<1>4. EntriesAt(struct)' = EntriesAt(struct)
  <2>1. CASE struct \in {Null, InBuffer}
    BY <1>1, <2>1 DEF EntriesAt, Null, InBuffer
  <2>2. CASE struct \in DOMAIN heap
    <3>1. struct # Null /\ struct # InBuffer
      BY <2>2 DEF HoldersInv, StructInv, Null, InBuffer
    <3> QED  BY <1>1, <1>2, <2>2, <3>1 DEF EntriesAt
  <2> QED  BY <1>3, <2>1, <2>2
<1> QED  BY <1>1, <1>4 DEF Content

(* A lookup in entries without duplicates gives the one that fits, or a word  *)
(* that says so if none does.                                               *)
LEMMA LookupFinds ==
  ASSUME FoundInv, NEW entries \in Contents, ~ HasDuplicate(entries), NEW text
  PROVE  LET word == LookupIn(entries, text) IN
         \/ /\ \A k \in DOMAIN entries : entries[k][1] # text
            /\ class = "constmap" \/ word = NOT_FOUND
         \/ \E k \in DOMAIN entries :
              /\ entries[k] = <<text, word>>
              /\ \A j \in DOMAIN entries : entries[j][1] = text => j = k
<1> DEFINE fits == { k \in DOMAIN entries : entries[k][1] = text }
           word == LookupIn(entries, text)
<1>1. CASE entries = << >>
  BY <1>1 DEF LookupIn, FoundInv
<1>2. CASE entries # << >> /\ fits = {}
  <2>1. word = Absent
    BY <1>2 DEF LookupIn
  <2> QED  BY <1>2, <2>1 DEF Absent, FoundInv
<1>3. CASE entries # << >> /\ fits # {}
  <2> DEFINE c == CHOOSE k \in fits : TRUE
  <2>1. word = entries[c][2]
    BY <1>3 DEF LookupIn
  <2>2. c \in fits
    BY <1>3
  <2>3. c \in DOMAIN entries /\ entries[c][1] = text
    BY <2>2
  <2> HIDE DEF c, fits, word
  <2>4. entries[c] \in Texts \X Int
    BY <2>3 DEF Contents
  <2>5. entries[c] = <<text, word>>
    BY <2>1, <2>3, <2>4
  <2>6. \A j \in DOMAIN entries : entries[j][1] = text => j = c
    BY <2>3 DEF HasDuplicate
  <2> QED  BY <2>3, <2>5, <2>6 DEF word
<1> QED  BY <1>1, <1>2, <1>3

LEMMA SaysRight ==
  ASSUME FoundInv, NEW entries \in Contents, ~ HasDuplicate(entries), NEW text,
         NEW method \in Methods, NEW r,
         r.what = Said(method, text, LookupIn(entries, text)).what,
         r.text = text, r.word = LookupIn(entries, text)
  PROVE  Object!Right(entries, r)
<1> DEFINE word == LookupIn(entries, text)
<1>1. \/ /\ \A k \in DOMAIN entries : entries[k][1] # text
         /\ class = "constmap" \/ word = NOT_FOUND
      \/ \E k \in DOMAIN entries :
           /\ entries[k] = <<text, word>>
           /\ \A j \in DOMAIN entries : entries[j][1] = text => j = k
  BY LookupFinds
<1>2. /\ class \in {"constmap", "verified"}
      /\ class = "constmap" => method = "m[k]"
      /\ method \in {"m[k]", "get", "in"}
  BY DEF FoundInv, Methods
<1>3. Found(word) <=> class = "constmap" \/ word # NOT_FOUND
  BY DEF Found
<1>4. Found(word) => r.what = IF method = "in" THEN "true" ELSE "word"
  BY DEF Said, Says
<1>5. ~ Found(word) => r.what \in {"KeyError", "default", "false"}
  BY <1>2 DEF Said, Says
<1>6. r.text = text /\ r.word = word
  OBVIOUS
<1> HIDE DEF word
<1>7. CASE Found(word) /\ method # "in"
  <2>1. r.what = "word"
    BY <1>4, <1>7
  <2>2. \/ \E k \in DOMAIN entries : entries[k] = <<text, word>>
        \/ class # "verified" /\ ~ \E k \in DOMAIN entries : entries[k][1] = text
    BY <1>1, <1>2, <1>3, <1>7
  <2> QED  BY <1>6, <2>1, <2>2 DEF Object!Right
<1>8. CASE Found(word) /\ method = "in"
  <2>1. r.what = "true" /\ class = "verified" /\ word # NOT_FOUND
    BY <1>2, <1>3, <1>4, <1>8
  <2>2. \E k \in DOMAIN entries : entries[k][1] = text /\ entries[k][2] # NOT_FOUND
    BY <1>1, <2>1
  <2> QED  BY <1>6, <2>1, <2>2 DEF Object!Right
<1>9. CASE ~ Found(word)
  <2>1. r.what \in {"KeyError", "default", "false"} /\ class = "verified" /\ word = NOT_FOUND
    BY <1>2, <1>3, <1>5, <1>9
  <2>2. ~ \E k \in DOMAIN entries : entries[k][1] = text /\ entries[k][2] # NOT_FOUND
    BY <1>1, <2>1
  <2> QED  BY <1>6, <2>1, <2>2 DEF Object!Right
<1> QED  BY <1>7, <1>8, <1>9

-----------------------------------------------------------------------------
(* Steps of the map object. *)

(* A call that began when the object was known to have its entries looks them *)
(* up in what the object has now.                                           *)
LEMMA FoundEntries ==
  ASSUME PyObjectsAssumption, HoldersInv, FoundInv, NEW t \in Threads,
         pc[t] = "getting", after[t]
  PROVE  /\ Content = [state |-> "map", entries |-> EntriesAt(points[t])]
         /\ Readable(points[t])
         /\ EntriesAt(points[t]) \in Contents
         /\ ~ HasDuplicate(EntriesAt(points[t]))
<1>1. known /\ points[t] = struct /\ object \in {"ready", "gone"}
  BY DEF FoundInv, FoundBy
<1>2. object = "ready" /\ struct # Null
  <2>1. t \in refs
    BY DEF HoldersInv, RefsInv
  <2>2. object # "gone"
    BY <2>1 DEF HoldersInv, RefsInv
  <2> QED  BY <1>1, <2>2 DEF FoundInv
<1>3. Content = [state |-> "map", entries |-> EntriesAt(points[t])]
  BY <1>1, <1>2 DEF Content
<1>4. heap \in Seq(Contents) /\ struct \in {InBuffer} \union DOMAIN heap
  BY <1>2 DEF HoldersInv, StructInv
<1>5. CASE struct = InBuffer
  <2>1. ~ closed
    BY <1>5 DEF HoldersInv, ExportInv
  <2>2. EntriesAt(struct) = Stored
    BY <1>5 DEF EntriesAt, InBuffer, Null
  <2>3. ~ HasDuplicate(Stored)
    BY DEF HasDuplicate, PyObjectsAssumption
  <2> QED  BY <1>1, <1>3, <1>5, <2>1, <2>2, <2>3, StoredIsContents DEF Readable
<1>6. CASE struct \in DOMAIN heap
  <2>1. heap[struct] # Freed /\ heap[struct] \in Contents /\ ~ HasDuplicate(heap[struct])
    BY <1>4, <1>6 DEF HoldersInv, HoldInv, FoundInv
  <2>2. struct # InBuffer
    BY <1>4, <1>6 DEF InBuffer
  <2>3. EntriesAt(struct) = heap[struct]
    BY <1>2, <2>2 DEF EntriesAt
  <2> QED  BY <1>1, <1>3, <1>6, <2>1, <2>3 DEF Readable
<1> QED  BY <1>4, <1>5, <1>6

LEMMA AnswersRight ==
  ASSUME PyObjectsAssumption, HoldersInv, FoundInv, NEW t \in Threads, EndGet(t), after[t]
  PROVE  Object!Right(Content.entries, Reply') /\ Content.state = "map"
<1> DEFINE entries == EntriesAt(points[t])
<1>1. pc[t] = "getting"
  BY DEF EndGet, At
<1>2. /\ Content = [state |-> "map", entries |-> entries] /\ Readable(points[t])
      /\ entries \in Contents /\ ~ HasDuplicate(entries)
  BY <1>1, FoundEntries
<1>3. Content.entries = entries /\ Content.state = "map"
  BY <1>2
<1>4. ASSUME NEW key \in LookedUp, NEW method \in Methods,
             Return(t, Said(method, key.text, LookupAt(points[t], key.text)))
      PROVE  Object!Right(entries, Reply')
  <2> DEFINE word == LookupIn(entries, key.text)
             said == Said(method, key.text, word)
  <2>1. LookupAt(points[t], key.text) = word
    BY <1>2 DEF LookupAt
  <2>2. said.text = key.text /\ said.word = word /\ said.items = << >>
    BY DEF Said, Says
  <2>3. answer' = [what |-> said.what, text |-> key.text, word |-> word,
                   items |-> << >>, sure |-> after[t]]
    BY <1>4, <2>1, <2>2 DEF Return
  <2>4. said.what \in {"word", "true", "KeyError", "default", "false"}
    BY DEF Said, Says, Methods
  <2> HIDE DEF said, word
  <2>5. Reply' = answer'
    BY <2>3, <2>4 DEF Reply, AboutEntries
  <2>6. Reply'.what = said.what /\ Reply'.text = key.text /\ Reply'.word = word
    BY <2>3, <2>5
  <2> QED  BY <1>2, <2>6, SaysRight DEF said, word
<1>5. ASSUME NEW r \in {"no key", "TypeError", "UnicodeEncodeError"}, NEW text, NEW word,
             Return(t, Says(r, text, word))
      PROVE  Object!Right(entries, Reply')
  <2>1. answer'.what = r
    BY <1>5 DEF Return, Says
  <2>2. Reply' = Nothing
    BY <2>1 DEF Reply, AboutEntries
  <2> QED  BY <2>2 DEF Nothing, Says, Object!Right, Object!IsQuiet
<1>6. ASSUME Return(t, Says("length", "", LengthAt(points[t])))
      PROVE  Object!Right(entries, Reply')
  <2>1. LengthAt(points[t]) = Len(entries)
    BY <1>2 DEF LengthAt
  <2>2. answer' = [what |-> "length", text |-> "", word |-> Len(entries), items |-> << >>,
                   sure |-> after[t]]
    BY <1>6, <2>1 DEF Return, Says
  <2>3. Reply' = answer'
    BY <2>2 DEF Reply, AboutEntries
  <2>4. Reply'.what = "length" /\ Reply'.word = Len(entries)
    BY <2>2, <2>3
  <2> HIDE DEF entries
  <2> QED  BY <2>4 DEF Object!Right
<1>7. Object!Right(entries, Reply')
  <2>1. ASSUME NEW key \in LookedUp, NEW method \in Methods,
               Return(t, IF method = "in" /\ KeyFault(key) = "TypeError"
                         THEN Says("no key", key.text, 0) ELSE Raised(KeyFault(key)))
        PROVE  Object!Right(entries, Reply')
    <3>1. KeyFault(key) \in {"TypeError", "UnicodeEncodeError"}
      BY DEF KeyFault
    <3> QED  BY <1>5, <2>1, <3>1 DEF Raised
  <2> HIDE DEF entries
  <2> QED  BY <1>4, <1>6, <2>1 DEF EndGet
<1> QED  BY <1>3, <1>7

(* Whatever else a call returns says nothing about the entries.              *)
LEMMA OthersQuiet ==
  ASSUME [Next]_vars, ~ UNCHANGED vars,
         \A t \in Threads : EndGet(t) => ~ after[t], FoundInv
  PROVE  Object!IsQuiet(Reply')
<1>1. ASSUME answer' = Nothing PROVE Object!IsQuiet(Reply')
  BY <1>1 DEF Reply, Nothing, Says, Object!IsQuiet
<1>2. ASSUME NEW t \in Threads, NEW what, NEW text, NEW word, Return(t, Says(what, text, word)),
             what \notin AboutEntries \/ ~ after[t]
      PROVE  Object!IsQuiet(Reply')
  <2>1. answer'.what = what /\ answer'.sure = after[t]
    BY <1>2 DEF Return, Says
  <2>2. Reply' = Nothing
    BY <1>2, <2>1 DEF Reply
  <2> QED  BY <2>2 DEF Nothing, Says, Object!IsQuiet
<1>3. CASE CloseBuffer \/ Changes
  BY <1>1, <1>3 DEF CloseBuffer, Changes, Silent
<1>4. ASSUME NEW t \in Threads, Moves(t) PROVE Object!IsQuiet(Reply')
  BY <1>1, <1>4 DEF Moves, TakeDict, Allocate, ReadEntry, EndRead, BeginGet, BeginBatch, TakeOut,
                    BatchChunk, Silent
<1>5. ASSUME NEW t \in Threads, Opens(t) PROVE Object!IsQuiet(Reply')
  <2>1. CASE New(t) \/ FromBytes(t) \/ FromBuffer(t)
    BY <1>1, <2>1 DEF New, FromBytes, FromBuffer, Silent
  <2>2. CASE OpenFails(t) \/ OpenDone(t)
    BY <1>2, <2>2 DEF OpenFails, OpenDone, Raise, Raised, Nothing, AboutEntries
  <2> QED  BY <1>5, <2>1, <2>2 DEF Opens
<1>6. ASSUME NEW t \in Threads, Hands(t) PROVE Object!IsQuiet(Reply')
  <2>1. CASE BuildMap(t) \/ BeginInstall(t)
    BY <1>1, <2>1 DEF BuildMap, BeginInstall, Silent
  <2>2. CASE FinishInstall(t) \/ Discard(t)
    BY <1>2, <2>2 DEF FinishInstall, Discard, Raise, Raised, Nothing, AboutEntries
  <2> QED  BY <1>6, <2>1, <2>2 DEF Hands
<1>7. ASSUME NEW t \in Threads, Refers(t) PROVE Object!IsQuiet(Reply')
  BY <1>1, <1>7 DEF Refers, Drop, Share, Silent
<1>8. ASSUME NEW t \in Threads, Returns(t) PROVE Object!IsQuiet(Reply')
  <2>1. \A key : KeyFault(key) \in {"TypeError", "UnicodeEncodeError"}
    BY DEF KeyFault
  <2>2. CASE RefuseArguments(t) \/ NoRoom(t) \/ NoOut(t)
    BY <1>2, <2>2 DEF RefuseArguments, NoRoom, NoOut, Raise, Raised, AboutEntries
  <2>3. CASE RefuseEntry(t)
    <3>1. EntryFault(NextEntry(t)) \in {"TypeError", "UnicodeEncodeError", "OverflowError"}
      BY <2>1 DEF EntryFault
    <3> QED  BY <1>2, <2>3, <3>1 DEF RefuseEntry, Raise, Raised, AboutEntries
  <2>4. CASE BuildFails(t)
    BY <1>2, <2>4 DEF BuildFails, Raise, Raised, AboutEntries
  <2>5. CASE BatchRefused(t)
    BY <1>2, <2>1, <2>5 DEF BatchRefused, Raise, Raised, AboutEntries
  <2>6. CASE EndBatch(t)
    <3>1. ASSUME NEW items, Return(t, ListOf(items)) PROVE Object!IsQuiet(Reply')
      <4>1. answer'.what = "list"
        BY <3>1 DEF Return, ListOf
      <4>2. Reply' = Nothing
        BY <4>1 DEF Reply, AboutEntries
      <4> QED  BY <4>2 DEF Nothing, Says, Object!IsQuiet
    <3>2. ASSUME NEW n, Return(t, Says("written", "", n)) PROVE Object!IsQuiet(Reply')
      BY <1>2, <3>2 DEF AboutEntries
    <3> QED  BY <2>6, <3>1, <3>2 DEF EndBatch
  <2>7. CASE EndGet(t)
    <3>1. \E says : Return(t, says)
      BY <2>7 DEF EndGet
    <3>2. answer'.sure = after[t]
      BY <3>1 DEF Return
    <3>3. Reply' = Nothing
      BY <2>7, <3>2 DEF Reply
    <3> QED  BY <3>3 DEF Nothing, Says, Object!IsQuiet
  <2> QED  BY <1>8, <2>2, <2>3, <2>4, <2>5, <2>6, <2>7 DEF Returns
<1> QED
  BY <1>3, <1>4, <1>5, <1>6, <1>7, <1>8 DEF Next, Moves, Returns, Opens, Hands, Refers

(* Every step of every thread, and of other code, is a step of the map object *)
(* or is not seen there.                                                    *)
LEMMA StepsOfTheObject ==
  ASSUME PyObjectsAssumption, HoldersInv, HoldersInv', ReadInv, FoundInv, [Next]_vars
  PROVE  [Object!Next]_<<class = "verified", Content, Reply>>
<1>0. class' = class /\ UNCHANGED (class = "verified")
  <2>1. CASE CloseBuffer \/ Changes \/ UNCHANGED vars
    BY <2>1 DEF CloseBuffer, Changes, vars, world
  <2>2. CASE \E t \in Threads : Moves(t) \/ Returns(t) \/ Opens(t) \/ Hands(t) \/ Refers(t)
    BY <2>2, StepLookups DEF LookupsKeep, HoldersInv, RefsInv, FoundInv
  <2>3. class' = class
    BY <2>1, <2>2 DEF Next, Moves, Returns, Opens, Hands, Refers
  <2> QED  BY <2>3
<1>1. CASE UNCHANGED vars
  <2>1. UNCHANGED <<heap, object, struct, answer, class>>
    BY <1>1 DEF vars, shared, world
  <2>2. Content' = Content /\ Reply' = Reply
    BY <2>1 DEF Content, EntriesAt, Reply
  <2> QED  BY <1>0, <2>2
<1>2. CASE \E t \in Threads : EndGet(t) /\ after[t]
  <2>1. PICK t \in Threads : EndGet(t) /\ after[t]
    BY <1>2
  <2>2. Object!Right(Content.entries, Reply') /\ Content.state = "map"
    BY <2>1, AnswersRight
  <2>3. LeavesAlone
    BY <2>1 DEF EndGet, shared, LeavesAlone
  <2>4. Content' = Content
    BY <2>3, ContentKept
  <2>5. Object!Answer
    BY <2>2, <2>4 DEF Object!Answer
  <2> QED  BY <1>0, <2>5 DEF Object!Next
<1>3. CASE ~ UNCHANGED vars /\ ~ \E t \in Threads : EndGet(t) /\ after[t]
  <2>1. Object!IsQuiet(Reply')
    BY <1>3, OthersQuiet
  <2>2. CASE LeavesAlone \/ TurnsOut \/ StaysUnset
    <3>1. Content' = Content
      BY <2>2, ContentKept
    <3>2. Object!KeepQuiet
      BY <2>1, <3>1 DEF Object!KeepQuiet
    <3> QED  BY <1>0, <3>2 DEF Object!Next
  <2>3. CASE Fills
    <3>1. struct = Null /\ object # "gone" /\ object' # "gone" /\ struct' # Null
      BY <2>3 DEF Fills, HoldersInv, StructInv
    <3>2. Content.state = "unset" /\ Content'.state = "map"
      BY <3>1 DEF Content
    <3>3. Object!Fill
      BY <2>1, <3>2 DEF Object!Fill
    <3> QED  BY <1>0, <3>3 DEF Object!Next
  <2>4. CASE Loses
    <3>1. object # "gone" /\ object' = "gone"
      BY <2>4 DEF Loses
    <3>2. Content.state # "gone" /\ Content'.state = "gone"
      BY <3>1 DEF Content
    <3>3. Object!Lose
      BY <2>1, <3>2 DEF Object!Lose
    <3> QED  BY <1>0, <3>3 DEF Object!Next
  <2> QED  BY <2>2, <2>3, <2>4, StepObject
<1> QED  BY <1>1, <1>2, <1>3

(* The object is an implementation of the map object: whichever threads are    *)
(* in __init__ or in a lookup, with or without the GIL, it is given its        *)
(* entries once and keeps them, and every call that began when it was known    *)
(* to have them is answered from them, by its own class's rules.             *)
THEOREM ObjectsImplementMapObject == Spec => ImplementsMapObject
<1>1. PyObjectsAssumption
  BY PyObjectsAssumption
<1>2. Init => Object!Init
  <2>1. SUFFICES ASSUME Init PROVE Object!Init
    OBVIOUS
  <2>2. object = "none" /\ struct = Null /\ answer = Nothing
    BY <2>1 DEF Init
  <2>3. Content.state = "unset"
    BY <2>2 DEF Content
  <2>4. Object!IsQuiet(Reply)
    BY <2>2 DEF Reply, Nothing, Says, Object!IsQuiet
  <2> QED  BY <2>3, <2>4 DEF Object!Init
<1>3. Init => HoldersInv /\ ReadInv /\ FoundInv
  BY <1>1, HoldersInit, ReadInit, FoundInit
<1>4. (HoldersInv /\ ReadInv /\ FoundInv) /\ [Next]_vars => (HoldersInv /\ ReadInv /\ FoundInv)'
  <2>1. SUFFICES ASSUME HoldersInv, ReadInv, FoundInv, [Next]_vars
                 PROVE  HoldersInv' /\ ReadInv' /\ FoundInv'
    OBVIOUS
  <2>2. HoldersInv' /\ ReadInv'
    BY <1>1, <2>1, HeldStep
  <2>3. FoundInv'
    BY <1>1, <2>1, <2>2, FoundNext
  <2> QED  BY <2>2, <2>3
<1>5. HoldersInv /\ HoldersInv' /\ ReadInv /\ FoundInv /\ [Next]_vars
        => [Object!Next]_<<class = "verified", Content, Reply>>
  BY <1>1, StepsOfTheObject
<1> QED  BY <1>2, <1>3, <1>4, <1>5, PTL DEF Spec, ImplementsMapObject, Object!Spec, Object!vars

-----------------------------------------------------------------------------
(* Batches. *)

(* The length of what is written as a function, and of two such in a row.     *)
LEMMA LenOf ==
  ASSUME NEW n \in Nat, NEW f, f = [k \in 1 .. n |-> f[k]]
  PROVE  Len(f) = n /\ f \in Seq({ f[k] : k \in 1 .. n })
<1> DEFINE S == { f[k] : k \in 1 .. n }
<1>1. \A k \in 1 .. n : f[k] \in S
  OBVIOUS
<1> HIDE DEF S
<1>2. f \in Seq(S)
  BY <1>1, IsSequence
<1>3. Len(f) \in Nat /\ DOMAIN f = 1 .. Len(f)
  BY <1>2, LenProperties
<1>4. DOMAIN f = 1 .. n
  OBVIOUS
<1>5. Len(f) = n
  <2>1. \A i : i \in 1 .. Len(f) <=> i \in 1 .. n
    BY ONLY <1>3, <1>4
  <2>2. ~ (Len(f) < n)
    BY ONLY <1>3, <2>1, n \in Nat
  <2>3. ~ (n < Len(f))
    BY ONLY <1>3, <2>1, n \in Nat
  <2> QED  BY <1>3, <2>2, <2>3
<1> QED  BY <1>2, <1>5 DEF S

LEMMA LenOfJoined ==
  ASSUME NEW m \in Nat, NEW n \in Nat,
         NEW f, f = [k \in 1 .. m |-> f[k]], NEW g, g = [k \in 1 .. n |-> g[k]]
  PROVE  Len(f \o g) = m + n /\ f \o g = [k \in 1 .. (m + n) |-> (f \o g)[k]]
<1> DEFINE S == { f[k] : k \in 1 .. m } \union { g[k] : k \in 1 .. n }
<1>1. \A k \in 1 .. m : f[k] \in S
  OBVIOUS
<1>2. \A k \in 1 .. n : g[k] \in S
  OBVIOUS
<1> HIDE DEF S
<1>3. f \in Seq(S) /\ g \in Seq(S)
  BY <1>1, <1>2, IsSequence
<1>4. Len(f) = m /\ Len(g) = n
  BY LenOf
<1>5. f \o g \in Seq(S) /\ Len(f \o g) = m + n
  BY <1>3, <1>4, ConcatProperties
<1>6. f \o g \in [1 .. (m + n) -> S]
  BY <1>5, LenProperties
<1> QED  BY <1>5, <1>6

(* A number is so many whole times a divisor and a remainder.                *)
LEMMA Quotient ==
  ASSUME NEW L \in Nat \ {0}, NEW x \in Nat
  PROVE  (x \div L) \in Nat /\ (x % L) \in 0 .. (L - 1) /\ x = (x \div L) * L + (x % L)
<1> DEFINE d == x \div L
           r == x % L
<1>1. r \in 0 .. (L - 1) /\ d \in Int
  OBVIOUS
<1>2. r = x - L * d
  BY <1>1, Z3
<1> HIDE DEF d, r
<1>3. x = d * L + r
  BY ONLY <1>1, <1>2, L \in Nat, x \in Nat
<1>4. d >= 0
  <2> SUFFICES ASSUME d + 1 <= 0 PROVE FALSE
    BY <1>1
  <2>1. (d + 1) * L <= 0 * L
    BY <1>1
  <2> QED  BY ONLY <1>1, <1>3, <2>1, L \in Nat, x \in Nat
<1>5. d \in Nat
  BY <1>1, <1>4
<1> QED  BY ONLY <1>1, <1>3, <1>5 DEF d, r

(* The core's batch gives, at each position, what a single lookup of its text *)
(* gives: the blocks cover what is not left over.                           *)
LEMMA LookupManyIs ==
  ASSUME NEW place, NEW texts, Len(texts) \in Nat
  PROVE  \A k \in 1 .. Len(texts) : LookupMany(place, texts)[k] = LookupAt(place, texts[k])
<1> SUFFICES ASSUME NEW n \in Nat, Len(texts) = n, NEW k \in 1 .. n
             PROVE  LookupMany(place, texts)[k] = LookupAt(place, texts[k])
  OBVIOUS
<1> DEFINE Writers == { w \in BlockStarts(n) \X (1 .. Block) : Position(w[1], w[2]) = k }
           rest == n % Block
           blocks == n \div Block
           q == (k - 1) \div Block
           j == (k - 1) % Block
           start == q * Block
<1>1. Block \in Nat \ {0}
  BY PyObjectsAssumption
<1>2. LookupMany(place, texts)[k] =
        IF k > n - rest THEN LookupAt(place, texts[k])
        ELSE IF Writers # {}
             THEN LET w == CHOOSE x \in Writers : TRUE IN LookupAt(place, texts[w[1] + w[2]])
             ELSE NotWritten
  BY DEF LookupMany
<1>3. ASSUME Writers # {}
      PROVE  LET w == CHOOSE x \in Writers : TRUE IN w[1] + w[2] = k
  <2>1. (CHOOSE x \in Writers : TRUE) \in Writers
    BY <1>3
  <2> QED  BY <2>1 DEF Position
<1>4. ASSUME ~ (k > n - rest) PROVE Writers # {}
  <2>0. k - 1 \in Nat
    OBVIOUS
  <2>2. blocks = n \div Block /\ rest = n % Block /\ q = (k - 1) \div Block /\ j = (k - 1) % Block
    OBVIOUS
  <2> HIDE DEF rest, blocks, q, j
  <2>1. blocks \in Nat /\ rest \in 0 .. (Block - 1) /\ n = blocks * Block + rest
    BY ONLY <1>1, <2>2, Quotient, n \in Nat, Zenon
  <2>3. q \in Nat /\ j \in 0 .. (Block - 1) /\ k - 1 = q * Block + j
    BY ONLY <1>1, <2>0, <2>2, Quotient, Zenon
  <2>4. k <= blocks * Block
    BY ONLY <2>1, <1>1, <1>4, k \in 1 .. n, n \in Nat
  <2>5. ~ (q >= blocks)
    <3> SUFFICES ASSUME q >= blocks PROVE FALSE
      OBVIOUS
    <3>1. q * Block >= blocks * Block
      BY ONLY <1>1, <2>1, <2>3, q >= blocks
    <3> QED  BY ONLY <1>1, <2>1, <2>3, <2>4, <3>1, k \in 1 .. n
  <2>6. (q + 1) * Block <= blocks * Block
    <3>1. q + 1 <= blocks
      BY ONLY <2>1, <2>3, <2>5
    <3> QED  BY ONLY <1>1, <2>1, <2>3, <3>1
  <2>7. start \in Nat
    BY ONLY <1>1, <2>3
  <2>8. start + Block <= n /\ start \in 0 .. n
    BY ONLY <1>1, <2>1, <2>3, <2>6, <2>7, n \in Nat
  <2>9. start % Block = 0
    <3> DEFINE d == start \div Block
               r == start % Block
    <3>1. d = start \div Block /\ r = start % Block
      OBVIOUS
    <3>2. start \in Int /\ q \in Int /\ 0 \in 0 .. (Block - 1) /\ start = q * Block + 0
      BY ONLY <1>1, <2>3, <2>7
    <3> HIDE DEF d, r, start
    <3>3. r = 0
      BY ONLY <1>1, <3>1, <3>2, Remainder
    <3> QED  BY <3>1, <3>3
  <2>10. start \in BlockStarts(n)
    BY <2>8, <2>9 DEF BlockStarts
  <2>11. j + 1 \in 1 .. Block /\ start + (j + 1) = k
    BY ONLY <1>1, <2>3, <2>7, k \in 1 .. n, n \in Nat
  <2>12. <<start, j + 1>> \in Writers
    <3> HIDE DEF start
    <3> QED  BY <2>10, <2>11 DEF Position
  <2> QED  BY <2>12
<1> HIDE DEF Writers, rest
<1> QED  BY <1>2, <1>3, <1>4

(* A batch that began when the object was known to have its entries looks its *)
(* keys up in them.                                                         *)
LEMMA BatchReads ==
  ASSUME HoldersInv, FoundInv, known, NEW t \in Threads, t \in refs
  PROVE  /\ object = "ready" /\ InStruct = struct
         /\ \A text : LookupAt(InStruct, text) = LookupIn(EntriesAt(struct), text)
<1>1. object = "ready"
  BY DEF HoldersInv, RefsInv, FoundInv
<1>2. InStruct = struct
  <2>1. \A u \in Threads : pc[u] # "copying"
    BY <1>1 DEF HoldersInv, StructInv
  <2> QED  BY <2>1 DEF InStruct
<1>3. Readable(struct)
  <2>1. struct \in {InBuffer} \union DOMAIN heap
    BY <1>1 DEF HoldersInv, StructInv, FoundInv
  <2>2. CASE struct = InBuffer
    BY <2>2 DEF HoldersInv, ExportInv, Readable
  <2>3. CASE struct \in DOMAIN heap
    BY <2>3 DEF HoldersInv, HoldInv, Readable
  <2> QED  BY <2>1, <2>2, <2>3
<1> QED  BY <1>1, <1>2, <1>3 DEF LookupAt

(* As long as a thread has its reference, those entries stay.               *)
LEMMA EntriesStay ==
  ASSUME PyObjectsAssumption, HoldersInv, HoldersInv', ReadInv, FoundInv, [Next]_vars,
         known, NEW t \in Threads, pc[t] # "idle", t \in refs
  PROVE  EntriesAt(struct)' = EntriesAt(struct) /\ known' = TRUE
<1>1. object = "ready"
  BY BatchReads
<1>2. LeavesAlone \/ TurnsOut
  BY <1>1, StepObject DEF Fills, Loses, StaysUnset
<1>3. Content' = Content
  BY <1>2, ContentKept
<1>4. object' = "ready" /\ known' = TRUE
  BY <1>1, <1>2 DEF LeavesAlone, TurnsOut, FoundInv
<1>5. Content.entries = EntriesAt(struct) /\ Content'.entries = EntriesAt(struct)'
  BY <1>1, <1>4 DEF Content
<1> QED  BY <1>3, <1>4, <1>5

(* A batch that is left alone stays as it is: if it began when the object was *)
(* known to have its entries, the object keeps them.                         *)
LEMMA BatchKept ==
  ASSUME PyObjectsAssumption, HoldersInv, HoldersInv', ReadInv, FoundInv, [Next]_vars,
         NEW u \in Threads, BatchOf(u), class' = class,
         pc'[u] = pc[u], read'[u] = read[u], size'[u] = size[u], after'[u] = after[u],
         out'[u] = out[u], pc[u] \in {"sizing", "batch"} => Items(u)' = Items(u)
  PROVE  BatchOf(u)'
<1>1. CASE pc[u] \notin {"sizing", "batch"}
  BY <1>1 DEF BatchOf
<1>2. CASE pc[u] \in {"sizing", "batch"}
  <2> DEFINE E == EntriesAt(struct)
             I == Items(u)
  <2>1. u \in refs
    BY <1>2 DEF HoldersInv, RefsInv
  <2>2. after[u] => known
    BY <1>2 DEF BatchOf
  <2>3. ASSUME after[u] PROVE E' = E /\ known'
    BY <1>2, <2>1, <2>2, <2>3, EntriesStay
  <2>4. I' = I
    BY <1>2
  <2>5. /\ pc'[u] = pc[u] /\ read'[u] = read[u] /\ size'[u] = size[u] /\ after'[u] = after[u]
        /\ out'[u] = out[u]
    OBVIOUS
  <2>6. /\ pc[u] = "sizing" => read[u] = << >>
        /\ I \in Lists /\ size[u] = Len(I)
    BY <1>2 DEF BatchOf
  <2>7. (pc[u] = "sizing" => read[u] = << >>)'
    BY <2>5, <2>6
  <2>8. (I \in Lists /\ size[u] = Len(I) /\ (after[u] => known))'
    BY <2>3, <2>4, <2>5, <2>6
  <2>9. ASSUME pc[u] = "batch"
        PROVE  (/\ Len(read[u]) \in 0 .. size[u]
                /\ read[u] = [k \in 1 .. Len(read[u]) |-> read[u][k]]
                /\ Len(read[u]) = size[u] \/ Len(read[u]) % Chunk = 0
                /\ out[u] = [k \in 1 .. size[u] |-> out[u][k]]
                /\ \A k \in (Len(read[u]) + 1) .. size[u] : out[u][k] = NotWritten)'
    <3>1. /\ Len(read[u]) \in 0 .. size[u]
          /\ read[u] = [k \in 1 .. Len(read[u]) |-> read[u][k]]
          /\ Len(read[u]) = size[u] \/ Len(read[u]) % Chunk = 0
          /\ out[u] = [k \in 1 .. size[u] |-> out[u][k]]
          /\ \A k \in (Len(read[u]) + 1) .. size[u] : out[u][k] = NotWritten
      BY <2>9 DEF BatchOf
    <3> QED  BY ONLY <2>5, <3>1 DEF NotWritten
  <2>10. ASSUME pc[u] = "batch"
         PROVE  (\A k \in 1 .. Len(read[u]) :
                   /\ IsKey(I[k])
                   /\ after[u] => out[u][k] = LookupIn(E, I[k].text))'
    <3>1. \A k \in 1 .. Len(read[u]) :
            IsKey(I[k]) /\ (after[u] => out[u][k] = LookupIn(E, I[k].text))
      BY <2>10 DEF BatchOf
    <3> HIDE DEF E, I
    <3>2. class' = class
      OBVIOUS
    <3>3. CASE after[u]
      <4>1. SUFFICES ASSUME NEW k \in 1 .. Len(read[u])
                     PROVE  (IsKey(I[k]) /\ out[u][k] = LookupIn(E, I[k].text))'
        BY <2>5
      <4>2. IsKey(I[k]) /\ out[u][k] = LookupIn(E, I[k].text)
        BY <3>1, <3>3
      <4>3. E' = E
        BY <2>3, <3>3
      <4>4. LookupIn(E, I[k].text)' = LookupIn(E, I[k].text)
        BY ONLY <2>4, <4>3, <3>2 DEF LookupIn, Absent
      <4>5. IsKey(I[k])' = IsKey(I[k])
        BY ONLY <2>4 DEF IsKey
      <4> QED  BY ONLY <2>5, <4>2, <4>4, <4>5
    <3>4. CASE ~ after[u]
      BY ONLY <2>4, <2>5, <3>1, <3>4 DEF IsKey
    <3> QED  BY <3>3, <3>4
  <2> HIDE DEF E, I
  <2> QED  BY <2>7, <2>8, <2>9, <2>10, <2>5 DEF BatchOf, E, I
<1> QED  BY <1>1, <1>2

(* What a step of one thread does to the state of batches. *)
BatchesKeep(t) ==
  /\ list' = list
  /\ DOMAIN out' = Threads
  /\ \A u \in Threads \ {t} : out'[u] = out[u]

LEMMA StepBatches ==
  ASSUME DOMAIN out = Threads, pc \in [Threads -> Labels], NEW t \in Threads,
         Moves(t) \/ Returns(t) \/ Opens(t) \/ Hands(t) \/ Refers(t)
  PROVE  /\ BatchesKeep(t)
         /\ pc'[t] \in {"sizing", "batch"} => BeginBatch(t) \/ TakeOut(t) \/ BatchChunk(t)
<1>1. ASSUME \E what : Return(t, what) PROVE BatchesKeep(t) /\ pc'[t] = "idle"
  BY <1>1 DEF Return, Goto, world, BatchesKeep
<1>2. CASE Moves(t)
  <2>1. CASE BeginBatch(t) \/ TakeOut(t)
    BY <2>1 DEF BeginBatch, TakeOut, world, BatchesKeep
  <2>2. CASE BatchChunk(t)
    <3>1. list' = list /\ \E o : out' = [out EXCEPT ![t] = o]
      BY <2>2 DEF BatchChunk, world
    <3> QED  BY <2>2, <3>1 DEF BatchesKeep
  <2>3. CASE TakeDict(t) \/ Allocate(t) \/ EndRead(t) \/ BeginGet(t)
    BY <2>3 DEF TakeDict, Allocate, EndRead, BeginGet, Goto, world, locals, BatchesKeep
  <2>4. CASE ReadEntry(t)
    <3>1. UNCHANGED <<list, out, pc>> /\ pc[t] = "reading"
      BY <2>4 DEF ReadEntry, MoreEntries, At, world
    <3> QED  BY <3>1 DEF BatchesKeep
  <2> QED  BY <1>2, <2>1, <2>2, <2>3, <2>4 DEF Moves
<1>3. CASE Returns(t)
  <2>1. \E what : Return(t, what)
    BY <1>3 DEF Returns, RefuseArguments, NoRoom, RefuseEntry, BuildFails, EndGet, NoOut,
                BatchRefused, EndBatch, Raise
  <2> QED  BY <1>1, <2>1
<1>4. CASE Opens(t)
  <2>1. CASE New(t) \/ FromBytes(t) \/ FromBuffer(t)
    BY <2>1 DEF New, FromBytes, FromBuffer, At, Goto, world, locals, BatchesKeep
  <2>2. CASE OpenFails(t) \/ OpenDone(t)
    <3>1. \E what : Return(t, what)
      BY <2>2 DEF OpenFails, OpenDone, Raise
    <3> QED  BY <1>1, <3>1
  <2> QED  BY <1>4, <2>1, <2>2 DEF Opens
<1>5. CASE Hands(t)
  <2>1. CASE BuildMap(t) \/ BeginInstall(t)
    BY <2>1 DEF BuildMap, BeginInstall, Goto, world, locals, BatchesKeep
  <2>2. CASE FinishInstall(t) \/ Discard(t)
    <3>1. \E what : Return(t, what)
      BY <2>2 DEF FinishInstall, Discard, Raise
    <3> QED  BY <1>1, <3>1
  <2> QED  BY <1>5, <2>1, <2>2 DEF Hands
<1>6. CASE Refers(t)
  BY <1>6 DEF Refers, Drop, Share, Call, At, world, locals, BatchesKeep
<1> QED  BY <1>2, <1>3, <1>4, <1>5, <1>6

LEMMA ListsAreSequences ==
  ASSUME PyObjectsAssumption, NEW l \in Lists
  PROVE  Len(l) \in Nat /\ DOMAIN l = 1 .. Len(l)
<1>1. l \in Seq([kind : STRING, text : STRING])
  BY DEF PyObjectsAssumption
<1> QED  BY <1>1, LenProperties

(* A batch begins with nothing read and nothing written. *)
LEMMA BatchBegins ==
  ASSUME PyObjectsAssumption, HoldersInv, ReadInv, FoundInv, BatchInv, NEW t \in Threads,
         BeginBatch(t)
  PROVE  BatchOf(t)'
<1>1. /\ pc[t] = "idle" /\ pc' = [pc EXCEPT ![t] = "sizing"]
      /\ copy' = [copy EXCEPT ![t] = IF freeThreaded THEN list ELSE << >>]
      /\ size' = [size EXCEPT ![t] = Len(list)]
      /\ after' = [after EXCEPT ![t] = known]
      /\ UNCHANGED <<freeThreaded, list, known, read>>
  BY DEF BeginBatch, Call, At, Goto, world, shared
<1>2. /\ DOMAIN pc = Threads /\ DOMAIN copy = Threads /\ DOMAIN size = Threads
      /\ DOMAIN after = Threads /\ ReadOf(t) /\ list \in Lists
  BY DEF HoldersInv, RefsInv, ReadInv, FoundInv, BatchInv
<1>3. pc'[t] = "sizing" /\ read'[t] = << >> /\ size'[t] = Len(list) /\ after'[t] = known
  BY <1>1, <1>2 DEF ReadOf
<1>4. Items(t)' = list
  BY <1>1, <1>2 DEF Items
<1> QED  BY <1>1, <1>2, <1>3, <1>4 DEF BatchOf

LEMMA NoRemainder ==
  ASSUME PyObjectsAssumption
  PROVE  0 % Chunk = 0 /\ \A n \in Nat : n % Chunk = 0 => (n + Chunk) % Chunk = 0
<1>1. Chunk \in Nat \ {0}
  BY DEF PyObjectsAssumption
<1>2. ASSUME NEW q \in Int, NEW x \in Int, x = q * Chunk PROVE x % Chunk = 0
  <2> DEFINE d == x \div Chunk
             r == x % Chunk
  <2>1. d = x \div Chunk /\ r = x % Chunk
    OBVIOUS
  <2> HIDE DEF d, r
  <2>2. x = q * Chunk + 0 /\ 0 \in 0 .. (Chunk - 1)
    BY ONLY <1>1, <1>2, x \in Int, q \in Int
  <2>3. r = 0
    BY ONLY <1>1, <2>1, <2>2, Remainder, x \in Int, q \in Int
  <2> QED  BY <2>1, <2>3
<1>3. 0 % Chunk = 0
  <2>1. 0 = 0 * Chunk
    BY <1>1
  <2> QED  BY ONLY <1>2, <2>1, 0 \in Int
<1>4. ASSUME NEW n \in Nat, n % Chunk = 0 PROVE (n + Chunk) % Chunk = 0
  <2> DEFINE d == n \div Chunk
             r == n % Chunk
             x == n + Chunk
  <2>1. d \in Nat /\ r \in 0 .. (Chunk - 1) /\ n = d * Chunk + r
    BY ONLY <1>1, Quotient, n \in Nat, Zenon
  <2>2. r = 0
    BY <1>4
  <2> HIDE DEF d, r
  <2>3. x = (d + 1) * Chunk /\ x \in Int /\ d + 1 \in Int
    BY ONLY <1>1, <2>1, <2>2, n \in Nat
  <2> HIDE DEF x
  <2>4. x % Chunk = 0
    BY ONLY <1>2, <2>3
  <2> QED  BY <2>4 DEF x
<1> QED  BY <1>3, <1>4

LEMMA BatchTakesOut ==
  ASSUME PyObjectsAssumption, HoldersInv, ReadInv, BatchInv, NEW t \in Threads, TakeOut(t)
  PROVE  BatchOf(t)'
<1>1. /\ pc[t] = "sizing" /\ pc' = [pc EXCEPT ![t] = "batch"]
      /\ out' = [out EXCEPT ![t] = [k \in 1 .. size[t] |-> NotWritten]]
      /\ UNCHANGED <<freeThreaded, list, known, copy, read, size, after>>
  BY DEF TakeOut, At, Goto, world, shared
<1>2. /\ DOMAIN pc = Threads /\ DOMAIN out = Threads
      /\ read[t] = << >> /\ Items(t) \in Lists /\ size[t] = Len(Items(t)) /\ (after[t] => known)
  BY <1>1 DEF HoldersInv, RefsInv, BatchInv, BatchOf
<1>3. Items(t)' = Items(t)
  BY <1>1 DEF Items
<1>4. /\ pc'[t] = "batch" /\ read'[t] = << >> /\ size'[t] = size[t]
      /\ out'[t] = [k \in 1 .. size[t] |-> NotWritten] /\ size[t] \in Nat
  <2>1. size[t] \in Nat
    BY <1>2, ListsAreSequences
  <2> QED  BY <1>1, <1>2, <2>1
<1>5. Len(<< >>) = 0 /\ 0 % Chunk = 0
  BY NoRemainder
<1>6. (Items(t) \in Lists /\ size[t] = Len(Items(t)) /\ (after[t] => known))'
  BY <1>1, <1>2, <1>3
<1>7. /\ Len(read'[t]) = 0
      /\ Len(read'[t]) \in 0 .. size'[t]
      /\ Len(read'[t]) % Chunk = 0
      /\ out'[t] = [k \in 1 .. size'[t] |-> out'[t][k]]
      /\ \A k \in 1 .. size'[t] : out'[t][k] = NotWritten
  BY <1>4, <1>5
<1>8. read'[t] = [k \in 1 .. Len(read'[t]) |-> read'[t][k]]
  <2>1. << >> = [k \in 1 .. 0 |-> (<< >>)[k]]
    OBVIOUS
  <2> QED  BY <1>4, <1>7, <2>1
<1>9. 1 .. 0 = {} /\ 0 + 1 = 1
  OBVIOUS
<1> HIDE DEF Items
<1> QED  BY ONLY <1>4, <1>6, <1>7, <1>8, <1>9 DEF BatchOf, NotWritten

LEMMA BatchInit == ASSUME Init PROVE BatchInv
<1>1. list \in Lists /\ DOMAIN out = Threads /\ \A t \in Threads : pc[t] = "idle"
  BY DEF Init
<1> QED  BY <1>1 DEF BatchInv, BatchOf

(* A batch goes on by one chunk: it writes what single lookups of its keys    *)
(* give, and nothing else.                                                  *)
LEMMA BatchGoesOn ==
  ASSUME PyObjectsAssumption, HoldersInv, HoldersInv', ReadInv, FoundInv, BatchInv,
         [Next]_vars, NEW t \in Threads, BatchChunk(t)
  PROVE  BatchOf(t)'
<1> DEFINE I == Items(t)
           E == EntriesAt(struct)
           done == Len(read[t])
           end == ChunkEnd(t)
           m == end - done
           texts == [k \in 1 .. m |-> I[done + k].text]
           words == LookupMany(InStruct, texts)
           next == [k \in DOMAIN texts |-> <<I[done + k], words[k]>>]
           n == size[t]
<1>1. /\ pc[t] = "batch" /\ done < n
      /\ \A k \in ChunkKeys(t) : HasKey(t, k)
      /\ out' = [out EXCEPT ![t] =
           [k \in DOMAIN @ |-> IF k \in ChunkKeys(t) THEN words[k - done] ELSE @[k]]]
      /\ read' = [read EXCEPT ![t] = @ \o next]
      /\ UNCHANGED <<freeThreaded, class, list, known, pc, copy, size, after, struct, heap>>
  BY DEF BatchChunk, At, world, shared
<1>2. /\ DOMAIN out = Threads /\ DOMAIN read = Threads
      /\ I \in Lists /\ n = Len(I) /\ (after[t] => known)
      /\ done \in 0 .. n
      /\ read[t] = [k \in 1 .. done |-> read[t][k]]
      /\ done = n \/ done % Chunk = 0
      /\ out[t] = [k \in 1 .. n |-> out[t][k]]
      /\ \A k \in 1 .. done : IsKey(I[k]) /\ (after[t] => out[t][k] = LookupIn(E, I[k].text))
      /\ \A k \in (done + 1) .. n : out[t][k] = NotWritten
  BY <1>1 DEF ReadInv, BatchInv, BatchOf
<1>3. n \in Nat /\ Chunk \in Nat \ {0}
  BY <1>2, ListsAreSequences DEF PyObjectsAssumption
<1>4. end = (IF done + Chunk < n THEN done + Chunk ELSE n) /\ ChunkKeys(t) = (done + 1) .. end
  BY DEF ChunkEnd, ChunkKeys
<1>5. \A k \in ChunkKeys(t) : IsKey(I[k])
  BY <1>1 DEF HasKey
<1> HIDE DEF I, E, n
<1>6. I' = I /\ E' = E
  BY <1>1 DEF I, E, Items, EntriesAt
<1>7. /\ out'[t] = [k \in 1 .. n |-> IF k \in (done + 1) .. end THEN words[k - done] ELSE out[t][k]]
      /\ read'[t] = read[t] \o next
  <2>1. DOMAIN out[t] = 1 .. n
    BY <1>2
  <2> HIDE DEF words, next, done, end
  <2> QED  BY <1>1, <1>2, <1>4, <2>1
<1>8. /\ done \in Nat /\ end \in (done + 1) .. n /\ m \in Nat /\ m = end - done
      /\ end = n \/ end = done + Chunk
  <2> HIDE DEF done, end
  <2> QED  BY ONLY <1>1, <1>2, <1>3, <1>4
<1>9. Len(texts) = m /\ DOMAIN texts = 1 .. m
  <2>1. texts = [k \in 1 .. m |-> texts[k]]
    OBVIOUS
  <2> HIDE DEF texts, m
  <2>2. Len(texts) = m
    BY ONLY <1>8, <2>1, LenOf
  <2>3. DOMAIN texts = 1 .. m
    BY ONLY <2>1
  <2> QED  BY <2>2, <2>3
<1>10. \A k \in 1 .. m : words[k] = LookupAt(InStruct, texts[k]) /\ texts[k] = I[done + k].text
  <2>1. \A k \in 1 .. m : texts[k] = I[done + k].text
    OBVIOUS
  <2> HIDE DEF texts, m
  <2>2. \A k \in 1 .. m : words[k] = LookupAt(InStruct, texts[k])
    <3>1. Len(texts) \in Nat
      BY <1>8, <1>9
    <3>2. \A k \in 1 .. Len(texts) : LookupMany(InStruct, texts)[k] = LookupAt(InStruct, texts[k])
      BY ONLY <3>1, LookupManyIs
    <3> QED  BY <1>9, <3>2
  <2> QED  BY <2>1, <2>2
<1>11. Len(read'[t]) = end /\ read'[t] = [k \in 1 .. end |-> read'[t][k]]
  <2>1. next = [k \in 1 .. m |-> next[k]]
    BY <1>9
  <2> HIDE DEF next, m, end, done
  <2>2. read[t] \o next = [k \in 1 .. (done + m) |-> (read[t] \o next)[k]] /\ Len(read[t] \o next) = done + m
    BY ONLY <1>2, <1>8, <2>1, LenOfJoined
  <2>3. done + m = end
    BY ONLY <1>8
  <2> QED  BY ONLY <1>7, <2>2, <2>3
<1>12. end = n \/ end % Chunk = 0
  <2> HIDE DEF end, done
  <2>1. done % Chunk = 0
    BY ONLY <1>1, <1>2, <1>3, <1>8
  <2>2. (done + Chunk) % Chunk = 0
    BY <1>8, <2>1, NoRemainder
  <2> QED  BY <1>8, <2>2
<1> HIDE DEF done, end, m, texts, words, next
<1>13. ASSUME NEW k \in 1 .. end
       PROVE  IsKey(I[k]) /\ (after[t] => out'[t][k] = LookupIn(E, I[k].text))
  <2>1. k \in 1 .. n
    BY ONLY <1>3, <1>8, k \in 1 .. end
  <2>2. CASE k \in 1 .. done
    <3>1. k \notin (done + 1) .. end
      BY <1>8, <2>2
    <3>2. out'[t][k] = out[t][k]
      BY <1>7, <2>1, <3>1
    <3> QED  BY <1>2, <2>2, <3>2
  <2>3. CASE k \in (done + 1) .. end
    <3>1. k - done \in 1 .. m /\ done + (k - done) = k
      BY ONLY <1>8, <2>3
    <3>2. out'[t][k] = words[k - done]
      BY <1>7, <2>1, <2>3
    <3>3. words[k - done] = LookupAt(InStruct, I[k].text)
      BY <1>10, <3>1
    <3>4. t \in refs
      BY <1>1 DEF HoldersInv, RefsInv
    <3>5. ASSUME after[t] PROVE LookupAt(InStruct, I[k].text) = LookupIn(E, I[k].text)
      BY <1>2, <3>4, <3>5, BatchReads DEF E
    <3>6. IsKey(I[k])
      BY <1>4, <1>5, <2>3
    <3> QED  BY <3>2, <3>3, <3>5, <3>6
  <2> QED  BY ONLY <1>8, <2>2, <2>3, k \in 1 .. end
<1>14. \A k \in (end + 1) .. n : out'[t][k] = NotWritten
  <2>1. SUFFICES ASSUME NEW k \in (end + 1) .. n PROVE out'[t][k] = NotWritten
    OBVIOUS
  <2>2. k \in 1 .. n /\ k \in (done + 1) .. n /\ k \notin (done + 1) .. end
    BY ONLY <1>3, <1>8, k \in (end + 1) .. n
  <2> QED  BY <1>2, <1>7, <2>2
<1>15. out'[t] = [k \in 1 .. n |-> out'[t][k]]
  BY <1>7
<1>16. \A k \in 1 .. end : (IsKey(I[k]) /\ (after[t] => out[t][k] = LookupIn(E, I[k].text)))'
  <2>1. SUFFICES ASSUME NEW k \in 1 .. end
                 PROVE  (IsKey(I[k]) /\ (after[t] => out[t][k] = LookupIn(E, I[k].text)))'
    OBVIOUS
  <2>2. IsKey(I[k])' = IsKey(I[k])
    BY ONLY <1>6 DEF IsKey
  <2>3. class' = class
    BY <1>1
  <2>4. LookupIn(E, I[k].text)' = LookupIn(E, I[k].text)
    BY ONLY <1>6, <2>3 DEF LookupIn, Absent
  <2>5. after'[t] = after[t]
    BY <1>1
  <2> QED  BY <1>13, <2>2, <2>4, <2>5
<1>17. /\ pc'[t] = "batch" /\ size'[t] = n
       /\ (I \in Lists /\ (after[t] => known))' /\ size'[t] = Len(I')
       /\ Len(read'[t]) = end /\ end \in 0 .. n
       /\ read'[t] = [k \in 1 .. Len(read'[t]) |-> read'[t][k]]
       /\ end = n \/ end % Chunk = 0
  <2>1. size' = size /\ pc' = pc /\ after' = after /\ known' = known /\ pc[t] = "batch"
    BY <1>1
  <2>2. size'[t] = n
    BY <2>1 DEF n
  <2>3. end \in 0 .. n
    BY ONLY <1>3, <1>8
  <2> QED  BY <1>2, <1>6, <1>11, <1>12, <2>1, <2>2, <2>3
<1> QED  BY ONLY <1>14, <1>15, <1>16, <1>17 DEF BatchOf, I, E, NotWritten

(* The list changes while a batch reads it only if the batch reads a copy.   *)
LEMMA BatchNext ==
  ASSUME PyObjectsAssumption, ~ Reentrant, HoldersInv, HoldersInv', ReadInv, FoundInv, BatchInv,
         [Next]_vars
  PROVE  BatchInv'
<1>0. /\ pc \in [Threads -> Labels] /\ known \in BOOLEAN /\ freeThreaded \in BOOLEAN
      /\ DOMAIN out = Threads /\ \A u \in Threads : BatchOf(u)
  BY DEF HoldersInv, RefsInv, FoundInv, ReadInv, BatchInv
<1>1. CASE CloseBuffer \/ Changes \/ UNCHANGED vars
  <2>1. UNCHANGED <<freeThreaded, class, pc, copy, read, size, after, out>>
    BY <1>1 DEF CloseBuffer, Changes, vars, world, locals
  <2>2. freeThreaded \/ list' = list \/ \A u \in Threads : pc[u] \in {"idle", "building"}
    BY <1>1 DEF CloseBuffer, Changes, vars, world, OthersRun, Outside
  <2>3. list' \in Lists
    BY <1>1 DEF CloseBuffer, Changes, vars, world, BatchInv
  <2>4. ASSUME NEW u \in Threads PROVE BatchOf(u)'
    <3>1. pc[u] \in {"sizing", "batch"} => Items(u)' = Items(u)
      BY <1>0, <2>1, <2>2 DEF Items
    <3> QED  BY <1>0, <2>1, <3>1, BatchKept
  <2> QED  BY <1>0, <2>1, <2>3, <2>4 DEF BatchInv
<1>2. CASE \E t \in Threads : Moves(t) \/ Returns(t) \/ Opens(t) \/ Hands(t) \/ Refers(t)
  <2>1. PICK t \in Threads : Moves(t) \/ Returns(t) \/ Opens(t) \/ Hands(t) \/ Refers(t)
    BY <1>2
  <2>2. /\ BatchesKeep(t)
        /\ pc'[t] \in {"sizing", "batch"} => BeginBatch(t) \/ TakeOut(t) \/ BatchChunk(t)
    BY <1>0, <2>1, StepBatches
  <2>3. OthersKeep(t)
    BY <1>0, <2>1, StepKeeps
  <2>4. LookupsKeep(t)
    BY <1>0, <2>1, StepLookups
  <2>5. /\ list' = list /\ DOMAIN out' = Threads /\ class' = class /\ freeThreaded' = freeThreaded
        /\ \A u \in Threads \ {t} :
             /\ pc'[u] = pc[u] /\ copy'[u] = copy[u] /\ read'[u] = read[u]
             /\ size'[u] = size[u] /\ out'[u] = out[u] /\ after'[u] = after[u]
    BY <2>2, <2>3, <2>4 DEF BatchesKeep, OthersKeep, LookupsKeep, FoundInv
  <2>6. ASSUME NEW u \in Threads \ {t} PROVE BatchOf(u)'
    <3>1. Items(u)' = Items(u)
      BY <2>5 DEF Items
    <3> QED  BY <1>0, <2>5, <3>1, BatchKept
  <2>7. BatchOf(t)'
    <3>1. CASE pc'[t] \in {"sizing", "batch"}
      BY <2>2, <3>1, BatchBegins, BatchTakesOut, BatchGoesOn
    <3>2. CASE pc'[t] \notin {"sizing", "batch"}
      BY <3>2 DEF BatchOf
    <3> QED  BY <3>1, <3>2
  <2>8. list \in Lists
    BY DEF BatchInv
  <2> QED  BY <2>5, <2>6, <2>7, <2>8 DEF BatchInv
<1> QED  BY <1>1, <1>2 DEF Next, Moves, Returns, Opens, Hands, Refers

(* A batch ends when it has written everything or comes to what is no key.    *)
LEMMA EndsOfBatch ==
  ASSUME pc \in [Threads -> Labels], ReadInv, [Next]_vars, NEW t \in Threads, pc[t] = "batch", pc'[t] = "idle"
  PROVE  BatchRefused(t) \/ EndBatch(t)
<1>1. CASE CloseBuffer \/ Changes \/ UNCHANGED vars
  BY <1>1 DEF CloseBuffer, Changes, vars
<1>2. CASE \E u \in Threads : Moves(u) \/ Returns(u) \/ Opens(u) \/ Hands(u) \/ Refers(u)
  <2>1. PICK u \in Threads : Moves(u) \/ Returns(u) \/ Opens(u) \/ Hands(u) \/ Refers(u)
    BY <1>2
  <2>2. u = t
    BY <2>1, StepKeeps DEF OthersKeep
  <2>3. CASE Moves(t)
    BY <2>3 DEF Moves, TakeDict, Allocate, ReadEntry, MoreEntries, EndRead, BeginGet, BeginBatch,
                TakeOut, BatchChunk, Call, At
  <2>4. CASE Returns(t)
    BY <2>4 DEF Returns, RefuseArguments, NoRoom, RefuseEntry, MoreEntries, BuildFails, EndGet,
                NoOut, Call, At
  <2>5. CASE Opens(t)
    BY <2>5 DEF Opens, New, FromBytes, FromBuffer, OpenFails, OpenDone, At
  <2>6. CASE Hands(t)
    BY <2>6 DEF Hands, BuildMap, BeginInstall, FinishInstall, Discard, Enter, At
  <2>7. CASE Refers(t)
    BY <2>7 DEF Refers, Drop, Share, Call, At
  <2> QED  BY <2>1, <2>2, <2>3, <2>4, <2>5, <2>6, <2>7
<1> QED  BY <1>1, <1>2 DEF Next, Moves, Returns, Opens, Hands, Refers

LEMMA BatchEnds ==
  ASSUME PyObjectsAssumption, HoldersInv, ReadInv, BatchInv, [Next]_vars,
         NEW t \in Threads, pc[t] = "batch", pc'[t] = "idle", after[t]
  PROVE  EndsRight(t)
<1> DEFINE l == Items(t)
           E == EntriesAt(struct)
           done == Len(read[t])
           n == size[t]
<1>1. /\ l \in Lists /\ n = Len(l)
      /\ done \in 0 .. n
      /\ done = n \/ done % Chunk = 0
      /\ out[t] = [k \in 1 .. n |-> out[t][k]]
      /\ \A k \in 1 .. done : IsKey(l[k]) /\ out[t][k] = LookupIn(E, l[k].text)
      /\ \A k \in (done + 1) .. n : out[t][k] = NotWritten
  BY DEF BatchInv, BatchOf
<1>2. n \in Nat /\ DOMAIN l = 1 .. n
  BY <1>1, ListsAreSequences
<1>3. BatchRefused(t) \/ EndBatch(t)
  BY EndsOfBatch DEF HoldersInv, RefsInv
<1>4. BatchRefused(t) => answer'.what \in {"TypeError", "UnicodeEncodeError"} /\ done < n
  <2>1. SUFFICES ASSUME BatchRefused(t)
                 PROVE  answer'.what \in {"TypeError", "UnicodeEncodeError"} /\ done < n
    OBVIOUS
  <2>2. \E key : answer'.what \in {KeyFault(key), "TypeError"}
    <3>1. ASSUME NEW exception, Raise(t, exception) PROVE answer'.what = exception
      BY <3>1 DEF Raise, Raised, Return, Says
    <3>2. PICK k : Raise(t, IF k \in DOMAIN Items(t) THEN KeyFault(Items(t)[k]) ELSE "TypeError")
      BY <2>1 DEF BatchRefused
    <3> QED  BY <3>1, <3>2
  <2>3. answer'.what \in {"TypeError", "UnicodeEncodeError"}
    BY <2>2 DEF KeyFault
  <2>4. \E k \in (done + 1) .. (IF done + Chunk < n THEN done + Chunk ELSE n) : TRUE
    BY <2>1 DEF BatchRefused, ChunkKeys, ChunkEnd
  <2>5. done < n
    <3> HIDE DEF done, n
    <3>1. Chunk \in Nat
      BY DEF PyObjectsAssumption
    <3> QED  BY ONLY <1>1, <1>2, <2>4, <3>1
  <2> QED  BY <2>3, <2>5
<1>5. EndBatch(t) =>
        /\ done = n
        /\ \/ answer'.what = "written"
           \/ /\ answer'.what = "list"
              /\ answer'.items = [k \in DOMAIN out[t] |-> OrDefault(out[t][k])]
  <2>1. ASSUME Return(t, Says("written", "", n)) PROVE answer'.what = "written"
    BY <2>1 DEF Return, Says
  <2>2. ASSUME NEW items, Return(t, ListOf(items))
        PROVE  answer'.what = "list" /\ answer'.items = items
    BY <2>2 DEF Return, ListOf
  <2> QED  BY <2>1, <2>2 DEF EndBatch
<1> HIDE DEF l, E, done, n
<1>6. Len(l) = Len(out[t])
  <2> DEFINE o == out[t]
  <2>1. o = [k \in 1 .. n |-> o[k]]
    BY <1>1
  <2> HIDE DEF o
  <2>2. Len(o) = n
    BY ONLY <1>2, <2>1, LenOf
  <2> QED  BY <1>1, <2>2 DEF o
<1>7. /\ done \in 0 .. Len(l)
      /\ IF answer'.what \in {"written", "list"} THEN done = Len(l) ELSE done % Chunk = 0
  BY ONLY <1>1, <1>2, <1>3, <1>4, <1>5
<1>8. \A k \in 1 .. Len(l) :
        IF k <= done THEN IsKey(l[k]) /\ out[t][k] = LookupIn(E, l[k].text)
        ELSE out[t][k] = NotWritten
  <2>1. SUFFICES ASSUME NEW k \in 1 .. n
                 PROVE  IF k <= done THEN IsKey(l[k]) /\ out[t][k] = LookupIn(E, l[k].text)
                        ELSE out[t][k] = NotWritten
    BY <1>1
  <2>2. k <= done => k \in 1 .. done
    BY ONLY <1>1, <1>2, k \in 1 .. n
  <2>3. ~ (k <= done) => k \in (done + 1) .. n
    BY ONLY <1>1, <1>2, k \in 1 .. n
  <2> QED  BY <1>1, <2>2, <2>3
<1>9. answer'.what = "list" =>
        answer'.items = [k \in DOMAIN l |-> OrDefault(LookupIn(E, l[k].text))]
  <2>1. SUFFICES ASSUME answer'.what = "list"
                 PROVE  answer'.items = [k \in DOMAIN l |-> OrDefault(LookupIn(E, l[k].text))]
    OBVIOUS
  <2>2. done = n /\ answer'.items = [k \in DOMAIN out[t] |-> OrDefault(out[t][k])]
    BY <1>3, <1>4, <1>5, <2>1
  <2>3. DOMAIN out[t] = 1 .. n
    BY <1>1
  <2>4. \A k \in 1 .. n : out[t][k] = LookupIn(E, l[k].text)
    BY <1>1, <2>2
  <2> QED  BY ONLY <1>2, <2>2, <2>3, <2>4
<1> QED  BY <1>1, <1>6, <1>7, <1>8, <1>9 DEF EndsRight, E

(* Where no other code runs in the allocations of this layer, a batch gives    *)
(* what single lookups of the keys of one state of its list give, whatever     *)
(* other threads do to the list meanwhile; and one that fails half way has     *)
(* written whole chunks of such results, and nothing else.                   *)
THEOREM BatchesRight ==
  ASSUME ~ Reentrant
  PROVE  Spec => BatchRight
<1>1. PyObjectsAssumption
  BY PyObjectsAssumption
<1> DEFINE Inv == HoldersInv /\ ReadInv /\ FoundInv /\ BatchInv
<1>2. Init => Inv
  BY <1>1, HoldersInit, ReadInit, FoundInit, BatchInit
<1>3. Inv /\ [Next]_vars => Inv'
  <2>1. SUFFICES ASSUME HoldersInv, ReadInv, FoundInv, BatchInv, [Next]_vars PROVE Inv'
    OBVIOUS
  <2>2. HoldersInv' /\ ReadInv'
    BY <1>1, <2>1, HeldStep
  <2>3. FoundInv'
    BY <1>1, <2>1, <2>2, FoundNext
  <2>4. BatchInv'
    BY <1>1, <2>1, <2>2, BatchNext, ~ Reentrant
  <2> QED  BY <2>2, <2>3, <2>4
<1>4. Inv /\ [Next]_vars =>
        [\A t \in Threads : pc[t] = "batch" /\ pc'[t] = "idle" /\ after[t] => EndsRight(t)]_vars
  BY <1>1, BatchEnds
<1> HIDE DEF Inv
<1> QED  BY <1>2, <1>3, <1>4, PTL DEF Spec, BatchRight

-----------------------------------------------------------------------------
(* What __init__ refuses. *)

(* A step that ends the reading of a dict before its end refuses an entry.   *)
LEMMA EndsOfReading ==
  ASSUME pc \in [Threads -> Labels], ReadInv, NEW t \in Threads, Next,
         pc[t] = "reading", pc'[t] = "idle"
  PROVE  RefuseEntry(t)
<1>1. CASE CloseBuffer \/ Changes
  BY <1>1 DEF CloseBuffer, Changes
<1>2. CASE \E u \in Threads : Moves(u) \/ Returns(u) \/ Opens(u) \/ Hands(u) \/ Refers(u)
  <2>1. PICK u \in Threads : Moves(u) \/ Returns(u) \/ Opens(u) \/ Hands(u) \/ Refers(u)
    BY <1>2
  <2>2. u = t
    BY <2>1, StepKeeps DEF OthersKeep
  <2>3. CASE Moves(t)
    <3>1. pc'[t] = pc[t] \/ pc'[t] = "building" \/ pc[t] # "reading"
      BY <2>3 DEF Moves, TakeDict, Allocate, ReadEntry, MoreEntries, EndRead, BeginGet, BeginBatch,
                  TakeOut, BatchChunk, Call, At, Goto
    <3> QED  BY <3>1
  <2>4. CASE Returns(t)
    BY <2>4 DEF Returns, RefuseArguments, NoRoom, BuildFails, EndGet, NoOut, BatchRefused, EndBatch,
                Call, At
  <2>5. CASE Opens(t)
    BY <2>5 DEF Opens, New, FromBytes, FromBuffer, OpenFails, OpenDone, At
  <2>6. CASE Hands(t)
    BY <2>6 DEF Hands, BuildMap, BeginInstall, FinishInstall, Discard, Enter, At
  <2>7. CASE Refers(t)
    BY <2>7 DEF Refers, Drop, Share, Call, At
  <2> QED  BY <2>1, <2>2, <2>3, <2>4, <2>5, <2>6, <2>7
<1> QED  BY <1>1, <1>2 DEF Next, Moves, Returns, Opens, Hands, Refers

LEMMA ReadingEnds ==
  ASSUME PyObjectsAssumption, HoldersInv, ReadInv, OneDictInv, [Next]_vars,
         NEW t \in Threads, pc[t] = "reading", pc'[t] = "idle"
  PROVE  RefusedRight(t)
<1> DEFINE d == Entries(t)
           n == Len(read[t])
           e == d[n + 1]
<1>1. pc \in [Threads -> Labels] /\ Next
  BY DEF HoldersInv, RefsInv, vars
<1>2. RefuseEntry(t)
  BY <1>1, EndsOfReading
<1>3. /\ d \in Dicts /\ read[t] \in Seq([kind : STRING, text : STRING] \X Nat)
      /\ ReadsOf(t, d)
  BY DEF ReadInv, ReadOf, OneDictInv, OneDictOf
<1>4. /\ Len(d) \in Nat /\ DOMAIN d = 1 .. Len(d)
      /\ \A k \in 1 .. Len(d) : d[k].value.number \in Int
  BY <1>3, EntriesAreTyped
<1>5. n < Len(d) /\ ~ IsGood(e) /\ Raise(t, EntryFault(e))
  BY <1>2 DEF RefuseEntry, MoreEntries, NextEntry
<1>6. answer'.what = EntryFault(e)
  BY <1>5 DEF Raise, Raised, Return, Says
<1>7. n \in Nat /\ DOMAIN read[t] = 1 .. n
  BY <1>3
<1>8. \A k \in DOMAIN read[t] :
        IsGood(d[k]) /\ read[t][k] = <<d[k].key, Word(d[k].value.number)>>
  BY <1>3 DEF ReadsOf
<1>9. Len(d) = size[t]
  BY <1>3 DEF ReadsOf
<1> HIDE DEF d, n
<1>10. n + 1 <= Len(d) /\ n + 1 \in 1 .. Len(d)
  BY <1>4, <1>5, <1>7
<1>11. ~ IsAllowed(e)
  BY <1>4, <1>5, <1>10, GoodIsAllowed
<1>12. \A k \in DOMAIN read[t] : IsAllowed(d[k]) /\ read[t][k][1] = d[k].key
  <2>1. SUFFICES ASSUME NEW k \in DOMAIN read[t]
                 PROVE  IsAllowed(d[k]) /\ read[t][k][1] = d[k].key
    OBVIOUS
  <2>2. k \in 1 .. Len(d)
    BY <1>4, <1>5, <1>7, <2>1
  <2>3. d[k].value.number \in Int
    BY <1>4, <2>2
  <2>4. IsGood(d[k]) /\ read[t][k] = <<d[k].key, Word(d[k].value.number)>>
    BY <1>8, <2>1
  <2>5. IsAllowed(d[k])
    BY <2>3, <2>4, GoodIsAllowed
  <2> QED  BY <2>4, <2>5
<1>13. answer'.what = "OverflowError" <=> IsKey(e.key) /\ IsInt(e.value)
  BY <1>6 DEF EntryFault, KeyFault
<1> QED  BY <1>3, <1>9, <1>10, <1>11, <1>12, <1>13 DEF RefusedRight, n

(* Where no other code runs in the allocations of this layer, __init__ refuses *)
(* only the first entry of a dict that no map can hold, and blames a number    *)
(* only if it is outside of the range: neither minus one nor all ones, which   *)
(* a conversion gives also when it fails, is taken for a failure.            *)
THEOREM RefusalsHaveReason ==
  ASSUME ~ Reentrant
  PROVE  Spec => RefusesWithReason
<1>1. PyObjectsAssumption
  BY PyObjectsAssumption
<1> DEFINE Inv == HoldersInv /\ ReadInv /\ OneDictInv
<1>2. Init => Inv
  BY <1>1, HoldersInit, ReadInit, OneDictInit
<1>3. Inv /\ [Next]_vars => Inv'
  <2>1. SUFFICES ASSUME HoldersInv, ReadInv, OneDictInv, [Next]_vars PROVE Inv'
    OBVIOUS
  <2>2. HoldersInv' /\ ReadInv'
    BY <1>1, <2>1, HeldStep
  <2>3. OneDictInv'
    BY <1>1, <2>1, OneDictNext, ~ Reentrant
  <2> QED  BY <2>2, <2>3
<1>4. Inv /\ [Next]_vars =>
        [\A t \in Threads : pc[t] = "reading" /\ pc'[t] = "idle" => RefusedRight(t)]_vars
  BY <1>1, ReadingEnds
<1> HIDE DEF Inv
<1> QED  BY <1>2, <1>3, <1>4, PTL DEF Spec, RefusesWithReason
=============================================================================
