----------------------------- MODULE PyObjects ------------------------------
(***************************************************************************)
(* The Python layer (fastconstmap_module.c): threads that share one map      *)
(* object, build it with __init__ from a dict, look keys up in it one at a   *)
(* time or in batches from a list, and drop it; or open it on a buffer that   *)
(* somebody else owns.  Dict and list are shared with code that changes them. *)
(*                                                                         *)
(* On a free-threaded build threads run at the same time.  Otherwise there is  *)
(* the GIL: a thread inside this layer excludes all Python code, except while  *)
(* the core builds a map, when the code lets go of it.                       *)
(***************************************************************************)
EXTENDS Integers, Sequences

CONSTANTS Threads,
          WordBits,         \* the width of a value: 64
          Dicts,            \* what the dict may hold: sequences of entries
          Lists,            \* what the list may hold: sequences of keys
          LookedUp,         \* the keys that are looked up
          Stored,           \* what a good image of a map holds
          Reentrant,        \* whether other Python code may run while this layer
                            \* allocates an object or asks for a buffer
          Chunk,            \* FCM_PY_CHUNK: 64
          Block,            \* FCM_BATCH_BLOCK: 8
          MaxMaps           \* bound on the maps that are ever built

ASSUME PyObjectsAssumption ==
  /\ WordBits \in Nat \ {0}
  /\ 2^WordBits \in Nat
  /\ 2^(WordBits - 1) \in 0 .. (2^WordBits - 1)
  /\ Dicts \subseteq Seq([key : [kind : STRING, text : STRING],
                          value : [kind : STRING, number : Int]])
  /\ Lists \subseteq Seq([kind : STRING, text : STRING])
  /\ Stored \in Seq(STRING \X Nat)
  /\ \A j, k \in DOMAIN Stored : Stored[j][1] = Stored[k][1] => j = k
  /\ Chunk \in Nat \ {0}
  /\ Block \in Nat \ {0}
  /\ MaxMaps \in Nat
  /\ Reentrant \in BOOLEAN

VARIABLES
  freeThreaded,     \* whether the build has no GIL
  class,            \* "constmap", or "verified" for the other two classes
  dict, list,       \* the shared dict and list
  heap,             \* the contents of the maps built, in order; Freed if freed
  object,           \* none, opening, fresh, ready or gone
  struct,           \* the map the object's struct points at
  exports,          \* how often the buffer is exported
  closed,           \* whether its owner has closed it
  refs,             \* the threads that have a reference to the object
  pc,               \* where each thread is
  copy,             \* the dict or list a thread reads, if it has its own
  read,             \* what it has read of it, keys with their words
  size,             \* the size it had
  built,            \* the map a thread has built and not yet handed over
  points,           \* what a lookup found in the struct
  out,              \* the results of a batch
  after,            \* whether a call began after the object was known ready
  answer,           \* what the call returns that this step ends, if any
  known             \* whether some __init__ has returned, or raised because the
                    \* object is initialized, or it came with its entries

world  == <<freeThreaded, class, dict, list>>
shared == <<heap, object, struct, exports, closed, refs, known>>
locals == <<copy, read, size, built, points, out, after>>
vars   == <<world, shared, pc, locals, answer>>

(* A struct that is zeroed, one that is in a buffer, and one half copied.     *)
Null == 0
InBuffer == -1
Torn == -2

(* What a map is when it is freed: no contents, since no word is negative.    *)
Freed == << <<"freed", -1>> >>

(* What a call ends with: what it says, of which text, with which word, and    *)
(* the list get_many returns; and whether it was called when the object was     *)
(* known to have its entries.                                                *)
Says(what, text, word) ==
  [what |-> what, text |-> text, word |-> word, items |-> << >>, sure |-> FALSE]

ListOf(items) ==
  [what |-> "list", text |-> "", word |-> Len(items), items |-> items, sure |-> FALSE]

Raised(exception) == Says(exception, "", 0)

Nothing == Says("quiet", "", 0)

Init ==
  /\ freeThreaded \in BOOLEAN
  /\ class \in {"constmap", "verified"}
  /\ dict \in Dicts
  /\ list \in Lists
  /\ heap = << >>
  /\ object = "none"
  /\ struct = Null
  /\ exports = 0
  /\ closed = FALSE
  /\ refs = {}
  /\ known = FALSE
  /\ pc = [t \in Threads |-> "idle"]
  /\ copy = [t \in Threads |-> << >>]
  /\ read = [t \in Threads |-> << >>]
  /\ size = [t \in Threads |-> 0]
  /\ built = [t \in Threads |-> Null]
  /\ points = [t \in Threads |-> Null]
  /\ out = [t \in Threads |-> << >>]
  /\ after = [t \in Threads |-> FALSE]
  /\ answer = Nothing

(* Where a thread lets Python code run although it is inside a call: the core   *)
(* builds without the GIL.                                                   *)
Outside == {"idle", "building"} \union IF Reentrant THEN {"sized", "sizing"} ELSE {}

(* With the GIL, no other thread is inside the layer while this one steps.   *)
Runs(t) == freeThreaded \/ \A u \in Threads \ {t} : pc[u] \in Outside

At(t, label) == pc[t] = label /\ Runs(t)

Goto(t, label) == pc' = [pc EXCEPT ![t] = label]

(* A step that ends no call. *)
Silent == answer' = Nothing

Call(t) == At(t, "idle") /\ t \in refs

(* Every return drops what the call had. *)
Return(t, says) ==
  /\ Goto(t, "idle")
  /\ answer' = [what |-> says.what, text |-> says.text, word |-> says.word,
                 items |-> says.items, sure |-> after[t]]
  /\ copy' = [copy EXCEPT ![t] = << >>]
  /\ read' = [read EXCEPT ![t] = << >>]
  /\ size' = [size EXCEPT ![t] = 0]
  /\ built' = [built EXCEPT ![t] = Null]
  /\ points' = [points EXCEPT ![t] = Null]
  /\ out' = [out EXCEPT ![t] = << >>]
  /\ after' = [after EXCEPT ![t] = FALSE]
  /\ UNCHANGED world

Raise(t, exception) == Return(t, Raised(exception))

(* Arguments of the wrong kind are refused before anything is done: a hash of    *)
(* another name, a mapping that is no dict, keys that cannot be iterated over. *)
RefuseArguments(t) ==
  /\ Call(t)
  /\ \E exception \in {"TypeError", "ValueError"} : Raise(t, exception)
  /\ UNCHANGED shared

(***************************************************************************)
(* Keys and values                                                          *)
(***************************************************************************)
(* Of the kind of an object and its text, only the text is hashed.  A str of    *)
(* kind "surrogate" has no UTF-8 form.                                       *)
IsKey(key) == key.kind \in {"str", "bytes"}

KeyFault(key) == IF key.kind = "surrogate" THEN "UnicodeEncodeError" ELSE "TypeError"

IsInt(value) == value.kind = "int"

(* What the two conversions of an int give: it, or minus one and an error.    *)
Converted(i, least, most, mark) ==
  IF least <= i /\ i <= most THEN [word |-> i, error |-> FALSE]
  ELSE [word |-> mark, error |-> TRUE]

AllOnes == 2^WordBits - 1

NOT_FOUND == AllOnes

AsUnsigned(i) == Converted(i, 0, AllOnes, AllOnes)
AsSigned(i) == Converted(i, -(2^(WordBits - 1)), 2^(WordBits - 1) - 1, -1)

(* Slip: what is all ones is a failure, whether or not there was an error.    *)
FailsMarked(converted, mark) == converted.word = mark

Fails(converted, mark) == converted.word = mark /\ converted.error

UnsignedFails(i) == Fails(AsUnsigned(i), AllOnes)
SignedFails(i) == Fails(AsSigned(i), -1)

(* Unsigned first, and signed where that fails; two's complement.            *)
Fits(i) == ~ UnsignedFails(i) \/ ~ SignedFails(i)

Word(i) == IF UnsignedFails(i) THEN AsSigned(i).word % 2^WordBits ELSE AsUnsigned(i).word

(* What a lookup gives where the code does not say: any word, or any answer. *)
Unspecified == -2

(* A fingerprint that agrees by chance is left out. *)
Absent == IF class = "constmap" THEN Unspecified ELSE NOT_FOUND

(* Where a struct points: not into memory that is gone, or through a struct    *)
(* that is being written.                                                    *)
Readable(place) ==
  \/ place = Null
  \/ place = InBuffer /\ ~ closed
  \/ place \in DOMAIN heap /\ heap[place] # Freed

EntriesAt(place) ==
  CASE place = Null -> << >> [] place = InBuffer -> Stored [] OTHER -> heap[place]

LengthAt(place) == IF Readable(place) THEN Len(EntriesAt(place)) ELSE Unspecified

(* What a lookup gives of those entries, texts and words.                    *)
LookupIn(entries, text) ==
  LET fits == { k \in DOMAIN entries : entries[k][1] = text }
  IN IF entries = << >> THEN (IF class = "constmap" THEN 0 ELSE NOT_FOUND)
     ELSE IF fits = {} THEN Absent
     ELSE entries[CHOOSE k \in fits : TRUE][2]

LookupAt(place, text) ==
  IF Readable(place) THEN LookupIn(EntriesAt(place), text) ELSE Unspecified

(* The classes that verify take a word that is all ones for a missing key.     *)
Found(word) == class = "constmap" \/ word # NOT_FOUND

(***************************************************************************)
(* The object comes to be                                                   *)
(***************************************************************************)
(* __new__, without entries. *)
New(t) ==
  /\ At(t, "idle")
  /\ object = "none"
  /\ object' = "fresh"
  /\ refs' = {t}
  /\ UNCHANGED <<world, heap, struct, exports, closed, known, pc, locals>>
  /\ Silent

(* from_bytes and load: an object with its own copy of a good image.        *)
FromBytes(t) ==
  /\ At(t, "idle")
  /\ object = "none"
  /\ Len(heap) < MaxMaps
  /\ heap' = Append(heap, Stored)
  /\ struct' = Len(heap) + 1
  /\ object' = "ready"
  /\ refs' = {t}
  /\ known' = TRUE
  /\ UNCHANGED <<world, exports, closed, pc, locals>>
  /\ Silent

(* from_buffer exports the buffer before it looks at it. *)
FromBuffer(t) ==
  /\ At(t, "idle")
  /\ object = "none"
  /\ ~ closed
  /\ object' = "opening"
  /\ exports' = exports + 1
  /\ Goto(t, "opening")
  /\ UNCHANGED <<world, heap, struct, closed, refs, known, locals>>
  /\ Silent

OpenFails(t) ==
  /\ At(t, "opening")
  /\ exports' = exports - 1
  /\ object' = "none"
  /\ Raise(t, "ValueError")
  /\ UNCHANGED <<heap, struct, closed, refs, known>>

OpenDone(t) ==
  /\ At(t, "opening")
  /\ object' = "ready"
  /\ struct' = InBuffer
  /\ refs' = {t}
  /\ known' = TRUE
  /\ Return(t, Nothing)
  /\ UNCHANGED <<heap, exports, closed>>

(***************************************************************************)
(* __init__                                                                 *)
(***************************************************************************)
(* The dict is copied where another thread could change it, and its size is    *)
(* taken; then comes the room for that many entries, or a MemoryError.        *)
TakeDict(t) ==
  /\ Call(t)
  /\ copy' = [copy EXCEPT ![t] = IF freeThreaded THEN dict ELSE << >>]
  /\ size' = [size EXCEPT ![t] = Len(dict)]
  /\ Goto(t, "sized")
  /\ UNCHANGED <<world, shared, read, built, points, out, after>>
  /\ Silent

Allocate(t) ==
  /\ At(t, "sized")
  /\ Goto(t, "reading")
  /\ UNCHANGED <<world, shared, locals>>
  /\ Silent

NoRoom(t) ==
  /\ At(t, "sized")
  /\ Raise(t, "MemoryError")
  /\ UNCHANGED shared

(* Slip: the dict itself, on every build. *)
EntriesUncopied(t) == dict

(* What is iterated over: a copy only where another thread could change the   *)
(* dict.                                                                     *)
Entries(t) == IF freeThreaded THEN copy[t] ELSE dict

NextEntry(t) == Entries(t)[Len(read[t]) + 1]

IsGood(entry) == IsKey(entry.key) /\ IsInt(entry.value) /\ Fits(entry.value.number)

(* The key is looked at first. *)
EntryFault(entry) ==
  CASE ~ IsKey(entry.key) -> KeyFault(entry.key)
    [] IsKey(entry.key) /\ ~ IsInt(entry.value) -> "TypeError"
    [] OTHER -> "OverflowError"

MoreEntries(t) == At(t, "reading") /\ Len(read[t]) < Len(Entries(t))

(* The key is borrowed from its object, and the object is kept.             *)
ReadEntry(t) ==
  /\ MoreEntries(t)
  /\ IsGood(NextEntry(t))
  /\ read' = [read EXCEPT ![t] = Append(@, <<NextEntry(t).key, Word(NextEntry(t).value.number)>>)]
  /\ UNCHANGED <<world, shared, pc, copy, size, built, points, out, after>>
  /\ Silent

RefuseEntry(t) ==
  /\ MoreEntries(t)
  /\ ~ IsGood(NextEntry(t))
  /\ Raise(t, EntryFault(NextEntry(t)))
  /\ UNCHANGED shared

(* The copy of the dict is dropped before the core runs. *)
EndRead(t) ==
  /\ At(t, "reading")
  /\ Len(read[t]) >= Len(Entries(t))
  /\ copy' = [copy EXCEPT ![t] = << >>]
  /\ Goto(t, "building")
  /\ UNCHANGED <<world, shared, read, size, built, points, out, after>>
  /\ Silent

(* Slip: the objects of the keys are not kept. *)
KeptNone(t) == {}

Kept(t) == { read[t][k][1] : k \in DOMAIN read[t] }

(* What a key's bytes are once its object is gone, or were never written.     *)
Garbage == <<"garbage", 0>>

IsAlive(t, key) == key \in Kept(t) \/ \E k \in DOMAIN dict : dict[k].key = key

(* What the core reads of the entries it is given.                           *)
Given(t) ==
  [k \in 1 .. size[t] |->
     IF k \in DOMAIN read[t] /\ IsAlive(t, read[t][k][1])
     THEN <<read[t][k][1].text, read[t][k][2]>> ELSE Garbage]

HasDuplicate(entries) == \E j, k \in DOMAIN entries : j # k /\ entries[j][1] = entries[k][1]

(* The core runs, and the thread takes the GIL again if there is one. *)
BuildMap(t) ==
  /\ At(t, "building")
  /\ Len(heap) < MaxMaps
  /\ ~ HasDuplicate(Given(t))
  /\ heap' = Append(heap, Given(t))
  /\ built' = [built EXCEPT ![t] = Len(heap) + 1]
  /\ Goto(t, "built")
  /\ UNCHANGED <<world, object, struct, exports, closed, refs, known,
                 copy, read, size, points, out, after>>
  /\ Silent

(* It has no memory, or no graph it tried could be peeled, or two keys hash     *)
(* alike.                                                                    *)
BuildFails(t) ==
  /\ At(t, "building")
  /\ \E exception \in {"MemoryError", "RuntimeError"} \union
                      IF HasDuplicate(Given(t)) THEN {"ValueError"} ELSE {} :
       Raise(t, exception)
  /\ UNCHANGED shared

(* Slip: whether the object already holds a map is not looked at.            *)
FreeToInstallAlways == TRUE

FreeToInstall == object = "fresh"

(* Slip: without the critical section. *)
EnterAtOnce(t) == At(t, "built")

(* The critical section: no other thread is in it. *)
Enter(t) ==
  /\ At(t, "built")
  /\ \A u \in Threads : pc[u] # "copying"

BeginInstall(t) ==
  /\ Enter(t)
  /\ FreeToInstall
  /\ Goto(t, "copying")
  /\ UNCHANGED <<world, shared, locals>>
  /\ Silent

FinishInstall(t) ==
  /\ At(t, "copying")
  /\ struct' = built[t]
  /\ object' = "ready"
  /\ known' = TRUE
  /\ Return(t, Nothing)
  /\ UNCHANGED <<heap, exports, closed, refs>>

(* The object has a map already: this one is freed. *)
Discard(t) ==
  /\ Enter(t)
  /\ ~ FreeToInstall
  /\ heap' = [heap EXCEPT ![built[t]] = Freed]
  /\ known' = TRUE
  /\ Raise(t, "TypeError")
  /\ UNCHANGED <<object, struct, exports, closed, refs>>

(***************************************************************************)
(* Lookups                                                                  *)
(***************************************************************************)
(* What a lookup can find in the struct: while it is written, anything.      *)
InStruct == IF \E u \in Threads : pc[u] = "copying" THEN Torn ELSE struct

(* A lookup takes no lock.  It reads the struct, and then the array.         *)
BeginGet(t) ==
  /\ Call(t)
  /\ after' = [after EXCEPT ![t] = known]
  /\ points' = [points EXCEPT ![t] = InStruct]
  /\ Goto(t, "getting")
  /\ UNCHANGED <<world, shared, copy, read, size, built, out>>
  /\ Silent

(* m[k], get and in.  A class that does not verify has no in, and finds every  *)
(* key.                                                                      *)
Said(method, text, word) ==
  CASE Found(word) -> Says(IF method = "in" THEN "true" ELSE "word", text, word)
    [] OTHER -> Says(CASE method = "m[k]" -> "KeyError"
                       [] method = "get" -> "default"
                       [] method = "in" -> "false", text, word)

Methods == IF class = "constmap" THEN {"m[k]"} ELSE {"m[k]", "get", "in"}

(* in is False of an object of another type, whatever the entries are.       *)
EndGet(t) ==
  /\ At(t, "getting")
  /\ \/ \E key \in { k \in LookedUp : IsKey(k) }, method \in Methods :
          Return(t, Said(method, key.text, LookupAt(points[t], key.text)))
     \/ \E key \in { k \in LookedUp : ~ IsKey(k) }, method \in Methods :
          Return(t, IF method = "in" /\ KeyFault(key) = "TypeError"
                    THEN Says("no key", key.text, 0) ELSE Raised(KeyFault(key)))
     \/ Return(t, Says("length", "", LengthAt(points[t])))
  /\ UNCHANGED shared

(* get_many and get_many_into run the same loop.  The one drops its list when   *)
(* it fails, the other has written to a buffer, which must have the room.      *)
NotWritten == -1

BeginBatch(t) ==
  /\ Call(t)
  /\ copy' = [copy EXCEPT ![t] = IF freeThreaded THEN list ELSE << >>]
  /\ size' = [size EXCEPT ![t] = Len(list)]
  /\ after' = [after EXCEPT ![t] = known]
  /\ Goto(t, "sizing")
  /\ UNCHANGED <<world, shared, read, built, points, out>>
  /\ Silent

TakeOut(t) ==
  /\ At(t, "sizing")
  /\ out' = [out EXCEPT ![t] = [k \in 1 .. size[t] |-> NotWritten]]
  /\ Goto(t, "batch")
  /\ UNCHANGED <<world, shared, copy, read, size, built, points, after>>
  /\ Silent

(* No list, a buffer that is read-only, or one that is too small.            *)
NoOut(t) ==
  /\ At(t, "sizing")
  /\ \E exception \in {"MemoryError", "BufferError", "ValueError"} : Raise(t, exception)
  /\ UNCHANGED shared

(* Slip: the list itself, on every build. *)
ItemsUncopied(t) == list

Items(t) == IF freeThreaded THEN copy[t] ELSE list

ChunkEnd(t) == IF Len(read[t]) + Chunk < size[t] THEN Len(read[t]) + Chunk ELSE size[t]

(* The positions of the keys of the next chunk. *)
ChunkKeys(t) == (Len(read[t]) + 1) .. ChunkEnd(t)

(* Where the result of key j of a block goes. *)
Position(start, j) == start + j

BlockStarts(n) == { start \in 0 .. n : start % Block = 0 /\ start + Block <= n }

(* The core's batch: whole blocks, and the keys that fill none one by one.    *)
LookupMany(place, texts) ==
  LET n == Len(texts)
      Writers(k) ==
        { w \in BlockStarts(n) \X (1 .. Block) : Position(w[1], w[2]) = k }
      Gathered(k) ==
        LET w == CHOOSE x \in Writers(k) : TRUE IN LookupAt(place, texts[w[1] + w[2]])
  IN [k \in 1 .. n |->
        IF k > n - (n % Block) THEN LookupAt(place, texts[k])
        ELSE IF Writers(k) # {} THEN Gathered(k)
        ELSE NotWritten]

HasKey(t, k) == k \in DOMAIN Items(t) /\ IsKey(Items(t)[k])

BatchChunk(t) ==
  LET done == Len(read[t])
      texts == [k \in 1 .. (ChunkEnd(t) - done) |-> Items(t)[done + k].text]
      words == LookupMany(InStruct, texts)
  IN /\ At(t, "batch")
     /\ done < size[t]
     /\ \A k \in ChunkKeys(t) : HasKey(t, k)
     /\ out' = [out EXCEPT ![t] =
          [k \in DOMAIN @ |-> IF k \in ChunkKeys(t) THEN words[k - done] ELSE @[k]]]
     /\ read' = [read EXCEPT ![t] = @ \o [k \in DOMAIN texts |-> <<Items(t)[done + k], words[k]>>]]
     /\ UNCHANGED <<world, shared, pc, copy, size, built, points, after>>
     /\ Silent

(* The first key of another type, found before any of its chunk is looked up. *)
(* An item that is no longer there is no key either.                         *)
BatchRefused(t) ==
  /\ At(t, "batch")
  /\ \E k \in ChunkKeys(t) :
       /\ ~ HasKey(t, k)
       /\ \A j \in ChunkKeys(t) : j < k => HasKey(t, j)
       /\ Raise(t, IF k \in DOMAIN Items(t) THEN KeyFault(Items(t)[k]) ELSE "TypeError")
  /\ UNCHANGED shared

(* get_many_into returns how many values it wrote, get_many a list of them     *)
(* with the default for what is missing.                                     *)
Default == -3

OrDefault(word) == IF Found(word) THEN word ELSE Default

EndBatch(t) ==
  /\ At(t, "batch")
  /\ Len(read[t]) = size[t]
  /\ \/ Return(t, Says("written", "", size[t]))
     \/ Return(t, ListOf([k \in DOMAIN out[t] |-> OrDefault(out[t][k])]))
  /\ UNCHANGED shared

(***************************************************************************)
(* Other code                                                               *)
(***************************************************************************)
(* Between calls a thread hands on its reference, or drops it.  The last one  *)
(* deallocates: a view gives the buffer back and frees nothing.              *)
Share(t, u) ==
  /\ Call(t)
  /\ u \notin refs
  /\ refs' = refs \union {u}
  /\ UNCHANGED <<world, heap, object, struct, exports, closed, known, pc, locals>>
  /\ Silent

Drop(t) ==
  /\ Call(t)
  /\ refs' = refs \ {t}
  /\ IF refs # {t} THEN UNCHANGED <<heap, object, struct, exports>>
     ELSE /\ object' = "gone"
          /\ struct' = Null
          /\ exports' = IF struct = InBuffer THEN exports - 1 ELSE exports
          /\ heap' = IF struct \in DOMAIN heap THEN [heap EXCEPT ![struct] = Freed] ELSE heap
  /\ UNCHANGED <<world, closed, known, pc, locals>>
  /\ Silent

(* Other Python code closes the buffer, which raises BufferError while it is    *)
(* exported, and changes the dict and the list, when it can run.              *)
OthersRun == freeThreaded \/ \A t \in Threads : pc[t] \in Outside

CloseBuffer ==
  /\ OthersRun
  /\ exports = 0
  /\ ~ closed
  /\ closed' = TRUE
  /\ UNCHANGED <<world, heap, object, struct, exports, refs, known, pc, locals>>
  /\ Silent

Changes ==
  /\ OthersRun
  /\ \/ dict' \in Dicts \ {dict} /\ UNCHANGED list
     \/ list' \in Lists \ {list} /\ UNCHANGED dict
  /\ UNCHANGED <<freeThreaded, class, shared, pc, locals>>
  /\ Silent

Next ==
  \/ \E t \in Threads :
       \/ New(t) \/ FromBytes(t) \/ FromBuffer(t) \/ OpenFails(t) \/ OpenDone(t)
       \/ RefuseArguments(t)
       \/ TakeDict(t) \/ Allocate(t) \/ NoRoom(t)
       \/ ReadEntry(t) \/ RefuseEntry(t) \/ EndRead(t)
       \/ BuildMap(t) \/ BuildFails(t) \/ BeginInstall(t) \/ FinishInstall(t) \/ Discard(t)
       \/ BeginGet(t) \/ EndGet(t)
       \/ BeginBatch(t) \/ TakeOut(t) \/ NoOut(t)
       \/ BatchChunk(t) \/ BatchRefused(t) \/ EndBatch(t)
       \/ Drop(t)
       \/ \E u \in Threads : Share(t, u)
  \/ CloseBuffer \/ Changes

Spec == Init /\ [][Next]_vars

(***************************************************************************)
(* Properties                                                               *)
(***************************************************************************)
(* Every map the core built is held once, by the object or by the __init__    *)
(* that has not yet handed it over, until it is freed, and never after; and    *)
(* the buffer is exported exactly while something reads it.                   *)
Holders(i) ==
  { t \in Threads : built[t] = i } \union (IF struct = i THEN {"object"} ELSE {})

HeldOnce ==
  /\ \A i \in DOMAIN heap :
       IF heap[i] = Freed THEN Holders(i) = {}
       ELSE \E h \in Threads \union {"object"} : Holders(i) = {h}
  /\ exports = (IF struct = InBuffer \/ object = "opening" THEN 1 ELSE 0)
  /\ struct = InBuffer => ~ closed

(* What the OverflowError says a value must be.                              *)
IsInRange(i) == i \in -(2^(WordBits - 1)) .. (2^WordBits - 1)

IsAllowed(entry) ==
  IsKey(entry.key) /\ IsInt(entry.value) /\ IsInRange(entry.value.number)

(* __init__ writes no more entries than it has room for, and reads all it has   *)
(* written; what is built is what the dict held at one time, every value        *)
(* reduced to a word, although other threads change the dict meanwhile, and     *)
(* drop its keys while the core reads them.                                  *)
WordsOf(entries) ==
  [k \in DOMAIN entries |-> <<entries[k].key.text, entries[k].value.number % 2^WordBits>>]

BuildsFromOneDict ==
  /\ \A t \in Threads : pc[t] = "building" => Len(read[t]) = size[t]
  /\ \A i \in DOMAIN heap :
       \/ heap[i] \in {Freed, Stored}
       \/ \E d \in Dicts : (\A k \in DOMAIN d : IsAllowed(d[k])) /\ heap[i] = WordsOf(d)

(* __init__ refuses an entry only if the dict, as it was at one time, has one    *)
(* that is not allowed, and the first of these; and it blames the number only   *)
(* where the number is at fault.  Neither end of the range is refused, although *)
(* minus one and all ones look like a failed conversion.                     *)
RefusedRight(t) ==
  \E d \in Dicts :
    LET first == Len(read[t]) + 1
    IN /\ Len(d) = size[t]
       /\ first <= Len(d)
       /\ ~ IsAllowed(d[first])
       /\ \A k \in DOMAIN read[t] : IsAllowed(d[k]) /\ read[t][k][1] = d[k].key
       /\ answer'.what = "OverflowError" <=> IsKey(d[first].key) /\ IsInt(d[first].value)

RefusesWithReason ==
  [][\A t \in Threads : pc[t] = "reading" /\ pc'[t] = "idle" => RefusedRight(t)]_vars

(* The object is a map object: filled once, never changed, and right in all    *)
(* that it answers to calls that began when it was known to be filled.         *)
Content ==
  IF object = "gone" THEN [state |-> "gone", entries |-> << >>]
  ELSE [state |-> IF struct = Null THEN "unset" ELSE "map", entries |-> EntriesAt(struct)]

AboutEntries == {"word", "KeyError", "default", "true", "false", "length"}

Reply == IF answer.sure /\ answer.what \in AboutEntries THEN answer ELSE Nothing

Object == INSTANCE MapObject
  WITH NotFound <- NOT_FOUND, verifies <- (class = "verified"), content <- Content, reply <- Reply

ImplementsMapObject == Object!Spec

(* A batch that returns has written, key by key, what single lookups of the    *)
(* keys of one state of the list give, or lists what get gives of them.  One    *)
(* that raises has written the results of whole chunks, and nothing after     *)
(* them.                                                                     *)
EndsRight(t) ==
  \E l \in Lists :
    LET ended == answer'.what \in {"written", "list"}
        single(k) == LookupIn(EntriesAt(struct), l[k].text)
    IN /\ Len(l) = Len(out[t])
       /\ \E done \in 0 .. Len(l) :
            /\ IF ended THEN done = Len(l) ELSE done % Chunk = 0
            /\ \A k \in 1 .. Len(l) :
                 IF k <= done THEN IsKey(l[k]) /\ out[t][k] = single(k)
                 ELSE out[t][k] = NotWritten
       /\ answer'.what = "list" =>
            answer'.items = [k \in DOMAIN l |-> OrDefault(single(k))]

BatchRight ==
  [][\A t \in Threads : pc[t] = "batch" /\ pc'[t] = "idle" /\ after[t] => EndsRight(t)]_vars

(* A lookup never says of a key that is stored that it is missing.           *)
StoredIsFound ==
  Reply.what \in {"KeyError", "default", "false"} =>
    ~ \E k \in DOMAIN EntriesAt(struct) : EntriesAt(struct)[k][1] = Reply.text
=============================================================================
