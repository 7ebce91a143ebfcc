------------------------------- MODULE Files --------------------------------
(***************************************************************************)
(* save and load, to_bytes and from_bytes of the Python maps, of all three  *)
(* classes: threads of one process that share a path and a bytes object, and *)
(* what can happen to the file between them.                                 *)
(*                                                                         *)
(* save truncates the file when it opens it, serializes into memory, and    *)
(* hands the bytes to stdio, which passes them on in chunks.  It learns of   *)
(* the failure of a write it makes itself, but does not look at what fclose, *)
(* which writes the rest, returns.  load asks for the size, reads that many   *)
(* bytes and parses them.  from_bytes parses what to_bytes has returned.     *)
(***************************************************************************)
EXTENDS Serial, FiniteSets

CONSTANTS Threads,
          Maps,             \* the maps there are
          Foreign,          \* maps that are consistent but not ours
          Chunk,            \* the units stdio and the kernel move at a time
          MaxCalls,         \* bound on the calls of save and load
          MaxCrashes,       \* bound on the crashes of the process
          MaxDamage         \* bound on what else happens to the file

ASSUME FilesAssumption ==
  /\ Chunk \in Nat \ {0}
  /\ MaxCalls \in Nat
  /\ MaxCrashes \in Nat
  /\ MaxDamage \in Nat

ASSUME MapsAssumption ==
  /\ \A m \in Maps : IsStruct(m) /\ HasFitParams(m)
  /\ \A m \in Foreign : IsStruct(m)

VARIABLES
  file,             \* the units in the file
  bytes,            \* the bytes object to_bytes returned last
  pc,               \* what each thread is doing
  held,             \* the map each thread has
  class,            \* the class load is called on
  buffer,           \* the bytes to save, or loaded so far
  size,             \* the size of the file when load asked
  at,               \* how many units of buffer are in the file
  outcome,          \* how the last call ended: "saved", with an "error", refused, or else
  owner,            \* the thread whose save the file has been left to, if any
  calls, crashes, damage

vars == <<file, bytes, pc, held, class, buffer, size, at, outcome, owner, calls, crashes, damage>>

NoMap == [type |-> "none"]

Nobody == "nobody"

(* The program starts with maps it has built and a file that may be empty.   *)
Init ==
  /\ file = << >>
  /\ bytes = << >>
  /\ pc = [t \in Threads |-> "idle"]
  /\ held \in [Threads -> Maps]
  /\ class = [t \in Threads |-> "constmap"]
  /\ buffer = [t \in Threads |-> << >>]
  /\ size = [t \in Threads |-> 0]
  /\ at = [t \in Threads |-> 0]
  /\ outcome = [t \in Threads |-> "none"]
  /\ owner = Nobody
  /\ calls = 0
  /\ crashes = 0
  /\ damage = 0

Call(t) ==
  /\ pc[t] = "idle"
  /\ calls < MaxCalls
  /\ calls' = calls + 1

(* Returning frees what the call has allocated. *)
Return(t, how) ==
  /\ pc' = [pc EXCEPT ![t] = "idle"]
  /\ outcome' = [outcome EXCEPT ![t] = how]
  /\ buffer' = [buffer EXCEPT ![t] = << >>]
  /\ size' = [size EXCEPT ![t] = 0]
  /\ at' = [at EXCEPT ![t] = 0]
  /\ class' = [class EXCEPT ![t] = "constmap"]

(* The path cannot be opened, to save to or to load from. *)
OpenFails(t) ==
  /\ Call(t)
  /\ outcome' = [outcome EXCEPT ![t] = "error"]
  /\ UNCHANGED <<file, bytes, pc, held, class, buffer, size, at, owner, crashes, damage>>

(***************************************************************************)
(* save                                                                     *)
(***************************************************************************)
OpenToSave(t) ==
  /\ Call(t)
  /\ outcome' = [outcome EXCEPT ![t] = "none"]
  /\ held[t] # NoMap
  /\ pc' = [pc EXCEPT ![t] = "opened"]
  /\ file' = << >>
  /\ owner' = t
  /\ UNCHANGED <<bytes, held, class, buffer, size, at, crashes, damage>>

SaveNoMemory(t) ==
  /\ pc[t] = "opened"
  /\ Return(t, "error")
  /\ UNCHANGED <<file, bytes, held, owner, calls, crashes, damage>>

Serialize(t) ==
  /\ pc[t] = "opened"
  /\ pc' = [pc EXCEPT ![t] = "writing"]
  /\ buffer' = [buffer EXCEPT ![t] = Written(held[t])]
  /\ at' = [at EXCEPT ![t] = 0]
  /\ UNCHANGED <<file, bytes, held, class, size, outcome, owner, calls, crashes, damage>>

(* A file with units put at a position.  What is skipped reads as zero.      *)
Placed(units, position, old) ==
  [k \in 1 .. (IF position + Len(units) > Len(old) THEN position + Len(units) ELSE Len(old)) |->
     IF k > position /\ k <= position + Len(units) THEN units[k - position]
     ELSE IF k <= Len(old) THEN old[k] ELSE Num(0)]

ChunkEnd(from, len) == IF from + Chunk < len THEN from + Chunk ELSE len

(* stdio passes the next chunk on. *)
Pass(t) ==
  LET end == ChunkEnd(at[t], Len(buffer[t]))
  IN /\ at[t] < Len(buffer[t])
     /\ file' = Placed(SubSeq(buffer[t], at[t] + 1, end), at[t], file)
     /\ at' = [at EXCEPT ![t] = end]
     /\ owner' = IF owner = t THEN t ELSE Nobody

WriteChunk(t) ==
  /\ pc[t] = "writing"
  /\ Pass(t)
  /\ UNCHANGED <<bytes, pc, held, class, buffer, size, outcome, calls, crashes, damage>>

WriteFails(t) ==
  /\ pc[t] = "writing"
  /\ at[t] < Len(buffer[t])
  /\ Return(t, "error")
  /\ UNCHANGED <<file, bytes, held, owner, calls, crashes, damage>>

(* fwrite has taken all of it, some of which stdio may still hold.           *)
EndWrite(t) ==
  /\ pc[t] = "writing"
  /\ pc' = [pc EXCEPT ![t] = "closing"]
  /\ UNCHANGED <<file, bytes, held, class, buffer, size, at, outcome, owner, calls, crashes, damage>>

CloseChunk(t) ==
  /\ pc[t] = "closing"
  /\ Pass(t)
  /\ UNCHANGED <<bytes, pc, held, class, buffer, size, outcome, calls, crashes, damage>>

Closed(t) ==
  /\ pc[t] = "closing"
  /\ at[t] = Len(buffer[t])
  /\ Return(t, "saved")
  /\ UNCHANGED <<file, bytes, held, owner, calls, crashes, damage>>

(* The rest cannot be written.  What fclose returns is not looked at.        *)
CloseFails(t) ==
  /\ pc[t] = "closing"
  /\ at[t] < Len(buffer[t])
  /\ Return(t, "saved")
  /\ UNCHANGED <<file, bytes, held, owner, calls, crashes, damage>>

(* to_bytes: a new object every time.                                        *)
ToBytes(t) ==
  /\ Call(t)
  /\ held[t] # NoMap
  /\ bytes' = Written(held[t])
  /\ outcome' = [outcome EXCEPT ![t] = "none"]
  /\ UNCHANGED <<file, pc, held, class, buffer, size, at, owner, crashes, damage>>

ToBytesNoMemory(t) ==
  /\ Call(t)
  /\ outcome' = [outcome EXCEPT ![t] = "error"]
  /\ UNCHANGED <<file, bytes, pc, held, class, buffer, size, at, owner, crashes, damage>>

(***************************************************************************)
(* load                                                                     *)
(***************************************************************************)
OpenToLoad(t) ==
  /\ Call(t)
  /\ outcome' = [outcome EXCEPT ![t] = "none"]
  /\ Len(file) > 0
  /\ pc' = [pc EXCEPT ![t] = "reading"]
  /\ class' \in { [class EXCEPT ![t] = type] : type \in Types }
  /\ size' = [size EXCEPT ![t] = Len(file)]
  /\ buffer' = [buffer EXCEPT ![t] = << >>]
  /\ UNCHANGED <<file, bytes, held, at, owner, crashes, damage>>

LoadEmpty(t) ==
  /\ Call(t)
  /\ file = << >>
  /\ outcome' = [outcome EXCEPT ![t] = "error"]
  /\ UNCHANGED <<file, bytes, pc, held, class, buffer, size, at, owner, crashes, damage>>

LoadNoMemory(t) ==
  /\ pc[t] = "reading"
  /\ buffer[t] = << >> \/ Len(buffer[t]) = size[t]
  /\ Return(t, "error")
  /\ UNCHANGED <<file, bytes, held, owner, calls, crashes, damage>>

ReadChunk(t) ==
  LET from == Len(buffer[t])
      end  == ChunkEnd(from, size[t])
  IN /\ pc[t] = "reading"
     /\ from < size[t]
     /\ Len(file) >= end
     /\ buffer' = [buffer EXCEPT ![t] = @ \o SubSeq(file, from + 1, end)]
     /\ UNCHANGED <<file, bytes, pc, held, class, size, at, outcome, owner, calls, crashes, damage>>

(* The file has become shorter. *)
ShortRead(t) ==
  /\ pc[t] = "reading"
  /\ Len(buffer[t]) < size[t]
  /\ Len(file) < ChunkEnd(Len(buffer[t]), size[t])
  /\ Return(t, "error")
  /\ UNCHANGED <<file, bytes, held, owner, calls, crashes, damage>>

EndLoad(t) ==
  LET read == Read(buffer[t], class[t])
  IN /\ pc[t] = "reading"
     /\ Len(buffer[t]) = size[t]
     /\ Return(t, IF read.rc = Ok THEN "none" ELSE read.rc)
     /\ held' = IF read.rc = Ok THEN [held EXCEPT ![t] = read.map] ELSE held
     /\ UNCHANGED <<file, bytes, owner, calls, crashes, damage>>

(* from_bytes: all there is to read is there from the beginning.            *)
TakeBytes(t) ==
  /\ Call(t)
  /\ outcome' = [outcome EXCEPT ![t] = "none"]
  /\ pc' = [pc EXCEPT ![t] = "reading"]
  /\ class' \in { [class EXCEPT ![t] = type] : type \in Types }
  /\ size' = [size EXCEPT ![t] = Len(bytes)]
  /\ buffer' = [buffer EXCEPT ![t] = bytes]
  /\ UNCHANGED <<file, bytes, held, at, owner, crashes, damage>>

(***************************************************************************)
(* What else happens                                                        *)
(***************************************************************************)
(* The process dies: what stdio held is lost, and so are the maps. *)
Crash ==
  /\ crashes < MaxCrashes
  /\ crashes' = crashes + 1
  /\ pc' = [t \in Threads |-> "idle"]
  /\ held' = [t \in Threads |-> NoMap]
  /\ buffer' = [t \in Threads |-> << >>]
  /\ outcome' = [t \in Threads |-> "none"]
  /\ size' = [t \in Threads |-> 0]
  /\ at' = [t \in Threads |-> 0]
  /\ class' = [t \in Threads |-> "constmap"]
  /\ bytes' = << >>
  /\ UNCHANGED <<file, owner, calls, damage>>

(* Damage, at any time but while the file is being saved. *)
Harm(new) ==
  /\ \A t \in Threads : pc[t] \in {"idle", "reading"}
  /\ damage < MaxDamage
  /\ damage' = damage + 1
  /\ file' = new
  /\ owner' = Nobody
  /\ UNCHANGED <<bytes, pc, held, class, buffer, size, at, outcome, calls, crashes>>

(* A file by the Go or Rust package comes in its place. *)
ReplacedByGo == \E m \in Maps : m.hash = "XXH64" /\ Harm(WrittenByGo(m))

(* Or one with a checksum that fits and parameters that need not. *)
ReplacedByOther == \E m \in Foreign : Harm(Written(m))

(* The end of the file is lost, or something is appended to it.              *)
Truncated == \E len \in 1 .. (Len(file) - 1) : Harm(SubSeq(file, 1, len))

Extended == file # << >> /\ Harm(file \o ZeroWord)

(* One unit of it is cleared, or set if it is clear.                         *)
Corrupted ==
  \E k \in DOMAIN file :
    Harm([file EXCEPT ![k] = IF @ = Num(0) THEN Tag("CMAP") ELSE Num(0)])

Finished ==
  /\ \A t \in Threads : pc[t] = "idle"
  /\ UNCHANGED vars

Next ==
  \/ \E t \in Threads :
       \/ OpenFails(t) \/ OpenToSave(t) \/ SaveNoMemory(t) \/ Serialize(t)
       \/ WriteChunk(t) \/ WriteFails(t) \/ EndWrite(t)
       \/ CloseChunk(t) \/ Closed(t) \/ CloseFails(t)
       \/ OpenToLoad(t) \/ LoadEmpty(t) \/ LoadNoMemory(t)
       \/ ReadChunk(t) \/ ShortRead(t) \/ EndLoad(t)
       \/ ToBytes(t) \/ ToBytesNoMemory(t) \/ TakeBytes(t)
  \/ Crash \/ ReplacedByGo \/ ReplacedByOther \/ Truncated \/ Extended \/ Corrupted
  \/ Finished

Spec == Init /\ [][Next]_vars

(***************************************************************************)
(* Properties                                                               *)
(***************************************************************************)
(* Every map a program has is one that was built: whatever happens to the    *)
(* file, a load never returns another, and kind, hash and table survive any  *)
(* chain of saves and loads.  The number of keys does, too, or is 0 in a map  *)
(* that came from Go.                                                        *)
Originals == Maps \union { [m EXCEPT !.n = 0] : m \in { x \in Maps : x.hash = "XXH64" } }

LoadedIsSaved == \A t \in Threads : held[t] \in Originals \union {NoMap}

(* The parameters of every map loaded describe its number of cells, so that   *)
(* the positions a lookup computes from them, unchecked, are inside.          *)
LoadedParamsFit ==
  \A t \in Threads :
    held[t] # NoMap => HasFitParams(held[t])

(* A load refuses only bytes that are not a whole map of its class: not those *)
(* of any of the formats, longer files and files of empty maps included.      *)
Prefix(s, units) == Len(s) <= Len(units) /\ SubSeq(units, 1, Len(s)) = s

Serialized == [m \in Originals |-> {Written(m), WrittenByGo(m)}]

IsWhole(units, type) ==
  \E m \in Originals : m.type = type /\ \E whole \in Serialized[m] : Prefix(whole, units)

Refusals == {"FCM_E_SHORT_BUFFER", "FCM_E_INVALID_FORMAT", "FCM_E_CHECKSUM", "FCM_E_INVALID_PARAMS"}

RefusesOnlyBroken ==
  [][\A t \in Threads :
       outcome'[t] \in Refusals /\ outcome[t] = "none" => ~ IsWhole(buffer[t], class[t])]_vars

(* When save has returned without an exception, and nothing else has touched *)
(* the file, it holds the map.                                               *)
SavedIsInFile ==
  \A t \in Threads : outcome[t] = "saved" /\ owner = t => file = Written(held[t])
=============================================================================
