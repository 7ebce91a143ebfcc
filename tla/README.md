# A verification of fastconstmap

fastconstmap builds an immutable map from strings to 64-bit integers: an array
of words in which every key has three cells whose XOR is the key's value. The
whole difficulty is in the construction, `fcm_peel` in `src/src/constmap.c`: a
seed has to be found under which the keys can be taken out of the array one by
one, each at a moment when it is alone in one of its cells. This directory
models that construction and what is built on it (the maps, their serialized
form, the files and shared blocks it lives in, the Python objects and the
threads that use them), checks the models with TLC on small instances, and
proves with TLAPS, for every width of words and number of keys, that the
construction is right and survives its serialized form, for every number of
threads, that no map is freed twice, used when freed or mixed from two dicts,
and for any interleaving of writers, crashes and readers, that files and shared
blocks give back whole maps or an error.

## The system

| Component | State | Operations | Interacts with | What makes it correct |
|---|---|---|---|---|
| Geometry: `fcm_get_h012`, `fcm_init_params`, the resizings and the neighbour formula of the peeling loop | `fcm_params_t` | pure, and two in-place resizings | read by all that touches the array | three different cells per hash, inside the array; the formula finds the very cells of `fcm_get_h012`; resizing never outgrows the array |
| Peeling: `fcm_peel` | the buffers `alone`, `t2count`, `t2hash`, `reverse_h`, `reverse_order`, `start_pos`, the seed, the attempt | scatter, count, fill, peel, retry, return | called by the constructors with their buffers | terminates; counts are true; success means every key once, in an order in which cells can be assigned; duplicates never succeed |
| Constructors, lookups, free (`fcm_constmap_*`, `fcm_verified_*`, `fcm_paired_*`) | `*out`, the heap, the array | validate, allocate, peel, assign, install, clean up, look up, free | Python objects own the structs | lookups return the given values; no leak on any path |
| Batched lookups: `fcm_*_lookup_many`, `get_many`, `get_many_into` | none | chunks of 64 in Python, blocks of 8 and a tail in the core | lists other threads may mutate | equal to single lookups, key by key; a failure leaves whole chunks written |
| Mixing: `fcm_murmur64`, `fcm_mixsplit`, `fcm_splitmix64` | the counter the seeds are drawn from | draw, mix | the attempts of the peeling, and every lookup | mixing loses nothing of a hash; each attempt has a seed of its own |
| Serialization: size, write, read, view | a buffer | seven formats, header checks, checksum, alignment | files and buffers | write then read or view gives an equal map; anything else is rejected |
| save, load | a file | truncate, write, close; read, check | other threads and programs, crashes, full disks | load returns a map that was saved or fails; save that returns has saved |
| to_bytes, from_bytes | a bytes object | write; read | threads that hand the object on | as for save and load |
| `write_into`, `from_buffer` on shared memory | a block | write front to back; parse and view | producers and consumers in different processes, with nothing to synchronise them | only a whole map is accepted |
| Python objects (`fastconstmap_module.c`) | the struct, `initialized`, a `Py_buffer` view | `__init__`, lookups, `from_buffer`, dealloc | threads, with and without the GIL; buffers of others | one map installed, once; borrowed memory is not freed and outlives its view |
| Python conversions | none | keys, values, results, exceptions | dicts other threads may mutate | values in `[-2^63, 2^64-1]` become the words documented |

xxHash is vendored third-party code: a key's hash is a given here. Benchmarks,
examples, stubs and tests were read for what they say of the library.

What is hard: `fcm_peel` is sequential, but its correctness is a matter of long
chains of dependent steps over shared tables (a zero hash that looks like an
empty entry, counts that wrap in six bits, stale cells on a stack, tables
reused by the next attempt); the Python layer has threads racing to install and
to read a map, dicts and lists that change while they are read, buffers owned
by others, and files that a crash may cut short. `PROJECT.json` lists these
hazards line by line, each with the properties that cover it or the reason why
none does.

## Modules

| Module | Models | Lines of the source |
|---|---|---|
| `Words` | machine words of `WordBits` bits, XOR bit by bit, the high product | `constmap.c` 114-129 |
| `Geometry` | parameters, the cells of a hash, the neighbour formula | 135-155, 188-213, 258-274, 365-379 |
| `Peel` (extends `Geometry`) | `fcm_peel` | 233-407 |
| `Mixing` (extends `Peel`) | the seeds of the attempts and the mixing of hashes | 39-58, 241-242 |
| `Build` (extends `Peel`) | the three constructors, the lookups, free | 161-182, 413-765 |
| `StaticMap` | what a construction promises; implemented by `Build` | |
| `Serial` | the serialized form: what writers produce and readers and views accept | `constmap.c` 915-1300 |
| `RoundTrip` (extends `Build` and `Serial`) | what was built, written and read or viewed again, and its lookups | `constmap.c` 93-155, 734-765, 958-983, 1079-1090 |
| `Files` (extends `Serial`) | save and load, to_bytes and from_bytes | `fastconstmap_module.c` 435-501 and the same calls of the two other classes, 839-905 and 1255-1300 |
| `SharedBlock` (extends `Serial`) | `write_into`, `from_buffer` and `from_bytes` on shared memory, with their errors | `constmap.c` 986-993, 1025-1048, 1079-1143, 1190-1289; `fastconstmap_module.c` 520-560, 847-858, 915-929, 1329-1330 |
| `MapObject` | what a map object promises the threads that share it; implemented by `PyObjects` | |
| `PyObjects` | threads and Python objects, arguments and conversions, single lookups and batches | `fastconstmap_module.c` 21-433, 538-556, 637-812, 1058-1253, 1326-1347; `constmap.c` 785-872 |
| `MCPeel`, `MCBuild`, `MCFiles`, `MCSharedBlock`, `MCPyObjects` | instances for TLC | |
| `PeelInvariant`, `BuildInvariant`, `PyObjectsInvariant`, `FilesInvariant`, `SharedBlockInvariant` | the inductive invariants of the five state machines | |
| `PeelProofs`, `PeelTheorems`, `MixingProofs`, `BuildProofs`, `SerialProofs`, `FilesProofs`, `SharedBlockProofs`, `PyObjectsProofs` | the proofs | |

### How state and actions correspond to the code

`Peel` keeps the names of the code's variables. One step is one turn of one of
the loops, or the code between two loops: `StartAttempt` (the resizing, the
allocation and the layout of the blocks), `ScatterKey` and `EndScatter`,
`CountKey`, then `RetryAfterOverflow` or `EndCount`, `FillAlone` and `EndFill`,
`PopStale` and `PeelHash`, and then `Succeed` or `RetryAfterPeel`; `GiveUp` and
`AllocFails` are the two error returns.

`Serial` has no state: a buffer is a sequence of four-byte units (headers are 28
or 32 bytes long, so units are what alignment and truncation can be off by), and
`Written`, `Read` and `View` are the writers, the readers and the views of the
three kinds of map, with their checks in the code's order. `Files` and
`SharedBlock` run them. A step of `Files` is one call to stdio or one chunk that
stdio moves; a step of `SharedBlock` is one unit written or read, because
producer and consumer run in different processes and nothing holds them apart.
`Build` goes through a constructor from its first check to what it returns, with
a step of `Peel` as one of its actions; `RoundTrip` adds no step but puts the
struct that was installed through the operators of `Serial`.

In `PyObjects` a step is what a thread does between two points where another
one could interfere: `TakeDict` (the arguments, the copy of the dict and its
size), `Allocate` or `NoRoom`, `ReadEntry` or `RefuseEntry` for each entry,
`EndRead`, `BuildMap` or `BuildFails`, then `BeginInstall` and `FinishInstall`,
the two ends of the copy into the struct, or `Discard`; `BeginGet` and `EndGet`,
the reading of the struct and of the array by a lookup (`m[k]`, `get`, `in`,
`len`); `BeginBatch`, `TakeOut`, a `BatchChunk` at a time and `EndBatch`, which
is `get_many` or `get_many_into`. The GIL is the guard `Runs`; `freeThreaded` is
chosen in the initial state, and with it whether `fcm_dict_to_arrays` and
`fcm_sequence_fast` copy what they iterate over. Where a thread is `Outside`
other Python code may run: during a build, which lets go of the GIL, and where
`Reentrant` also while this layer allocates a tuple or asks for a buffer, which
on some versions of Python can start the collector and with it any finalizer.

Deliberate abstractions:

- *Words are `WordBits` wide.* Nothing in the code depends on 64 except
  constants (the shift by 18, the fold of the fingerprint by 32, six bits of
  count), which are `CONSTANTS` of the model.
- *The seed.* `fcm_mixsplit(hash, seed)` is a bijection of words for each seed.
  An attempt chooses an arbitrary function `mixed` that maps equal hashes to
  equal words and distinct ones to distinct words. This allows more than the
  seeds the program draws, so what holds here holds for them: `Mixing` has the
  arithmetic itself, and `MixingLosesNothing` says that every seed an attempt
  draws is one of these functions.
- *Key hashes* are model values: only their equality matters before mixing.
- *Segment length and capacity* come from floating-point formulas. They are
  constant functions of the size, assumed to be a power of two and a natural
  number that keep the array within the width of a position.
- `t2count` is split into its count (`t2deg`, modulo `DegreeMod`) and its two
  position bits (`t2pos`). `alone` has `qsize` as its length.
- `start_pos` and `reverse_order[0..size-1]` are dead after the loops that use
  them; the reset of an attempt gives dead variables a canonical value, so that
  equal states are recognised. `counted` is a history variable: the array as it
  was when counting started.
- `Build` sorts nothing: `PairLookup` is what a binary search over the sorted
  pairs returns, the value of the least hash not below the one looked for.
- The checksum has no collisions: the sum of some units is a word that names
  them. This is what a checksum is for, and it is the one place where the models
  forbid what the code permits with a small probability (only the low half of a
  sum is relied on); in the same way a
  lookup of a missing key in a map that verifies finds nothing.
- In `Files`, stdio and the kernel move `Chunk` units at a time, and may do so at
  any time before `fclose` returns. Seeks succeed. Damage happens to a file only
  when nobody is saving to it.
- In `SharedBlock` one producer writes at a time, a later one after the death of
  the one before, and the comparison of the magic is one step.
- In `PyObjects` a map is its contents; a lookup that reads a struct while it is
  copied, one that is zeroed or one that is freed has any answer.
- `get_many` and `get_many_into` run the same loop; the former turns its chunks
  into a list at the end. An output buffer that is read-only, too small or of
  another format is refused (`NoOut`). Whether it is aligned or staged does not
  change the bytes and is not told apart.
- Keys of the same kind and text are one key; an entry of a dict is a key and a
  value, each with its type. `Stored` is the map a good image holds, for
  `from_bytes` and `from_buffer`; what makes an image good is `Serial`'s concern.
- A seed in `RoundTrip` is known by what it does to the keys, so a key mixes
  alike only under the same hash and seed (`MixesAlike`).
- A `NULL` argument and a big-endian host are not modelled.

A definition whose comment starts with *Slip* is not part of the model. It is a
plausible mistake in the definition after it; substituting it makes TLC find
the property named in `PROJECT.json` violated, which shows that the property
depends on that code.

## What the runs check

| Run | Instance | Shows |
|---|---|---|
| `peel` | 3-bit words, at most 6 keys, the fifth and sixth in one cell with all others, attempts 0-3, counts modulo 4 | types and indices in range; the neighbour formula; the scatter has room and keeps all hashes, zero ones included; counts agree with the hashes remaining, and the alone stack fits, where hashes form cores that never peel; success implies distinct hashes all peeled, in order; a reported duplicate is one, or a count wrapped; a retry starts from clean tables, with a fresh seed that loses nothing |
| `build` | 3-bit words, at most 3 keys, attempts 0-3, three kinds of map, fairness | lookups return the given values, assigned cells stay, the search finds the very hash, nothing leaks, a map read or viewed from its serialized form answers alike, the call ends, and `Build` implements `StaticMap` |
| `build_untouched` | as `build`, one attempt | *violated*: `constmap.h` says an error leaves `*out` untouched |
| `build_int32` | as `build`, one attempt, with `INT32_MAX` small and sizes above `INT32_MAX + 1` | *violated*: these sizes build an all-zero map and report success |
| `files` | two threads, maps of all kinds and an empty one, a path and a bytes object, 3 calls, one crash, one damage | a load returns a map that was built, with fitting parameters; a load refuses only what is not a whole map |
| `files_close` | as `files`, one call, nothing else happens | *violated*: "Save the map to a file path", but a failing `fclose` goes unnoticed |
| `files_params` | as `files`, one call, a foreign plain map | *violated*: `constmap.c` says the parameters are checked on every deserialized map; only paired ones are |
| `shared` | three maps, a block of 17 units at two alignments, two producers | what a consumer accepts is a whole map, and the bytes it goes on reading stay that map; opened after `write_into` it is right |
| `shared_header` | as `shared`, one producer | *violated*: the README says a block that is not a map raises; the header used may be older than the one verified |
| `py` | two threads, 2-bit words, six dicts, three lists, two kinds of keys to look up | maps are held once and freed once; builds see one dict, and what is refused of it is not allowed; the object implements `MapObject`; batches are their single lookups |
| `py_reentrant` | as `py`, `Reentrant` | *violated*: "Building a map from a dict that another thread is modifying is safe", but the size is taken before an allocation that may run other code |
| `py_sentinel` | as `py` | *violated*: the README says a key stored with -1 is found; the classes that verify say it is missing |

The properties, in the order of the code:

- `OthersAreTheHashsCells`: the cells that peeling computes from one cell of a
  hash are its two others, with the right position bits, under every parameter
  setting an attempt meets.
- `ScatterHasRoom`: the unbounded probing loop always finds an entry.
- `ScatterKeepsHashes`: what is counted is every mixed hash as often as it
  occurs, although an entry holding a zero hash looks empty and is overwritten.
- `CountsAgree`: the number, the XOR and the position bits of a cell are those
  of the hashes not yet peeled; a cell peeled at has none left.
- `AloneHasRoom`: no cell is on the `alone` stack twice or after it was peeled
  at, so the unconditional writes past its top stay inside the buffer.
- `PeelOrder`: no hash has a cell at which an earlier one was peeled. This is
  what makes the assignment from the top of the stack down work
  (`AssignedStays`) and the lookups correct (`LookupCorrect`).
- `StackHoldsKeys`, `PairFound`: the stack holds mixed hashes of keys, each
  once, so the search that never compares what it returns is right.
- `SuccessIsComplete`: duplicates never succeed, even where other hashes hide
  them from the check.
- `DuplicateHasCause`: a duplicate is reported only if there are two keys with
  one hash, or a cell in which at least `DegreeMod + 2` hashes were counted (66
  in the program). The second cause is one: the count of such a cell looks like
  two, and if its hashes cancel they pass for a pair of duplicates. The code
  notices the overflow (`has_error`), but looks at it only after the loop that
  returns the report.
- `MixingLosesNothing`, `SeedsAreFresh`: under the seed of any attempt different
  hashes are mixed to different words, and no attempt repeats the seed of an
  earlier one (until the counter has come round).
- `RetryStartsClean`: an attempt finds the tables as the first one did.
- `NoLeak`: on every path the buffers left are those the struct owns.
- `RoundTripKeepsAnswers`: what a constructor installed is accepted when it is
  read or viewed from what the writer made of it, and answers every hash alike,
  although the readers derive the masks and the products the file does not hold.
- `ImplementsStaticMap`, `CallEnds`: a call ends, failed with nothing to answer,
  or with a map that answers what was given until it is freed.
- `LoadedIsSaved`: through any chain of saves and loads, of threads that share
  a path, of crashes and damage, a program only ever has maps that were built,
  with the same kind, hash and table.
- `LoadedParamsFit`: the parameters of a loaded map fit its array. It holds for
  what the library writes; for plain maps from elsewhere it does not
  (`files_params`).
- `RefusesOnlyBroken`: no whole map is refused, be it legacy, from the Go or
  Rust packages, empty, or followed by other bytes.
- `SavedIsInFile`: false, see `files_close`.
- `AcceptsOnlyWhole`: the bytes whose sum a consumer verified were, all of them,
  those of one map, although it read them while they were written.
- `AcceptedStaysWhole`: with one producer, what a consumer accepted stays a whole
  map, although it may have begun while the block was being written: a view
  reads it ever after, and a copy has its arrays.
- `LateOpenIsRight`: `from_buffer` after `write_into` returns that map, or the
  right error.
- `AcceptedHeaderIsWhole`: false, see `shared_header`: the header is read before
  the bytes are verified.
- `HeldOnce`: a map has one holder until it is freed, and a buffer is exported
  exactly while something reads it.
- `BuildsFromOneDict`: a build sees the dict as it was at one time, all of it
  allowed, each value the right word, and has room for exactly what it reads.
- `RefusesWithReason`: an entry is refused only if it is the first of its dict
  that is not allowed, and with `OverflowError` only if its value is an int out
  of the range that the message names. What is allowed (`IsAllowed`) is stated by
  that range, and not by the two conversions, whose answer for a failure, minus
  one, is also that of two legal values.
- `ImplementsMapObject`: whoever else is in `__init__` or in a lookup, the object
  is filled once, its entries are never replaced, and what a call says that
  began after it was known to be filled is right of these entries.
- `BatchRight`: a batch is its single lookups, of one state of the list, and what
  it leaves behind after an error is whole chunks.
- `StoredIsFound`: false, see `py_sentinel`. `MapObject` promises only what the
  code keeps: a class that verifies takes a stored word that is all ones for a
  missing one.

### Bounds

- Three bits of word and four keys give arrays of 6 and 8 cells in which a key
  set may be peeled, have no cell alone, collide in one, two or three cells,
  overflow a count, and contain the zero hash; `ResizeAbove = 2` makes three keys
  resizable, so attempts 0-3 see every resizing and its undoing.
- Four keys are the fewest distinct hashes that can be stuck (two cells with
  two hashes each in every segment), and let a pair of duplicates be hidden by
  two others.
- `DegreeMod` 4 in `MCPeel` and 3 in `MCBuild` make counts wrap with four and
  three keys as 64 does with 64.
- Five and six keys have segments of one cell, so that all their hashes share
  their three cells. With five a count that wrapped looks alone, as with 65 in
  the program; with six it looks like a pair. `MCConstraint` keeps of these sizes
  the mixings that are sorted: in one cell the order decides only of which
  hashes a count of two, or one that looks like two, is, and with up to four keys
  there are all orders. Six different words of three
  bits never cancel, so the false report that `DuplicateHasCause` allows for is
  out of the reach of this run; that nothing else is reported is proved.
- Key hashes are named canonically in `MCPeel` and `MCBuild` (a key has the index
  of the first key with its hash): which name a hash has makes no difference.
- `MaxIterations` bounds the attempts as `FCM_MAX_ITERATIONS` does.
- Mixing has odd factors and shifts of about half a word, as the program has.
- Values 5, 7 and 1 in `MCBuild`: they differ, and 7 is `NOT_FOUND` at three bits.
- `RoundTrip`: a unit has two bits of a word (`UnitBits`), so that a word of three
  bits is split, and the lengths of these arrays are below `Uint32`.
- `Files`: a chunk of 12 units is the header and the first words of the array,
  so that a file can end between chunks of each map, and mixtures of two maps
  arise from two savers. Three calls are two saves and a load, or a save, a
  crash, a load and another save: the shortest ways to mix, lose and copy maps.
- `SharedBlock`: 17 units hold the largest of the maps and leave room after the
  smallest. Two producers give a block with some of two maps in it.
- `PyObjects`: with 2-bit words the dicts contain the least value (-2) and the
  greatest (3), which is all ones as -1 is, one value too small and one too large,
  the latter in a second entry and under a key with a lone surrogate, and a
  duplicate across `str` and `bytes`; the lists a key that is none, a
  missing key and a key of each kind. Lists of four keys with chunks of 3 and
  blocks of 2 have a whole block, a tail and a second chunk. The number of calls
  is not bounded; two maps can be built (`MaxMaps`), which is what two threads
  in `__init__` at once can do. The run's `VIEW` leaves out `answer`: no step
  depends on what the last call answered, and the properties of the run that
  look at it are about the steps that set it.

### Fairness and deadlock

`FairBuildSpec` assumes weak fairness of `Call`, the steps of a constructor: one
thread runs its loops and the scheduler lets it run. Nothing else is assumed; no
caller has to free its map, and no seed is assumed to be good: `CallEnds` holds
because the attempts are bounded and every loop moves on. Deadlock is checked in
every run: a call that has returned stutters explicitly, so a deadlock would be a
loop that cannot continue, such as a probe without room.

## What is proved

The proofs hold for every value of the constants that satisfies the named
assumptions. Those of `Words` are facts of binary arithmetic (a word is
determined by its bits, powers of two halve, XOR with a mask below a power of
two changes only the remainder, a shift moves bits, odd words have inverses)
that need induction on the width; TLC evaluates them at the widths of the runs.
`GeometryAssumption` and `PeelAssumption` are what the code guarantees of its
parameters, `MixingAssumption` that its multipliers are odd and its shifts at
least one, `RoundTripAssumption` that two units hold a word, and the
`MapsAssumption` of `Files` and of `SharedBlock` that the maps there are have
the fields of the C structs, the two derived ones included.

- `PeelProofs`: XOR is a commutative group in which every word is its own
  inverse; uniqueness of quotient and remainder; the range of the high product.
  `CellsAreThree` (three different cells inside the array) and `OthersFound`
  (the neighbour formula, its masks bit by bit, from each of the three cells): a
  cell is written as
  `segment * length + offset`; XOR with a mask below the length acts on the
  offset only, and both facts are then linear in the segment. `ParamsInvariant`,
  the part of the inductive invariant that ties the parameters to the attempt's
  number, and from it `OthersAlwaysTheHashsCells`; the lemmas about the scatter.
- `PeelTheorems`: what one turn of the counting loop and of the peeling loop does
  to the tables, as lemmas over the tables themselves; one lemma per action,
  `InvariantHolds`, and from it every safety property of `Peel` the runs check:
  `TypeOK`, `ScatterHasRoom`, `ScatterKeepsHashes`, `CountsAgree`,
  `AloneHasRoom`, `PeelOrder`, `StackHoldsKeys`, `SuccessIsComplete`,
  `DuplicateHasCause`, and the action property `RetryStartsClean`.
- `MixingProofs`: `MixingKeepsApart` and `SeedsNeverRepeat`. `x ^ (x >> s)` is
  one-to-one because the highest bit in which two words differ is not changed by
  the shift, a product with an odd word because that word has an inverse, and so
  are the compositions; the counter comes to a value again only after as many
  steps as there are words.
- `BuildProofs`: that all of this holds of the attempts that run inside a
  constructor, and from it `NothingLeaks`, `AssignedKept`, `PairsFound`,
  `LookupsCorrect` and `ConstructorsImplementMap`. All but the first assume
  `MaxSize <= Int32Max`; that they need it is what the run `build_int32` shows.
  `AnswersSurvive` (`RoundTripKeepsAnswers`) assumes `FieldsFit` as well: sizes
  and array lengths are numbers of 32 bits. In the program an array has about
  1.125 cells for each key of a large map, so that sizes up to `INT32_MAX` fit.
  `LookupsStayInside`: in a paired map that was accepted, whatever the bytes, no
  lookup leaves the slots; this is what `fcm_paired_params_ok` is for.
- `SerialProofs`: what was written is read (`WrittenIsRead`, and `ReadsBack` for
  every format and with bytes after it), and what is accepted holds the whole
  form of a map (`AcceptedHolds`). The latter is where the sum earns its keep: a
  sum names all units it is of, so one that fits pins down magic, header, length
  and arrays at once, and the seven magics tell the formats apart.
- `FilesProofs`: `SumsAreOfMaps`, the inductive invariant; `LoadsReturnSaved`,
  `LoadsFit` and `LoadsRefuseOnlyBroken`. There may be any number of threads,
  maps, calls, crashes and damages, and any chunk.
- `SharedBlockProofs`: `BlockIsSound`, the inductive invariant;
  `WholeAreAccepted`, `AcceptedStay` and `LateOpensAreRight`, for a block and
  maps of any size and any number of producers that die half way.
- `PyObjectsProofs`: `MapsHeldOnce`, for any threads, dicts and lists, with and
  without the GIL and `Reentrant`; and `MapsOfOneDict` and `RefusalsHaveReason`, which
  assume `~ Reentrant`; that the former needs it is what the run `py_reentrant`
  shows. The latter rests on `Conversions`: of the two conversions at least one
  does not fail exactly for the ints in the range of the message.
  `ObjectsImplementMapObject`: every step of `PyObjects` is a step of `MapObject`
  or is not seen there. It rests on `PyObjectsAssumption`: among other things a
  good image holds no key twice. And `BatchesRight`, which assumes `~ Reentrant`:
  the loops over chunks, blocks and what is left over visit every key of one list
  once and write its result at its place, for every `Chunk` and `Block`; the
  list, like the dict, is a copy or excluded from change.

Some theorems have a hypothesis about `Foreign`, the maps that come from
elsewhere with a sum that fits. `LoadsReturnSaved`, `WholeAreAccepted` and
`AcceptedStay` say that a program has only its own maps, so they assume that
foreign ones are refused, which takes parameters that do not fit and a reader
that looks at them (`ForeignIsRefused`). `LoadsFit` only assumes
`ForeignIsChecked`: where they do not fit, somebody looks. Only the readers of
paired maps do, and the run `files_params` shows what a plain one does. The runs
`files` and `shared` satisfy both, with a foreign paired map.

### The inductive invariant

None of these properties is inductive alone. `Invariant` in `PeelInvariant` is
their strengthening, and its parts say what each loop needs of the others:

- `ParamsInv`: the parameters as a function of the attempt's number.
  `OthersAreTheHashsCells` says nothing of how the next resizing will change
  them; every index of every loop is in range because of this part.
- `CleanInv`: which tables are still zero at which control point. It is why
  counts may be compared with the attempt's own hashes from the first one on,
  and its preservation by the two retries is what `reset` must do.
- `ScatterInv`: the entries the blocks have visited are as many as the keys
  placed. A block that had no room would have visited every entry, more than
  the keys placed before this one: so there is room. The numbers of non-zero
  hashes placed and stored are equal although zero hashes are overwritten.
- `CountInv`: the tables of a cell agree with the set of entries still to be
  peeled that cover it, except at cells peeled at, where stale values stay and
  the set is empty. The step of the peeling loop removes one entry from three
  such sets; XOR over a set and parity follow from the group laws of `Words`.
  The number of hashes at a cell is below the modulus unless the overflow was
  seen: otherwise a count of one could mean 65 hashes. Where it was seen the
  tables are still those of the hashes counted, modulo the modulus, which is what
  `DuplicateHasCause` needs.
- `AloneInv`: the alone stack holds distinct cells not peeled at, whose count
  is at most one (a second peel may have taken their hash: stale). A count can
  become one only once by decrements, so a cell is pushed at most once.
- `StackInv`: the order of the stack, that what it holds are keys' hashes, and
  that what remains and what it holds add up to `size`, from which a full stack
  holds them all.

`BuildInvariant` adds what the constructor needs of a peeling that succeeded, and
what the serialized form needs of a constructor:

- `PeeledInv`: what `fcm_peel` left on the stack is still there while the cells
  are assigned, and is what `SuccessComplete` says.
- `OwnerInv`: which of the buffers are the call's and which the struct's at
  each point; `NoLeak` alone does not say whose a buffer is before it is freed.
- `ArrayInv`: the hashes assigned so far have the right XOR. Assigning the next
  one keeps this because of `PeelOrder`: its cell is of none of them. When all
  are assigned this is `LookupCorrect`.
- `InstalledInv`: a struct that was installed is all zeroes or has an array of
  words, and the parameters of one of the attempts, however often they were
  resized. From them the readers make up the fields that are not written.

`PyObjectsInvariant` says where in a call who may hold what:

- `RefsInv`: a call has a reference to its object as long as it runs, so the
  object is not deallocated under it; the call that opens it is the only one.
- `StructInv`: the struct is empty until the object is ready; one thread at a
  time copies a map into it, and only before it is ready. A thread has a map of
  its own exactly between the build and its end.
- `HoldInv`: maps of threads and object are different ones, there, and all there
  are. This is `HeldOnce`, in the form that is preserved.
- `ExportInv`, `ReadInv`: the export; the types of what was read of a dict.
- `OneDictInv`: what a thread has read is a beginning of one dict, of the size it
  made room for. It holds because the dict is either a copy or excluded from
  change by the GIL, until the build lets go of it; then the keys are kept.
- `FoundInv`: a lookup that began when the object was known to have its entries
  points at them, and they stay there while it runs; no map has a key twice, so
  that a key has one answer. `ObjectsImplementMapObject` needs it.
- `BatchInv`: a batch between two chunks has written the answers of the keys up to
  the end of a chunk, and marks after them. That the answers written earlier are
  still right rests on the reference the batch has: the object keeps its entries.

`FilesInvariant` needs no account of who wrote what: `FilesInv` says that each
unit that holds a sum, in the file, in a buffer, in the bytes object and in what a
crash or damage leaves of them, is the sum of the whole form of one map. Writers
bring in no other, and moving, cutting or mixing units makes no new one. What a
reader accepts contains such a sum and all it sums.

`SharedBlockInvariant` says the same of the block (`BlockInv`), and relates what a
consumer has read to what is there now, which moves on under it:

- `WriterInv`, `PublishedInv`: how far the producer has come in which image, and
  that the block begins with the image of what was published.
- `AloneInv`: with one producer the block is a beginning of one image, and zeroes.
- `ConsumerTypes`, `PointInv`: what a consumer has checked when it is where it
  is; the sum is compared with what it read at different times.
- `LateInv`, `EarlyInv`, `CopiedInv`: what it has read is still in the block, if
  it came after the publication, or with one producer, if it is not a zero. The
  last unit of a sum is written last: a consumer that found the sum found the
  block complete, and the later units it sums are those.

### Model-checked only

`CallEnds`, which is a liveness property. `OutUntouchedOnError`, `SavedIsInFile`,
`AcceptedHeaderIsWhole` and `StoredIsFound` are false; `LookupCorrect`,
`LoadedParamsFit` and `BuildsFromOneDict`, which a run each shows violated, are
proved under the hypothesis that does not hold in that run.

## Not modelled

xxHash; the floating-point formulas of the geometry; big-endian hosts; a `NULL`
argument of the C functions; `nbytes`, `serialized_size` and `hash` of the
Python classes, which only read the struct as `len` does; the words a lookup
returns while the struct is copied, zeroed or freed under it, which in C are
undefined and here any answer. The collector of the interpreter is modelled only
by what it lets happen (`Reentrant`).

## Plan

1. The refinement of an abstract file: a path that holds one saved map, or none
   after a crash, implemented by `Files` where one thread saves at a time.
2. That what `Serial` calls the words of a payload is what the batch and single
   lookups of `PyObjects` read, for objects filled by `from_bytes`.
