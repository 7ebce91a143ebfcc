--------------------------- MODULE BuildInvariant ---------------------------
(***************************************************************************)
(* The inductive invariant of the constructors, on top of that of fcm_peel:  *)
(* who owns the buffers at each stage of a call, and what assignment relies  *)
(* on from peeling and keeps while it fills the array.                      *)
(***************************************************************************)
EXTENDS Build, PeelInvariant

(* What fcm_peel leaves behind when it has succeeded. *)
PeeledInv ==
  /\ pc = "done" => start_pos_cap = 0
  /\ rc = "OK" => pc = "done" /\ stacksize = size /\ mixed \in Mixings

(* The buffers are the call's until *out takes the array over. *)
OwnerInv ==
  /\ kind \in Kinds
  /\ stage \in {"call", "peel", "assign", "returned", "freed"}
  /\ stage \in {"call", "peel", "assign"} => result = "none" /\ out.owns = {}
  /\ stage = "call" => heap = {}
  /\ stage \in {"peel", "assign"} => heap = Temporaries \cup ArrayBuffers
  /\ stage \in {"returned", "freed"} => heap = out.owns

(* The array is zero until assignment begins, which then goes down the stack *)
(* of a successful peeling.                                                 *)
ArrayInv ==
  /\ stage \in {"peel", "assign"} =>
       /\ n # 0
       /\ data \in [Cells -> Word]
       /\ checks \in [Cells -> Word]
  /\ stage = "assign" => rc = "OK" /\ at \in -1 .. (size - 1)
  /\ AssignedStays

(* In terms of the abstract map: what was given is answered. *)
AnswersInv == status = "built" => answers = given

(* A struct with an array of words, whose parameters are those of one of the *)
(* attempts.                                                                *)
HoldsKeys ==
  /\ WellFormed(out.params)
  /\ out.n \in Sizes
  /\ out.data_len = out.params.array_len
  /\ out.data_len \in { InitParams(s).array_len : s \in Sizes }
  /\ {out.data, out.checks} \subseteq [0 .. (out.data_len - 1) -> Word]

(* What *out is when it is a map. *)
InstalledInv ==
  /\ stage \in {"peel", "assign"} => hash \in KnownHashes
  /\ stage = "returned" /\ result = "OK" =>
       out.hash \in KnownHashes /\ (out = Zeroed(out.hash) \/ HoldsKeys)

ConstructionInvariant ==
  /\ Invariant
  /\ PeeledInv
  /\ OwnerInv
  /\ ArrayInv
  /\ LookupCorrect
=============================================================================
