----------------------------- MODULE StaticMap ------------------------------
(***************************************************************************)
(* What a construction promises: a map that is built once, from an          *)
(* association given beforehand, and then answers with that association     *)
(* until it is freed; or nothing at all.                                    *)
(***************************************************************************)

VARIABLES
  status,       \* "building", "built", "failed" or "freed"
  given,        \* the association of values with keys to be built
  answers       \* what lookups of these keys return, << >> if there is no map

NoMap == << >>

Init ==
  /\ status = "building"
  /\ answers = NoMap

Succeed ==
  /\ status = "building"
  /\ status' = "built"
  /\ answers' = given
  /\ UNCHANGED given

Fail ==
  /\ status = "building"
  /\ status' = "failed"
  /\ UNCHANGED <<given, answers>>

Discard ==
  /\ status = "built"
  /\ status' = "freed"
  /\ answers' = NoMap
  /\ UNCHANGED given

Next == Succeed \/ Fail \/ Discard

Spec == Init /\ [][Next]_<<status, given, answers>>

(* A construction that was begun does not go on for ever. *)
Resolves == <>(status # "building")
=============================================================================
