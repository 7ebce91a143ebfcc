----------------------------- MODULE MCPyObjects ----------------------------
(* PyObjects for TLC: words of two bits, so that -1 and 3 are all ones, -2 is  *)
(* the least value, -3 is too small and 4 too large.                          *)
EXTENDS PyObjects, TLC

CONSTANTS t1, t2

MCThreads == {t1, t2}
ThreadSymmetry == Permutations(MCThreads)

Str(text) == [kind |-> "str", text |-> text]
Bytes(text) == [kind |-> "bytes", text |-> text]
Surrogate == [kind |-> "surrogate", text |-> "d"]
NoKey == [kind |-> "int", text |-> "1"]

Entry(key, number) == [key |-> key, value |-> [kind |-> "int", number |-> number]]

MCDicts ==
  { << Entry(Str("a"), 2), Entry(Str("b"), -1) >>,
    << Entry(Str("b"), -2) >>,
    << Entry(Str("a"), 3), Entry(Bytes("a"), 0) >>,
    << Entry(Str("a"), 1), Entry(Str("b"), 4) >>,
    << Entry(Str("a"), -3) >>,
    << Entry(Surrogate, 4) >> }

MCLists ==
  { << Str("a"), Str("b"), Bytes("a"), Str("c") >>,
    << Str("b"), Str("a"), Str("c"), NoKey >>,
    << Str("b") >> }

MCLookedUp == { Str("b"), NoKey }

(* No step depends on what the last call answered, and the properties of the    *)
(* run are about the steps that answer: states that differ in it are one.     *)
WithoutAnswer == <<world, shared, pc, locals>>

MCStored == << <<"a", 0>>, <<"b", 2>> >>
=============================================================================
