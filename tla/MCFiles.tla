------------------------------- MODULE MCFiles ------------------------------
(* Files for TLC: one map of each kind, one of them legacy, and an empty one. *)
EXTENDS Files, TLC

CONSTANTS t1, t2

MCThreads == {t1, t2}
ThreadSymmetry == Permutations(MCThreads)

Word(k) == <<Num(k), Num(k + 1)>>

(* Segments of one cell each: one, two and the two that overlap them. *)
Sample(type, hash, count, n) ==
  [type                 |-> type,
   hash                 |-> hash,
   seed                 |-> Word(1),
   segment_length       |-> 1,
   segment_length_mask  |-> 0,
   segment_count        |-> count,
   segment_count_length |-> count,
   data_len             |-> count + 2,
   n                    |-> n,
   data                 |-> [k \in 1 .. (count + 2) |-> Word(k + 1)],
   checks               |-> IF type = "constmap" THEN << >>
                            ELSE [k \in 1 .. (count + 2) |-> Word(k + 5)]]

Empty(type, hash) ==
  [type |-> type, hash |-> hash, seed |-> ZeroWord, segment_length |-> 0,
   segment_length_mask |-> 0, segment_count |-> 0, segment_count_length |-> 0,
   data_len |-> 0, n |-> 0, data |-> << >>, checks |-> << >>]

MCMaps == { Sample("constmap", "XXH64", 1, 1), Sample("verified", "XXH64", 1, 1),
            Sample("paired", "XXH3", 1, 1), Empty("constmap", "XXH3") }

(* Half a segment short, and with segments of a length that is no power of    *)
(* two: the sum is right, the parameters are not.                             *)
MCForeign ==
  { [Sample("paired", "XXH3", 1, 1) EXCEPT !.segment_count = 2, !.segment_count_length = 2],
    [Sample("paired", "XXH64", 1, 1) EXCEPT !.segment_length = 3, !.segment_length_mask = 2,
                    !.segment_count = 0, !.segment_count_length = 0] }
MCForeignPlain ==
  { [Sample("constmap", "XXH64", 1, 1) EXCEPT !.segment_count = 2, !.segment_count_length = 2] }
=============================================================================
