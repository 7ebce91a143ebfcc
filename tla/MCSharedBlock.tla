---------------------------- MODULE MCSharedBlock ---------------------------
(* SharedBlock for TLC: two plain maps, so that a block may hold some of each, *)
(* an empty one of another class, and one that is too large for the block.   *)
EXTENDS SharedBlock

Word(k) == <<Num(k), Num(k + 1)>>

(* Segments of one cell: one and the two that overlap it. *)
Sample(seed) ==
  [type |-> "constmap", hash |-> "XXH64", seed |-> Word(seed), segment_length |-> 1,
   segment_length_mask |-> 0, segment_count |-> 1, segment_count_length |-> 1,
   data_len |-> 3, n |-> 1, data |-> [k \in 1 .. 3 |-> Word(k + seed)], checks |-> << >>]

Empty ==
  [type |-> "paired", hash |-> "XXH3", seed |-> ZeroWord, segment_length |-> 0,
   segment_length_mask |-> 0, segment_count |-> 0, segment_count_length |-> 0,
   data_len |-> 0, n |-> 0, data |-> << >>, checks |-> << >>]

Large == [Sample(1) EXCEPT !.segment_count = 3, !.segment_count_length = 3, !.data_len = 5,
                           !.n = 3, !.data = [k \in 1 .. 5 |-> Word(k)]]

(* One slot, and parameters for three. *)
MCForeign == { [Empty EXCEPT !.segment_length = 1, !.segment_count = 1,
                             !.segment_count_length = 1, !.data_len = 1,
                             !.data = <<Word(1)>>, !.checks = <<Word(3)>>] }

MCMaps == {Sample(1), Sample(7), Empty, Large}
=============================================================================
