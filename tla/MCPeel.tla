------------------------------- MODULE MCPeel -------------------------------
(* fcm_peel for TLC with words of three bits.  Four keys are the fewest whose *)
(* hashes can be distinct and still never be alone, and the fewest that let  *)
(* a pair of equal hashes be hidden from the check by two others.  Five and  *)
(* six keys in an array of three cells are all in one cell, whose count has   *)
(* then wrapped and looks like one or two.                                   *)
EXTENDS Mixing, TLC

MCKeyHash == 0 .. 5

(* Three keys have four segments of two cells, resized to eight of one; up to *)
(* four keys otherwise have three segments of two, and more keys three of one. *)
MCSegmentLength == <<2, 2, 2, 2, 1, 1>>
MCCapacity      == <<0, 4, 7, 6, 3, 3>>

(* Like the program's: factors that are odd, shifts of about half a word.    *)
MCMixFactors   == <<5, 3>>
MCSplitShifts  == <<2, 1, 2>>
MCSplitFactors == <<3, 7>>

(* The hashes of keys matter only by which of them are equal, so each set of *)
(* keys is checked under one naming of its hashes: a key has the index of    *)
(* the first key with its hash.                                              *)
CanonicalHashes == \A k \in Keys : hashed[k] <= k /\ hashed[hashed[k]] = hashed[k]

(* More than four keys are there for the counts: they come in one order.     *)
SortedWhenMany(words) == size > 4 => \A j, k \in Keys : j < k => words[j] <= words[k]

MCInit == Init /\ CanonicalHashes /\ SortedWhenMany(hashed)

MCSpec == MCInit /\ [][Next]_vars

MCConstraint == pc # "attempt" => SortedWhenMany(mixed)
=============================================================================
