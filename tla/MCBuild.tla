------------------------------- MODULE MCBuild ------------------------------
(* The constructors for TLC: words of three bits, up to three keys.  Three   *)
(* keys have four segments of two cells, in the third attempt eight of one.  *)
(* The values differ; 7 is also NOT_FOUND.                                   *)
EXTENDS RoundTrip, TLC

MCKeyHash       == 0 .. 2
MCSegmentLength == <<2, 2, 2>>
MCCapacity      == <<0, 4, 7>>
MCValue         == 0 :> 5 @@ 1 :> 7 @@ 2 :> 1

(* The hashes of keys matter only by which of them are equal, so each set of *)
(* keys needs to be checked under one naming of its hashes: a key has the    *)
(* index of the first key with its hash.  (A symmetry set would do the same, *)
(* but not for liveness.)                                                    *)
CanonicalHashes == \A k \in Keys : hashed[k] <= k /\ hashed[hashed[k]] = hashed[k]

MCInit == BuildInit /\ CanonicalHashes

MCSpec == MCInit /\ [][BuildNext]_allVars /\ CallFairness

(* Sizes whose conversion to int32_t is negative and one less still one.     *)
MCLargeSpec == MCInit /\ size > Int32Max + 1 /\ [][BuildNext]_allVars
=============================================================================
