----------------------------- MODULE MCRegistry -----------------------------
(* Registry for TLC. *)
EXTENDS Registry, TLC

CONSTANTS i1, i2, c1, c2, s1, s2, s3, p1, p2

Symmetry == Permutations(Peers) \cup Permutations(Identities) \cup Permutations(Cores)
               \cup Permutations(Sessions)

\* The first identity is shared with everyone, the second is its owner's.
MCAcl == [n \in Ids |-> IF n = 1 THEN Peers ELSE {}]
=============================================================================
