-------------------------- MODULE MCCollectorHash ---------------------------
(* An instance of CollectorHash for TLC: four collectors that no expansion  *)
(* separates, two more such, and two groups that share no bucket.  With all *)
(* of them present expansion is given up.                                   *)
EXTENDS CollectorHash, TLC

CONSTANTS k1, k2, k3, k4, k5, k6

MCHash == [k \in Keys |-> IF k \in {k1, k2, k3, k4} THEN 0 ELSE 1]

Symmetry == Permutations({k1, k2, k3, k4}) \cup Permutations({k5, k6})

=============================================================================
