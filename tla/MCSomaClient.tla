---------------------------- MODULE MCSomaClient ----------------------------
(* An instance of SomaClientProcess for TLC. *)
EXTENDS SomaClientProcess, TLC

Symmetry == Permutations(Clients) \cup Permutations(Handles)
                \cup Permutations(Refs) \cup Permutations(Threads) \cup Permutations(Admins)

=============================================================================
