---------------------------- MODULE MCSomaSystem ----------------------------
(* Instances of SomaSystem for TLC. *)
EXTENDS SomaSystem, TLC

CONSTANTS good, bad, dummy

AdminWork == {"create", "close", "list", "sum"}
MCTypes == {dummy}
MCTokens == {good, bad}
MCAccepted == {good}
MCOne == {1}
MCRets == {"SOMA_SUCCESS", "SOMA_ERR_OTHER"}

Symmetry == Permutations(Callers) \cup Permutations(Slots) \cup Permutations(Ids)

=============================================================================
