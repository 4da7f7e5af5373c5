--------------------------- MODULE MCSomaProvider ---------------------------
(***************************************************************************)
(* Instances of SomaProvider for TLC.  The sets are given in the .cfg      *)
(* files as model values; handlers and uuids are interchangeable, so runs  *)
(* that check safety alone use them up to permutation.                     *)
(***************************************************************************)
EXTENDS SomaProviderService, SomaProviderInv, TLC

CONSTANTS t1, t2, dummy, other

MCTypes == {dummy, other}
MCTokens == {t1, t2}
MCSizes == {1, 2}
MCOne == {1}
MCRets == {"SOMA_SUCCESS", "SOMA_ERR_OTHER"}
BlockAll == CreateOps \cup IdOps
BlockAllButClose == BlockAll \ {"close"}

Symmetry == Permutations(Ults) \cup Permutations(Ids)

=============================================================================
