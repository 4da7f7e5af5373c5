-------------------------- MODULE MCDummyProvider ---------------------------
(* An instance of DummyProvider for TLC, with the refinement of its part    *)
(* that is SomaProvider.                                                     *)
EXTENDS DummyProvider, SomaProviderService, TLC

CONSTANTS t1, dummy, other, good, bad

MCTypes == {dummy, other}
MCTokens == {t1}
MCSizes == {1, 2}
MCRets == {"SOMA_SUCCESS", "SOMA_ERR_INVALID_CONFIG"}
MCBlocking == {}
MCConfigs == {good, bad}

Symmetry == Permutations(Ults) \cup Permutations(Ids)

=============================================================================
