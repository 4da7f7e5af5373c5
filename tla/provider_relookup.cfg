\* No serialisation; every backend function but close may yield; a second
\* backend is registered.
SPECIFICATION Spec
CONSTANTS
    Ults = {u1, u2, u3}
    Ids = {i1, i2}
    NilId = nil
    Dummy <- dummy
    Types <- MCTypes
    Tokens <- MCTokens
    NoToken = none
    EmptyToken = empty
    ArgToken <- t1
    ListSizes <- MCOne
    BackendRets <- MCRets
    MaxBackends = 2
    PtrSize = 8
    Blocking <- BlockAllButClose
    Serialised = FALSE
    Drained = TRUE
    t1 = t1
    t2 = t2
    dummy = dummy
    other = other
SYMMETRY Symmetry
INVARIANTS TypeOK NoDanglingUse CountMatches OneEnderWins
PROPERTIES RemovalAuthorised InputsReturned
