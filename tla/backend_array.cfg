\* Registering backends.
SPECIFICATION Spec
CONSTANTS
    Ults = {u1, u2}
    Ids = {i1, i2}
    NilId = nil
    Dummy <- dummy
    Types <- MCTypes
    Tokens <- MCTokens
    NoToken = none
    EmptyToken = empty
    ArgToken <- t1
    ListSizes <- MCSizes
    BackendRets <- MCRets
    MaxBackends = 2
    PtrSize = 8
    Blocking = {}
    Serialised = FALSE
    Drained = TRUE
    t1 = t1
    t2 = t2
    dummy = dummy
    other = other
INVARIANTS BackendArrayFits
