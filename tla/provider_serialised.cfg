\* Every backend function may yield; requests for one collector do not overlap
\* when one of them is a close or a destroy; fair scheduling, no symmetry.
SPECIFICATION FairSpec
CONSTANTS
    Ults = {u1, u2}
    Ids = {i1, i2}
    NilId = nil
    Dummy <- dummy
    Types <- MCTypes
    Tokens <- MCTokens
    NoToken = none
    EmptyToken = empty
    ArgToken <- t1
    ListSizes <- MCSizes
    BackendRets <- MCRets
    MaxBackends = 1
    PtrSize = 8
    Blocking <- BlockAll
    Serialised = TRUE
    Drained = TRUE
    t1 = t1
    t2 = t2
    dummy = dummy
    other = other
INVARIANTS NoMisuse ContextsAccounted ShutdownReleasesAll ContextInv
PROPERTIES ImplementsService Answered ShutdownCompletes
