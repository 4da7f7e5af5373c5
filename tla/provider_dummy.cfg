\* The repository's own configuration: the dummy backend, which never yields,
\* an empty token, and callers that serialise nothing and know of another backend.
SPECIFICATION DummySpec
CONSTANTS
    Ults = {u1, u2}
    Ids = {i1, i2, i3}
    NilId = nil
    Dummy <- dummy
    Types <- MCTypes
    Tokens <- MCTokens
    NoToken = none
    EmptyToken = empty
    ArgToken = empty
    ListSizes <- MCSizes
    BackendRets <- MCRets
    MaxBackends = 1
    PtrSize = 8
    Blocking <- MCBlocking
    Serialised = FALSE
    Drained = TRUE
    Configs <- MCConfigs
    Malformed <- bad
    Default = default
    NULL = null
    t1 = t1
    dummy = dummy
    other = other
    good = good
    bad = bad
SYMMETRY Symmetry
INVARIANTS ContextsFreedOnce ConfigsParsed
PROPERTIES ImplementsService
