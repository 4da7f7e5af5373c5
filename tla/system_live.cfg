\* All the calls of one caller and both tokens; one collector, one fault, no
\* symmetry.
SPECIFICATION FairSpec
CONSTANTS
    Callers = {c1}
    Nobody = nobody
    Slots = {s1, s2}
    MaxFaults = 1
    Workload <- Ops
    Ids = {i1}
    NilId = nil
    Types <- MCTypes
    Tokens <- MCTokens
    ListSizes <- MCOne
    Accepted <- MCAccepted
    BackendRets <- MCRets
    good = good
    bad = bad
    dummy = dummy
PROPERTIES CallsReturn
