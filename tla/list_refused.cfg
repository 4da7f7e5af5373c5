\* A list whose token is refused.
SPECIFICATION Spec
CONSTANTS
    Callers = {c1}
    Nobody = nobody
    Slots = {s1}
    MaxFaults = 0
    Workload <- Ops
    Ids = {i1}
    NilId = nil
    Types <- MCTypes
    Tokens <- MCTokens
    ListSizes <- MCOne
    Accepted <- MCAccepted
    BackendRets <- MCRets
    good = good
    bad = bad
    dummy = dummy
PROPERTIES RepliesReported
