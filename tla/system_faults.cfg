\* Two callers that create, close, list and sum; two RPCs in flight, two faults.
SPECIFICATION Spec
CONSTANTS
    Callers = {c1, c2}
    Nobody = nobody
    Slots = {s1, s2}
    MaxFaults = 2
    Workload <- AdminWork
    Ids = {i1, i2}
    NilId = nil
    Types <- MCTypes
    Tokens <- MCAccepted
    ListSizes <- MCOne
    Accepted <- MCAccepted
    BackendRets <- MCRets
    good = good
    bad = bad
    dummy = dummy
SYMMETRY Symmetry
INVARIANTS EndReported AnswersCurrent OrphansAreFaults
