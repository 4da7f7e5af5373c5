\* Six collectors, one bucket to begin with, two in a bucket expand.
SPECIFICATION Spec
CONSTANTS
    Keys = {k1, k2, k3, k4, k5, k6}
    k1 = k1
    k2 = k2
    k3 = k3
    k4 = k4
    k5 = k5
    k6 = k6
    NULL = NULL
    Hash <- MCHash
    InitialBuckets = 1
    Threshold = 2
    MaxBuckets = 16
    Drained = TRUE
SYMMETRY Symmetry
INVARIANTS HASH_FSCK FindExact ChainsBounded SweepComplete
PROPERTIES ImplementsList
