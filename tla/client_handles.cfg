\* Two clients, two admins, three handles, four references, two calls in flight.
SPECIFICATION ProcessSpec
CONSTANTS
    Clients = {c1, c2}
    Admins = {a1, a2}
    Handles = {h1, h2, h3}
    Refs = {r1, r2, r3, r4}
    NoHandle = null
    NULL = NULL
    Threads = {t1, t2}
    Orderly = TRUE
    Serial = TRUE
SYMMETRY Symmetry
INVARIANTS RefcountExact HandleCountExact NoDanglingUse IdsComplete HelloSilent
