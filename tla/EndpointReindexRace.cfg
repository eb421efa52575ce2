SPECIFICATION ReindexSpec
CONSTANTS
    Builds = {b1, b2, b3}
    Loads = {}
    Tags = {b1, b2, b3}
    TagOf <- MCTagOf
    Packs = {p1, p2}
    MaxInFlight = 2
SYMMETRY Symmetry
INVARIANTS
    StaleRoutesEvicted
