CONSTANTS
    Indexes = {i1, i2, i3}
    Sessions = {s1, s2}
    MaxRuns = 3
    MaxMeddling = 2
SPECIFICATION Spec
INVARIANTS TypeOK SoleOwner RevisionTellsOwnership
PROPERTIES OnlyOwnedIsDropped AdoptionIsSafe
CHECK_DEADLOCK FALSE
SYMMETRY Symmetry
