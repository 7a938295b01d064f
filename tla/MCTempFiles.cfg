CONSTANTS
    Documents = {doc}
    Posts = {post}
    Before = 1
    MaxDeliveries = 2
    MaxFaults = 1
    BatchSize = 1
    Undeletable = {1}
    None = None
SPECIFICATION Spec
INVARIANTS
    TypeOK
    RowHasFile
    NoOrphanFiles
PROPERTIES
    ImplementsRequestFiles
    CycleVisitsAllDue
    CycleIsFinite
    FinishedIsCleaned
    OldPartsGo
