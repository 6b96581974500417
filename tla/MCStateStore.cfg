SPECIFICATION Spec
CONSTANTS
    Keys = {k1, k2, k3}
    Values = {v}
    None = None
    Max = 2
    Migrated = 3
    MaxOps = 5
    MaxJobs = 2
INVARIANTS
    TypeOK
    QuietAgreement
    MemoryIsBacked
PROPERTIES
    NeverGrowsPastMax
