SPECIFICATION OpeningSpec
CONSTANTS
    OldRows = 3
    NewRows = 1
    BatchSize = 2
    Columns = {from_self, reply_to}
    MaxCrashes = 2
    MaxFaults = 2
INVARIANTS
    WholeUnlessTorn
    NothingDestroyed
    Readable
    IndexComplete
