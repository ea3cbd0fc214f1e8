\* Two jobs and a batch of two threads: three sources for two lanes.
CONSTANTS
    j1 = j1  j2 = j2  c1 = c1  c2 = c2  b1 = b1
    Jobs = {j1, j2}
    Leasers = {c1, c2}
    LeaseOwners = {b1}
    Owner <- MCOwner
    Limit = 2
    NoJob = NoJob
    MaxUser = 1
SPECIFICATION Spec
INVARIANTS TypeOK NoLeakedLane StepHoldsLane SourcesWithinLimit ClosedIsQuiet
SYMMETRY Symmetry
CHECK_DEADLOCK FALSE
