\* A full stop between the check and the write of a pause.
CONSTANTS
    j1 = j1  j2 = j2  c1 = c1  c2 = c2  b1 = b1
    Jobs = {j1, j2}
    Leasers = {}
    LeaseOwners = {b1}
    Owner <- MCOwner
    Limit = 2
    NoJob = NoJob
    MaxUser = 2
SPECIFICATION Spec
INVARIANTS SchedulerSurvives
CHECK_DEADLOCK FALSE
