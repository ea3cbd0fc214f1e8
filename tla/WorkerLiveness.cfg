\* One job with a lane of its own against three requests: what must happen does.
CONSTANTS
    j1 = j1  j2 = j2  c1 = c1  c2 = c2  b1 = b1
    Jobs = {j1}
    Leasers = {}
    LeaseOwners = {b1}
    Owner <- MCOwner
    Limit = 1
    NoJob = NoJob
    MaxUser = 3
SPECIFICATION FairSpec
INVARIANTS StopForgetsCredentials
PROPERTIES  LaneReturned StopAcknowledged RunningIsStepped
CHECK_DEADLOCK FALSE
