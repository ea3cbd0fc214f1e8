CONSTANTS
    c1 = c1  c2 = c2  j1 = j1  j2 = j2
    Copiers = {c1, c2}
    Runs = {j1, j2}
    Resources = {1, 2}
    Dirs = {1}
    Works = {"personal", "shared", "local"}
    Listings <- MCListings
    Occupied <- MCOccupied
    Lanes = 1
    Unused = Unused
    PageLimit = 2
    Scenarios <- MCScenarios
SPECIFICATION FairSpec
INVARIANTS TypeOK FilesAccounted OwnerRestored RunEndsOnce StreamIsComplete
PROPERTIES StreamEnds
CHECK_DEADLOCK FALSE
