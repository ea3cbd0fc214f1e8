\* One source, copied locally or through a child, against four requests and a crash.
CONSTANTS
    s1 = s1  s2 = s2
    Sources = {s1}
    Modes = {"onprem", "local"}
    Starts = {"draft", "ready"}
    Limit = 1
    Objects = 2
    MaxRequests = 4
    MaxCrashes = 1
SPECIFICATION FairSpec
INVARIANTS TypeOK NothingRunsUnasked
PROPERTIES PausedBeginsNothing ComesToRest
CHECK_DEADLOCK FALSE
