\* Two sources of a list that is ready, against three requests and a crash.
CONSTANTS
    s1 = s1  s2 = s2
    Sources = {s1, s2}
    Modes = {"onprem"}
    Starts = {"ready"}
    Limit = 2
    Objects = 1
    MaxRequests = 3
    MaxCrashes = 1
SPECIFICATION Spec
INVARIANTS StartsComplete ObeyedStopReaches
PROPERTIES VerdictIsCurrent ReplacedIsStopped
SYMMETRY Symmetry
CHECK_DEADLOCK FALSE
