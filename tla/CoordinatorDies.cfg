\* One list that is paused while it is planned, resumed, and whose source then fails.
CONSTANTS
    s1 = s1  s2 = s2
    Sources = {s1}
    Modes = {"onprem"}
    Starts = {"draft"}
    Limit = 1
    Objects = 1
    MaxRequests = 3
    MaxCrashes = 0
SPECIFICATION Spec
INVARIANTS CoordinatorSurvives
CHECK_DEADLOCK FALSE
