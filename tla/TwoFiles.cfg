\* Two files: the abstract job, a confirmed stop and the cache.
CONSTANTS
    f1 = f1  f2 = f2
    NoFile = NoFile
    Files = {f1, f2}
    MaxDownloads = 1
    MaxPointTries = 1
    MaxAttempts = 3
    Scenarios <- TwoFilesScenarios
SPECIFICATION Spec
INVARIANTS StoppedIsQuiet
PROPERTIES CacheKept DeliverySpec
SYMMETRY Symmetry
