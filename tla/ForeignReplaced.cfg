\* A point retry after an interrupted upload, with a foreign file at the name.
CONSTANTS
    f1 = f1  f2 = f2
    NoFile = NoFile
    Files = {f1}
    MaxDownloads = 1
    MaxPointTries = 1
    MaxAttempts = 2
    Scenarios <- ForeignScenarios
SPECIFICATION FairSpec
PROPERTIES ForeignNeverReplaced
