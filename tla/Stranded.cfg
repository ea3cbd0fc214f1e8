\* A crash between the failure of an attempt and of its entry.
CONSTANTS
    f1 = f1  f2 = f2
    NoFile = NoFile
    Files = {f1}
    MaxDownloads = 1
    MaxPointTries = 1
    MaxAttempts = 1
    Scenarios <- StrandedScenarios
SPECIFICATION FairSpec
PROPERTIES RunAlwaysEnds
