\* Repeated downloads and point retries against requests, edits and a crash.
CONSTANTS
    f1 = f1  f2 = f2
    NoFile = NoFile
    Files = {f1}
    MaxDownloads = 2
    MaxPointTries = 2
    MaxAttempts = 3
    Scenarios <- OneFileScenarios
SPECIFICATION FairSpec
INVARIANTS TypeOK Verified InFlightRemembered CredentialsHeld
PROPERTIES AttemptSendsOnce ForeignKeptByOrdinary DeliverySpec RunEnds StopEnds
