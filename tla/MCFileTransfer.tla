--------------------------- MODULE MCFileTransfer ---------------------------
EXTENDS FileTransfer, TLC

CONSTANTS f1, f2

Symmetry == Permutations(Files)

\* Into a folder that others may use or under a technical root; requests of the
\* user, changes others make, deaths of the process.
Scenario(direct, user, edits, crash) ==
    [direct |-> direct, user |-> user, edits |-> edits, crash |-> crash]

OneFileScenarios ==
    {Scenario(TRUE, 2, 0, 1), Scenario(TRUE, 1, 1, 0), Scenario(FALSE, 1, 1, 1)}
TwoFilesScenarios ==
    {Scenario(TRUE, 1, 0, 1), Scenario(TRUE, 0, 1, 1), Scenario(FALSE, 0, 1, 1)}
StrandedScenarios == {Scenario(TRUE, 2, 0, 1)}
ForeignScenarios == {Scenario(TRUE, 1, 1, 0)}
=============================================================================
