\* Three commands and two lines; three default files; two SIGTERMs, one patch.
\* The process exits, and some ways of stopping it are deadlocks of the code.
CONSTANTS
    c1 = c1  c2 = c2  c3 = c3
    Commands = {c1, c2, c3}
    UserLines = {"x", "y"}
    Contents <- MCContents
    Environments <- MCEnvironments
    DefaultPaths = 3
    Snake <- MCSnake
    Numbers <- MCNumbers
    Decimals = {"8.5"}
    MaxSignals = 2
    MaxPatches = 1
SPECIFICATION Spec
INVARIANTS
    UserLinesSurvive
    HooksAreWhole
    PrecedenceHolds
    ShutdownTypeOK
    RequestsEndFirst
PROPERTIES
    StopEndsOrIsStuck
CHECK_DEADLOCK FALSE
