SPECIFICATION Spec
CONSTANTS
    Stages = {"analysis", "blocksci", "mappings", "report"}
    Order <- MCOrder
    Deps <- MCDeps
    OnPbs = {"blocksci", "mappings", "report"}
    Insists = {"mappings"}
    Commands = {"full", "again"}
    Plan <- MCPlan
    Parallel = {"full"}
    MaxFaults = 1
    NoCommand = NoCommand
INVARIANTS SuccessIsOwn SuccessIsSeen OkIsWhole NoJobLeftBehind CancelsOwnJobs NeverStuck
CHECK_DEADLOCK FALSE
