CONSTANTS
    p1 = p1
    p2 = p2
    p3 = p3
    Process = {p1, p2, p3}
    Head = 2
    QueueTables = 2
    GraphTables = 2
    MaxSignals = 2
    Scenarios <- MCScenarios
SPECIFICATION Spec
INVARIANTS OkMeansInstalled RerunNeverConflicts SpansAreFlushed
CHECK_DEADLOCK FALSE
