\* A scan with three batches of findings, one that fills a batch, one cut off, none.
CONSTANTS
    r1 = r1
    r2 = r2
    Runs = {r1, r2}
    Targets <- MCTargets
    Agents = {"attack", "analyze"}
    Assets = {}
    Keys = {}
    KeyOf <- NoKeys
    Findings = {"low"}
    TargetOf <- MCTargetOf
    CalledWith <- MCCalledWith
    BatchSize = 2
    Items <- MCItems
    Sound = {"item"}
    Answers <- MCAnswers
    PastScans <- MCPastScans
    PastFindings <- MCPastFindings
    Faults = {"database", "model", "notifier", "interrupt"}
SPECIFICATION Spec
\* Each run happens once, so the system stops.
CHECK_DEADLOCK FALSE
INVARIANTS
    TypeOK
    ReportsCoverTheirScan
    DoneHasItsReport
    SourceHadCompleted
