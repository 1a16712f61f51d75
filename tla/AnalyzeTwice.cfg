\* Two analyses of one target, nothing fails.
CONSTANTS
    r1 = r1
    r2 = r2
    Runs = {r1, r2}
    Targets <- MCTargets
    Agents = {"attack", "analyze"}
    Assets = {}
    Keys = {}
    KeyOf <- NoKeys
    Findings = {"low"}
    TargetOf <- MCTargetOf
    CalledWith <- LeftToChoose
    BatchSize = 2
    Items <- MCItems
    Sound = {"item"}
    Answers <- MCAnswers
    PastScans <- MCPastScans
    PastFindings <- MCPastFindings
    Faults = {}
SPECIFICATION Spec
\* Each run happens once, so the system stops.
CHECK_DEADLOCK FALSE
INVARIANTS
    AnalysisFindsFindings
