\* Runs that work, are refused, or meet a tool that refuses; every failure.
CONSTANTS
    r1 = r1
    r2 = r2
    r3 = r3
    Runs = {r1, r2, r3}
    Targets <- MCTargets
    Agents = {"attack"}
    Assets <- MCAssets
    Keys <- MCAssets
    KeyOf <- MCKeyOf
    Findings <- MCFindings
    CalledWith <- MCCalledWith
    Authorized <- MCAuthorized
    ToolScope <- NarrowTool
    Outputs <- MCOutputs
    Urgent <- MCUrgent
    Faults = {"database", "notifier", "interrupt"}
SPECIFICATION Spec
\* Each run happens once, so the system stops.
CHECK_DEADLOCK FALSE
INVARIANTS
    TypeOK
    OwnRow
    OneRefusalStopsAll
    DoneIsComplete
    PagesAreStored
    EveryUrgentFindingIsSent
PROPERTIES
    ImplementsHistory
