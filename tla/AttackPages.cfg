\* Nothing fails, and yet a message about an urgent finding waits for the scan.
CONSTANTS
    r1 = r1
    r2 = r2
    r3 = r3
    Runs = {r1, r2, r3}
    Targets <- MCTargets
    Agents = {"attack"}
    Assets <- MCAssets
    Keys <- MCAssets
    KeyOf <- MCKeyOf
    Findings <- MCFindings
    CalledWith <- MCCalledWith
    Authorized <- MCAuthorized
    ToolScope <- NarrowTool
    Outputs <- MCOutputs
    Urgent <- MCUrgent
    Faults = {}
SPECIFICATION Spec
CHECK_DEADLOCK FALSE
INVARIANTS
    UrgentFindingsDoNotWait
