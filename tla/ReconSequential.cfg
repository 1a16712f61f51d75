\* Three runs of one target, one after the other, no message lost, and a run of
\* a target that nobody authorised.
CONSTANTS
    r1 = r1
    r2 = r2
    r3 = r3
    r4 = r4
    Runs = {r1, r2, r3, r4}
    Targets <- MCTargets
    Agents = {"recon"}
    Assets <- MCAssets
    Keys <- MCKeys
    KeyOf <- MCKeyOf
    Findings = {}
    TargetOf <- LastIsRefused
    Authorized <- MCAuthorized
    ToolScope <- OneTool
    Outputs <- MCOutputs
    Overlap = FALSE
    Faults = {"database", "interrupt"}
SYMMETRY RunSymmetry
SPECIFICATION Spec
\* Each run happens once, so the system stops.
CHECK_DEADLOCK FALSE
INVARIANTS
    AlertIsExact
    ComparesWithPredecessor
    EveryChangeIsTold
