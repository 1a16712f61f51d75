\* A tool refuses the target that its siblings were started against.
CONSTANTS
    r1 = r1
    r2 = r2
    r3 = r3
    r4 = r4
    Runs = {r1, r2, r3}
    Targets <- MCTargets
    Agents = {"recon"}
    Assets <- MCAssets
    Keys <- MCKeys
    KeyOf <- MCKeyOf
    Findings = {}
    TargetOf <- ThreeTargets
    Authorized <- MCAuthorized
    ToolScope <- NarrowSecondTool
    Outputs <- FewOutputs
    Overlap = TRUE
    Faults = {}
SPECIFICATION Spec
CHECK_DEADLOCK FALSE
INVARIANTS
    ViolationStopsTheTools
