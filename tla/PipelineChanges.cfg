\* A pipeline, and a scan of the same target; nothing fails.
CONSTANTS
    p1 = p1
    p2 = p2
    Runs = {p1, p2}
    Targets <- MCTargets
    Agents = {"recon", "attack", "analyze"}
    Assets <- MCAssets
    Keys <- MCAssets
    KeyOf <- MCKeyOf
    Findings = {"flaw"}
    Given <- PipelineAndScan
    TargetOf <- SameTarget
    Authorized <- MCAuthorized
    ReconTools = 1
    AttackTools = 1
    ReconOutputs <- MCReconOutputs
    AttackOutputs <- MCAttackOutputs
    Urgent = {}
    BatchSize = 2
    Items = {"item"}
    Sound = {"item"}
    Answers <- MCAnswers
    NameOf <- MCNameOf
    Rank <- MCRank
    Faults = {}
SPECIFICATION Spec
\* Each command is given once, so the system stops.
CHECK_DEADLOCK FALSE
INVARIANTS
    NewAssetsAreFresh
