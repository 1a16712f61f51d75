\* Two overlapping runs of one target, two tools of which one may refuse it,
\* every failure.
CONSTANTS
    r1 = r1
    r2 = r2
    r3 = r3
    r4 = r4
    Runs = {r1, r2}
    Targets <- MCTargets
    Agents = {"recon"}
    Assets <- MCAssets
    Keys <- MCKeys
    KeyOf <- MCKeyOf
    Findings = {}
    TargetOf <- SameTarget
    Authorized <- MCAuthorized
    ToolScope <- MayRefuseSite
    Outputs <- TwoSpellings
    Overlap = TRUE
    Faults = {"database", "notifier", "interrupt"}
SPECIFICATION FairSpec
\* Each run happens once, so the system stops.
CHECK_DEADLOCK FALSE
INVARIANTS
    TypeOK
    OwnRow
    OneRowPerIdentity
    AlertIsExact
    DoneMeansEveryToolRan
    RowMatchesOutcome
PROPERTIES
    EveryRowSettles
    ClosedScansAreFrozen
    ImplementsHistory
