\* Two targets, until a signal comes.
CONSTANTS
    Targets = {"site", "annex"}
    Slots = {1, 2}
    MaxInstances = 1
    Callback = TRUE
SPECIFICATION FairSpec
\* The process ends.
CHECK_DEADLOCK FALSE
INVARIANTS
    TypeOK
    NothingRunsOn
PROPERTIES
    EveryTargetIsRescanned
