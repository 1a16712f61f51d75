\* Two targets, a signal at any moment.
CONSTANTS
    Targets = {"site", "annex"}
    Slots = {1, 2}
    MaxInstances = 1
    Callback = TRUE
SPECIFICATION Spec
\* The process ends.
CHECK_DEADLOCK FALSE
INVARIANTS
    NoScanIsTorn
