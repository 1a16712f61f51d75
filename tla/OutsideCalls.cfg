\* Every short name and address against every entry; every tool; alerts around the cap.
CONSTANTS
    Bits <- MCBits
    LabelMax = 3
    NameMax = 5
    Calls <- MCCalls
    Outputs <- MCOutputs
    Comparisons <- MCComparisons
    Cap = 25
    MessageCap = 4096
SPECIFICATION Spec
\* A call ends, and nothing follows.
CHECK_DEADLOCK FALSE
INVARIANTS
    TypeOK
    OnlyAuthorizedRun
    OrphansHaveACause
    ResultIsOfItsOutput
    SubdomainsStayInScope
    AlertAddsUp
PROPERTIES
    EveryCallEnds
