\* An agent that can start two helpers.
SPECIFICATION FairSpec
CONSTANTS
    Helpers = {h1, h2}
INVARIANTS
    ReapInOrder
    SweptGroupIsDoomed
PROPERTIES
    EscalationInOrder
    SweptGroupEnds
CHECK_DEADLOCK FALSE
