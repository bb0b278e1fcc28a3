CONSTANTS
    Lines = {1, 2}
    Windows = {}
SPECIFICATION FairSpec
INVARIANTS
    ExecutorInv
PROPERTIES
    StopEnds
    PauseObeyed
