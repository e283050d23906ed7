\* The lock of queryRemoteState after a timeout.
SPECIFICATION Spec
CONSTANTS
    n1 = n1  n2 = n2  c1 = c1  c2 = c2
    None = None
    Nodes <- TwoNodes
    Miners <- OneMiner
    Contents <- TwoContents
    Threshold = 1
    MaxRounds = 3
    MaxFaults = 0
    Chain0 <- NoBlocks
    Knows <- Nobody
INVARIANT CanResync
CHECK_DEADLOCK FALSE
