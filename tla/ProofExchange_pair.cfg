\* A miner and a node that verifies, four rounds, one failed write.
SPECIFICATION Spec
CONSTANTS
    n1 = n1  n2 = n2  c1 = c1  c2 = c2
    None = None
    Nodes <- TwoNodes
    Miners <- OneMiner
    Contents <- TwoContents
    Threshold = 1
    MaxRounds = 4
    MaxFaults = 1
    Chain0 <- NoBlocks
    Knows <- Nobody
INVARIANTS TypeOK StoredIsMade SealedIsConfirmed
PROPERTY ProofAnswered
CHECK_DEADLOCK FALSE
