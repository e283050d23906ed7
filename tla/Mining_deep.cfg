\* Three rounds, one peer, one failure: rounds mined on blocks that are not written yet.
SPECIFICATION Spec
CONSTANTS
    t1 = t1  t2 = t2  m1 = m1  m2 = m2
    Tx <- TwoTxs
    Peers <- OnePeer
    Threshold = 1
    MaxTxs = 1
    MaxRounds = 3
    MaxFaults = 1
    Overlap = FALSE
INVARIANTS OnChainIsCanonical NoTxTwice ReturnedNotChained TxAccounted
CHECK_DEADLOCK FALSE
