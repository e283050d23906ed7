\* Rounds against the round state.
SPECIFICATION Spec
CONSTANTS
    t1 = t1  t2 = t2  m1 = m1  m2 = m2
    Tx <- OneTx
    Peers <- OnePeer
    Threshold = 1
    MaxTxs = 1
    MaxRounds = 2
    MaxFaults = 0
    Overlap = FALSE
PROPERTY RoundEnds
CHECK_DEADLOCK FALSE
