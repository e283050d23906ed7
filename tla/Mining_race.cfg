\* CheckTimeout inside a Confirm of the same proof: what holds all the same.
SPECIFICATION Spec
CONSTANTS
    t1 = t1  t2 = t2  m1 = m1  m2 = m2
    Tx <- OneTx
    Peers <- TwoPeers
    Threshold = 2
    MaxTxs = 1
    MaxRounds = 2
    MaxFaults = 1
    Overlap = TRUE
SYMMETRY PeerSymmetry
INVARIANTS TypeOK ConfirmedOnly TxAccounted
CHECK_DEADLOCK FALSE
