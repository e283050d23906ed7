\* FitOnChain against the bound that poolBlockCount names.
SPECIFICATION Spec
CONSTANTS
    t1 = t1  t2 = t2  t3 = t3  p1 = p1  p2 = p2  c1 = c1  c2 = c2
    NoTx = NoTx
    Tx <- TwoTxs
    Threads <- OneThread
    Callers <- OneCaller
    Works <- TwoWorks
    FullCap = 1
    VerifyCap = 2
    MaxKnown = 3
    MaxTxs = 1
    PoolBlockCount = 0
    MaxHeight = 2
PROPERTY OldEvicted
CHECK_DEADLOCK FALSE
