\* One goroutine calls AddTx, the known set and the verify channels never fill.
SPECIFICATION Spec
CONSTANTS
    t1 = t1  t2 = t2  t3 = t3  p1 = p1  p2 = p2  c1 = c1  c2 = c2
    NoTx = NoTx
    Tx <- TwoTxs
    Threads <- TwoThreads
    Callers <- OneCaller
    Works <- TwoWorks
    FullCap = 1
    VerifyCap = 2
    MaxKnown = 3
    MaxTxs = 2
    PoolBlockCount = 0
    MaxHeight = 2
INVARIANTS TypeOK UniquePlace
PROPERTIES NeverLost ImplementsLife
CHECK_DEADLOCK FALSE
