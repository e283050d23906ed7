\* Two goroutines call AddTx, every channel and the known set fill up.
SPECIFICATION Spec
CONSTANTS
    t1 = t1  t2 = t2  t3 = t3  p1 = p1  p2 = p2  c1 = c1  c2 = c2
    NoTx = NoTx
    Tx <- TwoTxs
    Threads <- OneThread
    Callers <- TwoCallers
    Works <- OneWork
    FullCap = 1
    VerifyCap = 1
    MaxKnown = 1
    MaxTxs = 1
    PoolBlockCount = 1
    MaxHeight = 1
INVARIANT HandOver
PROPERTIES NeverLost OnlyFullStrands
SYMMETRY Alike
CHECK_DEADLOCK FALSE
