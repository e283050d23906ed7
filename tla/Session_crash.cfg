\* Stop and Start against the goroutines they leave behind.
SPECIFICATION Spec
CONSTANTS
    a1 = a1  a2 = a2  a3 = a3  r1 = r1  r2 = r2
    NoCall = NoCall
    Calls <- ThreeCalls
    Ids <- TwoRounds
INVARIANT StopIsSafe
CHECK_DEADLOCK FALSE
