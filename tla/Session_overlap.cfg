\* Overlapping Start and Stop calls, one round.
SPECIFICATION Spec
CONSTANTS
    a1 = a1  a2 = a2  a3 = a3  r1 = r1  r2 = r2
    NoCall = NoCall
    Calls <- ThreeCalls
    Ids <- OneRound
INVARIANTS TypeOK OneSession MutexHeld
PROPERTY StopReturns
CHECK_DEADLOCK FALSE
