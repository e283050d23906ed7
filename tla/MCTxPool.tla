------------------------------ MODULE MCTxPool ------------------------------
(* Instances of TxPool for TLC. *)
EXTENDS TxPool, TLC

CONSTANTS t1, t2, t3, p1, p2, c1, c2

OneTx == {t1}
TwoTxs == {t1, t2}
ThreeTxs == {t1, t2, t3}
OneThread == {p1}
TwoThreads == {p1, p2}
OneCaller == {c1}
TwoCallers == {c1, c2}
\* Transactions and callers are interchangeable.
Alike == Permutations(TwoTxs) \cup Permutations(TwoCallers)
OneWork == 1..1
TwoWorks == 1..2
ThreeWorks == 1..3
=============================================================================
