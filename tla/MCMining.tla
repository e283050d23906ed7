------------------------------ MODULE MCMining ------------------------------
(* Instances of Mining for TLC. *)
EXTENDS Mining, TLC

CONSTANTS t1, t2, m1, m2

OneTx == {t1}
TwoTxs == {t1, t2}
TwoPeers == {m1, m2}
OnePeer == {m1}

\* The peers are alike.
PeerSymmetry == Permutations(TwoPeers)
=============================================================================
