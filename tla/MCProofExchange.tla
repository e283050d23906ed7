-------------------------- MODULE MCProofExchange --------------------------
(* Instances of ProofExchange for TLC. *)
EXTENDS ProofExchange

CONSTANTS n1, n2, c1, c2

TwoNodes == {n1, n2}
OneMiner == {n1}
TwoContents == {c1, c2}

NoBlocks == [m \in Miners |-> <<>>]
Nobody == {}
=============================================================================
