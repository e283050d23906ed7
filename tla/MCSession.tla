----------------------------- MODULE MCSession -----------------------------
(* Instances of Session for TLC. *)
EXTENDS Session

CONSTANTS a1, a2, a3, r1, r2

ThreeCalls == {a1, a2, a3}
OneRound == {r1}
TwoRounds == {r1, r2}
=============================================================================
