------------------------------- MODULE TxLife -------------------------------
(***************************************************************************)
(* What the transaction pool promises for one transaction, seen from the   *)
(* outside: it is accepted at most once, becomes pending, is mined by at   *)
(* most one work at a time, and ends in a block or becomes pending again.  *)
(* An accepted transaction is never lost and never mined twice.            *)
(***************************************************************************)
CONSTANT Tx

VARIABLES
    life,   \* the stage of each transaction
    open    \* FALSE once the pool has been stopped

Stages == {"none", "entering", "pending", "mining", "chained"}

LifeInit ==
    /\ life = [t \in Tx |-> "none"]
    /\ open = TRUE

\* One transaction moves along one of the allowed edges.
Move(t, from, to) ==
    /\ life[t] = from
    /\ life' = [life EXCEPT ![t] = to]
    /\ UNCHANGED open

Accept(t) == Move(t, "none", "entering")
Ready(t) == Move(t, "entering", "pending")
Take(t) == Move(t, "pending", "mining")
Return(t) == Move(t, "mining", "pending")
Chain(t) == Move(t, "mining", "chained")

Close ==
    /\ open' = FALSE
    /\ UNCHANGED life

LifeNext ==
    \/ \E t \in Tx : Accept(t) \/ Ready(t) \/ Take(t) \/ Return(t) \/ Chain(t)
    \/ Close

LifeSpec ==
    /\ LifeInit
    /\ [][LifeNext]_<<life, open>>
    /\ \A t \in Tx : WF_<<life, open>>(open /\ Ready(t))
=============================================================================
