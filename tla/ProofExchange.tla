--------------------------- MODULE ProofExchange ---------------------------
(***************************************************************************)
(* How the nodes exchange and verify proofs: dealProofEvent,               *)
(* queryRemoteState, dealQueryState and dealResponseState of               *)
(* worker/worker_verify.go, the event listener of worker.go, the gossip    *)
(* handlers of synctrl/handlemessage.go and the proofs of                  *)
(* consensus/prometheus.  The mining of a block (module Mining) is reduced *)
(* to what the others can see of it.                                       *)
(*                                                                         *)
(* The proof hash of a block mixes the proof hash of its parent with the   *)
(* root of its transactions, so it is a sequence of contents, and its      *)
(* length is the number of the block.  Signatures are deterministic: equal *)
(* messages of one node are the same message, and gossip hands a message   *)
(* to the worker of a node at most once, or never.                         *)
(*                                                                         *)
(* The nodes are not being stopped: worker.mu, which queryRemoteState      *)
(* takes around its two accesses to peerLockMap and which a Stop can hold  *)
(* for long, is free for them (module Session has the Stop).               *)
(***************************************************************************)
EXTENDS Naturals, Sequences, FiniteSets, SequencesExt

CONSTANTS
    Nodes,      \* the nodes
    Miners,     \* those of them that mine
    Contents,   \* the lists of transactions a block can have
    Threshold,  \* MinerNumber/2+1-1, the confirmations a proof needs
    Chain0,     \* the proof hash of each miner's chain when the nodes start
    Knows,      \* the nodes that have verified these chains before
    MaxRounds,  \* bound on the rounds of a miner
    MaxFaults,  \* bound on the failed writes of a miner
    None        \* no state, no round

ASSUME ProofExchangeConstants ==
    /\ Miners \subseteq Nodes
    /\ Chain0 \in [Miners -> Seq(Contents)]
    /\ Knows \subseteq Nodes
    /\ Threshold \in Nat \ {0}
    /\ MaxRounds \in Nat
    /\ MaxFaults \in Nat

VARIABLES
    sealed,     \* the proof hash of each miner's last sealed block
    written,    \* the number of its last written block
    open,       \* the proof hash of its round, the peers for it and against it
    rounds,     \* the rounds it has started
    faults,     \* the writes that failed
    msgs,       \* every message sent so far
    seen,       \* the messages that reached the worker of each node
    states,     \* the ProofState each node stores for each miner
    inbox,      \* verifyChMap: the proofs waiting for dealProofEvent
    deal,       \* the dealProofEvent goroutine of each node for each miner
    queryCache, \* the number each node asked each miner for last
    peerLock,   \* peerLockMap: absent, a channel, or nil
    listener    \* the eventListener of each node

mine == <<sealed, written, open, rounds, faults>>
verify == <<states, inbox, deal, queryCache, peerLock, listener>>
vars == <<mine, msgs, seen, verify>>

Hashes == Seq(Contents)

Proof(m, h) == [kind |-> "proof", from |-> m, hash |-> h]
Confirm(v, m, h, ok) == [kind |-> "confirm", from |-> v, miner |-> m, hash |-> h, ok |-> ok]
Query(v, m, n) == [kind |-> "query", from |-> v, miner |-> m, num |-> n]
Response(s, v, n, h) == [kind |-> "state", from |-> s, to |-> v, num |-> n, hash |-> h]

State(n, h) == [num |-> n, hash |-> h]
Round(h) == [hash |-> h, yes |-> {}, no |-> {}]
Dealing(pc, h, st) == [pc |-> pc, hash |-> h, st |-> st]
Idle == Dealing("idle", <<>>, None)
Free == [pc |-> "free", peer |-> None]

TypeOK ==
    /\ sealed \in [Miners -> Hashes]
    /\ written \in [Miners -> Nat]
    /\ \A m \in Miners : written[m] <= Len(sealed[m])
    /\ \A m \in Miners : open[m] = None \/ open[m].hash \in Hashes
    /\ \A v \in Nodes, m \in Miners :
        /\ states[v][m] = None \/ states[v][m] \in [num : Nat, hash : Hashes]
        /\ inbox[v][m] \in Seq(Hashes)
        /\ deal[v][m].pc \in {"idle", "verify", "query", "lock", "wait", "read"}
        /\ queryCache[v][m] \in Nat \cup {None}
        /\ peerLock[v][m] \in {"absent", "chan", "nil"}
    /\ listener \in [Nodes -> [pc : {"free", "load", "send"}, peer : Miners \cup {None}]]

\* The nodes have just started: what the databases hold, and empty memories.
Init ==
    /\ sealed = Chain0
    /\ written = [m \in Miners |-> Len(Chain0[m])]
    /\ open = [m \in Miners |-> None]
    /\ rounds = [m \in Miners |-> 0]
    /\ faults = [m \in Miners |-> 0]
    /\ msgs = {}
    /\ seen = [v \in Nodes |-> {}]
    /\ states = [v \in Nodes |-> [m \in Miners |->
                   IF v \in Knows \ {m} /\ Chain0[m] # <<>>
                   THEN State(Len(Chain0[m]), Chain0[m])
                   ELSE None]]
    /\ inbox = [v \in Nodes |-> [m \in Miners |-> <<>>]]
    /\ deal = [v \in Nodes |-> [m \in Miners |-> Idle]]
    /\ queryCache = [v \in Nodes |-> [m \in Miners |-> None]]
    /\ peerLock = [v \in Nodes |-> [m \in Miners |-> "absent"]]
    /\ listener = [v \in Nodes |-> Free]

\* The handlers of gossip: the first copy of a message is posted to the worker.
Receive(v, msg) ==
    /\ msg \in msgs
    /\ msg \notin seen[v]
    /\ seen' = [seen EXCEPT ![v] = @ \cup {msg}]

-----------------------------------------------------------------------------
(* A miner, as the others see it.                                          *)

\* NewMineRound on the last sealed block.
NewMineRound(m, c) ==
    /\ open[m] = None
    /\ rounds[m] < MaxRounds
    /\ rounds' = [rounds EXCEPT ![m] = @ + 1]
    /\ open' = [open EXCEPT ![m] = Round(Append(sealed[m], c))]
    /\ msgs' = msgs \cup {Proof(m, Append(sealed[m], c))}
    /\ UNCHANGED <<sealed, written, faults, seen, verify>>

Enough(peers) == Cardinality(peers) >= Threshold

\* Mutant: an answer to an earlier round counts for this one.
IsAwaitedAny(m, hash) == open[m] # None

\* unconfirm_mine has an entry for the proof.
IsAwaited(m, hash) == open[m] # None /\ open[m].hash = hash

\* dealConfirm: the answer to an earlier round is dropped.  A confirmed block is
\* sealed unless the block it was mined on is gone.
DealConfirm(m, msg) ==
    /\ msg.kind = "confirm"
    /\ msg.miner = m
    /\ Receive(m, msg)
    /\ IF ~IsAwaited(m, msg.hash)
       THEN UNCHANGED <<sealed, open>>
       ELSE LET r == IF msg.ok
                     THEN [open[m] EXCEPT !.yes = @ \cup {msg.from}]
                     ELSE [open[m] EXCEPT !.no = @ \cup {msg.from}]
            IN /\ open' = [open EXCEPT ![m] = IF Enough(r.yes) \/ Enough(r.no) THEN None ELSE r]
               /\ sealed' = IF Enough(r.yes) /\ ~Enough(r.no) /\ Front(r.hash) = sealed[m]
                            THEN [sealed EXCEPT ![m] = r.hash]
                            ELSE sealed
    /\ UNCHANGED <<written, rounds, faults, msgs, verify>>

\* CheckTimeout.
GiveUp(m) ==
    /\ open[m] # None
    /\ open' = [open EXCEPT ![m] = None]
    /\ UNCHANGED <<sealed, written, rounds, faults, msgs, seen, verify>>

\* WorkPending.Run writes a sealed block, or fails and drops the queue.
Write(m) ==
    /\ written[m] < Len(sealed[m])
    /\ written' = [written EXCEPT ![m] = @ + 1]
    /\ UNCHANGED <<sealed, open, rounds, faults, msgs, seen, verify>>

\* Mutant: a failed write also drops the block below.
WriteFailsBelow(m) ==
    /\ written[m] < Len(sealed[m])
    /\ faults[m] < MaxFaults
    /\ faults' = [faults EXCEPT ![m] = @ + 1]
    /\ sealed' = [sealed EXCEPT ![m] = IF written[m] = 0 THEN <<>> ELSE SubSeq(@, 1, written[m] - 1)]
    /\ UNCHANGED <<written, open, rounds, msgs, seen, verify>>

WriteFails(m) ==
    /\ written[m] < Len(sealed[m])
    /\ faults[m] < MaxFaults
    /\ faults' = [faults EXCEPT ![m] = @ + 1]
    /\ sealed' = [sealed EXCEPT ![m] = SubSeq(@, 1, written[m])]
    /\ UNCHANGED <<written, open, rounds, msgs, seen, verify>>

-----------------------------------------------------------------------------
(* dealProofEvent of node v for miner m.                                   *)

\* The listener puts a proof of another node into the channel of its miner.
HearProof(v, msg) ==
    /\ msg.kind = "proof"
    /\ msg.from # v
    /\ listener[v] = Free
    /\ Receive(v, msg)
    /\ inbox' = [inbox EXCEPT ![v][msg.from] = Append(@, msg.hash)]
    /\ UNCHANGED <<mine, msgs, states, deal, queryCache, peerLock, listener>>

\* The stored state, that of the genesis block for a first block, or a query.
DealProof(v, m) ==
    /\ deal[v][m] = Idle
    /\ inbox[v][m] # <<>>
    /\ inbox' = [inbox EXCEPT ![v][m] = Tail(@)]
    /\ LET h == Head(inbox[v][m])
           st == states[v][m]
       IN deal' = [deal EXCEPT ![v][m] =
                     IF st # None THEN Dealing("verify", h, st)
                     ELSE IF Len(h) = 1 THEN Dealing("verify", h, State(0, <<>>))
                     ELSE Dealing("query", h, None)]
    /\ UNCHANGED <<mine, msgs, seen, states, queryCache, peerLock, listener>>

Answer(v, m, ok) ==
    /\ msgs' = msgs \cup {Confirm(v, m, deal[v][m].hash, ok)}
    /\ deal' = [deal EXCEPT ![v][m] = Idle]

\* VerifyProof: the signature is that of the stored hash mixed with the
\* transactions of the proof.
VerifyProof(h, last) == last = Front(h)

Verified(v, m) ==
    /\ deal[v][m].pc = "verify"
    /\ VerifyProof(deal[v][m].hash, deal[v][m].st.hash)
    /\ states' = [states EXCEPT ![v][m] = State(Len(deal[v][m].hash), deal[v][m].hash)]
    /\ Answer(v, m, TRUE)
    /\ UNCHANGED <<mine, seen, inbox, queryCache, peerLock, listener>>

\* The proof of the next number does not fit: refused.  Any other is tried
\* again on the state of the block below it.
Unverified(v, m) ==
    /\ deal[v][m].pc = "verify"
    /\ ~VerifyProof(deal[v][m].hash, deal[v][m].st.hash)
    /\ IF deal[v][m].st.num + 1 = Len(deal[v][m].hash)
       THEN Answer(v, m, FALSE)
       ELSE deal' = [deal EXCEPT ![v][m].pc = "query"] /\ UNCHANGED msgs
    /\ UNCHANGED <<mine, seen, states, inbox, queryCache, peerLock, listener>>

\* queryRemoteState: the query is posted, then the lock is registered.
PostQuery(v, m) ==
    /\ deal[v][m].pc = "query"
    /\ LET n == Len(deal[v][m].hash) - 1
       IN /\ queryCache' = [queryCache EXCEPT ![v][m] = n]
          /\ msgs' = msgs \cup {Query(v, m, n)}
    /\ deal' = [deal EXCEPT ![v][m].pc = "lock"]
    /\ UNCHANGED <<mine, seen, states, inbox, peerLock, listener>>

TakeLock(v, m) ==
    /\ deal[v][m].pc = "lock"
    /\ peerLock' = [peerLock EXCEPT ![v][m] = IF @ = "absent" THEN "chan" ELSE @]
    /\ deal' = [deal EXCEPT ![v][m].pc = "wait"]
    /\ UNCHANGED <<mine, msgs, seen, states, inbox, queryCache, listener>>

\* The receive from the lock; a nil channel is never ready.
Woken(v, m) ==
    /\ deal[v][m].pc = "wait"
    /\ peerLock[v][m] = "chan"
    /\ listener[v] = [pc |-> "send", peer |-> m]
    /\ listener' = [listener EXCEPT ![v] = Free]
    /\ deal' = [deal EXCEPT ![v][m].pc = "read"]
    /\ UNCHANGED <<mine, msgs, seen, states, inbox, queryCache, peerLock>>

\* GetPeerProof after the query; the listener may have stored another answer.
ReadState(v, m) ==
    /\ deal[v][m].pc = "read"
    /\ deal' = [deal EXCEPT ![v][m] = Dealing("verify", @.hash, states[v][m])]
    /\ UNCHANGED <<mine, msgs, seen, states, inbox, queryCache, peerLock, listener>>

\* Mutant: without a channel to wait on there is no timer either.
QueryTimeoutOfChan(v, m) ==
    /\ deal[v][m].pc = "wait"
    /\ peerLock[v][m] = "chan"
    /\ peerLock' = [peerLock EXCEPT ![v][m] = "nil"]
    /\ Answer(v, m, FALSE)
    /\ UNCHANGED <<mine, seen, states, inbox, queryCache, listener>>

\* The timer: the entry of the lock becomes nil and the proof is refused.
QueryTimeout(v, m) ==
    /\ deal[v][m].pc = "wait"
    /\ peerLock' = [peerLock EXCEPT ![v][m] = "nil"]
    /\ Answer(v, m, FALSE)
    /\ UNCHANGED <<mine, seen, states, inbox, queryCache, listener>>

-----------------------------------------------------------------------------
(* The event listener of node v.                                           *)

\* Mutant: the answer has the hash of the head.
OwnStateOfHead(v, n) == {sealed[v]}

\* The proof hash of block n of the chain of v, if it is written.
OwnState(v, n) == IF n <= written[v] THEN {SubSeq(sealed[v], 1, n)} ELSE {}

\* A miner answers for its written blocks, another node for the state it has.
DealQueryState(v, msg) ==
    /\ msg.kind = "query"
    /\ msg.from # v
    /\ listener[v] = Free
    /\ Receive(v, msg)
    /\ msgs' = msgs \cup
         IF msg.miner = v
         THEN {Response(v, msg.from, msg.num, h) : h \in OwnState(v, msg.num)}
         ELSE LET st == states[v][msg.miner]
              IN IF st # None /\ st.num = msg.num
                 THEN {Response(v, msg.from, st.num, st.hash)}
                 ELSE {}
    /\ UNCHANGED <<mine, verify>>

\* The answer of a node is stored as the state of that node.
DealResponseState(v, msg) ==
    /\ msg.kind = "state"
    /\ msg.from # v
    /\ listener[v] = Free
    /\ Receive(v, msg)
    /\ IF msg.to = v /\ msg.from \in Miners /\ queryCache[v][msg.from] = msg.num
       THEN /\ states' = [states EXCEPT ![v][msg.from] = State(msg.num, msg.hash)]
            /\ listener' = [listener EXCEPT ![v] = [pc |-> "load", peer |-> msg.from]]
       ELSE UNCHANGED <<states, listener>>
    /\ UNCHANGED <<mine, msgs, inbox, deal, queryCache, peerLock>>

\* A send on the lock waits for the receiver, which may have left.
LoadLock(v) ==
    /\ listener[v].pc = "load"
    /\ listener' = [listener EXCEPT ![v] = IF peerLock[v][@.peer] = "chan"
                                           THEN [@ EXCEPT !.pc = "send"]
                                           ELSE Free]
    /\ UNCHANGED <<mine, msgs, seen, states, inbox, deal, queryCache, peerLock>>

-----------------------------------------------------------------------------
Mining(m) ==
    \/ \E c \in Contents : NewMineRound(m, c)
    \/ \E msg \in msgs : DealConfirm(m, msg)
    \/ GiveUp(m)
    \/ Write(m)
    \/ WriteFails(m)

DealProofEvent(v, m) ==
    \/ DealProof(v, m)
    \/ Verified(v, m)
    \/ Unverified(v, m)
    \/ PostQuery(v, m)
    \/ TakeLock(v, m)
    \/ Woken(v, m)
    \/ ReadState(v, m)
    \/ QueryTimeout(v, m)

Listen(v) ==
    \/ \E msg \in msgs : HearProof(v, msg) \/ DealQueryState(v, msg) \/ DealResponseState(v, msg)
    \/ LoadLock(v)

Next ==
    \/ \E m \in Miners : Mining(m)
    \/ \E v \in Nodes, m \in Miners : DealProofEvent(v, m)
    \/ \E v \in Nodes : Listen(v)

\* The goroutines of dealProofEvent go on and their timers expire; no message
\* has to arrive.
Fairness == \A v \in Nodes, m \in Miners : WF_vars(DealProofEvent(v, m))

Spec == Init /\ [][Next]_vars /\ Fairness

-----------------------------------------------------------------------------
\* What a node stores for a miner is a proof that this miner has made, under
\* the number of its block, although late answers to several
\* queries, and the proofs themselves, write the same entry.  This is for one
\* miner: a second miner that answers a query about the first has its answer
\* stored as a state of its own.
StoredIsMade ==
    \A v \in Nodes, m \in Miners :
        states[v][m] # None =>
            /\ states[v][m].num = Len(states[v][m].hash)
            /\ \/ IsPrefix(states[v][m].hash, Chain0[m])
               \/ Proof(m, states[v][m].hash) \in msgs

\* Every block below the tip of a miner has been confirmed by Threshold nodes
\* whatever was refused, timed out, mined again or dropped in between.
SealedIsConfirmed ==
    \A m \in Miners : \A k \in Len(Chain0[m]) + 1..Len(sealed[m]) :
        Enough({v \in Nodes : Confirm(v, m, SubSeq(sealed[m], 1, k), TRUE) \in msgs})

\* A proof that reaches the worker of a node is answered, whether or not its
\* query is.
ProofAnswered ==
    \A v \in Nodes, m \in Miners :
        inbox[v][m] # <<>> ~> inbox[v][m] = <<>> /\ deal[v][m] = Idle

\* A node that waits for the state of a miner can be woken by its answer.
CanResync ==
    \A v \in Nodes, m \in Miners : deal[v][m].pc = "wait" => peerLock[v][m] = "chan"
=============================================================================
