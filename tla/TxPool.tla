------------------------------- MODULE TxPool -------------------------------
(***************************************************************************)
(* The transaction pool of txpool/tx_pool.go.                              *)
(*                                                                         *)
(* A transaction enters through AddTx (called by the RPC layer, by         *)
(* TxsPoolLoop and by dealProofEvent, each in a goroutine of its own),     *)
(* crosses one of the Threads pipelines fullCh -> queue -> verifyCh ->     *)
(* pending, is taken by Pending into the list of a work, and WorkEnded     *)
(* moves that list to onChain or back to pending.                          *)
(*                                                                         *)
(* Every operation that changes a sync.Map, the known set or a channel is  *)
(* one step, and so are the loads of DupTx together and the two calls of   *)
(* KnownTxAdd; the steps of one goroutine interleave with all the others.  *)
(***************************************************************************)
EXTENDS Naturals, Sequences, FiniteSets

CONSTANTS
    Tx,             \* the transactions (identified with their hashes)
    NoTx,           \* "no transaction in hand"
    Threads,        \* the pipelines, maxThreadNumber of them
    Callers,        \* the goroutines that call AddTx
    Works,          \* the work ids, 1..n, in the order they are used
    FullCap,        \* capacity of each fullCh
    VerifyCap,      \* capacity of each verifyCh
    MaxKnown,       \* maxHandleKnownTxs
    MaxTxs,         \* blockMaxTxs, the most one work may take
    PoolBlockCount, \* poolBlockCount
    MaxHeight       \* bound on the height of the chain

ASSUME TxPoolConstants ==
    /\ NoTx \notin Tx
    /\ Works \subseteq Nat \ {0}
    /\ FullCap \in Nat \ {0}
    /\ VerifyCap \in Nat \ {0}
    /\ MaxKnown \in Nat \ {0}
    /\ MaxTxs \in Nat \ {0}
    /\ PoolBlockCount \in Nat
    /\ MaxHeight \in Nat

VARIABLES
    known,      \* handleKnownTx, the global set of hashes seen by AddTx
    queue,      \* pool.queue
    pending,    \* pool.pending
    onChain,    \* pool.onChain: the block number of a transaction, 0 when absent
    working,    \* pool.working: the transactions of a work id, {} when absent
    fullCh,     \* the buffered channels from AddTx to the deal goroutines
    verifyCh,   \* the buffered channels from the deal to the verify goroutines
    caller,     \* the progress of each AddTx call
    dealer,     \* the first goroutine of each DealTxRoutine
    verifier,   \* the second goroutine of each DealTxRoutine
    taker,      \* the Pending call of the current mining round
    ender,      \* the WorkEnded call of each work
    height,     \* number of chain.CurrentBlock()
    closed,     \* the pipelines whose channels Stop has closed
    panicked    \* a goroutine sent on a closed channel: the process is gone

vars == <<known, queue, pending, onChain, working, fullCh, verifyCh, caller,
          dealer, verifier, taker, ender, height, closed, panicked>>

entry == <<known, caller>>
pipes == <<queue, fullCh, verifyCh, dealer, verifier>>
works == <<working, taker, ender>>

Idle == [pc |-> "idle", tx |-> NoTx]

\* A goroutine at one of the given program points, with a transaction in hand.
Holding(pcs) == {Idle} \cup [pc : pcs, tx : Tx]

NoEnder == [pc |-> "idle", ok |-> FALSE, todo |-> {}, num |-> 0]

TypeOK ==
    /\ known \subseteq Tx
    /\ queue \subseteq Tx
    /\ pending \subseteq Tx
    /\ onChain \in [Tx -> Nat]
    /\ working \in [Works -> SUBSET Tx]
    /\ fullCh \in [Threads -> Seq(Tx)]
    /\ verifyCh \in [Threads -> Seq(Tx)]
    /\ caller \in [Callers -> Holding({"add", "send"})]
    /\ dealer \in [Threads -> Holding({"store", "send"})]
    /\ verifier \in [Threads -> Holding({"pend", "unqueue"})]
    /\ taker \in [pc : {"idle", "range"}, id : Nat, todo : SUBSET Tx, txs : SUBSET Tx]
    /\ ender \in [Works -> [pc : {"idle", "loop", "done"}, ok : BOOLEAN,
                            todo : SUBSET Tx, num : Nat]]
    /\ height \in Nat
    /\ closed \subseteq Threads
    /\ panicked \in BOOLEAN

Init ==
    /\ known = {}
    /\ queue = {}
    /\ pending = {}
    /\ onChain = [t \in Tx |-> 0]
    /\ working = [w \in Works |-> {}]
    /\ fullCh = [p \in Threads |-> <<>>]
    /\ verifyCh = [p \in Threads |-> <<>>]
    /\ caller = [c \in Callers |-> Idle]
    /\ dealer = [p \in Threads |-> Idle]
    /\ verifier = [p \in Threads |-> Idle]
    /\ taker = [pc |-> "idle", id |-> 0, todo |-> {}, txs |-> {}]
    /\ ender = [w \in Works |-> NoEnder]
    /\ height = 0
    /\ closed = {}
    /\ panicked = FALSE

-----------------------------------------------------------------------------
(* AddTx: DupTx, then KnownTxAdd, then one pass over the full channels.    *)

\* DupTx finds the transaction in none of known, queue, pending and onChain
\* (working is not consulted).
IsNew(t) ==
    /\ t \notin known
    /\ t \notin queue
    /\ t \notin pending
    /\ onChain[t] = 0

\* A call whose DupTx check fails returns at once and changes nothing.  The four
\* loads are taken as one step, KnownTxAdd is the next.
DupTx(c, t) ==
    /\ caller[c].pc = "idle"
    /\ IsNew(t)
    /\ caller' = [caller EXCEPT ![c] = [pc |-> "add", tx |-> t]]
    /\ UNCHANGED <<known, pipes, pending, onChain, works, height, closed, panicked>>

\* The set is emptied when it is full, then the hash is added.
KnownTxAdd(c) ==
    /\ caller[c].pc = "add"
    /\ known' = (IF Cardinality(known) >= MaxKnown THEN {} ELSE known) \cup {caller[c].tx}
    /\ caller' = [caller EXCEPT ![c].pc = "send"]
    /\ UNCHANGED <<pipes, pending, onChain, works, height, closed, panicked>>

\* The pass starts at a random channel, so any channel that is not full may be
\* the one; a full channel is skipped.
SendToFull(c) ==
    /\ caller[c].pc = "send"
    /\ \E p \in Threads \ closed :
        /\ Len(fullCh[p]) < FullCap
        /\ fullCh' = [fullCh EXCEPT ![p] = Append(@, caller[c].tx)]
    /\ caller' = [caller EXCEPT ![c] = Idle]
    /\ UNCHANGED <<known, queue, verifyCh, dealer, verifier, pending, onChain,
                   works, height, closed, panicked>>

\* All channels are full: AddTx returns an error, the hash stays known.
FullChIsFull(c) ==
    /\ caller[c].pc = "send"
    /\ closed = {}
    /\ \A p \in Threads : Len(fullCh[p]) >= FullCap
    /\ caller' = [caller EXCEPT ![c] = Idle]
    /\ UNCHANGED <<known, pipes, pending, onChain, works, height, closed, panicked>>

\* A send on a channel that Stop has closed panics.
SendToClosed(c) ==
    /\ caller[c].pc = "send"
    /\ closed # {}
    /\ panicked' = TRUE
    /\ UNCHANGED <<entry, pipes, pending, onChain, works, height, closed>>

AddTx(c) ==
    \/ \E t \in Tx : DupTx(c, t)
    \/ KnownTxAdd(c)
    \/ SendToFull(c)
    \/ FullChIsFull(c)
    \/ SendToClosed(c)

-----------------------------------------------------------------------------
(* DealTxRoutine: two goroutines for each pipeline p.                      *)

\* A closed channel still hands out what it holds.
DealRecv(p) ==
    /\ dealer[p].pc = "idle"
    /\ fullCh[p] # <<>>
    /\ dealer' = [dealer EXCEPT ![p] = [pc |-> "store", tx |-> Head(fullCh[p])]]
    /\ fullCh' = [fullCh EXCEPT ![p] = Tail(@)]
    /\ UNCHANGED <<entry, queue, verifyCh, verifier, pending, onChain, works,
                   height, closed, panicked>>

DealStore(p) ==
    /\ dealer[p].pc = "store"
    /\ queue' = queue \cup {dealer[p].tx}
    /\ dealer' = [dealer EXCEPT ![p].pc = "send"]
    /\ UNCHANGED <<entry, fullCh, verifyCh, verifier, pending, onChain, works,
                   height, closed, panicked>>

\* sendToVerify: the error of a full channel is ignored by the caller.
SendToVerify(p) ==
    /\ dealer[p].pc = "send"
    /\ IF p \in closed
       THEN /\ panicked' = TRUE
            /\ UNCHANGED <<verifyCh, dealer>>
       ELSE /\ verifyCh' = IF Len(verifyCh[p]) < VerifyCap
                           THEN [verifyCh EXCEPT ![p] = Append(@, dealer[p].tx)]
                           ELSE verifyCh
            /\ dealer' = [dealer EXCEPT ![p] = Idle]
            /\ UNCHANGED panicked
    /\ UNCHANGED <<entry, queue, fullCh, verifier, pending, onChain, works,
                   height, closed>>

\* Mutant: the verify goroutine goes on to the Delete without the Store.
VerifyRecvNoStore(p) ==
    /\ verifier[p].pc = "idle"
    /\ verifyCh[p] # <<>>
    /\ verifier' = [verifier EXCEPT ![p] = [pc |-> "unqueue", tx |-> Head(verifyCh[p])]]
    /\ verifyCh' = [verifyCh EXCEPT ![p] = Tail(@)]
    /\ UNCHANGED <<entry, queue, fullCh, dealer, pending, onChain, works,
                   height, closed, panicked>>

\* verifyTx accepts every transaction.
VerifyRecv(p) ==
    /\ verifier[p].pc = "idle"
    /\ verifyCh[p] # <<>>
    /\ verifier' = [verifier EXCEPT ![p] = [pc |-> "pend", tx |-> Head(verifyCh[p])]]
    /\ verifyCh' = [verifyCh EXCEPT ![p] = Tail(@)]
    /\ UNCHANGED <<entry, queue, fullCh, dealer, pending, onChain, works,
                   height, closed, panicked>>

VerifyPend(p) ==
    /\ verifier[p].pc = "pend"
    /\ pending' = pending \cup {verifier[p].tx}
    /\ verifier' = [verifier EXCEPT ![p].pc = "unqueue"]
    /\ UNCHANGED <<entry, queue, fullCh, verifyCh, dealer, onChain, works,
                   height, closed, panicked>>

\* Mutant: the Delete from queue is missing.
VerifyUnqueueNot(p) ==
    /\ verifier[p].pc = "unqueue"
    /\ verifier' = [verifier EXCEPT ![p] = Idle]
    /\ UNCHANGED <<entry, queue, fullCh, verifyCh, dealer, pending, onChain, works,
                   height, closed, panicked>>

VerifyUnqueue(p) ==
    /\ verifier[p].pc = "unqueue"
    /\ queue' = queue \ {verifier[p].tx}
    /\ verifier' = [verifier EXCEPT ![p] = Idle]
    /\ UNCHANGED <<entry, fullCh, verifyCh, dealer, pending, onChain, works,
                   height, closed, panicked>>

DealTxRoutine(p) ==
    \/ DealRecv(p)
    \/ DealStore(p)
    \/ SendToVerify(p)
    \/ VerifyRecv(p)
    \/ VerifyPend(p)
    \/ VerifyUnqueue(p)

-----------------------------------------------------------------------------
(* Pending: a Range over pool.pending that deletes what it collects.  The  *)
(* Range visits every entry that stays in the map, at most once, and may   *)
(* or may not visit an entry stored while it runs.                         *)

PendingBegin ==
    /\ taker.pc = "idle"
    /\ taker.id + 1 \in Works
    /\ taker' = [pc |-> "range", id |-> taker.id + 1, todo |-> pending, txs |-> {}]
    /\ UNCHANGED <<entry, pipes, pending, onChain, working, ender, height, closed, panicked>>

\* Mutant: Pending collects without deleting.
PendingTakeKeeps(t) ==
    /\ taker.pc = "range"
    /\ t \in pending
    /\ t \notin taker.txs
    /\ Cardinality(taker.txs) < MaxTxs
    /\ taker' = [taker EXCEPT !.todo = @ \ {t}, !.txs = @ \cup {t}]
    /\ UNCHANGED <<entry, pipes, pending, onChain, working, ender, height, closed, panicked>>

PendingTake(t) ==
    /\ taker.pc = "range"
    /\ t \in pending
    /\ t \notin taker.txs
    /\ Cardinality(taker.txs) < MaxTxs
    /\ pending' = pending \ {t}
    /\ taker' = [taker EXCEPT !.todo = @ \ {t}, !.txs = @ \cup {t}]
    /\ UNCHANGED <<entry, pipes, onChain, working, ender, height, closed, panicked>>

\* working is stored only when something was taken ({} stands for absent).
PendingEnd ==
    /\ taker.pc = "range"
    /\ \/ Cardinality(taker.txs) >= MaxTxs
       \/ taker.todo \cap pending = {}
    /\ working' = [working EXCEPT ![taker.id] = taker.txs]
    /\ taker' = [taker EXCEPT !.pc = "idle", !.todo = {}, !.txs = {}]
    /\ UNCHANGED <<entry, pipes, pending, onChain, ender, height, closed, panicked>>

Pending ==
    \/ PendingBegin
    \/ \E t \in Tx : PendingTake(t)
    \/ PendingEnd

-----------------------------------------------------------------------------
(* WorkEnded(id, number, succeed): the worker calls it for a work after    *)
(* WriteBlockAndState has returned no error, or when the round failed.  A  *)
(* call for a work that has ended finds nothing.  Two calls for one work   *)
(* at the same time are left out: only a work that is handed over twice    *)
(* (Mining with Overlap) makes them.                                       *)

\* The number of the block: it is the new head, or it was written beside the
\* chain, which is reported without an error too.
WrittenAt(num) ==
    \/ /\ height < MaxHeight
       /\ num = height + 1
       /\ height' = height + 1
    \/ /\ num \in 1..(height + PoolBlockCount)
       /\ UNCHANGED height

\* Mutant: the number of the wrong neighbour of the block.
WorkEndedLoadBelow(w, ok) ==
    /\ ender[w].pc = "idle"
    /\ working[w] # {}
    /\ \E num \in 0..(MaxHeight + PoolBlockCount) :
        /\ IF ok THEN WrittenAt(num) ELSE num = 0 /\ UNCHANGED height
        /\ ender' = [ender EXCEPT ![w] = [pc |-> "loop", ok |-> ok, todo |-> working[w],
                                          num |-> IF ok THEN num - 2 ELSE 0]]
    /\ UNCHANGED <<entry, pipes, pending, onChain, working, taker, closed, panicked>>

WorkEndedLoad(w, ok) ==
    /\ ender[w].pc = "idle"
    /\ working[w] # {}
    /\ \E num \in 0..(MaxHeight + PoolBlockCount) :
        /\ IF ok THEN WrittenAt(num) ELSE num = 0 /\ UNCHANGED height
        /\ ender' = [ender EXCEPT ![w] = [pc |-> "loop", ok |-> ok, todo |-> working[w], num |-> num]]
    /\ UNCHANGED <<entry, pipes, pending, onChain, working, taker, closed, panicked>>

\* Mutant: a failed work does not give its transactions back.
WorkEndedStoreNot(w, t) ==
    /\ ender[w].pc = "loop"
    /\ t \in ender[w].todo
    /\ onChain' = IF ender[w].ok THEN [onChain EXCEPT ![t] = ender[w].num] ELSE onChain
    /\ ender' = [ender EXCEPT ![w].todo = @ \ {t}]
    /\ UNCHANGED <<entry, pipes, pending, working, taker, height, closed, panicked>>

WorkEndedStore(w, t) ==
    /\ ender[w].pc = "loop"
    /\ t \in ender[w].todo
    /\ IF ender[w].ok
       THEN /\ onChain' = [onChain EXCEPT ![t] = ender[w].num]
            /\ UNCHANGED pending
       ELSE /\ pending' = pending \cup {t}
            /\ UNCHANGED onChain
    /\ ender' = [ender EXCEPT ![w].todo = @ \ {t}]
    /\ UNCHANGED <<entry, pipes, working, taker, height, closed, panicked>>

WorkEndedDelete(w) ==
    /\ ender[w].pc = "loop"
    /\ ender[w].todo = {}
    /\ working' = [working EXCEPT ![w] = {}]
    /\ ender' = [ender EXCEPT ![w].pc = "done"]
    /\ UNCHANGED <<entry, pipes, pending, onChain, taker, height, closed, panicked>>

WorkEnded(w) ==
    \/ \E ok \in BOOLEAN : WorkEndedLoad(w, ok)
    \/ \E t \in Tx : WorkEndedStore(w, t)
    \/ WorkEndedDelete(w)

-----------------------------------------------------------------------------
(* FitOnChain, a goroutine started by every tick of the eviction ticker in *)
(* loop; nothing lowers the height of the chain while the node runs.       *)

Evictable(t) ==
    /\ onChain[t] # 0
    /\ onChain[t] > height + PoolBlockCount

FitOnChain ==
    /\ \E t \in Tx : onChain[t] # 0
    /\ onChain' = [t \in Tx |-> IF Evictable(t) THEN 0 ELSE onChain[t]]
    /\ UNCHANGED <<entry, pipes, pending, works, height, closed, panicked>>

\* The stop case of loop closes the two channels of each pipeline in turn; the
\* goroutines that are still at work are not waited for first.
Stop(p) ==
    /\ p \notin closed
    /\ closed' = closed \cup {p}
    /\ UNCHANGED <<entry, pipes, pending, onChain, works, height, panicked>>

Next ==
    /\ ~panicked
    /\ \/ \E c \in Callers : AddTx(c)
       \/ \E p \in Threads : DealTxRoutine(p)
       \/ Pending
       \/ \E w \in Works : WorkEnded(w)
       \/ FitOnChain
       \/ \E p \in Threads : Stop(p)

\* The goroutines of DealTxRoutine run whenever their channel is not empty; the
\* eviction ticker ticks until Stop.
Fairness ==
    /\ \A p \in Threads : WF_vars(~panicked /\ DealTxRoutine(p))
    /\ WF_vars(~panicked /\ closed = {} /\ FitOnChain)

Spec == Init /\ [][Next]_vars /\ Fairness

-----------------------------------------------------------------------------
(* Where a transaction can be once AddTx has accepted it.                  *)

Elems(s) == {s[i] : i \in 1..Len(s)}

\* In one of the two channels of pipeline p or between them.
InPipe(p) ==
    Elems(fullCh[p]) \cup Elems(verifyCh[p])
      \cup (IF dealer[p].pc = "idle" THEN {} ELSE {dealer[p].tx})
      \cup (IF verifier[p].pc = "pend" THEN {verifier[p].tx} ELSE {})

\* In the hands of a work: WorkEnded has not yet put it elsewhere.
HeldBy(w) == IF ender[w].pc = "loop" THEN ender[w].todo ELSE working[w]

Piped == {t \in Tx : \E p \in Threads : t \in InPipe(p)}

Held == {t \in Tx : \E w \in Works : t \in HeldBy(w)}

Chained == {t \in Tx : onChain[t] # 0}

\* In queue, and not because VerifyUnqueue is still to come.
Queued == {t \in queue : \A p \in Threads : verifier[p].pc = "unqueue" => verifier[p].tx # t}

\* Past the pipelines.
Landed == pending \cup taker.txs \cup Held \cup Chained

Accepted == Piped \cup Queued \cup Landed

\* Once a transaction is accepted no step of the pool loses it, whatever the
\* number of callers and however full the channels: it stays in a pipeline, in
\* queue, in pending, in a work or in onChain until FitOnChain may drop it.
NeverLost == [][Accepted \ {t \in Tx : Evictable(t)} \subseteq Accepted']_vars

\* queue is cleared only of transactions that have landed, and a transaction
\* whose send to a full verifyCh may be dropped has another place.
PipesHandOver ==
    \A p \in Threads :
        /\ dealer[p].pc = "send" => dealer[p].tx \in Queued \cup Landed
        /\ verifier[p].pc = "unqueue" => verifier[p].tx \in Landed

\* A work id is stored by Pending before WorkEnded loads it and never again, and
\* no block number is so far above the head that FitOnChain drops it.
WorksHandOver ==
    /\ \A t \in Tx : onChain[t] <= height + PoolBlockCount
    /\ \A w \in Works :
        /\ ender[w].pc = "loop" /\ ender[w].ok => ender[w].num \in 1..(height + PoolBlockCount)
        /\ ender[w].pc = "loop" => ender[w].todo \subseteq working[w]
        /\ ender[w].pc = "done" => working[w] = {}
        /\ w > taker.id \/ (w = taker.id /\ taker.pc = "range")
             => ender[w].pc = "idle" /\ working[w] = {}
    /\ IF taker.pc = "range" THEN taker.id \in Works ELSE taker.txs = {}

\* What the goroutines of the pool hand to each other is never dropped between
\* them, with any number of callers and with every channel full.
HandOver == PipesHandOver /\ WorksHandOver

\* Every copy of a transaction is in one place: no two positions of the
\* pipelines, of pending, of the works and of onChain hold the same one, so no
\* transaction can be put into two blocks.
UniquePlace ==
    /\ \A p, q \in Threads : p # q => InPipe(p) \cap InPipe(q) = {}
    /\ \A p \in Threads :
        /\ InPipe(p) \cap (pending \cup taker.txs \cup Chained) = {}
        /\ \A w \in Works : InPipe(p) \cap HeldBy(w) = {}
        /\ Cardinality(Elems(fullCh[p])) = Len(fullCh[p])
        /\ Cardinality(Elems(verifyCh[p])) = Len(verifyCh[p])
        /\ Elems(fullCh[p]) \cap Elems(verifyCh[p]) = {}
        /\ dealer[p].tx \notin Elems(fullCh[p]) \cup Elems(verifyCh[p])
        /\ verifier[p].pc = "pend" =>
            /\ verifier[p].tx \notin Elems(fullCh[p]) \cup Elems(verifyCh[p])
            /\ verifier[p].tx # dealer[p].tx
    /\ pending \cap (taker.txs \cup Chained) = {}
    /\ taker.txs \cap Chained = {}
    /\ \A w \in Works :
        /\ HeldBy(w) \cap (pending \cup taker.txs \cup Chained) = {}
        /\ \A v \in Works : v # w => HeldBy(v) \cap HeldBy(w) = {}

\* In queue with nobody to take it out again.
Stranded == Queued \ Piped

\* The one way to strand a transaction in queue is the send to a full verifyCh
\* whose error DealTxRoutine ignores: no other step of the pipelines, in any
\* order, leaves an entry in queue without a pipeline that will make it pending.
OnlyFullStrands ==
    [][\A t \in Stranded' \ Stranded :
         \E p \in Threads : dealer[p] = [pc |-> "send", tx |-> t] /\ Len(verifyCh[p]) >= VerifyCap]_vars

\* The stage of a transaction, read off the place that holds it.
StageOf(t) ==
    CASE t \in Piped -> "entering"
      [] t \in pending -> "pending"
      [] t \in taker.txs \cup Held -> "mining"
      [] t \in Chained -> "chained"
      [] OTHER -> "none"

Life == INSTANCE TxLife WITH life <- [t \in Tx |-> StageOf(t)], open <- (closed = {})

\* The pool implements TxLife: with one goroutine calling AddTx, every step of
\* its many goroutines moves at most one transaction along one edge of TxLife,
\* and a transaction that enters becomes pending.
ImplementsLife == Life!LifeSpec

\* onChain pools the transactions of the last PoolBlockCount blocks: FitOnChain
\* removes an older one as long as its ticker runs.
OldEvicted ==
    \A t \in Tx :
        (onChain[t] # 0 /\ onChain[t] + PoolBlockCount < height)
            ~> (onChain[t] = 0 \/ closed # {})
=============================================================================
