# A TLA+ verification of the sphinx node

Sphinx is a blockchain node written in Go (a descendant of go-ethereum).  Every
miner builds a chain of its own: it packs transactions into a block, sends a
*proof* of the block to the other miners, and writes the block once enough of
them have confirmed the proof.  This directory models the parts of the node
where goroutines, channels and shared maps meet, checks the models with TLC on
small instances and proves the central properties of the transaction pool and of
the mining sessions with TLAPS for every instance.

`PROJECT.json` lists the components, the runs, the mutants, the lines of source
behind each definition, the findings, the hazards and the theorems.

## The system and its parts

| part | source | state | operations | module |
|---|---|---|---|---|
| transaction pool | `txpool/tx_pool.go` | known set, maps queue, pending, onChain, working; a fullCh and a verifyCh per pipeline | AddTx, DealTxRoutine, Pending, WorkEnded, FitOnChain, Stop | `TxPool`, `TxLife` |
| mining round | `worker/worker_mine.go`, `unconfirmed.go`, `work_pending.go` | roundState, unconfirmed proofs, confirmCh, queue of sealed blocks with its error flag | ticker, NewMineRound, Confirm, CheckTimeout, FinalMine, WorkPending.Run | `Mining` |
| start and stop | `worker/miner.go`, `worker.go`, `node/api.go` | Miner.mining, worker.mining, worker.mu, the channels in the worker's fields | miner_start, miner_stop, RoutineMine and its exit case, tickers, rounds | `Session` |
| proof verification | `worker/worker_verify.go`, `consensus/prometheus` | the proof state kept for each peer, peerLockMap | dealProofEvent, queryRemoteState, dealQueryState, dealResponseState | `ProofExchange` |
| gossip | `synctrl/handlemessage.go`, `routdata.go` | LRU caches of message hashes | the Handle...Msg handlers, rout... functions | `ProofExchange` (delivery); routing counters planned |
| transaction relay | `synctrl/syntx.go`, `handlemessage.go` | the queue of TxsPoolLoop, pending sets of txsyncLoop | HandleTxMsg, TxsPoolLoop, txsyncLoop | planned |
| block chain | `blockchain/blockchain.go`, `headerchain.go` | head pointers, canonical numbers, total difficulties, bodies | WriteBlockAndState, insertChain, SetHead, loadLastState, Rollback | in `Mining` as the miner uses it; the rest planned |
| chain indexer, bloom bits | `blockchain/chain_indexer.go`, `bloombits/` | sections, request queues | updateLoop, newHead, scheduler, matcher | planned |
| state journal, trie, RLP, Merkle tree | `blockchain/state`, `common/` | snapshots, nodes | snapshot, revert, insert, delete, encode | planned as algorithms |
| events | `event/sub` | subscriber lists, cases of a Feed | Subscribe, Unsubscribe, Send, Post, Stop | planned |
| peers, dialing, discovery | `network/p2p` | peer sets, dial history, buckets | run loops, dial tasks, reply matching | planned |
| RPC and filters | `network/rpc`, `node/filters` | pending requests, installed filters | call, dispatch, subscribe, uninstall | planned |
| accounts | `account/` | account cache, unlocked keys | unlock, expire, reload | planned |
| cryptography, transport framing, console, command line | `common/crypto`, `network/p2p/rlpx.go`, `common/console`, `cmd/` | | | out of scope: arithmetic or I/O |

How the modelled parts interact.  The RPC layer, TxsPoolLoop and the verifier of
foreign proofs call AddTx.  The ticker of a session starts a round; the round
calls TxPool.Pending under a fresh work id, posts the proof and inserts it among
the unconfirmed proofs.  Confirmations of peers arrive on the event mux and are
counted by Confirm; CheckTimeout gives up on old proofs.  Both hand the Work over
on confirmCh; FinalMine queues a confirmed one in WorkPending, and
WorkPending.Run writes its block and calls TxPool.WorkEnded, which FinalMine
calls itself for a work that failed.  On the other nodes eventListener passes the
proof to the dealProofEvent goroutine of its miner, which verifies it on the proof
state stored for that miner, asks for that state when it has none that fits, and
posts a confirmation or a refusal.

### What is hard about it

* Maps are `sync.Map`s and every operation is atomic on its own only: AddTx,
  Pending and WorkEnded interleave entry by entry.
* Sends to full channels are dropped silently or reported after the fact.
* Two goroutines, Confirm and CheckTimeout, finish the same entry; two
  goroutines set roundState at the end of a round.
* A round is mined on a sealed block that is not yet written, and whose write
  may fail.
* The answer to a state query races the timeout of the query, the registration
  of the lock it is to wake, and the proofs that arrive meanwhile.
* Channels are closed while others send on them, and a session's exit uses
  fields which a new session has already replaced.

The list with lines is under "hazards" in `PROJECT.json`.

## The modules

**`TxPool`** models `tx_pool.go`.  A transaction is identified with its hash.
Each store, delete and channel operation is one action, named after the function
it belongs to: `DupTx`, `KnownTxAdd` and `SendToFull`, for instance, are the three
parts of AddTx.  The loads of DupTx (pending, queue, onChain, known) are one step,
and so are the size test, the Clear and the Add of KnownTxAdd; what another
goroutine does between them it can also do before or after.  `caller`, `dealer`, `verifier`, `taker`
and `ender` are the program counters, with local variables, of AddTx, of the two
goroutines of a DealTxRoutine, of Pending and of WorkEnded.  `working[w] = {}`
and `onChain[t] = 0` stand for an absent key.  A Range over a `sync.Map` visits
each entry that stays once and may miss entries stored meanwhile; that is the
nondeterminism of `PendingTake` and `PendingEnd`.  `WrittenAt` is the number WorkEnded
gets: that of the new head, or of a block that was written without becoming the head
(`blockchain.go:828`).  A work ends once in `TxPool`; the second WorkEnded of a work
that was handed over twice is in `Mining`.

**`TxLife`** is the abstract specification of the pool: a transaction goes none,
entering, pending, mining, then chained or pending again, one edge at a time.
`TxPool!ImplementsLife` is the refinement, with the stage read off the place that
holds the transaction.

**`Mining`** models one session from a node's point of view.  Round r, its Work
and its block are all called r; block 0 is the head at the start.  A proof is the
sequence of transaction sets from block 0 on, because the signed hash mixes the
parent's proof hash with the transaction root: two rounds with the same parent
proof and the same transactions have the same signature.  Peers are the
environment: any peer may answer any proof that was posted, for and against,
each answer being delivered at most once (gossip drops copies).  A refusal that
is counted, `SignFails`, the failing branch of `Gen` and `WriteFails` are the
faults, at most `MaxFaults` together.  An entry of the unconfirmed proofs is
deleted by its signature, by ConfirmCount and by CheckTimeout: `Without(proof)`
takes out whatever entry is there, a retry's too.  With `Overlap` the send of
CheckTimeout and its Delete (`TimeoutDelete`) are two steps.  RoutineMine receives
a work (`Receive`) only when it is not inside a Confirm; FinalMine is a goroutine
of its own.  The worker has one `current` Work, which a second NewMineRound
would replace; with `Overlap` there are at most two rounds, and the first has left
NewMineRound when the second one starts.
The pool is reduced to `pool`, `working` and `onChain`; the fine steps of its
operations are the subject of `TxPool`.

**`Session`** models consecutive and overlapping miner_start and miner_stop calls.
A session is named by the call that started it.  `cur` says whose channels the
fields of the worker hold; `closed` which channels are closed.  A round records
the channels it captured, which goroutines still send its work, how many FinalMine
have it and whether its genCh has been emptied.  Confirm and CheckTimeout can both
hand the work over; the second FinalMine of a confirmed work then waits on genCh
for ever (`Blocked`).  The stores of MakeChannels and the two closes of
CloseChannels are one step each.  `panicked` is the end of the process.

**`ProofExchange`** models several nodes.  A proof hash is the sequence of contents
of the blocks up to it, as in `Mining`.  `msgs` holds every message sent; `Receive`
is the guarantee of the gossip handlers, that a worker gets a message at most once,
in any order, or never.  `deal[v][m]` is the dealProofEvent goroutine of node v for
miner m, with the proof it deals with and the state it has read; `peerLock` is
peerLockMap, whose entries are absent, a channel or nil; `listener[v]` is the one
event listener of the node, which blocks in dealResponseState when it sends on a
lock.  A miner is reduced to the chain it has sealed (`sealed`), how much of it is
written, and its open round.  Left out: AddTxs and the confirmation counts of
transactions at the end of dealProofEvent, signers that are locked, a verifyCh with
1000 waiting proofs, and the copies of its own messages that a node gets back, which
it ignores.  worker.mu, which queryRemoteState takes (`worker_verify.go:68`, `:85`), is
left out: nobody stops the worker in this module.

`MCTxPool`, `MCMining`, `MCSession` and `MCProofExchange` give the constants their values.
Definitions marked "Mutant" are faulty variants of the definition that follows
them; no specification uses them.  `PROJECT.json` pairs each checked property with
one that breaks it.

## The runs

| run | what is varied | result |
|---|---|---|
| `TxPool_single` | one caller, two pipelines, verifyCh never full | TypeOK, UniquePlace, NeverLost, ImplementsLife hold |
| `TxPool_crowded` | two callers, capacities 1, known set of 1 | HandOver, NeverLost, OnlyFullStrands hold |
| `TxPool_fit` | chain higher than PoolBlockCount | OldEvicted violated |
| `Mining_deep` | 1 peer, 3 rounds, 2 transactions, 1 fault, no Confirm/CheckTimeout overlap | OnChainIsCanonical, NoTxTwice, ReturnedNotChained, TxAccounted hold |
| `Mining_race` | 2 peers, threshold 2, 2 rounds, 1 fault, with overlap | TypeOK, ConfirmedOnly, TxAccounted hold |
| `Mining_live` | 1 peer that confirms or is silent, 2 rounds, no fault, with overlap | WorkEnds holds |
| `Mining_stuck` | 1 peer, 2 rounds, no overlap | RoundEnds violated |
| `Mining_overlapchain` | with overlap | OnChainIsCanonical violated |
| `Session_overlap` | 3 calls, 1 round | TypeOK, OneSession, MutexHeld, StopReturns hold |
| `Session_crash` | 3 calls, 2 rounds | StopIsSafe violated |
| `ProofExchange_pair` | a miner and a verifier, 4 rounds, 2 contents, 1 failed write | TypeOK, StoredIsMade, SealedIsConfirmed, ProofAnswered hold |
| `ProofExchange_resync` | as pair, 3 rounds, no failure | CanResync violated |

The bounds.  A duplicate in the pool needs two callers of one transaction; a
full channel needs capacity 1 and a second transaction; two pipelines let two
copies overtake each other.  In Mining a second round is what it takes to mine
on an unwritten block or to retry a proof, a third to mine on a block whose
parent failed; one fault leads into error mode and out of it again; with two
peers and threshold 2 one confirmation is not enough.  In
Session three calls are Start, Stop, Start in every interleaving, and the work of
one round can be handed over twice; the crash needs a second round.  In ProofExchange
four rounds are a first block, a block the verifier misses, a block that needs a
query, and one that is mined again after a failed write.

`StoredIsMade` is checked with one miner.  With two it is not a property of the
code: a miner that has verified the other may answer a query about it, and
dealResponseState (`worker_verify.go:276`) stores the answer under the address of
the node that sent it.  The listener of a node is not claimed to go on for ever:
once it has loaded a lock whose waiter times out it stays in its send
(`worker_verify.go:289`), and `ProofAnswered` speaks of the proofs it has passed on
before.

`UniquePlace` and the refinement are checked with one caller, a
known set that does not fill and a verifyCh with room for both transactions.  They
are not properties of the pool beyond that: two callers can both pass DupTx
(`tx_pool.go:323`), a cleared known set lets a transaction that is being mined in
again, and a full verifyCh strands one in queue.  What survives all of this is
`NeverLost`, and `OnlyFullStrands`: the ignored error of `tx_pool.go:285` is the only
way into queue without a way out.

`Overlap = FALSE` in `Mining_deep` and `Mining_stuck` assumes that CheckTimeout does not run
between the Load and the Delete of a Confirm of the same proof.  The code does not
exclude it; the window is small, and `Mining_overlapchain` shows what happens in it.
`Mining_race` and `Mining_live` show what holds without the assumption.

`TxAccounted` and `WorkEnds` except, under overlap, a round that has the signature
of an earlier one (`Retried`).  Between the send and the Delete of the earlier
round's CheckTimeout the dropped transactions can be packed again on the same parent;
Insert (`unconfirmed.go:54`) then finds the old entry and stores nothing, or stores
an entry which the Delete takes out.  Such a work is never handed over, and its
transactions stay in working.  `StopReturns` excepts a round that is `Blocked`: Stop
then waits for its FinalMine with the mutex of the worker held.  Neither exception
is met when CheckTimeout does not run inside a Confirm or a retry.

### Fairness

Pool: a DealTxRoutine goroutine whose channel is not empty runs (Go schedules
runnable goroutines), and the eviction ticker ticks until Stop.  Mining: the
ticker, the timer of Run, Confirm, the goroutines of a round and CheckTimeout go
on; nothing is assumed of the peers, of the signer or of the database.  Session:
goroutines go on, and calls are strongly fair because a Go mutex that is released
again and again is eventually given to a waiter; nobody has to make a call.
ProofExchange: the dealProofEvent goroutines go on and the timer of a query
expires; no message has to arrive, no miner has to mine and no listener to run.

### What disagrees with the code's own words

Five runs end in a violation; "findings" quotes the comment each contradicts.
In short: FitOnChain compares the wrong way; a round's goroutine can overwrite IDLE
with Mining, after which no round starts; a timeout during a Confirm hands a work
over twice, and then onChain can hold a transaction that is not in the chain; Stop,
or Stop followed at once by Start, can end the process by a send on a closed channel
or by a nil Work; and after one timed-out state query no later query of that miner
can be woken by its answer.

## The proofs

`TxPoolProofs` proves four theorems about `TxPool`, from `TxPoolConstants` alone,
and `SessionProofs` two about `Session`, from `SessionConstants`.

* `TypeCorrect`: `Spec => []TypeOK`, one lemma per group of actions.
* `HandOverHolds`: `Spec => []HandOver`.  `HandOver` with `TypeOK` is the inductive
  invariant.  `PipesHandOver` says that what a dealer is about to send is already
  in queue or further on, and that what a verifier is about to unqueue has
  landed; `WorksHandOver` says that a work id is fresh until Pending stores it,
  that WorkEnded works through a part of the stored list, and that no block
  number exceeds the height by more than PoolBlockCount.  It is needed because `NeverLost` alone is not
  inductive: dropping a send to a full verifyCh loses nothing only because the
  transaction is in queue already.
* `NothingLost`: `Spec => NeverLost`.  `LandedGrows` shows that what is past the
  pipelines stays there (using `NoneEvictable`, that FitOnChain finds nothing to
  remove), `AcceptedGrows` does the same for a transaction anywhere.
* `StrandedOnlyByFull`: `Spec => OnlyFullStrands`, from `TypeCorrect`: every other step
  of a pipeline leaves the transaction in it or takes it out of queue.

* `SessionProofs!TypeCorrect`: `Spec => []TypeOK` for any number of calls and rounds.
* `OneSessionHolds`: `Spec => [](OneSession /\ MutexHeld)`.  `OneSession` is not
  inductive: that a Start finds no session when worker.mining is FALSE needs that
  only the Stop whose signal ended the session clears the flag, and that no other
  Stop is between its Lock and its Unlock.  `MutexHeld` says so.  A step either
  leaves calls, mutex, flag and serving sessions alone (`SameIInv`) or is one of
  the steps of Start and Stop (`CallIInv`).

Only model-checked: the liveness properties (fairness is beyond the prover), the
refinement of `TxLife`, `UniquePlace`, and everything about Mining and
ProofExchange.

## Plan

1. `Gossip`: each handler's cache and counter (delivered once, routed a bounded
   number of times), shown to implement the delivery that `ProofExchange` assumes;
   the confirmation counts of transactions (txConfirmPool, updateTxConfirm).
2. `TxRelay`: HandleTxMsg, TxsPoolLoop, txsyncLoop, as the callers of AddTx.
3. `Chain`: WriteBlockAndState, insertChain, SetHead and loadLastState as
   sequences of database writes with a crash between any two; after a restart
   the head has its body, state and canonical ancestors.
4. `Feed`, `TypeMux`; `PeerRun`, `Server`, `Dial`; `Discover`; `RpcClient`,
   `Filters`; `ChainIndexer`, `Bloombits`; `Journal`; `KeyStore`; then tries, RLP
   and the Merkle tree as operators against reference definitions.
5. Theorems: the refinement of `TxLife` and `UniquePlace` for one caller;
   `ConfirmedOnly` and `NoTxTwice` of Mining; `StoredIsMade` and `SealedIsConfirmed`
   of ProofExchange; the safety invariants of the modules of 1 to 4.

Runs for these take two or three nodes, two proofs and one lost or late message;
for `Chain` three blocks, a fork of one and one crash.
