------------------------------- MODULE Mining -------------------------------
(***************************************************************************)
(* One mining session of a node: RoutineMine and its goroutines            *)
(* (worker/worker_mine.go), the unconfirmed proofs (unconfirmed.go), the   *)
(* queue of sealed blocks (work_pending.go), the chain write               *)
(* (BlockChain.WriteBlockAndState) and the pool calls Pending and          *)
(* WorkEnded that a round makes.                                           *)
(*                                                                         *)
(* A round is identified with the header posted for it, with its Work and  *)
(* with the block sealed from it: number r of Rounds.  Block 0 is the head *)
(* the session starts from.                                                *)
(***************************************************************************)
EXTENDS Naturals, Sequences, FiniteSets, SequencesExt

CONSTANTS
    Tx,         \* the transactions pending when the session starts
    Peers,      \* the miners that may confirm a proof
    Threshold,  \* MinerNumber/2+1-1, the confirmations a proof needs
    MaxTxs,     \* blockMaxTxs
    MaxRounds,  \* bound on the rounds of the session
    MaxFaults,  \* bound on the failures of the database and of the signer, and on
                \* the confirmations that refuse a proof
    Overlap     \* whether the steps of CheckTimeout may interleave with a Confirm
                \* of the same proof, and with the round that its send sets free

ASSUME MiningConstants ==
    /\ Threshold \in Nat \ {0}
    /\ MaxTxs \in Nat \ {0}
    /\ MaxRounds \in Nat
    /\ MaxFaults \in Nat
    /\ Overlap \in BOOLEAN
    /\ Overlap => MaxRounds <= 2  \* more overlapping rounds would share worker.current

Rounds == 1..MaxRounds
Blocks == 0..MaxRounds

VARIABLES
    roundState, \* worker.roundState
    ticker,     \* the goroutine that posts and starts rounds
    round,      \* the NewMineRound goroutine of each round, with its Work
    gen,        \* work.genCh and the goroutine that fills it
    unconf,     \* unconfirm_mine.proofs: the peers for and against each work
    confirming, \* the Confirm call of RoutineMine, between its Load and its Delete
    heard,      \* the confirmations delivered so far
    confirmed,  \* work.confirmed
    timing,     \* the round CheckTimeout has sent and not deleted yet, or 0
    sends,      \* the goroutines that send each work on confirmCh
    recvd,      \* the goroutines in FinalMine, for each work
    finals,     \* the goroutines past FinalMine that will set IDLE, for each work
    enders,     \* the goroutines of `go work.WorkEnded(false)`
    errored,    \* WorkPending.errored
    Pending,    \* WorkPending.Pending
    run,        \* the goroutine WorkPending.Run
    chain,      \* the canonical chain above block 0
    td,         \* the blocks whose total difficulty is in the database
    pool,       \* TxPool.pending
    working,    \* TxPool.working
    onChain,    \* TxPool.onChain: the block number of a transaction, 0 when absent
    faults      \* the failures and the refusals so far

sealing == <<errored, Pending, run, chain, td>>
confirms == <<unconf, confirming, heard, confirmed, timing, sends, recvd>>
txs == <<pool, working, onChain>>

vars == <<roundState, ticker, round, gen, confirms, finals, enders, sealing, txs, faults>>

Votes == [yes : SUBSET Peers, no : SUBSET Peers]
NoRound == [pc |-> "none", parent |-> 0, num |-> 0, txs |-> {}, proof |-> <<>>]
NoConfirm == [r |-> 0]
RunIdle == [pc |-> "idle", w |-> 0]

TypeOK ==
    /\ roundState \in {"IDLE", "PostMining", "Mining"}
    /\ ticker \in {"select", "head"}
    /\ \A r \in Rounds :
        /\ round[r].pc \in {"none", "post", "begin", "proof", "posted", "inserted", "failed", "done"}
        /\ round[r].parent \in 0..(r - 1) \cup {0}
        /\ round[r].txs \subseteq Tx
    /\ gen \in [Rounds -> {"none", "run", "ok", "err", "taken"}]
    /\ DOMAIN unconf \subseteq Rounds
    /\ \A r \in DOMAIN unconf : unconf[r] \in Votes
    /\ confirmed \subseteq Rounds
    /\ timing \in Blocks
    /\ sends \in [Rounds -> 0..2]
    /\ recvd \in [Rounds -> 0..2]
    /\ finals \in [Rounds -> 0..2]
    /\ enders \subseteq Rounds
    /\ errored \in BOOLEAN
    /\ Pending \in Seq(Rounds)
    /\ run \in [pc : {"idle", "flush", "drop", "kept", "failed"}, w : Blocks]
    /\ chain \in Seq(Rounds)
    /\ td \subseteq Blocks
    /\ pool \subseteq Tx
    /\ working \in [Rounds -> SUBSET Tx]
    /\ onChain \in [Tx -> Nat]
    /\ faults \in 0..MaxFaults

Init ==
    /\ roundState = "IDLE"
    /\ ticker = "select"
    /\ round = [r \in Rounds |-> NoRound]
    /\ gen = [r \in Rounds |-> "none"]
    /\ unconf = <<>>
    /\ confirming = NoConfirm
    /\ heard = {}
    /\ confirmed = {}
    /\ timing = 0
    /\ sends = [r \in Rounds |-> 0]
    /\ recvd = [r \in Rounds |-> 0]
    /\ finals = [r \in Rounds |-> 0]
    /\ enders = {}
    /\ errored = FALSE
    /\ Pending = <<>>
    /\ run = RunIdle
    /\ chain = <<>>
    /\ td = {0}
    /\ pool = Tx
    /\ working = [r \in Rounds |-> {}]
    /\ onChain = [t \in Tx |-> 0]
    /\ faults = 0

-----------------------------------------------------------------------------
(* The chain and the pool, as the worker uses them.                        *)

ChainHead == IF chain = <<>> THEN 0 ELSE Last(chain)
Number(b) == IF b = 0 THEN 0 ELSE round[b].num
ProofOf(b) == IF b = 0 THEN <<>> ELSE round[b].proof

\* Mutants: the transactions of a failed work are forgotten; those of a written
\* block are given back; those of a failed work are taken for chained.
WorkEndedForgets(w, succeed) ==
    /\ pool' = pool
    /\ onChain' = [t \in Tx |-> IF succeed /\ t \in working[w] THEN round[w].num ELSE onChain[t]]
    /\ working' = [working EXCEPT ![w] = {}]

WorkEndedReturnsAll(w, succeed) ==
    /\ pool' = pool \cup working[w]
    /\ onChain' = [t \in Tx |-> IF succeed /\ t \in working[w] THEN round[w].num ELSE onChain[t]]
    /\ working' = [working EXCEPT ![w] = {}]

WorkEndedChainsAll(w, succeed) ==
    /\ pool' = IF succeed THEN pool ELSE pool \cup working[w]
    /\ onChain' = [t \in Tx |-> IF t \in working[w] THEN round[w].num ELSE onChain[t]]
    /\ working' = [working EXCEPT ![w] = {}]

\* TxPool.WorkEnded: a work that Pending did not store, or that has ended
\* before, changes nothing.
WorkEnded(w, succeed) ==
    /\ pool' = IF succeed THEN pool ELSE pool \cup working[w]
    /\ onChain' = [t \in Tx |-> IF succeed /\ t \in working[w] THEN round[w].num ELSE onChain[t]]
    /\ working' = [working EXCEPT ![w] = {}]

-----------------------------------------------------------------------------
(* The ticker goroutine.                                                   *)

\* A tick in state IDLE: CheckNeedStartMine leaves the error mode once the
\* queue is empty, and gives up while it is not.
CheckNeedStartMine ==
    /\ ticker = "select"
    /\ roundState = "IDLE"
    /\ errored => Pending = <<>>
    /\ errored' = FALSE
    /\ ticker' = "head"
    /\ UNCHANGED <<roundState, round, gen, confirms, finals, enders, Pending, run, chain, td, txs, faults>>

\* WorkPending.Top, and the head of the chain when there is none.
Top == IF ~errored /\ Pending # <<>> THEN Last(Pending) ELSE ChainHead

\* The rest of the tick: a goroutine posts the head on newRoundCh.
PostRound(r) ==
    /\ ticker = "head"
    /\ round[r].pc = "none"
    /\ r > 1 => round[r - 1].pc # "none"
    /\ roundState' = "PostMining"
    /\ round' = [round EXCEPT ![r].pc = "post", ![r].parent = Top]
    /\ ticker' = "select"
    /\ UNCHANGED <<gen, confirms, finals, enders, sealing, txs, faults>>

\* The block is younger than the period and there are too few transactions.
TooEarly ==
    /\ ticker = "head"
    /\ ticker' = "select"
    /\ UNCHANGED <<roundState, round, gen, confirms, finals, enders, sealing, txs, faults>>

StartRound(r) ==
    /\ ticker = "select"
    /\ round[r].pc = "post"
    /\ roundState' = "Mining"
    /\ round' = [round EXCEPT ![r].pc = "begin"]
    /\ UNCHANGED <<ticker, gen, confirms, finals, enders, sealing, txs, faults>>

-----------------------------------------------------------------------------
(* NewMineRound, a goroutine for each round.                               *)

\* The header, the Work, TxPool.Pending and GenerateProof.  The Work is shared
\* in worker.current until its proof is made; MiningConstants keeps a second
\* round from starting before that.
TakeTxs(r) ==
    /\ round[r].pc = "begin"
    /\ \E ts \in SUBSET pool :
        /\ Cardinality(ts) <= MaxTxs
        /\ Cardinality(ts) = MaxTxs \/ ts = pool
        /\ pool' = pool \ ts
        /\ working' = [working EXCEPT ![r] = ts]
        /\ round' = [round EXCEPT ![r] = [@ EXCEPT !.pc = "proof",
                                                   !.txs = ts,
                                                   !.num = Number(round[r].parent) + 1,
                                                   !.proof = Append(ProofOf(round[r].parent), ts)]]
    /\ UNCHANGED <<roundState, ticker, gen, confirms, finals, enders, sealing, onChain, faults>>

\* The signer is locked: the error return makes the goroutine set IDLE, and
\* the transactions stay in working.
SignFails(r) ==
    /\ round[r].pc = "proof"
    /\ faults < MaxFaults
    /\ faults' = faults + 1
    /\ round' = [round EXCEPT ![r].pc = "failed"]
    /\ UNCHANGED <<roundState, ticker, gen, confirms, finals, enders, sealing, txs>>

\* The proof is handed to the network: from here on peers may confirm it.
PostProof(r) ==
    /\ round[r].pc = "proof"
    /\ round' = [round EXCEPT ![r].pc = "posted"]
    /\ UNCHANGED <<roundState, ticker, gen, confirms, finals, enders, sealing, txs, faults>>

SameProof(r) == {q \in DOMAIN unconf : round[q].proof = round[r].proof}

\* Insert keeps an entry with the same signature; then the sealing goroutine
\* is started.
Insert(r) ==
    /\ round[r].pc = "posted"
    /\ unconf' = IF SameProof(r) = {}
                 THEN [q \in DOMAIN unconf \cup {r} |->
                         IF q = r THEN [yes |-> {}, no |-> {}] ELSE unconf[q]]
                 ELSE unconf
    /\ gen' = [gen EXCEPT ![r] = "run"]
    /\ round' = [round EXCEPT ![r].pc = "inserted"]
    /\ UNCHANGED <<roundState, ticker, confirming, heard, confirmed, timing, sends, recvd,
                   finals, enders, sealing, txs, faults>>

\* Back in the goroutine of RoutineMine.
RoundReturns(r) ==
    /\ \/ round[r].pc = "inserted" /\ roundState' = "Mining"
       \/ round[r].pc = "failed" /\ roundState' = "IDLE"
    /\ round' = [round EXCEPT ![r].pc = "done"]
    /\ UNCHANGED <<ticker, gen, confirms, finals, enders, sealing, txs, faults>>

\* Finalize and GenBlockWithSig: the signature or an empty block may fail.
Gen(r) ==
    /\ gen[r] = "run"
    /\ \/ gen' = [gen EXCEPT ![r] = "ok"] /\ UNCHANGED faults
       \/ /\ faults < MaxFaults
          /\ faults' = faults + 1
          /\ gen' = [gen EXCEPT ![r] = "err"]
    /\ UNCHANGED <<roundState, ticker, round, confirms, finals, enders, sealing, txs>>

-----------------------------------------------------------------------------
(* Confirm and CheckTimeout.                                               *)

\* The proofs the network has seen.
Broadcast == {round[r].proof : r \in {q \in Rounds : round[q].pc \in {"posted", "inserted", "done"}
                                                     /\ round[q].proof # <<>>}}

\* RoutineMine takes the confirmation of peer p off the event mux, each at
\* most once; Confirm loads the entry of the proof, if there is one.
ConfirmLoad(p, proof, v) ==
    /\ confirming = NoConfirm
    /\ <<p, proof, v>> \notin heard
    /\ heard' = heard \cup {<<p, proof, v>>}
    /\ faults' = IF v THEN faults ELSE faults + 1
    /\ faults' <= MaxFaults
    /\ confirming' = IF \E r \in DOMAIN unconf : round[r].proof = proof
                     THEN [r |-> CHOOSE r \in DOMAIN unconf : round[r].proof = proof,
                           peer |-> p, vote |-> v, info |->
                             unconf[CHOOSE r \in DOMAIN unconf : round[r].proof = proof]]
                     ELSE NoConfirm
    /\ UNCHANGED <<roundState, ticker, round, gen, unconf, confirmed, timing, sends, recvd,
                   finals, enders, sealing, txs>>

\* The votes after the one being counted.
NewVotes ==
    IF confirming.vote
    THEN [confirming.info EXCEPT !.yes = @ \cup {confirming.peer}]
    ELSE [confirming.info EXCEPT !.no = @ \cup {confirming.peer}]

\* Mutant: one answer too few.
EnoughButOne(peers) == Cardinality(peers) + 1 >= Threshold

Enough(peers) == Cardinality(peers) >= Threshold

\* Delete(sigHash): the entry of the proof, whichever round has stored it.
Without(proof) == [q \in {q \in DOMAIN unconf : round[q].proof # proof} |-> unconf[q]]

\* The rest of Confirm: at the threshold the work is sent to RoutineMine and
\* the entry is deleted; a majority against wins over one for.
ConfirmCount ==
    /\ confirming # NoConfirm
    /\ LET r == confirming.r
       IN IF Enough(NewVotes.yes) \/ Enough(NewVotes.no)
          THEN /\ confirmed' = IF Enough(NewVotes.no) THEN confirmed \ {r} ELSE confirmed \cup {r}
               /\ sends' = [sends EXCEPT ![r] = @ + 1]
               /\ unconf' = Without(round[r].proof)
          ELSE /\ unconf' = [q \in DOMAIN unconf |-> IF q = r THEN NewVotes ELSE unconf[q]]
               /\ UNCHANGED <<confirmed, sends>>
    /\ confirming' = NoConfirm
    /\ UNCHANGED <<roundState, ticker, round, gen, heard, timing, recvd, finals, enders, sealing,
                   txs, faults>>

\* Mutants: CheckTimeout without its send, and without its Delete.
CheckTimeoutSilent(r) ==
    /\ r \in DOMAIN unconf
    /\ timing = 0
    /\ Overlap \/ confirming.r # r
    /\ timing' = IF Overlap THEN r ELSE 0
    /\ unconf' = IF Overlap THEN unconf ELSE Without(round[r].proof)
    /\ UNCHANGED <<roundState, ticker, round, gen, confirming, heard, confirmed, sends, recvd,
                   finals, enders, sealing, txs, faults>>

CheckTimeoutKeeps(r) ==
    /\ r \in DOMAIN unconf
    /\ timing = 0
    /\ Overlap \/ confirming.r # r
    /\ sends' = [sends EXCEPT ![r] = @ + 1]
    /\ UNCHANGED <<roundState, ticker, round, gen, unconf, confirming, heard, confirmed, timing,
                   recvd, finals, enders, sealing, txs, faults>>

\* CheckTimeout finds the proof older than waitConfirmTimeout and starts the
\* goroutine that sends its work; the Delete is the next step of the loop.
CheckTimeout(r) ==
    /\ r \in DOMAIN unconf
    /\ timing = 0
    /\ Overlap \/ confirming.r # r
    /\ sends' = [sends EXCEPT ![r] = @ + 1]
    /\ timing' = IF Overlap THEN r ELSE 0
    /\ unconf' = IF Overlap THEN unconf ELSE Without(round[r].proof)
    /\ UNCHANGED <<roundState, ticker, round, gen, confirming, heard, confirmed, recvd,
                   finals, enders, sealing, txs, faults>>

\* u.proofs.Delete(k): the key of the proof that was sent, even when the entry
\* is the one a retried round has found.
TimeoutDelete ==
    /\ timing # 0
    /\ unconf' = Without(round[timing].proof)
    /\ timing' = 0
    /\ UNCHANGED <<roundState, ticker, round, gen, confirming, heard, confirmed, sends, recvd,
                   finals, enders, sealing, txs, faults>>

-----------------------------------------------------------------------------
(* RoutineMine receives a work from confirmCh and starts FinalMine for it. *)

\* Not while RoutineMine is in Confirm: the same goroutine does both.
Receive(r) ==
    /\ confirming = NoConfirm
    /\ sends[r] > 0
    /\ sends' = [sends EXCEPT ![r] = @ - 1]
    /\ recvd' = [recvd EXCEPT ![r] = @ + 1]
    /\ UNCHANGED <<roundState, ticker, round, gen, unconf, confirming, heard, confirmed, timing,
                   finals, enders, sealing, txs, faults>>

\* An unconfirmed work fails, a confirmed one waits for its block; a second
\* FinalMine of a confirmed work waits for good.
FinalMine(r) ==
    /\ recvd[r] > 0
    /\ r \in confirmed => gen[r] \in {"ok", "err"}
    /\ recvd' = [recvd EXCEPT ![r] = @ - 1]
    /\ IF r \in confirmed /\ gen[r] = "ok" /\ ~errored
       THEN Pending' = Append(Pending, r) /\ UNCHANGED enders
       ELSE enders' = enders \cup {r} /\ UNCHANGED Pending
    /\ gen' = IF r \in confirmed THEN [gen EXCEPT ![r] = "taken"] ELSE gen
    /\ finals' = [finals EXCEPT ![r] = @ + 1]
    /\ UNCHANGED <<roundState, ticker, round, unconf, confirming, heard, confirmed, timing, sends,
                   errored, run, chain, td, txs, faults>>

FinalIdle(r) ==
    /\ finals[r] > 0
    /\ finals' = [finals EXCEPT ![r] = @ - 1]
    /\ roundState' = "IDLE"
    /\ UNCHANGED <<ticker, round, gen, confirms, enders, sealing, txs, faults>>

\* go work.WorkEnded(false)
ReturnTxs(r) ==
    /\ r \in enders
    /\ enders' = enders \ {r}
    /\ WorkEnded(r, FALSE)
    /\ UNCHANGED <<roundState, ticker, round, gen, confirms, finals, sealing, faults>>

-----------------------------------------------------------------------------
(* WorkPending.Run.                                                        *)

\* A tick in error mode empties the queue, looking only at its length.
RunFlush ==
    /\ run.pc = "idle"
    /\ errored
    /\ run' = [pc |-> "flush", w |-> 0]
    /\ UNCHANGED <<roundState, ticker, round, gen, confirms, finals, enders, errored, Pending,
                   chain, td, txs, faults>>

RunPop ==
    /\ run.pc = "flush"
    /\ IF Pending = <<>>
       THEN run' = RunIdle /\ UNCHANGED Pending
       ELSE run' = [pc |-> "drop", w |-> Head(Pending)] /\ Pending' = Tail(Pending)
    /\ UNCHANGED <<roundState, ticker, round, gen, confirms, finals, enders, errored, chain,
                   td, txs, faults>>

RunDrop ==
    /\ run.pc = "drop"
    /\ WorkEnded(run.w, FALSE)
    /\ run' = [pc |-> "flush", w |-> 0]
    /\ UNCHANGED <<roundState, ticker, round, gen, confirms, finals, enders, errored, Pending,
                   chain, td, faults>>

\* WriteBlockAndState: a block on the head extends the chain; one with a larger
\* number on another block, or with no larger number, does not, and is reported
\* without an error.
WriteBlockAndState(w, newChain) ==
    /\ round[w].parent \in td
    /\ td' = td \cup {w}
    /\ newChain = IF round[w].num > Len(chain) /\ round[w].parent = ChainHead
                  THEN Append(chain, w)
                  ELSE chain

\* The parent is unknown, or the database fails before or after WriteTd.
WriteFails(w) ==
    \/ /\ round[w].parent \notin td
       /\ UNCHANGED <<td, faults>>
    \/ /\ faults < MaxFaults
       /\ faults' = faults + 1
       /\ round[w].parent \in td
       /\ td' \in {td, td \cup {w}}

RunWrite ==
    /\ run.pc = "idle"
    /\ ~errored
    /\ Pending # <<>>
    /\ LET w == Head(Pending)
       IN \/ /\ WriteBlockAndState(w, chain')
             /\ run' = [pc |-> "kept", w |-> w]
             /\ UNCHANGED <<errored, faults>>
          \/ /\ WriteFails(w)
             /\ run' = [pc |-> "failed", w |-> w]
             /\ errored' = TRUE
             /\ UNCHANGED chain
    /\ UNCHANGED <<roundState, ticker, round, gen, confirms, finals, enders, Pending, txs>>

\* WorkEnded, then pop.
RunEnded ==
    /\ run.pc \in {"kept", "failed"}
    /\ WorkEnded(run.w, run.pc = "kept")
    /\ Pending' = Tail(Pending)
    /\ run' = RunIdle
    /\ UNCHANGED <<roundState, ticker, round, gen, confirms, finals, enders, errored, chain,
                   td, faults>>

-----------------------------------------------------------------------------
Ticker == CheckNeedStartMine \/ TooEarly \/ \E r \in Rounds : PostRound(r) \/ StartRound(r)

NewMineRound(r) ==
    TakeTxs(r) \/ SignFails(r) \/ PostProof(r) \/ Insert(r) \/ RoundReturns(r) \/ Gen(r)

Hear == \E p \in Peers, proof \in Broadcast, v \in BOOLEAN : ConfirmLoad(p, proof, v)

Final(r) == Receive(r) \/ FinalMine(r) \/ FinalIdle(r) \/ ReturnTxs(r)

Run == RunFlush \/ RunPop \/ RunDrop \/ RunWrite \/ RunEnded

Next ==
    \/ Ticker
    \/ \E r \in Rounds : NewMineRound(r) \/ CheckTimeout(r) \/ Final(r)
    \/ Hear
    \/ ConfirmCount
    \/ TimeoutDelete
    \/ Run

\* Every goroutine goes on as long as it can, timers expire, and CheckTimeout
\* reaches an old proof; nothing is assumed of the peers.
Fairness ==
    /\ WF_vars(Ticker)
    /\ WF_vars(Run)
    /\ WF_vars(ConfirmCount)
    /\ WF_vars(TimeoutDelete)
    /\ \A r \in Rounds :
        /\ WF_vars(NewMineRound(r))
        /\ WF_vars(CheckTimeout(r))
        /\ WF_vars(Receive(r))
        /\ WF_vars(FinalMine(r))
        /\ WF_vars(FinalIdle(r))
        /\ WF_vars(ReturnTxs(r))

Spec == Init /\ [][Next]_vars /\ Fairness

-----------------------------------------------------------------------------
InBlock(i) == round[chain[i]].txs

\* onChain tells the truth: a transaction it holds is in the block of that
\* number of the canonical chain, although WorkEnded(true) only knows that
\* WriteBlockAndState returned no error.
OnChainIsCanonical ==
    \A t \in Tx : onChain[t] # 0 => onChain[t] <= Len(chain) /\ t \in InBlock(onChain[t])

\* No transaction is in two blocks of the canonical chain, although rounds fail,
\* are retried and overlap with the writing of earlier blocks.
NoTxTwice ==
    \A i, j \in 1..Len(chain) : i # j => InBlock(i) \cap InBlock(j) = {}

\* A transaction that WorkEnded(false) has given back to the pool is in no block
\* of the canonical chain, so mining it again is right.
ReturnedNotChained == \A i \in 1..Len(chain) : pool \cap InBlock(i) = {}

\* A block enters the queue of sealed blocks, and the chain, only after
\* Threshold different peers have confirmed its proof.
ConfirmedOnly ==
    \A r \in ToSet(Pending) \cup ToSet(chain) :
        Cardinality({p \in Peers : <<p, round[r].proof, TRUE>> \in heard}) >= Threshold

\* Round r tries again what an earlier one was given up for: its proof, and so
\* its key in unconfirm_mine.proofs, is the same.
Retried(r) == \E q \in 1..(r - 1) : round[q].proof = round[r].proof

\* Every transaction is where the pool can find it again: pending, in a block,
\* or in the work of a round that still has a goroutine that will end it (or
\* that a locked signer has cut short).  The one exception is a retry whose
\* entry, or whose right to one, an overlapping CheckTimeout has deleted with the
\* key of the first try.
TxAccounted ==
    \A t \in Tx :
        \/ t \in pool
        \/ onChain[t] # 0
        \/ \E r \in Rounds :
            /\ t \in working[r]
            /\ \/ round[r].pc \in {"proof", "posted", "failed"}
               \/ round[r].pc = "done" /\ gen[r] = "none"
               \/ r \in DOMAIN unconf \/ sends[r] > 0
               \/ recvd[r] > 0 /\ (r \in confirmed => gen[r] # "taken")
               \/ r \in enders \/ Contains(Pending, r) \/ run.w = r
               \/ Overlap /\ Retried(r)

\* Every work that waits for confirmations ends: its transactions go into a
\* block or back to the pool, even when no peer ever answers.  The exception is
\* that of TxAccounted.
WorkEnds ==
    \A r \in Rounds : gen[r] # "none" ~> working[r] = {} \/ (Overlap /\ Retried(r))

\* After a round has been started the ticker gets to start another one.
RoundEnds == roundState = "Mining" ~> roundState = "IDLE"
=============================================================================
