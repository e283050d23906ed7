------------------------------ MODULE Session ------------------------------
(***************************************************************************)
(* Starting and stopping the miner: the RPC calls of node/api.go,          *)
(* Miner.Start and Stop (worker/miner.go), worker.start and stop           *)
(* (worker.go), and the goroutines of each mining session: RoutineMine     *)
(* with its exit case, its ticker, RoutineLoop of the unconfirmed proofs,  *)
(* and the rounds, as far as they share the channels of the worker.        *)
(*                                                                         *)
(* RoutineMine makes new channels for every session and keeps them in      *)
(* fields of the worker; whoever uses such a field uses the channel of the *)
(* latest session.  A session is numbered by the call that started it.     *)
(***************************************************************************)
EXTENDS Naturals

CONSTANTS
    Calls,      \* the RPC calls to Start and Stop, each in a goroutine
    Ids,        \* names for the rounds
    NoCall      \* worker.mu is free

ASSUME SessionConstants == NoCall \notin Calls

VARIABLES
    call,       \* the progress of each call
    mu,         \* the call that holds worker.mu
    minerMining,\* Miner.mining
    mining,     \* worker.mining
    cur,        \* whose channels the fields of the worker hold
    closed,     \* the sessions whose confirmCh and newRoundCh are closed
    routine,    \* RoutineMine of each session
    loop,       \* RoutineLoop of each session's unconfirmed proofs
    ticker,     \* the ticker goroutine of each session and the channel it selects on
    roundState, \* worker.roundState
    round,      \* the rounds: where each is, its Work and whose channels it uses
    panicked    \* the process is gone

vars == <<call, mu, minerMining, mining, cur, closed, routine, loop, ticker, roundState,
          round, panicked>>

control == <<call, mu, minerMining, mining>>
session == <<cur, closed, routine, loop>>

\* Where a round can be: not begun; its header posted, before and after the
\* sender has evaluated newRoundCh; NewMineRound running; its proof waiting in
\* the unconfirmed proofs, before and after CheckTimeout has started the send of
\* its work; no longer there.
RoundPc == {"none", "posting", "posted", "run", "wait", "sent", "over"}

Sessions == Calls \cup {NoCall}

\* A round: its channels; the RoutineMine that is in Confirm for it; work.confirmed;
\* whether the goroutines of Confirm and of CheckTimeout are sending the work;
\* how many FinalMine have it; and whether one has emptied genCh.
RoundRecs == [pc : RoundPc, ch : Sessions, by : Sessions, confirmed : BOOLEAN, csend : BOOLEAN,
              tsend : BOOLEAN, finals : Nat, taken : BOOLEAN]

NoRound == [pc |-> "none", ch |-> NoCall, by |-> NoCall, confirmed |-> FALSE, csend |-> FALSE,
            tsend |-> FALSE, finals |-> 0, taken |-> FALSE]

TypeOK ==
    /\ call \in [Calls -> {"none", "start", "base", "flag", "stop", "exit", "wait", "unflag", "done"}]
    /\ mu \in Calls \cup {NoCall}
    /\ minerMining \in BOOLEAN
    /\ mining \in BOOLEAN
    /\ cur \in Sessions
    /\ closed \subseteq Sessions
    /\ routine \in [Calls -> {"none", "make", "loop", "confirm", "exit", "close", "gone"}]
    /\ loop \in [Sessions -> BOOLEAN]
    /\ ticker \in [Calls -> [on : BOOLEAN, ch : Sessions]]
    /\ roundState \in {"IDLE", "PostMining", "Mining"}
    /\ round \in [Ids -> RoundRecs]
    /\ panicked \in BOOLEAN

Init ==
    /\ call = [c \in Calls |-> "none"]
    /\ mu = NoCall
    /\ minerMining = FALSE
    /\ mining = FALSE
    /\ cur = NoCall
    /\ closed = {}
    /\ routine = [c \in Calls |-> "none"]
    /\ loop = [s \in Sessions |-> FALSE]
    /\ ticker = [c \in Calls |-> [on |-> FALSE, ch |-> NoCall]]
    /\ roundState = "IDLE"
    /\ round = [i \in Ids |-> NoRound]
    /\ panicked = FALSE

-----------------------------------------------------------------------------
(* The calls.                                                              *)

\* miner_start: a node that is not mining runs Miner.Start in a goroutine.
ApiStart(c) ==
    /\ call[c] = "none"
    /\ ~minerMining
    /\ call' = [call EXCEPT ![c] = "start"]
    /\ UNCHANGED <<mu, minerMining, mining, session, ticker, roundState, round, panicked>>

\* setShxerbase takes the mutex of the worker for a moment.
SetShxerbase(c) ==
    /\ call[c] = "start"
    /\ mu = NoCall
    /\ call' = [call EXCEPT ![c] = "base"]
    /\ UNCHANGED <<mu, minerMining, mining, session, ticker, roundState, round, panicked>>

MinerStart(c) ==
    /\ call[c] = "base"
    /\ minerMining' = TRUE
    /\ call' = [call EXCEPT ![c] = "flag"]
    /\ UNCHANGED <<mu, mining, session, ticker, roundState, round, panicked>>

\* Mutant: worker.start without its early return.
WorkerStartTwice(c) ==
    /\ call[c] = "flag"
    /\ mu = NoCall
    /\ mining' = TRUE
    /\ routine' = [routine EXCEPT ![c] = "make"]
    /\ call' = [call EXCEPT ![c] = "done"]
    /\ UNCHANGED <<mu, minerMining, cur, closed, loop, ticker, roundState, round, panicked>>

WorkerStart(c) ==
    /\ call[c] = "flag"
    /\ mu = NoCall
    /\ mining' = TRUE
    /\ routine' = IF mining THEN routine ELSE [routine EXCEPT ![c] = "make"]
    /\ call' = [call EXCEPT ![c] = "done"]
    /\ UNCHANGED <<mu, minerMining, cur, closed, loop, ticker, roundState, round, panicked>>

\* Mutant: worker.stop without its early return.
WorkerStopAlways(c) ==
    /\ call[c] = "none"
    /\ mu = NoCall
    /\ mu' = c
    /\ call' = [call EXCEPT ![c] = "exit"]
    /\ UNCHANGED <<minerMining, mining, session, ticker, roundState, round, panicked>>

\* miner_stop and Node.Stop: Miner.Stop calls worker.stop, which keeps the
\* mutex until the session has taken the exit signal and the rounds are done.
WorkerStop(c) ==
    /\ call[c] = "none"
    /\ mu = NoCall
    /\ IF mining
       THEN mu' = c /\ call' = [call EXCEPT ![c] = "exit"]
       ELSE call' = [call EXCEPT ![c] = "unflag"] /\ UNCHANGED mu
    /\ UNCHANGED <<minerMining, mining, session, ticker, roundState, round, panicked>>

\* exitCh is unbuffered: the send meets the receive of a RoutineMine in its loop.
ExitSignal(c, s) ==
    /\ call[c] = "exit"
    /\ routine[s] = "loop"
    /\ call' = [call EXCEPT ![c] = "wait"]
    /\ routine' = [routine EXCEPT ![s] = "exit"]
    /\ UNCHANGED <<mu, minerMining, mining, cur, closed, loop, ticker, roundState, round, panicked>>

\* wg.Wait(): no NewMineRound and no FinalMine is left.
WorkerStopped(c) ==
    /\ call[c] = "wait"
    /\ \A i \in Ids : round[i].pc # "run" /\ round[i].finals = 0
    /\ mining' = FALSE
    /\ mu' = NoCall
    /\ call' = [call EXCEPT ![c] = "unflag"]
    /\ UNCHANGED <<minerMining, session, ticker, roundState, round, panicked>>

MinerStopped(c) ==
    /\ call[c] = "unflag"
    /\ minerMining' = FALSE
    /\ call' = [call EXCEPT ![c] = "done"]
    /\ UNCHANGED <<mu, mining, session, ticker, roundState, round, panicked>>

-----------------------------------------------------------------------------
(* RoutineMine of session s.                                               *)

\* The stores of the three fields and the starts of the two goroutines are one
\* step: until the loop is reached only a round of an older session reads them.
MakeChannels(s) ==
    /\ routine[s] = "make"
    /\ cur' = s
    /\ loop' = [loop EXCEPT ![s] = TRUE]
    /\ ticker' = [ticker EXCEPT ![s] = [on |-> TRUE, ch |-> s]]
    /\ routine' = [routine EXCEPT ![s] = "loop"]
    /\ UNCHANGED <<control, closed, roundState, round, panicked>>

\* The exit case, first statement: unconfirm_mine.Stop() waits for the
\* RoutineLoop of the object that is in the field now.
StopLoop(s) ==
    /\ routine[s] = "exit"
    /\ loop[cur]
    /\ loop' = [loop EXCEPT ![cur] = FALSE]
    /\ routine' = [routine EXCEPT ![s] = "close"]
    /\ UNCHANGED <<control, cur, closed, ticker, roundState, round, panicked>>

\* Mutant: the exit case leaves roundState without one of its values.
CloseChannelsNoState(s) ==
    /\ routine[s] = "close"
    /\ closed' = closed \cup {cur}
    /\ IF cur \in closed THEN panicked' = TRUE ELSE UNCHANGED panicked
    /\ roundState' = "EXIT"
    /\ routine' = [routine EXCEPT ![s] = "gone"]
    /\ UNCHANGED <<control, cur, loop, ticker, round>>

\* The exit case, the rest: closing a channel twice panics.  confirmCh and
\* newRoundCh belong to one session and are closed in one step.
CloseChannels(s) ==
    /\ routine[s] = "close"
    /\ closed' = closed \cup {cur}
    /\ IF cur \in closed THEN panicked' = TRUE ELSE UNCHANGED panicked
    /\ roundState' = "IDLE"
    /\ routine' = [routine EXCEPT ![s] = "gone"]
    /\ UNCHANGED <<control, cur, loop, ticker, round>>

\* A closed confirmCh yields a nil work, which FinalMine dereferences.
NilWork(s) ==
    /\ routine[s] = "loop"
    /\ cur \in closed
    /\ panicked' = TRUE
    /\ UNCHANGED <<control, session, ticker, roundState, round>>

-----------------------------------------------------------------------------
(* The ticker of session s.                                                *)

\* A tick posts a header when the state is IDLE and a round is due; every tick
\* goes back to the select, which evaluates newRoundCh anew.
Tick(s, i) ==
    /\ ticker[s].on
    /\ ticker' = [ticker EXCEPT ![s].ch = cur]
    /\ \/ /\ roundState = "IDLE"
          /\ round[i].pc = "none"
          /\ round' = [round EXCEPT ![i].pc = "posting"]
          /\ roundState' = "PostMining"
       \/ UNCHANGED <<round, roundState>>
    /\ UNCHANGED <<control, session, panicked>>

TickerReturns(s) ==
    /\ ticker[s].on
    /\ ticker[s].ch \in closed
    /\ ticker' = [ticker EXCEPT ![s].on = FALSE]
    /\ UNCHANGED <<control, session, roundState, round, panicked>>

StartRound(s, i) ==
    /\ ticker[s].on
    /\ round[i].pc = "posted" /\ round[i].ch = ticker[s].ch
    /\ round' = [round EXCEPT ![i].pc = "run"]
    /\ roundState' = "Mining"
    /\ ticker' = [ticker EXCEPT ![s].ch = cur]
    /\ UNCHANGED <<control, session, panicked>>

-----------------------------------------------------------------------------
(* Round i.                                                                *)

\* The posting goroutine evaluates newRoundCh; a send on a closed channel is
\* recovered.
PostHeader(i) ==
    /\ round[i].pc = "posting"
    /\ round' = [round EXCEPT ![i].pc = "posted", ![i].ch = cur]
    /\ UNCHANGED <<control, session, ticker, roundState, panicked>>

PostRecovers(i) ==
    /\ round[i].pc = "posted"
    /\ round[i].ch \in closed
    /\ round' = [round EXCEPT ![i].pc = "over"]
    /\ UNCHANGED <<control, session, ticker, roundState, panicked>>

\* NewMineRound inserts its proof, or fails, and the goroutine sets the state.
RoundReturns(i) ==
    /\ round[i].pc = "run"
    /\ \/ /\ round' = [round EXCEPT ![i].pc = "wait", ![i].ch = cur]
          /\ roundState' = "Mining"
       \/ /\ round' = [round EXCEPT ![i].pc = "over"]
          /\ roundState' = "IDLE"
    /\ UNCHANGED <<control, session, ticker, panicked>>

\* CheckTimeout, started by RoutineLoop, starts the goroutine of the send, and
\* deletes the entry.
CheckTimeout(i) ==
    /\ round[i].pc = "wait"
    /\ loop[round[i].ch]
    /\ round' = [round EXCEPT ![i].pc = "sent", ![i].tsend = TRUE]
    /\ UNCHANGED <<control, session, ticker, roundState, panicked>>

TimeoutDelete(i) ==
    /\ round[i].pc = "sent"
    /\ round' = [round EXCEPT ![i].pc = "over"]
    /\ UNCHANGED <<control, session, ticker, roundState, panicked>>

\* A RoutineMine in its loop takes the confirmation that decides about round i
\* and loads its entry; the entry may be one that CheckTimeout is giving up.
ConfirmLoad(i, s) ==
    /\ routine[s] = "loop"
    /\ round[i].pc \in {"wait", "sent"}
    /\ round[i].ch = cur
    /\ routine' = [routine EXCEPT ![s] = "confirm"]
    /\ round' = [round EXCEPT ![i].by = s]
    /\ UNCHANGED <<control, cur, closed, loop, ticker, roundState, panicked>>

\* The rest of Confirm, for (ok) or against: the work is sent by a goroutine of
\* its own and the entry deleted.
ConfirmCount(i, s, ok) ==
    /\ routine[s] = "confirm"
    /\ round[i].by = s
    /\ routine' = [routine EXCEPT ![s] = "loop"]
    /\ round' = [round EXCEPT ![i].by = NoCall, ![i].confirmed = ok, ![i].csend = TRUE,
                              ![i].pc = "over"]
    /\ UNCHANGED <<control, cur, closed, loop, ticker, roundState, panicked>>

\* A RoutineMine in its loop receives the work, from Confirm or from
\* CheckTimeout, and starts a FinalMine for it.
ConfirmCh(i, s) ==
    /\ routine[s] = "loop"
    /\ cur = round[i].ch
    /\ cur \notin closed
    /\ \/ /\ round[i].csend
          /\ round' = [round EXCEPT ![i].csend = FALSE, ![i].finals = @ + 1]
       \/ /\ round[i].tsend
          /\ round' = [round EXCEPT ![i].tsend = FALSE, ![i].finals = @ + 1]
    /\ UNCHANGED <<control, session, ticker, roundState, panicked>>

\* A confirmed work waits for its genCh, which is filled once.
FinalMine(i) ==
    /\ round[i].finals > 0
    /\ round[i].confirmed => ~round[i].taken
    /\ round' = [round EXCEPT ![i].finals = @ - 1, ![i].taken = @ \/ round[i].confirmed]
    /\ roundState' = "IDLE"
    /\ UNCHANGED <<control, session, ticker, panicked>>

\* The send of Confirm recovers from a closed channel, that of CheckTimeout does
\* not.
ConfirmRecovers(i) ==
    /\ round[i].csend
    /\ round[i].ch \in closed
    /\ round' = [round EXCEPT ![i].csend = FALSE]
    /\ UNCHANGED <<control, session, ticker, roundState, panicked>>

TimeoutPanics(i) ==
    /\ round[i].tsend
    /\ round[i].ch \in closed
    /\ panicked' = TRUE
    /\ UNCHANGED <<control, session, ticker, roundState, round>>

-----------------------------------------------------------------------------
Call(c) ==
    \/ SetShxerbase(c)
    \/ MinerStart(c)
    \/ WorkerStart(c)
    \/ \E s \in Calls : ExitSignal(c, s)
    \/ WorkerStopped(c)
    \/ MinerStopped(c)

RoutineMine(s) ==
    \/ MakeChannels(s)
    \/ StopLoop(s)
    \/ CloseChannels(s)
    \/ NilWork(s)
    \/ \E i \in Ids, ok \in BOOLEAN : ConfirmCount(i, s, ok)

Ticker(s) == TickerReturns(s) \/ \E i \in Ids : Tick(s, i) \/ StartRound(s, i)

Round(i) ==
    \/ PostHeader(i)
    \/ PostRecovers(i)
    \/ RoundReturns(i)
    \/ TimeoutPanics(i)
    \/ ConfirmRecovers(i)
    \/ CheckTimeout(i)
    \/ TimeoutDelete(i)
    \/ \E s \in Calls : ConfirmCh(i, s)
    \/ FinalMine(i)

Next ==
    /\ ~panicked
    /\ \/ \E c \in Calls : ApiStart(c) \/ WorkerStop(c) \/ Call(c) \/ RoutineMine(c) \/ Ticker(c)
       \/ \E i \in Ids : Round(i) \/ \E s \in Calls : ConfirmLoad(i, s)

\* Goroutines go on when they can; a mutex and a channel serve the waiters in
\* turn.  Nobody is obliged to make a call or to confirm a proof.
Fairness ==
    /\ \A c \in Calls :
        /\ SF_vars(~panicked /\ Call(c))
        /\ WF_vars(~panicked /\ RoutineMine(c))
    /\ \A i \in Ids : WF_vars(~panicked /\ Round(i))

Spec == Init /\ [][Next]_vars /\ Fairness

-----------------------------------------------------------------------------
Active == {s \in Calls : routine[s] \in {"make", "loop", "confirm"}}

\* There is one session at a time, however Start and Stop calls overlap: at
\* most one RoutineMine serves the events of the worker, and worker.mining says
\* whether there is one, except for the Stop that has just ended it.
OneSession ==
    /\ \A s, t \in Active : s = t
    /\ mining <=> Active # {} \/ \E c \in Calls : call[c] = "wait"

\* The mutex of the worker is held by the Stop call between its Lock and its
\* Unlock; a Stop sends its signal to a session that is there, and waits for the
\* rounds when none is left.
MutexHeld ==
    \A c \in Calls :
        /\ call[c] \in {"exit", "wait"} => mu = c
        /\ mu = c => call[c] \in {"exit", "wait"}
        /\ call[c] = "exit" => Active # {}
        /\ call[c] = "wait" => Active = {}

\* Confirm and CheckTimeout have both handed over the work, and the second
\* FinalMine waits for a genCh that the first has emptied.
Blocked(i) == round[i].finals > 0 /\ round[i].confirmed /\ round[i].taken

\* A Stop call returns: RoutineMine takes its signal and the rounds end.  What
\* can keep it, and with it the mutex, is a work that was handed over twice, by a
\* Confirm and a CheckTimeout that met, and nothing else.
StopReturns ==
    \A c \in Calls :
        call[c] \in {"exit", "wait"} ~> call[c] = "done" \/ panicked \/ \E i \in Ids : Blocked(i)

\* Start and Stop, in any order, do not bring the process down.
StopIsSafe == ~panicked
=============================================================================
