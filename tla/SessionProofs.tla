--------------------------- MODULE SessionProofs ---------------------------
(* Proofs about Session, for any number of calls and of rounds. *)
EXTENDS Session, TLAPS

\* The start of the process is well typed.
LEMMA InitTypeOK == Init => TypeOK
  <1> SUFFICES ASSUME Init PROVE TypeOK
    BY Zenon
  <1> USE DEF Init, Sessions, RoundPc
  <1>1. minerMining \in BOOLEAN /\ mining \in BOOLEAN /\ panicked \in BOOLEAN
    BY Zenon
  <1>2. loop \in [Sessions -> BOOLEAN]
    BY Zenon
  <1>3. ticker \in [Calls -> [on : BOOLEAN, ch : Sessions]]
    BY Zenon
  <1>4. round \in [Ids -> RoundRecs]
    <2>1. NoRound \in RoundRecs
      BY Zenon DEF NoRound, RoundRecs
    <2> QED BY <2>1, Zenon
  <1>5. /\ call \in [Calls -> {"none", "start", "base", "flag", "stop", "exit", "wait",
                                "unflag", "done"}]
        /\ routine \in [Calls -> {"none", "make", "loop", "confirm", "exit", "close", "gone"}]
    BY Zenon
  <1> QED BY Zenon, <1>1, <1>2, <1>3, <1>4, <1>5 DEF TypeOK

\* A step of Start or Stop is well typed.
LEMMA CallTypeOK ==
  ASSUME TypeOK, NEW c \in Calls, ApiStart(c) \/ WorkerStop(c) \/ Call(c)
  PROVE  TypeOK'
  <1> USE DEF TypeOK, Sessions, session
  <1>1. CASE ApiStart(c)
    BY Zenon, <1>1 DEF ApiStart
  <1>2. CASE WorkerStop(c)
    BY Zenon, <1>2 DEF WorkerStop
  <1>3. CASE SetShxerbase(c)
    BY Zenon, <1>3 DEF SetShxerbase
  <1>4. CASE MinerStart(c)
    BY Zenon, <1>4 DEF MinerStart
  <1>5. CASE WorkerStart(c)
    BY Zenon, <1>5 DEF WorkerStart
  <1>6. CASE \E s \in Calls : ExitSignal(c, s)
    BY <1>6 DEF ExitSignal
  <1>7. CASE WorkerStopped(c)
    BY Zenon, <1>7 DEF WorkerStopped
  <1>8. CASE MinerStopped(c)
    BY Zenon, <1>8 DEF MinerStopped
  <1> QED BY Zenon, <1>1, <1>2, <1>3, <1>4, <1>5, <1>6, <1>7, <1>8 DEF Call

\* What Confirm and FinalMine make of the record of a round is such a record.
LEMMA CountedRec ==
  ASSUME NEW rec \in RoundRecs, NEW ok \in BOOLEAN
  PROVE  [rec EXCEPT !.by = NoCall, !.confirmed = ok, !.csend = TRUE, !.pc = "over"] \in RoundRecs
  <1>1. NoCall \in Sessions /\ "over" \in RoundPc /\ TRUE \in BOOLEAN
    BY Zenon DEF Sessions, RoundPc
  <1> QED BY Zenon, <1>1 DEF RoundRecs

LEMMA FinalRec ==
  ASSUME NEW rec \in RoundRecs, rec.finals > 0
  PROVE  [rec EXCEPT !.finals = @ - 1, !.taken = @ \/ rec.confirmed] \in RoundRecs
  <1>1. rec.finals - 1 \in Nat
    BY DEF RoundRecs
  <1>2. (rec.taken \/ rec.confirmed) \in BOOLEAN
    BY Zenon
  <1> QED BY Zenon, <1>1, <1>2 DEF RoundRecs

\* The record of a ticker that has returned.
LEMMA TickerRec ==
  ASSUME NEW rec \in [on : BOOLEAN, ch : Sessions]
  PROVE  [rec EXCEPT !.on = FALSE] \in [on : BOOLEAN, ch : Sessions]
  BY Zenon

\* A step of RoutineMine or of its ticker is well typed.
LEMMA RoutineTypeOK ==
  ASSUME TypeOK, NEW s \in Calls, RoutineMine(s) \/ Ticker(s)
  PROVE  TypeOK'
  <1> USE DEF TypeOK, Sessions, RoundPc, session, control
  <1>1. CASE MakeChannels(s)
    <2>1. ticker' \in [Calls -> [on : BOOLEAN, ch : Sessions]]
      BY Zenon, <1>1 DEF MakeChannels
    <2> QED BY Zenon, <1>1, <2>1 DEF MakeChannels
  <1>2. CASE StopLoop(s)
    BY Zenon, <1>2 DEF StopLoop
  <1>3. CASE CloseChannels(s)
    BY Zenon, <1>3 DEF CloseChannels
  <1>4. CASE NilWork(s)
    BY Zenon, <1>4 DEF NilWork
  <1>5. CASE TickerReturns(s)
    <2>1. ticker' \in [Calls -> [on : BOOLEAN, ch : Sessions]]
      <3>1. ticker' = [ticker EXCEPT ![s] = [ticker[s] EXCEPT !.on = FALSE]]
        BY Zenon, <1>5 DEF TickerReturns
      <3>2. [ticker[s] EXCEPT !.on = FALSE] \in [on : BOOLEAN, ch : Sessions]
        BY Zenon, TickerRec
      <3> QED BY Zenon, <3>1, <3>2
    <2> QED BY Zenon, <1>5, <2>1 DEF TickerReturns
  <1>6. CASE \E i \in Ids : Tick(s, i)
    <2>1. PICK i \in Ids : Tick(s, i)
      BY Zenon, <1>6
    <2>2. ticker' \in [Calls -> [on : BOOLEAN, ch : Sessions]]
      BY <2>1 DEF Tick
    <2>3. round' \in [Ids -> RoundRecs]
      <3>1. [round[i] EXCEPT !.pc = "posting"] \in RoundRecs
        BY DEF RoundRecs
      <3> QED BY Zenon, <2>1, <3>1 DEF Tick
    <2> QED BY Zenon, <2>1, <2>2, <2>3 DEF Tick
  <1>7. CASE \E i \in Ids : StartRound(s, i)
    <2>1. PICK i \in Ids : StartRound(s, i)
      BY Zenon, <1>7
    <2>2. ticker' \in [Calls -> [on : BOOLEAN, ch : Sessions]]
      BY <2>1 DEF StartRound
    <2>3. round' \in [Ids -> RoundRecs]
      <3>1. [round[i] EXCEPT !.pc = "run"] \in RoundRecs
        BY DEF RoundRecs
      <3> QED BY Zenon, <2>1, <3>1 DEF StartRound
    <2> QED BY Zenon, <2>1, <2>2, <2>3 DEF StartRound
  <1>8. CASE \E i \in Ids, ok \in BOOLEAN : ConfirmCount(i, s, ok)
    <2>1. PICK i \in Ids, ok \in BOOLEAN : ConfirmCount(i, s, ok)
      BY Zenon, <1>8
    <2>2. round' \in [Ids -> RoundRecs]
      <3>1. round[i] \in RoundRecs
        BY Zenon
      <3>2. [round[i] EXCEPT !.by = NoCall, !.confirmed = ok, !.csend = TRUE, !.pc = "over"]
              \in RoundRecs
        BY Zenon, <3>1, CountedRec
      <3> QED BY Zenon, <2>1, <3>2 DEF ConfirmCount
    <2> QED BY Zenon, <2>1, <2>2 DEF ConfirmCount
  <1> QED BY Zenon, <1>1, <1>2, <1>3, <1>4, <1>5, <1>6, <1>7, <1>8 DEF RoutineMine, Ticker

\* A step of a round, or of Confirm for it, is well typed.
LEMMA RoundTypeOK ==
  ASSUME TypeOK, NEW i \in Ids, Round(i) \/ \E s \in Calls : ConfirmLoad(i, s)
  PROVE  TypeOK'
  <1> USE DEF TypeOK, Sessions, session, control
  <1>0. round[i] \in RoundRecs
    BY Zenon
  <1>1. round' \in [Ids -> RoundRecs]
    <2>1. CASE PostHeader(i)
      <3>1. [round[i] EXCEPT !.pc = "posted", !.ch = cur] \in RoundRecs
        BY Zenon, <1>0 DEF RoundRecs, RoundPc
      <3> QED BY Zenon, <2>1, <3>1 DEF PostHeader
    <2>2. CASE PostRecovers(i)
      <3>1. [round[i] EXCEPT !.pc = "over"] \in RoundRecs
        BY Zenon, <1>0 DEF RoundRecs, RoundPc
      <3> QED BY Zenon, <2>2, <3>1 DEF PostRecovers
    <2>3. CASE RoundReturns(i)
      <3>1. [round[i] EXCEPT !.pc = "wait", !.ch = cur] \in RoundRecs
        BY Zenon, <1>0 DEF RoundRecs, RoundPc
      <3>2. [round[i] EXCEPT !.pc = "over"] \in RoundRecs
        BY Zenon, <1>0 DEF RoundRecs, RoundPc
      <3> QED BY Zenon, <2>3, <3>1, <3>2 DEF RoundReturns
    <2>4. CASE CheckTimeout(i)
      <3>1. [round[i] EXCEPT !.pc = "sent", !.tsend = TRUE] \in RoundRecs
        BY Zenon, <1>0 DEF RoundRecs, RoundPc
      <3> QED BY Zenon, <2>4, <3>1 DEF CheckTimeout
    <2>5. CASE TimeoutDelete(i)
      <3>1. [round[i] EXCEPT !.pc = "over"] \in RoundRecs
        BY Zenon, <1>0 DEF RoundRecs, RoundPc
      <3> QED BY Zenon, <2>5, <3>1 DEF TimeoutDelete
    <2>6. CASE \E s \in Calls : ConfirmLoad(i, s)
      <3>1. PICK s \in Calls : ConfirmLoad(i, s)
        BY Zenon, <2>6
      <3>2. [round[i] EXCEPT !.by = s] \in RoundRecs
        BY Zenon, <1>0 DEF RoundRecs
      <3> QED BY Zenon, <3>1, <3>2 DEF ConfirmLoad
    <2>7. CASE \E s \in Calls : ConfirmCh(i, s)
      <3>0. round[i].finals + 1 \in Nat
        BY <1>0 DEF RoundRecs
      <3>1. [round[i] EXCEPT !.csend = FALSE, !.finals = @ + 1] \in RoundRecs
        BY Zenon, <1>0, <3>0 DEF RoundRecs
      <3>2. [round[i] EXCEPT !.tsend = FALSE, !.finals = @ + 1] \in RoundRecs
        BY Zenon, <1>0, <3>0 DEF RoundRecs
      <3>3. \/ round' = [round EXCEPT ![i] = [round[i] EXCEPT !.csend = FALSE, !.finals = @ + 1]]
            \/ round' = [round EXCEPT ![i] = [round[i] EXCEPT !.tsend = FALSE, !.finals = @ + 1]]
        BY Zenon, <2>7 DEF ConfirmCh
      <3> QED BY Zenon, <3>1, <3>2, <3>3
    <2>8. CASE FinalMine(i)
      <3>1. round[i].finals > 0
        BY Zenon, <2>8 DEF FinalMine
      <3>2. [round[i] EXCEPT !.finals = @ - 1, !.taken = @ \/ round[i].confirmed] \in RoundRecs
        BY Zenon, <1>0, <3>1, FinalRec
      <3> QED BY Zenon, <2>8, <3>2 DEF FinalMine
    <2>9. CASE ConfirmRecovers(i)
      <3>1. [round[i] EXCEPT !.csend = FALSE] \in RoundRecs
        BY Zenon, <1>0 DEF RoundRecs
      <3> QED BY Zenon, <2>9, <3>1 DEF ConfirmRecovers
    <2>10. CASE TimeoutPanics(i)
      BY Zenon, <2>10 DEF TimeoutPanics
    <2> QED BY Zenon, <2>1, <2>2, <2>3, <2>4, <2>5, <2>6, <2>7, <2>8, <2>9, <2>10 DEF Round
  <1>2. /\ UNCHANGED <<call, mu, minerMining, mining, cur, closed, loop, ticker>>
        /\ roundState' \in {"IDLE", "PostMining", "Mining"}
        /\ panicked' \in BOOLEAN
        /\ routine' \in [Calls -> {"none", "make", "loop", "confirm", "exit", "close", "gone"}]
    <2>1. CASE PostHeader(i) \/ PostRecovers(i) \/ RoundReturns(i) \/ TimeoutPanics(i)
      BY Zenon, <2>1 DEF PostHeader, PostRecovers, RoundReturns, TimeoutPanics
    <2>2. CASE ConfirmRecovers(i) \/ CheckTimeout(i) \/ TimeoutDelete(i) \/ FinalMine(i)
      BY Zenon, <2>2 DEF ConfirmRecovers, CheckTimeout, TimeoutDelete, FinalMine
    <2>3. CASE \E s \in Calls : ConfirmCh(i, s)
      BY Zenon, <2>3 DEF ConfirmCh
    <2>4. CASE \E s \in Calls : ConfirmLoad(i, s)
      BY <2>4 DEF ConfirmLoad
    <2> QED BY Zenon, <2>1, <2>2, <2>3, <2>4 DEF Round
  <1> QED BY Zenon, <1>1, <1>2

\* Every variable of Session keeps its type.
THEOREM TypeCorrect == Spec => []TypeOK
  <1>1. TypeOK /\ [Next]_vars => TypeOK'
    <2> SUFFICES ASSUME TypeOK, [Next]_vars PROVE TypeOK'
      BY Zenon
    <2>1. CASE UNCHANGED vars
      BY Zenon, <2>1 DEF TypeOK, vars
    <2> QED BY Zenon, <2>1, CallTypeOK, RoutineTypeOK, RoundTypeOK DEF Next
  <1> QED BY InitTypeOK, <1>1, PTL DEF Spec

-----------------------------------------------------------------------------
\* OneSession is inductive together with MutexHeld: a Start opens a session only
\* when mining is FALSE and nobody holds the mutex, and mining turns FALSE only
\* in the Stop whose signal ended the session.
IInv == OneSession /\ MutexHeld

\* The start has no session.
LEMMA InitIInv == Init => IInv
  BY SessionConstants DEF Init, IInv, OneSession, MutexHeld, Active

\* A step that leaves the calls, the mutex, worker.mining and the sessions that
\* serve events alone preserves the invariant.
LEMMA SameIInv ==
  ASSUME IInv, UNCHANGED <<call, mu, mining>>, Active' = Active
  PROVE  IInv'
  BY Zenon DEF IInv, OneSession, MutexHeld

\* The steps of Start and Stop preserve the invariant.
LEMMA CallIInv ==
  ASSUME TypeOK, IInv, NEW c \in Calls, ApiStart(c) \/ WorkerStop(c) \/ Call(c)
  PROVE  IInv'
  <1> USE SessionConstants DEF TypeOK, session
  <1>1. CASE ApiStart(c) \/ SetShxerbase(c) \/ MinerStart(c) \/ MinerStopped(c)
    BY <1>1 DEF ApiStart, SetShxerbase, MinerStart, MinerStopped, IInv, OneSession, MutexHeld, Active
  <1>2. CASE WorkerStop(c)
    BY <1>2 DEF WorkerStop, IInv, OneSession, MutexHeld, Active
  <1>3. CASE WorkerStart(c)
    <2>1. CASE mining
      BY <1>3, <2>1 DEF WorkerStart, IInv, OneSession, MutexHeld, Active
    <2>2. CASE ~mining
      <3>1. Active = {} /\ \A d \in Calls : call[d] \notin {"exit", "wait"}
        BY Zenon, <1>3, <2>2 DEF WorkerStart, IInv, OneSession, MutexHeld
      <3>2. Active' = {c}
        BY <1>3, <2>2, <3>1 DEF WorkerStart, Active
      <3> QED BY Zenon, <1>3, <3>1, <3>2 DEF WorkerStart, IInv, OneSession, MutexHeld
    <2> QED BY Zenon, <2>1, <2>2
  <1>4. CASE \E s \in Calls : ExitSignal(c, s)
    <2>1. PICK s \in Calls : ExitSignal(c, s)
      BY Zenon, <1>4
    <2>2. Active = {s}
      BY <2>1 DEF ExitSignal, IInv, OneSession, Active
    <2>3. Active' = {}
      BY Zenon, <2>1, <2>2 DEF ExitSignal, Active
    <2> QED BY <2>1, <2>2, <2>3 DEF ExitSignal, IInv, OneSession, MutexHeld
  <1>5. CASE WorkerStopped(c)
    <2>1. Active' = {}
      BY Zenon, <1>5 DEF WorkerStopped, IInv, MutexHeld, Active
    <2> QED BY <1>5, <2>1 DEF WorkerStopped, IInv, OneSession, MutexHeld
  <1> QED BY Zenon, <1>1, <1>2, <1>3, <1>4, <1>5 DEF Call

\* The other goroutines preserve the invariant.
LEMMA OtherIInv ==
  ASSUME TypeOK, IInv,
         \/ \E s \in Calls : RoutineMine(s) \/ Ticker(s)
         \/ \E i \in Ids : Round(i) \/ \E s \in Calls : ConfirmLoad(i, s)
  PROVE  IInv'
  <1>1. CASE \E s \in Calls : RoutineMine(s)
    <2>1. PICK s \in Calls : RoutineMine(s)
      BY Zenon, <1>1
    <2>2. CASE MakeChannels(s)
      <3>1. UNCHANGED <<call, mu, mining>>
        BY Zenon, <2>2 DEF MakeChannels, control
      <3>2. Active' = Active
        BY <2>2 DEF TypeOK, Active, MakeChannels
      <3> QED BY Zenon, <3>1, <3>2, SameIInv
    <2>3. CASE StopLoop(s)
      <3>1. UNCHANGED <<call, mu, mining>>
        BY Zenon, <2>3 DEF StopLoop, control
      <3>2. Active' = Active
        BY <2>3 DEF TypeOK, Active, StopLoop
      <3> QED BY Zenon, <3>1, <3>2, SameIInv
    <2>4. CASE CloseChannels(s)
      <3>1. UNCHANGED <<call, mu, mining>>
        BY Zenon, <2>4 DEF CloseChannels, control
      <3>2. Active' = Active
        BY <2>4 DEF TypeOK, Active, CloseChannels
      <3> QED BY Zenon, <3>1, <3>2, SameIInv
    <2>5. CASE NilWork(s)
      BY Zenon, <2>5, SameIInv DEF NilWork, control, session, Active
    <2>6. CASE \E i \in Ids, ok \in BOOLEAN : ConfirmCount(i, s, ok)
      <3>1. UNCHANGED <<call, mu, mining>>
        BY Zenon, <2>6 DEF ConfirmCount, control
      <3>2. Active' = Active
        <4>1. routine[s] = "confirm" /\ routine' = [routine EXCEPT ![s] = "loop"]
          BY Zenon, <2>6 DEF ConfirmCount
        <4> QED BY <4>1 DEF TypeOK, Active
      <3> QED BY Zenon, <3>1, <3>2, SameIInv
    <2> QED BY Zenon, <2>1, <2>2, <2>3, <2>4, <2>5, <2>6 DEF RoutineMine
  <1>2. CASE \E i \in Ids, s \in Calls : ConfirmLoad(i, s)
    <2>1. UNCHANGED <<call, mu, mining>>
      BY Zenon, <1>2 DEF ConfirmLoad, control
    <2>2. Active' = Active
      <3>1. \E s \in Calls : routine[s] = "loop" /\ routine' = [routine EXCEPT ![s] = "confirm"]
        BY Zenon, <1>2 DEF ConfirmLoad
      <3> QED BY <3>1 DEF TypeOK, Active
    <2> QED BY Zenon, <2>1, <2>2, SameIInv
  <1>3. CASE \E s \in Calls : Ticker(s)
    <2>1. UNCHANGED <<control, session>>
      BY Zenon, <1>3 DEF Ticker, TickerReturns, Tick, StartRound
    <2> QED BY Zenon, <2>1, SameIInv DEF control, session, Active
  <1>4. CASE \E i \in Ids : Round(i)
    <2>1. PICK i \in Ids : Round(i)
      BY Zenon, <1>4
    <2>2. CASE PostHeader(i) \/ PostRecovers(i) \/ RoundReturns(i) \/ TimeoutPanics(i)
      BY Zenon, <2>2, SameIInv
         DEF PostHeader, PostRecovers, RoundReturns, TimeoutPanics, control, session, Active
    <2>3. CASE ConfirmRecovers(i) \/ CheckTimeout(i) \/ TimeoutDelete(i) \/ FinalMine(i)
      BY Zenon, <2>3, SameIInv
         DEF ConfirmRecovers, CheckTimeout, TimeoutDelete, FinalMine, control, session, Active
    <2>4. CASE \E s \in Calls : ConfirmCh(i, s)
      BY Zenon, <2>4, SameIInv DEF ConfirmCh, control, session, Active
    <2> QED BY Zenon, <2>1, <2>2, <2>3, <2>4 DEF Round
  <1> QED BY Zenon, <1>1, <1>2, <1>3, <1>4

\* At most one RoutineMine serves the events of the worker and worker.mining
\* tells whether there is one, and the mutex is held exactly by the Stop between
\* its Lock and its Unlock, for any number of overlapping Start and Stop calls.
THEOREM OneSessionHolds == Spec => [](OneSession /\ MutexHeld)
  <1>1. TypeOK /\ IInv /\ [Next]_vars => IInv'
    <2> SUFFICES ASSUME TypeOK, IInv, [Next]_vars PROVE IInv'
      BY Zenon
    <2>1. CASE UNCHANGED vars
      BY Zenon, <2>1, SameIInv DEF vars, Active
    <2> QED BY Zenon, <2>1, CallIInv, OtherIInv DEF Next
  <1> QED BY InitIInv, TypeCorrect, <1>1, PTL DEF Spec, IInv
=============================================================================
