---------------------------- MODULE TxPoolProofs ----------------------------
(* Proofs about TxPool, for any numbers of transactions, callers, pipelines *)
(* and works, and any capacities.                                           *)
EXTENDS TxPool, TLAPS

\* The start of the pool is well typed.
LEMMA InitTypeOK == Init => TypeOK
  <1> SUFFICES ASSUME Init PROVE TypeOK
    BY Zenon
  <1> USE DEF Init
  <1>1. fullCh \in [Threads -> Seq(Tx)] /\ verifyCh \in [Threads -> Seq(Tx)]
    OBVIOUS
  <1>2. /\ caller \in [Callers -> Holding({"add", "send"})]
        /\ dealer \in [Threads -> Holding({"store", "send"})]
        /\ verifier \in [Threads -> Holding({"pend", "unqueue"})]
    BY Zenon DEF Holding
  <1>3. ender \in [Works -> [pc : {"idle", "loop", "done"}, ok : BOOLEAN,
                             todo : SUBSET Tx, num : Nat]]
    BY Zenon DEF NoEnder
  <1>4. taker \in [pc : {"idle", "range"}, id : Nat, todo : SUBSET Tx, txs : SUBSET Tx]
    BY Zenon
  <1>5. onChain \in [Tx -> Nat] /\ working \in [Works -> SUBSET Tx]
    BY Zenon
  <1>6. panicked \in BOOLEAN
    <2>1. panicked = FALSE
      BY Zenon
    <2> QED BY <2>1, Zenon
  <1> QED BY Zenon, <1>1, <1>2, <1>3, <1>4, <1>5, <1>6 DEF TypeOK

\* Every step of an AddTx call is well typed.
LEMMA AddTxTypeOK ==
  ASSUME TypeOK, NEW c \in Callers, AddTx(c)
  PROVE  TypeOK'
  <1> USE DEF TypeOK, Holding, Idle, entry, pipes, works
  <1>1. CASE \E t \in Tx : DupTx(c, t)
    <2>1. PICK t \in Tx : DupTx(c, t)
      BY Zenon, <1>1
    <2>2. caller' \in [Callers -> Holding({"add", "send"})]
      BY <2>1 DEF DupTx
    <2> QED BY Zenon, <2>1, <2>2 DEF DupTx
  <1>2. CASE KnownTxAdd(c)
    <2>1. caller[c].tx \in Tx
      BY <1>2 DEF KnownTxAdd
    <2>2. caller' \in [Callers -> Holding({"add", "send"})]
      <3>1. caller[c] \in [pc : {"add", "send"}, tx : Tx]
        BY <1>2 DEF KnownTxAdd
      <3>2. [caller[c] EXCEPT !.pc = "send"] \in [pc : {"add", "send"}, tx : Tx]
        BY Zenon, <3>1
      <3> QED BY Zenon, <1>2, <3>2 DEF KnownTxAdd
    <2>3. known' \subseteq Tx
      BY <1>2, <2>1 DEF KnownTxAdd
    <2> QED BY Zenon, <1>2, <2>2, <2>3 DEF KnownTxAdd
  <1>3. CASE SendToFull(c)
    <2>1. PICK p \in Threads \ closed :
            fullCh' = [fullCh EXCEPT ![p] = Append(@, caller[c].tx)]
      BY Zenon, <1>3 DEF SendToFull
    <2>2. caller[c].tx \in Tx
      BY <1>3 DEF SendToFull
    <2>3. fullCh' \in [Threads -> Seq(Tx)]
      BY <2>1, <2>2
    <2> QED BY Zenon, <1>3, <2>3 DEF SendToFull
  <1>4. CASE FullChIsFull(c)
    BY Zenon, <1>4 DEF FullChIsFull
  <1>5. CASE SendToClosed(c)
    BY Zenon, <1>5 DEF SendToClosed
  <1> QED BY Zenon, <1>1, <1>2, <1>3, <1>4, <1>5, AddTx(c) DEF AddTx

\* Every step of the goroutines of a pipeline is well typed.
LEMMA DealTypeOK ==
  ASSUME TypeOK, NEW p \in Threads, DealTxRoutine(p)
  PROVE  TypeOK'
  <1> USE DEF TypeOK, Holding, Idle, entry, pipes, works
  <1>1. CASE DealRecv(p)
    <2>1. Head(fullCh[p]) \in Tx /\ Tail(fullCh[p]) \in Seq(Tx)
      BY <1>1 DEF DealRecv
    <2>2. dealer' \in [Threads -> Holding({"store", "send"})]
      BY <1>1, <2>1 DEF DealRecv
    <2>3. fullCh' \in [Threads -> Seq(Tx)]
      BY Zenon, <1>1, <2>1 DEF DealRecv
    <2> QED BY Zenon, <1>1, <2>2, <2>3 DEF DealRecv
  <1>2. CASE DealStore(p)
    <2>1. dealer[p].tx \in Tx
      BY <1>2 DEF DealStore
    <2>2. dealer' \in [Threads -> Holding({"store", "send"})]
      <3>1. dealer[p] \in [pc : {"store", "send"}, tx : Tx]
        BY <1>2 DEF DealStore
      <3>2. [dealer[p] EXCEPT !.pc = "send"] \in [pc : {"store", "send"}, tx : Tx]
        BY Zenon, <3>1
      <3> QED BY Zenon, <1>2, <3>2 DEF DealStore
    <2> QED BY <1>2, <2>1, <2>2 DEF DealStore
  <1>3. CASE SendToVerify(p)
    <2>1. dealer[p].tx \in Tx
      BY <1>3 DEF SendToVerify
    <2>2. verifyCh' \in [Threads -> Seq(Tx)]
      <3>1. Append(verifyCh[p], dealer[p].tx) \in Seq(Tx)
        BY <2>1
      <3> QED BY Zenon, <1>3, <3>1 DEF SendToVerify
    <2>3. panicked' \in BOOLEAN
      <3>1. panicked' = TRUE \/ panicked' = panicked
        BY Zenon, <1>3 DEF SendToVerify
      <3> QED BY <3>1, Zenon
    <2>4. dealer' \in [Threads -> Holding({"store", "send"})]
      <3>1. dealer' = dealer \/ dealer' = [dealer EXCEPT ![p] = Idle]
        BY Zenon, <1>3 DEF SendToVerify
      <3>2. dealer \in [Threads -> Holding({"store", "send"})] /\ Idle \in Holding({"store", "send"})
        BY Zenon
      <3> QED BY Zenon, <3>1, <3>2
    <2> QED BY Zenon, <1>3, <2>2, <2>3, <2>4 DEF SendToVerify
  <1>4. CASE VerifyRecv(p)
    <2>1. Head(verifyCh[p]) \in Tx /\ Tail(verifyCh[p]) \in Seq(Tx)
      BY <1>4 DEF VerifyRecv
    <2>2. verifier' \in [Threads -> Holding({"pend", "unqueue"})]
      BY <1>4, <2>1 DEF VerifyRecv
    <2>3. verifyCh' \in [Threads -> Seq(Tx)]
      BY Zenon, <1>4, <2>1 DEF VerifyRecv
    <2> QED BY Zenon, <1>4, <2>2, <2>3 DEF VerifyRecv
  <1>5. CASE VerifyPend(p)
    <2>1. verifier[p].tx \in Tx
      BY <1>5 DEF VerifyPend
    <2>2. verifier' \in [Threads -> Holding({"pend", "unqueue"})]
      <3>1. verifier[p] \in [pc : {"pend", "unqueue"}, tx : Tx]
        BY <1>5 DEF VerifyPend
      <3>2. [verifier[p] EXCEPT !.pc = "unqueue"] \in [pc : {"pend", "unqueue"}, tx : Tx]
        BY Zenon, <3>1
      <3> QED BY Zenon, <1>5, <3>2 DEF VerifyPend
    <2> QED BY <1>5, <2>1, <2>2 DEF VerifyPend
  <1>6. CASE VerifyUnqueue(p)
    BY Zenon, <1>6 DEF VerifyUnqueue
  <1> QED BY Zenon, <1>1, <1>2, <1>3, <1>4, <1>5, <1>6, DealTxRoutine(p) DEF DealTxRoutine

\* Every step of Pending is well typed.
LEMMA PendingTypeOK ==
  ASSUME TypeOK, Pending
  PROVE  TypeOK'
  <1> USE DEF TypeOK, entry, pipes
  <1>1. CASE PendingBegin
    <2>1. taker.id + 1 \in Nat
      OBVIOUS
    <2>2. taker' \in [pc : {"idle", "range"}, id : Nat, todo : SUBSET Tx, txs : SUBSET Tx]
      BY Zenon, <1>1, <2>1 DEF PendingBegin
    <2> QED BY Zenon, <1>1, <2>2 DEF PendingBegin
  <1>2. CASE \E t \in Tx : PendingTake(t)
    <2>1. PICK t \in Tx : PendingTake(t)
      BY Zenon, <1>2
    <2>2. taker' \in [pc : {"idle", "range"}, id : Nat, todo : SUBSET Tx, txs : SUBSET Tx]
      BY Zenon, <2>1 DEF PendingTake
    <2> QED BY Zenon, <2>1, <2>2 DEF PendingTake
  <1>3. CASE PendingEnd
    BY Zenon, <1>3 DEF PendingEnd
  <1> QED BY Zenon, <1>1, <1>2, <1>3, Pending DEF Pending

\* A bound that grows still bounds.
LEMMA SumMonotone ==
  \A a, b, p, n \in Nat : a <= b /\ n <= a + p => n <= b + p
  OBVIOUS

\* The block of an ended work has a number, at most PoolBlockCount above the head.
LEMMA LoadedNumber ==
  ASSUME TypeOK, NEW w \in Works, NEW ok \in BOOLEAN, WorkEndedLoad(w, ok)
  PROVE  \E num \in Nat :
           /\ ender' = [ender EXCEPT ![w] = [pc |-> "loop", ok |-> ok, todo |-> working[w], num |-> num]]
           /\ height' \in Nat /\ height <= height'
           /\ ok => num \in 1..(height' + PoolBlockCount)
  <1>1. PICK num \in 0..(MaxHeight + PoolBlockCount) :
          /\ IF ok THEN WrittenAt(num) ELSE num = 0 /\ UNCHANGED height
          /\ ender' = [ender EXCEPT ![w] = [pc |-> "loop", ok |-> ok, todo |-> working[w], num |-> num]]
    BY Zenon DEF WorkEndedLoad
  <1>2. num \in Nat /\ height \in Nat /\ PoolBlockCount \in Nat
    BY TxPoolConstants DEF TypeOK
  <1>3. /\ height' \in Nat /\ height <= height'
        /\ ok => num \in 1..(height' + PoolBlockCount)
    BY <1>1, <1>2 DEF WrittenAt
  <1> QED BY Zenon, <1>1, <1>2, <1>3

\* Every step of WorkEnded is well typed.
LEMMA WorkEndedTypeOK ==
  ASSUME TypeOK, NEW w \in Works, WorkEnded(w)
  PROVE  TypeOK'
  <1> DEFINE Ends == [pc : {"idle", "loop", "done"}, ok : BOOLEAN, todo : SUBSET Tx, num : Nat]
  <1> USE DEF TypeOK, entry, pipes
  <1>4. ender \in [Works -> Ends] /\ ender[w] \in Ends
    BY Zenon
  <1>1. CASE \E ok \in BOOLEAN : WorkEndedLoad(w, ok)
    <2>1. PICK ok \in BOOLEAN : WorkEndedLoad(w, ok)
      BY Zenon, <1>1
    <2>2. PICK num \in Nat :
            /\ ender' = [ender EXCEPT ![w] = [pc |-> "loop", ok |-> ok, todo |-> working[w], num |-> num]]
            /\ height' \in Nat
      BY <2>1, LoadedNumber
    <2>3. ender' \in [Works -> Ends]
      <3>1. [pc |-> "loop", ok |-> ok, todo |-> working[w], num |-> num] \in Ends
        BY Zenon
      <3> HIDE DEF Ends
      <3> QED BY Zenon, <1>4, <2>2, <3>1
    <2> QED BY Zenon, <2>1, <2>2, <2>3 DEF WorkEndedLoad
  <1>2. CASE \E t \in Tx : WorkEndedStore(w, t)
    <2>1. PICK t \in Tx : WorkEndedStore(w, t)
      BY Zenon, <1>2
    <2>2. ender' \in [Works -> Ends]
      <3>1. [ender[w] EXCEPT !.todo = @ \ {t}] \in Ends
        BY Zenon, <1>4
      <3>2. ender' = [ender EXCEPT ![w] = [ender[w] EXCEPT !.todo = @ \ {t}]]
        BY Zenon, <2>1 DEF WorkEndedStore
      <3> HIDE DEF Ends
      <3> QED BY Zenon, <1>4, <3>1, <3>2
    <2>3. onChain' \in [Tx -> Nat] /\ pending' \subseteq Tx
      BY Zenon, <2>1 DEF WorkEndedStore
    <2> QED BY Zenon, <2>1, <2>2, <2>3 DEF WorkEndedStore
  <1>3. CASE WorkEndedDelete(w)
    <2>1. ender' \in [Works -> Ends]
      <3>1. [ender[w] EXCEPT !.pc = "done"] \in Ends
        BY Zenon, <1>4
      <3>2. ender' = [ender EXCEPT ![w] = [ender[w] EXCEPT !.pc = "done"]]
        BY Zenon, <1>3 DEF WorkEndedDelete
      <3> HIDE DEF Ends
      <3> QED BY Zenon, <1>4, <3>1, <3>2
    <2>2. working' \in [Works -> SUBSET Tx]
      BY <1>3 DEF WorkEndedDelete
    <2> QED BY Zenon, <1>3, <2>1, <2>2 DEF WorkEndedDelete
  <1> QED BY <1>1, <1>2, <1>3, WorkEnded(w) DEF WorkEnded

\* Every step of the pool is well typed.
LEMMA NextTypeOK == TypeOK /\ [Next]_vars => TypeOK'
  <1> SUFFICES ASSUME TypeOK, [Next]_vars PROVE TypeOK'
    BY Zenon
  <1>1. CASE \E c \in Callers : AddTx(c)
    BY Zenon, <1>1, AddTxTypeOK
  <1>2. CASE \E p \in Threads : DealTxRoutine(p)
    BY Zenon, <1>2, DealTypeOK
  <1>3. CASE Pending
    BY Zenon, <1>3, PendingTypeOK
  <1>4. CASE \E w \in Works : WorkEnded(w)
    BY Zenon, <1>4, WorkEndedTypeOK
  <1>5. CASE FitOnChain
    BY Zenon, <1>5 DEF FitOnChain, TypeOK, entry, pipes, works
  <1>6. CASE \E p \in Threads : Stop(p)
    BY <1>6 DEF Stop, TypeOK, entry, pipes, works
  <1>7. CASE UNCHANGED vars
    BY Zenon, <1>7 DEF vars, TypeOK
  <1> QED BY Zenon, <1>1, <1>2, <1>3, <1>4, <1>5, <1>6, <1>7 DEF Next

\* The pool is always well typed.
THEOREM TypeCorrect == Spec => []TypeOK
  BY InitTypeOK, NextTypeOK, PTL DEF Spec

-----------------------------------------------------------------------------
(* No accepted transaction is lost.                                        *)

\* Appending to a channel adds one element.
LEMMA ElemsAppend ==
  ASSUME NEW s \in Seq(Tx), NEW t \in Tx
  PROVE  Elems(Append(s, t)) = Elems(s) \cup {t}
  <1>1. /\ Len(Append(s, t)) = Len(s) + 1
        /\ Append(s, t)[Len(s) + 1] = t
        /\ \A i \in 1..Len(s) : Append(s, t)[i] = s[i]
    OBVIOUS
  <1>2. Len(s) \in Nat
    OBVIOUS
  <1> QED BY <1>1, <1>2 DEF Elems

\* Receiving from a channel takes its first element.
LEMMA ElemsTail ==
  ASSUME NEW s \in Seq(Tx), s # <<>>
  PROVE  Elems(s) = {Head(s)} \cup Elems(Tail(s))
  <1>1. /\ Len(Tail(s)) = Len(s) - 1
        /\ Len(s) \in Nat \ {0}
        /\ Head(s) = s[1]
        /\ \A i \in 1..(Len(s) - 1) : Tail(s)[i] = s[i + 1]
    OBVIOUS
  <1>2. ASSUME NEW i \in 1..Len(s)
        PROVE  s[i] \in {Head(s)} \cup Elems(Tail(s))
    <2>1. CASE i = 1
      BY Zenon, <1>1, <2>1
    <2>2. CASE i # 1
      <3>1. i - 1 \in 1..Len(Tail(s)) /\ Tail(s)[i - 1] = s[i]
        BY <1>1, <2>2
      <3> QED BY Zenon, <3>1 DEF Elems
    <2> QED BY Zenon, <2>1, <2>2
  <1>3. ASSUME NEW i \in 1..Len(Tail(s))
        PROVE  i + 1 \in 1..Len(s) /\ Tail(s)[i] = s[i + 1]
    BY <1>1
  <1>4. 1 \in 1..Len(s)
    BY <1>1
  <1>5. Elems(Tail(s)) \subseteq Elems(s)
    BY <1>3 DEF Elems
  <1>6. Head(s) \in Elems(s)
    BY Zenon, <1>1, <1>4 DEF Elems
  <1>7. Elems(s) \subseteq {Head(s)} \cup Elems(Tail(s))
    BY Zenon, <1>2 DEF Elems
  <1> QED BY Zenon, <1>5, <1>6, <1>7

\* A step that leaves the works, pending and onChain alone leaves Landed alone.
LEMMA LandedSame ==
  ASSUME UNCHANGED <<pending, taker, working, ender, onChain>>
  PROVE  Landed' = Landed
  BY Zenon DEF Landed, Chained, Held, HeldBy

\* No transaction is ever old enough for FitOnChain.
LEMMA NoneEvictable ==
  ASSUME TypeOK, HandOver
  PROVE  \A t \in Tx : ~Evictable(t)
  BY TxPoolConstants DEF TypeOK, HandOver, WorksHandOver, Evictable

\* What has landed stays: pending, the works and onChain pass every
\* transaction on to each other.
LEMMA LandedGrows ==
  ASSUME TypeOK, HandOver, [Next]_vars
  PROVE  Landed \subseteq Landed'
  <1>1. CASE \E c \in Callers : AddTx(c)
    BY Zenon, <1>1, LandedSame
       DEF AddTx, DupTx, KnownTxAdd, SendToFull, FullChIsFull, SendToClosed, works
  <1>2. CASE \E p \in Threads : DealTxRoutine(p)
    <2>1. PICK p \in Threads : DealTxRoutine(p)
      BY Zenon, <1>2
    <2>2. CASE VerifyPend(p)
      <3>1. pending \subseteq pending' /\ UNCHANGED <<taker, working, ender, onChain>>
        BY Zenon, <2>2 DEF VerifyPend, works
      <3> QED BY <3>1 DEF Landed, Chained, Held, HeldBy
    <2>3. CASE ~VerifyPend(p)
      BY Zenon, <2>1, <2>3, LandedSame
         DEF DealTxRoutine, DealRecv, DealStore, SendToVerify, VerifyRecv, VerifyUnqueue, works
    <2> QED BY Zenon, <2>2, <2>3
  <1>3. CASE PendingBegin
    BY <1>3 DEF PendingBegin, Landed, Chained, Held, HeldBy, HandOver, WorksHandOver, TypeOK
  <1>4. CASE \E t \in Tx : PendingTake(t)
    BY <1>4 DEF PendingTake, Landed, Chained, Held, HeldBy, TypeOK
  <1>5. CASE PendingEnd
    BY <1>5 DEF PendingEnd, Landed, Chained, Held, HeldBy, TypeOK, HandOver, WorksHandOver
  <1>6. CASE \E w \in Works : WorkEnded(w)
    <2>1. PICK w \in Works : WorkEnded(w)
      BY Zenon, <1>6
    <2>2. CASE \E ok \in BOOLEAN : WorkEndedLoad(w, ok)
      BY <2>2 DEF WorkEndedLoad, Landed, Chained, Held, HeldBy, TypeOK
    <2>3. CASE \E t \in Tx : WorkEndedStore(w, t)
      <3>1. PICK t \in Tx : WorkEndedStore(w, t)
        BY Zenon, <2>3
      <3>2. \A v \in Works : HeldBy(v) \subseteq HeldBy(v)' \cup {t}
        BY <3>1 DEF WorkEndedStore, HeldBy, TypeOK
      <3>3. taker' = taker
        BY Zenon, <3>1 DEF WorkEndedStore
      <3>4. t \in pending' \cup Chained' /\ pending \subseteq pending' /\ Chained \subseteq Chained'
        <4>1. CASE ender[w].ok
          <5>1. ender[w].num \in Nat \ {0}
            BY <3>1, <4>1 DEF WorkEndedStore, HandOver, WorksHandOver, TypeOK
          <5>2. onChain' = [onChain EXCEPT ![t] = ender[w].num] /\ pending' = pending
            BY Zenon, <3>1, <4>1 DEF WorkEndedStore
          <5> QED BY Zenon, <5>1, <5>2 DEF Chained, TypeOK
        <4>2. CASE ~ender[w].ok
          BY Zenon, <3>1, <4>2 DEF WorkEndedStore, Chained
        <4> QED BY Zenon, <4>1, <4>2
      <3>5. Held \subseteq Held' \cup {t}
        BY Zenon, <3>2 DEF Held
      <3> QED BY Zenon, <3>3, <3>4, <3>5 DEF Landed
    <2>4. CASE WorkEndedDelete(w)
      <3>1. \A v \in Works : HeldBy(v)' = HeldBy(v)
        <4>1. ender[w].pc = "loop" /\ ender[w].todo = {}
          BY Zenon, <2>4 DEF WorkEndedDelete
        <4>2. \A v \in Works \ {w} : ender'[v] = ender[v] /\ working'[v] = working[v]
          BY Zenon, <2>4 DEF WorkEndedDelete, TypeOK
        <4>3. ender'[w].pc = "done" /\ working'[w] = {}
          BY Zenon, <2>4 DEF WorkEndedDelete, TypeOK
        <4>4. HeldBy(w)' = HeldBy(w)
          BY Zenon, <4>1, <4>3 DEF HeldBy
        <4>5. \A v \in Works \ {w} : HeldBy(v)' = HeldBy(v)
          BY Zenon, <4>2 DEF HeldBy
        <4> QED BY Zenon, <4>4, <4>5
      <3>2. UNCHANGED <<pending, taker, onChain>>
        BY Zenon, <2>4 DEF WorkEndedDelete
      <3> QED BY <3>1, <3>2 DEF Landed, Chained, Held
    <2> QED BY Zenon, <2>1, <2>2, <2>3, <2>4 DEF WorkEnded
  <1>7. CASE FitOnChain
    BY <1>7, NoneEvictable DEF FitOnChain, Landed, Chained, Held, HeldBy, TypeOK, works
  <1>8. CASE \E p \in Threads : Stop(p)
    BY Zenon, <1>8, LandedSame DEF Stop, works
  <1>9. CASE UNCHANGED vars
    BY Zenon, <1>9, LandedSame DEF vars
  <1> QED BY Zenon, <1>1, <1>2, <1>3, <1>4, <1>5, <1>6, <1>7, <1>8, <1>9 DEF Next, Pending

\* The goroutines of the pipelines keep handing over.
LEMMA PipesStep ==
  ASSUME TypeOK, HandOver, [Next]_vars
  PROVE  PipesHandOver'
  <1>1. Landed \subseteq Landed'
    BY Zenon, LandedGrows
  <1>2. CASE UNCHANGED <<queue, dealer, verifier>>
    <2>1. Queued' = Queued
      BY Zenon, <1>2 DEF Queued
    <2> QED BY Zenon, <1>1, <1>2, <2>1 DEF PipesHandOver, HandOver
  <1>3. CASE \E p \in Threads : DealTxRoutine(p)
    <2>1. PICK p \in Threads : DealTxRoutine(p)
      BY Zenon, <1>3
    <2> USE DEF TypeOK, HandOver, PipesHandOver, Idle, Holding
    <2>2. CASE DealRecv(p)
      <3>1. Queued' = Queued
        BY Zenon, <2>2 DEF DealRecv, Queued
      <3> QED BY <1>1, <2>2, <3>1 DEF DealRecv
    <2>3. CASE DealStore(p)
      <3>1. Queued \subseteq Queued'
        BY Zenon, <2>3 DEF DealStore, Queued
      <3>2. dealer[p].tx \in Queued' \cup Landed
        BY Zenon, <2>3 DEF DealStore, Queued
      <3> QED BY <1>1, <2>3, <3>1, <3>2 DEF DealStore
    <2>4. CASE SendToVerify(p)
      <3>1. Queued' = Queued
        BY Zenon, <2>4 DEF SendToVerify, Queued
      <3>2. verifier' = verifier /\ \A q \in Threads : dealer'[q].pc = "send" => dealer'[q] = dealer[q]
        BY <2>4 DEF SendToVerify
      <3> QED BY <1>1, <3>1, <3>2
    <2>5. CASE VerifyRecv(p)
      <3>1. Queued' = Queued
        BY Zenon, <2>5 DEF VerifyRecv, Queued
      <3> QED BY <1>1, <2>5, <3>1 DEF VerifyRecv
    <2>6. CASE VerifyPend(p)
      <3>1. verifier[p].tx \in Landed'
        BY Zenon, <2>6 DEF VerifyPend, Landed
      <3>2. Queued \subseteq Queued' \cup {verifier[p].tx}
        BY <2>6 DEF VerifyPend, Queued
      <3> QED BY <1>1, <2>6, <3>1, <3>2 DEF VerifyPend
    <2>7. CASE VerifyUnqueue(p)
      <3>1. Queued \subseteq Queued'
        BY Zenon, <2>7 DEF VerifyUnqueue, Queued
      <3>2. dealer' = dealer /\ \A q \in Threads : verifier'[q].pc = "unqueue" => verifier'[q] = verifier[q]
        BY <2>7 DEF VerifyUnqueue
      <3> QED BY Zenon, <1>1, <3>1, <3>2
    <2> QED BY Zenon, <2>1, <2>2, <2>3, <2>4, <2>5, <2>6, <2>7 DEF DealTxRoutine
  <1>4. CASE ~\E p \in Threads : DealTxRoutine(p)
    <2>1. UNCHANGED <<queue, dealer, verifier>>
      BY Zenon, <1>4 DEF Next, vars, AddTx, DupTx, KnownTxAdd, SendToFull, FullChIsFull, SendToClosed,
                  Pending, PendingBegin, PendingTake, PendingEnd, WorkEnded, WorkEndedLoad,
                  WorkEndedStore, WorkEndedDelete, FitOnChain, Stop, pipes
    <2> QED BY Zenon, <1>2, <2>1
  <1> QED BY Zenon, <1>3, <1>4

\* The works keep handing over.
LEMMA WorksStep ==
  ASSUME TypeOK, HandOver, [Next]_vars
  PROVE  WorksHandOver'
  <1> USE DEF HandOver, WorksHandOver
  <1>1. CASE UNCHANGED <<onChain, height, ender, working, taker>>
    BY Zenon, <1>1
  <1>2. CASE PendingBegin
    <2>1. \A w \in Works : w > taker'.id \/ w = taker'.id => w > taker.id
      BY <1>2, TxPoolConstants DEF PendingBegin, TypeOK
    <2> QED BY <1>2, <2>1 DEF PendingBegin, TypeOK
  <1>3. CASE \E t \in Tx : PendingTake(t)
    BY <1>3 DEF PendingTake, TypeOK
  <1>4. CASE PendingEnd
    BY <1>4, TxPoolConstants DEF PendingEnd, TypeOK
  <1>5. CASE \E w \in Works, ok \in BOOLEAN : WorkEndedLoad(w, ok)
    <2>1. PICK w \in Works, ok \in BOOLEAN : WorkEndedLoad(w, ok)
      BY Zenon, <1>5
    <2>2. PICK num \in Nat :
            /\ ender' = [ender EXCEPT ![w] = [pc |-> "loop", ok |-> ok, todo |-> working[w], num |-> num]]
            /\ height' \in Nat /\ height <= height'
            /\ ok => num \in 1..(height' + PoolBlockCount)
      BY <2>1, LoadedNumber
    <2>3. UNCHANGED <<onChain, working, taker>> /\ working[w] # {} /\ ender[w].pc = "idle"
      BY Zenon, <2>1 DEF WorkEndedLoad
    <2>4. \A n \in Nat : n <= height + PoolBlockCount => n <= height' + PoolBlockCount
      <3>1. height \in Nat /\ PoolBlockCount \in Nat
        BY Zenon, TxPoolConstants DEF TypeOK
      <3>2. height' \in Nat /\ height <= height'
        BY Zenon, <2>2
      <3> QED BY Zenon, <3>1, <3>2, SumMonotone
    <2>5. \A t \in Tx : onChain'[t] <= height' + PoolBlockCount
      BY Zenon, <2>3, <2>4 DEF TypeOK
    <2>6. \A v \in Works :
            /\ ender'[v].pc = "loop" /\ ender'[v].ok => ender'[v].num \in 1..(height' + PoolBlockCount)
            /\ ender'[v].pc = "loop" => ender'[v].todo \subseteq working'[v]
            /\ ender'[v].pc = "done" => working'[v] = {}
      <3> SUFFICES ASSUME NEW v \in Works
                   PROVE  /\ ender'[v].pc = "loop" /\ ender'[v].ok => ender'[v].num \in 1..(height' + PoolBlockCount)
                          /\ ender'[v].pc = "loop" => ender'[v].todo \subseteq working'[v]
                          /\ ender'[v].pc = "done" => working'[v] = {}
        BY Zenon
      <3>1. CASE v = w
        BY <2>2, <2>3, <3>1 DEF TypeOK
      <3>2. CASE v # w
        <4>1. ender'[v] = ender[v] /\ ender[v].num \in Nat
          BY <2>2, <3>2 DEF TypeOK
        <4> QED BY <2>3, <2>4, <4>1
      <3> QED BY Zenon, <3>1, <3>2
    <2>7. \A v \in Works : v > taker.id \/ (v = taker.id /\ taker.pc = "range") => v # w
      BY Zenon, <2>3
    <2> QED BY <2>2, <2>3, <2>5, <2>6, <2>7 DEF TypeOK
  <1>6. CASE \E w \in Works, t \in Tx : WorkEndedStore(w, t)
    <2>1. PICK w \in Works, t \in Tx : WorkEndedStore(w, t)
      BY Zenon, <1>6
    <2>2. \A u \in Tx : onChain'[u] <= height + PoolBlockCount
      <3>1. CASE ender[w].ok
        <4>1. ender[w].num <= height + PoolBlockCount
          BY <2>1, <3>1 DEF WorkEndedStore, TypeOK
        <4>2. onChain' = [onChain EXCEPT ![t] = ender[w].num]
          BY Zenon, <2>1, <3>1 DEF WorkEndedStore
        <4> QED BY Zenon, <4>1, <4>2 DEF TypeOK
      <3>2. CASE ~ender[w].ok
        BY Zenon, <2>1, <3>2 DEF WorkEndedStore
      <3> QED BY Zenon, <3>1, <3>2
    <2>3. \A v \in Works : /\ ender'[v].pc = ender[v].pc
                            /\ ender'[v].ok = ender[v].ok
                            /\ ender'[v].num = ender[v].num
                            /\ ender'[v].todo \subseteq ender[v].todo
      BY <2>1 DEF WorkEndedStore, TypeOK
    <2>4. UNCHANGED <<working, taker, height>>
      BY Zenon, <2>1 DEF WorkEndedStore
    <2> QED BY <2>2, <2>3, <2>4
  <1>7. CASE \E w \in Works : WorkEndedDelete(w)
    <2>1. PICK w \in Works : WorkEndedDelete(w)
      BY Zenon, <1>7
    <2>2. UNCHANGED <<onChain, height, taker>> /\ ender[w].pc = "loop"
      BY Zenon, <2>1 DEF WorkEndedDelete
    <2>3. \A v \in Works \ {w} : ender'[v] = ender[v] /\ working'[v] = working[v]
      BY Zenon, <2>1 DEF WorkEndedDelete, TypeOK
    <2>4. ender'[w].pc = "done" /\ working'[w] = {}
      BY <2>1 DEF WorkEndedDelete, TypeOK
    <2>5. ~(w > taker.id \/ (w = taker.id /\ taker.pc = "range"))
      BY Zenon, <2>2
    <2> QED BY <2>2, <2>3, <2>4, <2>5
  <1>8. CASE FitOnChain
    <2>1. PoolBlockCount \in Nat /\ height \in Nat
      BY Zenon, TxPoolConstants DEF TypeOK
    <2>2. \A t \in Tx : onChain'[t] \in {0, onChain[t]}
      BY Zenon, <1>8 DEF FitOnChain
    <2>3. \A t \in Tx : onChain'[t] <= height + PoolBlockCount
      BY <2>1, <2>2
    <2> QED BY Zenon, <1>8, <2>3 DEF FitOnChain, works
  <1>9. UNCHANGED <<onChain, height, ender, working, taker>>
          \/ Pending \/ (\E w \in Works : WorkEnded(w)) \/ FitOnChain
    BY DEF Next, vars, AddTx, DupTx, KnownTxAdd, SendToFull, FullChIsFull, SendToClosed, Stop,
           DealTxRoutine, DealRecv, DealStore, SendToVerify, VerifyRecv, VerifyPend,
           VerifyUnqueue, works
  <1> QED BY Zenon, <1>1, <1>2, <1>3, <1>4, <1>5, <1>6, <1>7, <1>8, <1>9 DEF Pending, WorkEnded

\* The inductive invariant: what the goroutines hand to each other always has
\* a place, for any number of callers, pipelines and works.
THEOREM HandOverHolds == Spec => []HandOver
  <1>1. Init => HandOver
    <2> SUFFICES ASSUME Init PROVE HandOver
      BY Zenon
    <2>1. PipesHandOver
      BY Zenon DEF Init, PipesHandOver, Idle
    <2>2. WorksHandOver
      BY TxPoolConstants DEF Init, WorksHandOver, NoEnder
    <2> QED BY Zenon, <2>1, <2>2 DEF HandOver
  <1>2. TypeOK /\ HandOver /\ [Next]_vars => HandOver'
    BY Zenon, PipesStep, WorksStep DEF HandOver
  <1> QED BY <1>1, <1>2, TypeCorrect, PTL DEF Spec

\* A step that leaves the pipelines alone leaves what they hold alone.
LEMMA PipedSame ==
  ASSUME UNCHANGED <<fullCh, verifyCh, dealer, verifier, queue>>
  PROVE  Piped' = Piped /\ Queued' = Queued
  BY DEF Piped, InPipe, Queued

\* A step of pipeline p leaves the others alone, so only what p held matters.
LEMMA OnePipe ==
  ASSUME TypeOK, NEW p \in Threads,
         \A q \in Threads \ {p} : InPipe(q)' = InPipe(q),
         InPipe(p) \subseteq Accepted',
         Queued \subseteq Accepted',
         Landed \subseteq Landed'
  PROVE  Accepted \subseteq Accepted'
  <1>1. \A t \in Piped : t \in Accepted'
    <2> SUFFICES ASSUME NEW t \in Piped PROVE t \in Accepted'
      BY Zenon
    <2>1. PICK q \in Threads : t \in InPipe(q)
      BY Zenon DEF Piped
    <2>2. CASE q = p
      BY Zenon, <2>1, <2>2
    <2>3. CASE q # p
      BY Zenon, <2>1, <2>3 DEF Piped, Accepted
    <2> QED BY Zenon, <2>2, <2>3
  <1> QED BY Zenon, <1>1 DEF Accepted

\* No step of the pool loses an accepted transaction.
LEMMA AcceptedGrows ==
  ASSUME TypeOK, HandOver, [Next]_vars
  PROVE  Accepted \subseteq Accepted'
  <1>1. Landed \subseteq Landed'
    BY Zenon, LandedGrows
  <1>2. CASE UNCHANGED <<fullCh, verifyCh, dealer, verifier, queue>>
    BY Zenon, <1>1, <1>2, PipedSame DEF Accepted
  <1>3. CASE \E c \in Callers : SendToFull(c)
    <2>1. PICK c \in Callers : SendToFull(c)
      BY Zenon, <1>3
    <2>2. PICK p \in Threads : fullCh' = [fullCh EXCEPT ![p] = Append(@, caller[c].tx)]
      BY Zenon, <2>1 DEF SendToFull
    <2>3. caller[c].tx \in Tx
      BY <2>1 DEF SendToFull, TypeOK, Holding, Idle
    <2>4. \A q \in Threads : Elems(fullCh[q]) \subseteq Elems(fullCh'[q])
      <3>1. Elems(Append(fullCh[p], caller[c].tx)) = Elems(fullCh[p]) \cup {caller[c].tx}
        BY Zenon, <2>3, ElemsAppend DEF TypeOK
      <3> QED BY Zenon, <2>2, <3>1 DEF TypeOK
    <2>5. \A q \in Threads : InPipe(q) \subseteq InPipe(q)'
      BY <2>1, <2>4 DEF SendToFull, InPipe
    <2>6. Piped \subseteq Piped'
      BY Zenon, <2>5 DEF Piped
    <2>7. Queued' = Queued
      BY Zenon, <2>1 DEF SendToFull, Queued
    <2> QED BY Zenon, <1>1, <2>6, <2>7 DEF Accepted
  <1>4. CASE \E p \in Threads : DealTxRoutine(p)
    <2>1. PICK p \in Threads : DealTxRoutine(p)
      BY Zenon, <1>4
    <2>2. InPipe(p) \subseteq Tx /\ InPipe(p)' \cap Tx \subseteq Piped'
      <3>1. Elems(fullCh[p]) \subseteq Tx /\ Elems(verifyCh[p]) \subseteq Tx
        BY DEF Elems, TypeOK
      <3>2. /\ dealer[p].pc # "idle" => dealer[p].tx \in Tx
            /\ verifier[p].pc = "pend" => verifier[p].tx \in Tx
        BY DEF TypeOK, Holding, Idle
      <3>3. InPipe(p) \subseteq Tx
        BY Zenon, <3>1, <3>2 DEF InPipe
      <3> QED BY Zenon, <3>3 DEF Piped
    <2>3. CASE DealRecv(p)
      <3>1. Elems(fullCh[p]) = {Head(fullCh[p])} \cup Elems(fullCh'[p])
        BY Zenon, <2>3, ElemsTail DEF DealRecv, TypeOK
      <3>2. InPipe(p)' = InPipe(p) /\ \A q \in Threads \ {p} : InPipe(q)' = InPipe(q)
        BY <2>3, <3>1 DEF DealRecv, InPipe, TypeOK
      <3>3. Queued' = Queued
        BY Zenon, <2>3 DEF DealRecv, Queued
      <3> QED BY Zenon, <1>1, <2>2, <3>2, <3>3, OnePipe DEF Accepted
    <2>4. CASE DealStore(p)
      <3>1. \A q \in Threads : InPipe(q)' = InPipe(q)
        BY <2>4 DEF DealStore, InPipe, TypeOK
      <3>2. Queued \subseteq Queued'
        BY Zenon, <2>4 DEF DealStore, Queued
      <3> QED BY Zenon, <1>1, <2>2, <3>1, <3>2, OnePipe DEF Accepted
    <2>5. CASE SendToVerify(p)
      <3>1. Queued' = Queued
        BY Zenon, <2>5 DEF SendToVerify, Queued
      <3>2. \A q \in Threads \ {p} : InPipe(q)' = InPipe(q)
        BY <2>5 DEF SendToVerify, InPipe, TypeOK
      <3>3. dealer[p].tx \in Queued \cup Landed
        BY Zenon, <2>5 DEF SendToVerify, HandOver, PipesHandOver
      <3>4. dealer[p].tx \in Tx
        BY <2>5 DEF SendToVerify, TypeOK, Holding, Idle
      <3>5. Elems(verifyCh[p]) \subseteq Elems(verifyCh'[p])
        <4>1. Elems(verifyCh[p]) \subseteq Elems(Append(verifyCh[p], dealer[p].tx))
          BY <3>4, ElemsAppend DEF TypeOK
        <4> QED BY Zenon, <2>5, <4>1 DEF SendToVerify, TypeOK
      <3>6. InPipe(p) \subseteq InPipe(p)' \cup {dealer[p].tx}
        BY <2>5, <3>5 DEF SendToVerify, InPipe
      <3> QED BY Zenon, <1>1, <2>2, <3>1, <3>2, <3>3, <3>6, OnePipe DEF Accepted
    <2>6. CASE VerifyRecv(p)
      <3>1. Elems(verifyCh[p]) = {Head(verifyCh[p])} \cup Elems(verifyCh'[p])
        BY Zenon, <2>6, ElemsTail DEF VerifyRecv, TypeOK
      <3>2. InPipe(p)' = InPipe(p) /\ \A q \in Threads \ {p} : InPipe(q)' = InPipe(q)
        BY <2>6, <3>1 DEF VerifyRecv, InPipe, TypeOK
      <3>3. Queued' = Queued
        BY Zenon, <2>6 DEF VerifyRecv, Queued, TypeOK
      <3> QED BY Zenon, <1>1, <2>2, <3>2, <3>3, OnePipe DEF Accepted
    <2>7. CASE VerifyPend(p)
      <3>1. verifier[p].tx \in Landed'
        BY Zenon, <2>7 DEF VerifyPend, Landed
      <3>2. Queued \subseteq Queued' \cup {verifier[p].tx}
        BY <2>7 DEF VerifyPend, Queued, TypeOK
      <3>3. InPipe(p) \subseteq InPipe(p)' \cup {verifier[p].tx}
        BY Zenon, <2>7 DEF VerifyPend, InPipe, TypeOK
      <3>4. \A q \in Threads \ {p} : InPipe(q)' = InPipe(q)
        BY <2>7 DEF VerifyPend, InPipe, TypeOK
      <3> QED BY Zenon, <1>1, <2>2, <3>1, <3>2, <3>3, <3>4, OnePipe DEF Accepted
    <2>8. CASE VerifyUnqueue(p)
      <3>1. \A q \in Threads : InPipe(q)' = InPipe(q)
        BY <2>8 DEF VerifyUnqueue, InPipe, TypeOK, Idle
      <3>2. Queued \subseteq Queued'
        BY Zenon, <2>8 DEF VerifyUnqueue, Queued, Idle, TypeOK
      <3> QED BY Zenon, <1>1, <2>2, <3>1, <3>2, OnePipe DEF Accepted
    <2> QED BY Zenon, <2>1, <2>3, <2>4, <2>5, <2>6, <2>7, <2>8 DEF DealTxRoutine
  <1>5. CASE ~(\E p \in Threads : DealTxRoutine(p)) /\ ~(\E c \in Callers : SendToFull(c))
    <2>1. UNCHANGED <<fullCh, verifyCh, dealer, verifier, queue>>
      BY Zenon, <1>5 DEF Next, vars, AddTx, DupTx, KnownTxAdd, FullChIsFull, SendToClosed,
                  Pending, PendingBegin, PendingTake, PendingEnd, WorkEnded, WorkEndedLoad,
                  WorkEndedStore, WorkEndedDelete, FitOnChain, Stop, pipes
    <2> QED BY Zenon, <1>2, <2>1
  <1> QED BY Zenon, <1>3, <1>4, <1>5

\* Once AddTx has put a transaction into a pipeline no interleaving of the
\* pool's goroutines loses it, whatever the capacities of the channels and of
\* the known set and however many goroutines call AddTx.
THEOREM NothingLost == Spec => NeverLost
  <1>1. TypeOK /\ HandOver /\ [Next]_vars
          => [Accepted \ {t \in Tx : Evictable(t)} \subseteq Accepted']_vars
    BY Zenon, AcceptedGrows
  <1> QED BY <1>1, TypeCorrect, HandOverHolds, PTL DEF Spec, NeverLost

-----------------------------------------------------------------------------
(* The one way to be left in queue.                                        *)

\* What pipeline q still holds is still on its way.
LEMMA StillPiped ==
  ASSUME NEW t \in Tx, NEW q \in Threads, t \in InPipe(q)'
  PROVE  t \in Piped'
  BY Zenon DEF Piped

\* A step that leaves queue and the goroutines of the pipelines alone and takes
\* nothing out of their channels strands nothing.
LEMMA NothingStranded ==
  ASSUME Queued' \subseteq Queued, Piped \subseteq Piped'
  PROVE  Stranded' \subseteq Stranded
  BY Zenon DEF Stranded

\* A step of pipeline p that is not a send to a full channel strands nothing.
LEMMA DealStrands ==
  ASSUME TypeOK, NEW p \in Threads, DealTxRoutine(p), NEW t \in Stranded', t \notin Stranded
  PROVE  dealer[p] = [pc |-> "send", tx |-> t] /\ Len(verifyCh[p]) >= VerifyCap
  <1>1. t \in Queued' /\ t \notin Piped' /\ t \in Tx
    <2>1. queue' \subseteq Tx
      BY Zenon, DealTypeOK DEF TypeOK
    <2> QED BY Zenon, <2>1 DEF Stranded, Queued
  <1>2. \A q \in Threads : t \notin InPipe(q)'
    BY Zenon, <1>1, StillPiped
  <1>3. t \notin Queued \/ \E q \in Threads : t \in InPipe(q)
    BY Zenon, <1>1 DEF Stranded, Piped
  <1>4. CASE DealRecv(p)
    <2>1. Elems(fullCh[p]) = {Head(fullCh[p])} \cup Elems(fullCh'[p])
      BY Zenon, <1>4, ElemsTail DEF DealRecv, TypeOK
    <2>2. \A q \in Threads : InPipe(q)' = InPipe(q)
      BY <1>4, <2>1 DEF DealRecv, InPipe, TypeOK
    <2>3. Queued' = Queued
      BY Zenon, <1>4 DEF DealRecv, Queued
    <2> QED BY Zenon, <1>1, <1>2, <1>3, <2>2, <2>3
  <1>5. CASE DealStore(p)
    <2>1. \A q \in Threads : InPipe(q)' = InPipe(q)
      BY <1>5 DEF DealStore, InPipe, TypeOK
    <2>2. Queued' \subseteq Queued \cup {dealer[p].tx}
      BY Zenon, <1>5 DEF DealStore, Queued
    <2>3. dealer[p].tx \in InPipe(p)
      BY Zenon, <1>5 DEF DealStore, InPipe
    <2> QED BY Zenon, <1>1, <1>2, <1>3, <2>1, <2>2, <2>3
  <1>6. CASE SendToVerify(p)
    <2>1. Queued' = Queued
      BY Zenon, <1>6 DEF SendToVerify, Queued
    <2>2. \A q \in Threads \ {p} : InPipe(q)' = InPipe(q)
      BY <1>6 DEF SendToVerify, InPipe, TypeOK
    <2>3. t \in InPipe(p)
      BY Zenon, <1>1, <1>2, <1>3, <2>1, <2>2
    <2>4. dealer[p].tx \in Tx /\ dealer[p] = [pc |-> "send", tx |-> dealer[p].tx]
      BY <1>6 DEF SendToVerify, TypeOK, Holding, Idle
    <2>5. p \notin closed
      <3>1. CASE p \in closed
        <4>1. InPipe(p)' = InPipe(p)
          BY Zenon, <1>6, <3>1 DEF SendToVerify, InPipe
        <4> QED BY Zenon, <1>2, <2>3, <4>1
      <3> QED BY Zenon, <3>1
    <2>6. Elems(verifyCh[p]) \subseteq Elems(verifyCh'[p])
      <3>1. Elems(verifyCh[p]) \subseteq Elems(Append(verifyCh[p], dealer[p].tx))
        BY <2>4, ElemsAppend DEF TypeOK
      <3> QED BY Zenon, <1>6, <3>1 DEF SendToVerify, TypeOK
    <2>7. t = dealer[p].tx
      BY Zenon, <1>2, <1>6, <2>3, <2>6 DEF SendToVerify, InPipe
    <2>8. Len(verifyCh[p]) >= VerifyCap
      <3>1. CASE Len(verifyCh[p]) < VerifyCap
        <4>1. verifyCh'[p] = Append(verifyCh[p], t)
          BY Zenon, <1>6, <2>5, <2>7, <3>1 DEF SendToVerify, TypeOK
        <4>2. t \in Elems(verifyCh'[p])
          BY <1>1, <4>1, ElemsAppend DEF TypeOK
        <4> QED BY Zenon, <1>2, <4>2 DEF InPipe
      <3>2. Len(verifyCh[p]) \in Nat /\ VerifyCap \in Nat
        BY TxPoolConstants DEF TypeOK
      <3> QED BY <3>1, <3>2
    <2> QED BY Zenon, <2>4, <2>7, <2>8
  <1>7. CASE VerifyRecv(p)
    <2>1. Elems(verifyCh[p]) = {Head(verifyCh[p])} \cup Elems(verifyCh'[p])
      BY Zenon, <1>7, ElemsTail DEF VerifyRecv, TypeOK
    <2>2. \A q \in Threads : InPipe(q)' = InPipe(q)
      BY <1>7, <2>1 DEF VerifyRecv, InPipe, TypeOK
    <2>3. Queued' = Queued
      BY Zenon, <1>7 DEF VerifyRecv, Queued, TypeOK
    <2> QED BY Zenon, <1>1, <1>2, <1>3, <2>2, <2>3
  <1>8. CASE VerifyPend(p)
    <2>1. verifier[p].tx \notin Queued' /\ Queued' \subseteq Queued
      BY <1>8 DEF VerifyPend, Queued, TypeOK
    <2>2. \A q \in Threads : InPipe(q) \subseteq InPipe(q)' \cup {verifier[p].tx}
      BY <1>8 DEF VerifyPend, InPipe, TypeOK
    <2> QED BY Zenon, <1>1, <1>2, <1>3, <2>1, <2>2
  <1>9. CASE VerifyUnqueue(p)
    <2>1. \A q \in Threads : InPipe(q)' = InPipe(q)
      BY <1>9 DEF VerifyUnqueue, InPipe, TypeOK, Idle
    <2>2. Queued' \subseteq Queued
      BY Zenon, <1>9 DEF VerifyUnqueue, Queued, TypeOK
    <2> QED BY Zenon, <1>1, <1>2, <1>3, <2>1, <2>2
  <1> QED BY Zenon, <1>4, <1>5, <1>6, <1>7, <1>8, <1>9 DEF DealTxRoutine

\* Only a send to a full verifyCh leaves a transaction in queue with nobody to
\* take it out, for any number of callers and pipelines and any capacities.
THEOREM StrandedOnlyByFull == Spec => OnlyFullStrands
  <1> DEFINE FullSend(t) ==
        \E p \in Threads : dealer[p] = [pc |-> "send", tx |-> t] /\ Len(verifyCh[p]) >= VerifyCap
  <1>1. ASSUME TypeOK, [Next]_vars PROVE \A t \in Stranded' \ Stranded : FullSend(t)
    <2>1. CASE \E p \in Threads : DealTxRoutine(p)
      BY Zenon, <1>1, <2>1, DealStrands
    <2>2. CASE \E c \in Callers : SendToFull(c)
      <3>1. PICK c \in Callers : SendToFull(c)
        BY Zenon, <2>2
      <3>2. PICK p \in Threads : fullCh' = [fullCh EXCEPT ![p] = Append(@, caller[c].tx)]
        BY Zenon, <3>1 DEF SendToFull
      <3>3. Elems(Append(fullCh[p], caller[c].tx)) = Elems(fullCh[p]) \cup {caller[c].tx}
        <4>1. caller[c].tx \in Tx
          <5>1. caller[c].pc = "send" /\ caller[c] \in Holding({"add", "send"})
            BY Zenon, <1>1, <3>1 DEF SendToFull, TypeOK
          <5> QED BY <5>1 DEF Holding, Idle
        <4> QED BY Zenon, <1>1, <4>1, ElemsAppend DEF TypeOK
      <3>4. \A q \in Threads : Elems(fullCh[q]) \subseteq Elems(fullCh'[q])
        BY Zenon, <1>1, <3>2, <3>3 DEF TypeOK
      <3>5. \A q \in Threads : InPipe(q) \subseteq InPipe(q)'
        <4>1. UNCHANGED <<verifyCh, dealer, verifier>>
          BY Zenon, <3>1 DEF SendToFull
        <4> QED BY <3>4, <4>1 DEF InPipe
      <3>6. Piped \subseteq Piped' /\ Queued' = Queued
        BY Zenon, <3>1, <3>5 DEF SendToFull, Piped, Queued
      <3> QED BY Zenon, <3>6, NothingStranded
    <2>3. CASE ~(\E p \in Threads : DealTxRoutine(p)) /\ ~(\E c \in Callers : SendToFull(c))
      <3>1. UNCHANGED <<fullCh, verifyCh, dealer, verifier, queue>>
        <4>1. CASE \E c \in Callers : AddTx(c)
          BY Zenon, <2>3, <4>1 DEF AddTx, DupTx, KnownTxAdd, FullChIsFull, SendToClosed, pipes
        <4>2. CASE Pending \/ FitOnChain \/ UNCHANGED vars \/ \E p \in Threads : Stop(p)
          BY Zenon, <4>2 DEF Pending, PendingBegin, PendingTake, PendingEnd, FitOnChain, Stop, vars, pipes
        <4>3. CASE \E w \in Works : WorkEnded(w)
          BY Zenon, <4>3 DEF WorkEnded, WorkEndedLoad, WorkEndedStore, WorkEndedDelete, pipes
        <4> QED BY Zenon, <1>1, <2>3, <4>1, <4>2, <4>3 DEF Next
      <3> QED BY Zenon, <3>1, PipedSame, NothingStranded
    <2> QED BY Zenon, <2>1, <2>2, <2>3
  <1>2. TypeOK /\ [Next]_vars => [\A t \in Stranded' \ Stranded : FullSend(t)]_vars
    BY Zenon, <1>1
  <1> QED BY <1>2, TypeCorrect, PTL DEF Spec, OnlyFullStrands
=============================================================================
