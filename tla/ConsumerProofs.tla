--------------------------- MODULE ConsumerProofs ---------------------------
(***************************************************************************)
(* The theorems about Consumer that follow from IInv, that Consumer        *)
(* implements Delivery, and what Consumer counts, for any readers,         *)
(* partitions, assignment, log length, flush size and number of restarts.  *)
(***************************************************************************)
EXTENDS ConsumerInv, ConsumerDelivery, FiniteSetTheorems

\* What lies below a committed offset is settled, in flight or orphaned: it is
\* below the fetch position and cannot be unflushed.
LEMMA BelowCommitted ==
    ASSUME IInv, NEW m \in Valid, m.off < committed[m.part]
    PROVE  Settled(m) \/ m \in InFlight \cup orphaned
<1> USE DEF IInv
<1>0. m.part \in Partitions /\ m.off \in Nat
  BY MessageFields DEF Valid
<1>1. m.off < position[m.part]
  BY <1>0 DEF CommitInv, TypeOK
<1>2. m \notin Range(pending) \cup dropped
  BY <1>0 DEF CommitInv, TypeOK
<1>3. \A r \in Readers : m \notin hand[r]
  BY <1>0 DEF CommitInv, TypeOK
<1>4. resume[m.part] <= m.off \/ m.off < resume[m.part]
  BY <1>0 DEF TypeOK
<1>5. InMemory(m) => m \in InFlight
  BY <1>2, <1>3 DEF InMemory, InFlight
<1> QED
  BY <1>1, <1>4, <1>5 DEF AccountInv

\* Shutdown, process end, crash and restart keep the invariant.
LEMMA ProcessStep ==
    ASSUME IInv, TypeOK', Sigterm \/ CloseReturns \/ Crash \/ Restart
    PROVE  IInv'
<1> USE DEF IInv
<1>1. CASE Sigterm \/ Restart
  <2>1. UNCHANGED <<dataVars, pc>> /\ (dropped # {} => ctxDone')
    <3>1. CASE Sigterm
      BY <3>1 DEF Sigterm, dataVars, kafkaVars, storeVars, readVars, bufVars
    <3>2. CASE Restart
      <4>1. UNCHANGED <<dataVars, pc>> /\ ctxDone' = ctxDone
        BY <3>2 DEF Restart, dataVars, kafkaVars, storeVars, readVars, bufVars
      <4> QED
        BY <4>1 DEF HandInv, HandOK
    <3> QED
      BY <1>1, <3>1, <3>2
  <2>2. BatchInv'
    BY <2>1 DEF BatchInv, dataVars
  <2>3. HandInv'
    BY <2>1 DEF HandInv, HandOK, dataVars
  <2> QED
    BY <2>1, <2>2, <2>3, Frame
<1>2. CASE ProcessEnds
  <2>1. /\ \A g \in Goroutines : /\ Range(batch'[g]) = {} /\ batch'[g] = <<>>
                                 /\ pc'[g] \in {"loop", "fetch"}
        /\ Range(pending') = {} /\ dropped' = {}
        /\ \A r \in Readers : hand'[r] = {}
    BY <1>2, ElementsOfEmpty DEF ProcessEnds
  <2>2. /\ position' = committed /\ resume' = committed
        /\ orphaned' = orphaned \cup InFlight
        /\ UNCHANGED <<committed, stored, dlq, abandoned>>
    BY <1>2 DEF ProcessEnds, storeVars
  <2>3. BatchInv'
    BY <2>1 DEF BatchInv, Persisting
  <2>4. HandInv'
    BY <2>1, SMTT(30) DEF HandInv, HandOK, Goroutines
  <2>5. OrderInv'
    BY <2>1, Zenon DEF OrderInv, Below
  <2>6. CommitInv'
    <3>1. \A p \in Partitions : committed'[p] <= position'[p]
      BY <2>2 DEF TypeOK
    <3>2. CommitOnlyPersisted'
      BY <2>2, Zenon DEF CommitInv, CommitOnlyPersisted
    <3> QED
      BY <2>1, <3>1, <3>2, Zenon DEF CommitInv
  <2>7. AccountInv'
    <3>1. \A m \in Valid : m.off < committed[m.part] =>
              Settled(m) \/ m \in orphaned \cup InFlight
      BY BelowCommitted
    <3>2. \A m \in Valid : ~(committed[m.part] <= m.off
                               /\ m.off < committed[m.part])
      <4>1. \A m \in Valid : m.off \in Nat /\ committed[m.part] \in Nat
        BY MessageFields DEF Valid, TypeOK
      <4> QED
        BY <4>1
    <3> QED
      <4>1. \A m : Settled(m)' <=> Settled(m)
        BY <2>2 DEF Settled
      <4> QED
        BY <2>2, <3>1, <3>2, <4>1 DEF AccountInv
  <2> QED
    BY <2>3, <2>4, <2>5, <2>6, <2>7
<1> QED
  BY <1>1, <1>2 DEF CloseReturns, Crash

-----------------------------------------------------------------------------
(* The theorems.                                                           *)

\* IInv is inductive.
LEMMA StepIInv == IInv /\ [Next]_vars => IInv'
<1> SUFFICES ASSUME IInv, [Next]_vars PROVE IInv'
  OBVIOUS
<1>1. ASSUME NEW r \in Readers, Consume(r) PROVE IInv'
  <2>1. TypeOK'
    BY <1>1, ConsumeTyped
  <2> QED
    BY <1>1, <2>1, QuietConsume, FetchStep, DiscardStep, AddCheckStep,
       AddAppendStep DEF Consume
<1>2. ASSUME NEW g \in Goroutines, Persist(g) PROVE IInv'
  <2>1. TypeOK'
    BY <1>2, PersistTyped
  <2> QED
    BY <1>2, <2>1, SaveBeginsStep, SaveStep, WriteDLQStep, CommitStep
    DEF Persist
<1>3. CASE FlushLoop
  BY <1>3, ProcessTyped, FlushLoopStep
<1>4. CASE Sigterm \/ CloseReturns \/ Crash \/ Restart
  BY <1>4, ProcessTyped, ProcessStep
<1>5. CASE UNCHANGED vars
  <2>1. UNCHANGED <<dataVars, pc, up, ctxDone, final, active, restarts>>
    BY <1>5, SMTT(30) DEF vars, dataVars, kafkaVars, storeVars, readVars, bufVars, procVars
  <2>2. TypeOK' /\ BatchInv' /\ HandInv'
    BY <2>1 DEF IInv, TypeOK, BatchInv, HandInv, HandOK, dataVars
  <2> QED
    BY <2>1, <2>2, Frame DEF IInv
<1> QED
  BY <1>1, <1>2, <1>3, <1>4, <1>5 DEF Next

\* The inductive invariant holds in every reachable state.
LEMMA Invariance == Spec => []IInv
BY InitIInv, StepIInv, PTL DEF Spec

\* Every reachable state of the consumer is well typed: in particular only
\* messages that json.Unmarshal accepted reach the buffer, a batch or the DLQ.
THEOREM TypeCorrect == Spec => []TypeOK
<1>1. IInv => TypeOK
  BY DEF IInv
<1> QED
  BY <1>1, Invariance, PTL

\* No commit ever passes a message that is still in the buffer, in a consume
\* goroutine's hands, or dropped by Add (Add, drainLocked, persist).
THEOREM CommitsStayBehind == Spec => []CommitBehindUnflushed
<1>1. IInv => CommitBehindUnflushed
  BY DEF IInv, CommitInv, CommitBehindUnflushed, Unflushed, Held
<1> QED
  BY <1>1, Invariance, PTL

\* The message below a committed offset was persisted, across any number of
\* crashes and restarts (persist commits after SaveBatch succeeded).
THEOREM CommitsFollowPersist == Spec => []CommitOnlyPersisted
<1>1. IInv => CommitOnlyPersisted
  BY DEF IInv, CommitInv
<1> QED
  BY <1>1, Invariance, PTL

\* Everything below a committed offset is stored, in the DLQ, logged as lost,
\* or in a batch that is, or was when a process died, being persisted.
THEOREM CommittedIsAccountedFor == Spec => []CommittedAccountedFor
<1>1. IInv => CommittedAccountedFor
  BY BelowCommitted DEF CommittedAccountedFor, Settled
<1> QED
  BY <1>1, Invariance, PTL

\* Nothing the running process fetched is forgotten (consume, Add, takePending,
\* persist and writeDLQ).
THEOREM FetchedIsNotForgotten == Spec => []NothingForgotten
<1>1. IInv => NothingForgotten
  BY DEF IInv, AccountInv, NothingForgotten, Settled, InMemory, InFlight,
         Unflushed, Held
<1> QED
  BY <1>1, Invariance, PTL

-----------------------------------------------------------------------------
(***************************************************************************)
(* Consumer implements Delivery.  Beyond IInv the proof needs ResumeInv:   *)
(* the committed offset is never set back behind the one the process       *)
(* resumed at, because all it has in memory lies above that.  A message    *)
(* that was lost is therefore not delivered again.                         *)
(***************************************************************************)

ResumeInv ==
    /\ \A p \in Partitions : resume[p] <= committed[p]
    /\ \A m \in Valid : Flushing(m) \/ Waiting(m) => resume[m.part] <= m.off

place == [m \in Valid |-> PlaceOf(m)]

\* The place of a message, by the predicates of the invariants.
LEMMA PlaceCases ==
    ASSUME NEW m
    PROVE  LET P == IF Settled(m) THEN "settled"
                    ELSE IF Flushing(m) THEN "flushing"
                    ELSE IF Waiting(m) THEN "held"
                    ELSE IF m.off < resume[m.part] THEN "lost"
                    ELSE "queued"
           IN  PlaceOf(m) = P /\ PlaceOf(m)' = P'
<1>1. Settled(m) <=> stored[m] > 0 \/ m \in dlq \cup abandoned
  BY DEF Settled
<1>2. (Settled(m) <=> stored[m] > 0 \/ m \in dlq \cup abandoned)'
  BY DEF Settled
<1>3. (Flushing(m) <=> m \in InFlight) /\ (Flushing(m) <=> m \in InFlight)'
  BY DEF Flushing, InFlight
<1>4. (Waiting(m) <=> m \in Unflushed) /\ (Waiting(m) <=> m \in Unflushed)'
  BY DEF Waiting, Unflushed, Held
<1> QED
  BY <1>1, <1>2, <1>3, <1>4, Zenon DEF PlaceOf

\* What a step of Consumer may do to the places of the messages.
Stays(m) == PlaceOf(m)' = PlaceOf(m)
Moves(m, from, to) == PlaceOf(m) = from /\ PlaceOf(m)' = to

\* A step that leaves every message in its place stutters.
LEMMA StayStep ==
    ASSUME \A m \in Valid : Stays(m)
    PROVE  [Abstract!Next]_place
BY DEF Stays, place

\* A step of FetchMessage that takes one message from the topic.
LEMMA FetchMove ==
    ASSUME NEW n \in Valid, Moves(n, "queued", "held"),
           \A m \in Valid \ {n} : Stays(m)
    PROVE  Abstract!Fetch
BY DEF Stays, Moves, Abstract!Fetch, Abstract!In, Abstract!Move

\* A step that drains held messages into a batch.
LEMMA FlushMove ==
    ASSUME \A m \in Valid : Stays(m) \/ Moves(m, "held", "flushing")
    PROVE  Abstract!Flush
<1> DEFINE S == {m \in Valid : Moves(m, "held", "flushing")}
<1>1. S \in SUBSET Abstract!In("held")
  BY DEF Moves, Abstract!In
<1>2. Abstract!Move(S, "flushing")
  BY DEF Stays, Moves, Abstract!Move
<1> QED
  BY <1>1, <1>2 DEF Abstract!Flush

\* A step of persist that settles messages of a batch.
LEMMA SettleMove ==
    ASSUME \A m \in Valid : Stays(m) \/ Moves(m, "flushing", "settled")
    PROVE  Abstract!Settle
<1> DEFINE S == {m \in Valid : Moves(m, "flushing", "settled")}
<1>1. S \in SUBSET Abstract!In("flushing")
  BY DEF Moves, Abstract!In
<1>2. Abstract!Move(S, "settled")
  BY DEF Stays, Moves, Abstract!Move
<1> QED
  BY <1>1, <1>2 DEF Abstract!Settle

\* The end of a process.
LEMMA EndMove ==
    ASSUME \A m \in Valid :
              \/ Stays(m) /\ PlaceOf(m) \notin {"held", "flushing"}
              \/ Moves(m, "held", "queued") \/ Moves(m, "flushing", "queued")
              \/ Moves(m, "flushing", "lost")
    PROVE  Abstract!End
<1> DEFINE L == {m \in Valid : Moves(m, "flushing", "lost")}
<1>1. L \in SUBSET Abstract!In("flushing")
  BY DEF Moves, Abstract!In
<1>2. ASSUME NEW m \in Valid
      PROVE  PlaceOf(m)' = IF m \in L THEN "lost"
                           ELSE IF PlaceOf(m) \in {"held", "flushing"} THEN "queued"
                           ELSE PlaceOf(m)
  BY DEF Stays, Moves
<1> QED
  BY <1>1, <1>2 DEF Abstract!End

-----------------------------------------------------------------------------
(* Steps, by what they do to the places.                                   *)

Refines == ResumeInv' /\ [Abstract!Next]_place

\* Steps of consume, Add and the flush loop: what was waiting goes on waiting or
\* into a batch.
LEMMA DrainRefines ==
    ASSUME ResumeInv, resume' = resume, committed' = committed,
           \A m \in Valid :
              /\ Settled(m)' <=> Settled(m)
              /\ Flushing(m) => Flushing(m)'
              /\ Flushing(m)' => Flushing(m) \/ Waiting(m)
              /\ Waiting(m)' => Waiting(m)
              /\ Waiting(m) => Waiting(m)' \/ Flushing(m)'
    PROVE  Refines
<1>1. ResumeInv'
  BY DEF ResumeInv
<1>2. ASSUME NEW m \in Valid
      PROVE  Stays(m) \/ Moves(m, "held", "flushing")
  BY PlaceCases DEF Stays, Moves
<1> QED
  BY <1>1, <1>2, FlushMove DEF Refines, Abstract!Next

\* Steps of persist: messages of a batch are settled, or stay in it.
LEMMA PersistRefines ==
    ASSUME ResumeInv, resume' = resume,
           \A p \in Partitions : resume[p] <= committed'[p],
           \A m \in Valid :
              /\ Settled(m) => Settled(m)'
              /\ Settled(m)' => Settled(m) \/ Flushing(m)
              /\ Flushing(m)' => Flushing(m)
              /\ Flushing(m) => Flushing(m)' \/ Settled(m)'
              /\ Waiting(m)' <=> Waiting(m)
    PROVE  Refines
<1>1. ResumeInv'
  BY DEF ResumeInv
<1>2. ASSUME NEW m \in Valid
      PROVE  Stays(m) \/ Moves(m, "flushing", "settled")
  BY PlaceCases DEF Stays, Moves
<1> QED
  BY <1>1, <1>2, SettleMove DEF Refines, Abstract!Next

\* A step that moves no message.
LEMMA QuietRefines ==
    ASSUME ResumeInv, UNCHANGED dataVars
    PROVE  Refines
<1>1. \A m \in Valid : /\ Settled(m)' <=> Settled(m)
                       /\ Flushing(m)' <=> Flushing(m)
                       /\ Waiting(m)' <=> Waiting(m)
  BY DEF dataVars, Settled, Flushing, Waiting
<1> QED
  BY <1>1, DrainRefines DEF dataVars

\* FetchMessage takes a message from the topic that is nowhere else: all that the
\* process has lies below the fetch position.
LEMMA FetchRefines ==
    ASSUME IInv, ResumeInv, NEW r \in Readers, FetchMessage(r)
    PROVE  Refines
<1> USE DEF IInv
<1> PICK p \in Partitions :
       /\ position[p] < LogEnd
       /\ hand' = [hand EXCEPT ![r] = {[part |-> p, off |-> position[p]]}]
  BY Zenon DEF FetchMessage
<1>0. PICK n \in Message : n = [part |-> p, off |-> position[p]]
  <2>1. [part |-> p, off |-> position[p]] \in Message
    BY ConsumerAssumption DEF TypeOK, Message
  <2> QED
    BY <2>1
<1>1. n.part = p /\ n.off = position[p] /\ position[p] \in Nat
  BY <1>0 DEF TypeOK
<1>2. hand[r] = {}
  <2>1. pc[r] = "fetch"
    BY Zenon DEF FetchMessage, At
  <2> QED
    BY <2>1 DEF HandInv, HandOK, Handling
<1>3. hand'[r] = {n} /\ \A x \in Readers \ {r} : hand'[x] = hand[x]
  BY <1>0 DEF TypeOK
<1>4. UNCHANGED <<committed, stored, dlq, pending, batch, resume, dropped, abandoned>>
  BY DEF FetchMessage, kafkaVars, storeVars, bufVars
<1>5. \A m \in Valid : /\ Settled(m)' <=> Settled(m)
                       /\ Flushing(m)' <=> Flushing(m)
                       /\ Waiting(m)' <=> Waiting(m) \/ m = n
  BY <1>2, <1>3, <1>4 DEF Settled, Flushing, Waiting
<1>6. ~Flushing(n) /\ ~Waiting(n)
  BY <1>1 DEF OrderInv, Flushing, Waiting
<1>7. resume[n.part] <= n.off
  <2>1. resume[p] <= committed[p] /\ committed[p] <= position[p]
    BY DEF ResumeInv, CommitInv
  <2>2. resume[p] \in Nat /\ committed[p] \in Nat /\ position[p] \in Nat
    BY Offsets, Zenon
  <2>3. resume[p] <= position[p]
    BY <2>1, <2>2, OffsetOrder, Zenon
  <2> QED
    BY <1>1, <2>3, Zenon
<1>8. ResumeInv'
  BY <1>4, <1>5, <1>7 DEF ResumeInv
<1>9. \A m \in Valid \ {n} : Stays(m)
  BY <1>4, <1>5, PlaceCases DEF Stays
<1>10. CASE n \in Valid /\ ~Settled(n)
  <2>1. Moves(n, "queued", "held")
    <3>1. ~(n.off < resume[n.part])
      <4>1. resume[n.part] \in Nat /\ n.off \in Nat
        BY <1>1, Offsets, Zenon
      <4> QED
        BY <1>7, <4>1, OffsetOrder, Zenon
    <3> QED
      BY <1>5, <1>6, <1>10, <3>1, PlaceCases DEF Moves
  <2> QED
    BY <1>8, <1>9, <1>10, <2>1, FetchMove DEF Refines, Abstract!Next
<1>11. CASE n \in Valid /\ Settled(n)
  <2>1. Stays(n)
    BY <1>5, <1>11, PlaceCases DEF Stays
  <2> QED
    BY <1>8, <1>9, <2>1, StayStep DEF Refines
<1>12. CASE n \notin Valid
  BY <1>8, <1>9, <1>12, StayStep DEF Refines
<1> QED
  BY <1>10, <1>11, <1>12

\* The steps of consume and of Add.
LEMMA ConsumeRefines ==
    ASSUME IInv, ResumeInv, NEW r \in Readers, Consume(r)
    PROVE  Refines
<1> USE DEF IInv
<1>1. CASE FetchMessage(r)
  BY <1>1, FetchRefines
<1>2. CASE FetchFails(r) \/ ConsumeReturns(r) \/ WaitForRetry(r) \/ CallHandler(r)
             \/ HandlerReturns(r)
  <2>1. UNCHANGED dataVars
    BY <1>2 DEF FetchFails, ConsumeReturns, WaitForRetry, CallHandler, HandlerReturns,
                dataVars, kafkaVars, storeVars, readVars, bufVars, procVars
  <2> QED
    BY <2>1, QuietRefines
<1>3. CASE DiscardMalformed(r)
  <2>1. /\ hand[r] \subseteq Malformed /\ hand'[r] = {}
        /\ \A x \in Readers \ {r} : hand'[x] = hand[x]
    BY <1>3 DEF DiscardMalformed, TypeOK
  <2>2. UNCHANGED <<committed, stored, dlq, pending, batch, resume, dropped, abandoned>>
    BY <1>3 DEF DiscardMalformed, kafkaVars, storeVars, bufVars
  <2>3. \A m \in Valid : /\ Settled(m)' <=> Settled(m)
                         /\ Flushing(m)' <=> Flushing(m)
                         /\ Waiting(m)' <=> Waiting(m)
    BY <2>1, <2>2 DEF Settled, Flushing, Waiting, Valid
  <2> QED
    BY <2>2, <2>3, DrainRefines
<1>4. CASE AddCheck(r)
  <2>1. /\ dropped' \cup hand'[r] = dropped \cup hand[r]
        /\ \A x \in Readers \ {r} : hand'[x] = hand[x]
    BY <1>4 DEF AddCheck, TypeOK
  <2>2. UNCHANGED <<committed, stored, dlq, pending, batch, resume, abandoned>>
    BY <1>4 DEF AddCheck, kafkaVars, storeVars
  <2>3. \A m \in Valid : /\ Settled(m)' <=> Settled(m)
                         /\ Flushing(m)' <=> Flushing(m)
                         /\ Waiting(m)' <=> Waiting(m)
    BY <2>1, <2>2 DEF Settled, Flushing, Waiting
  <2> QED
    BY <2>2, <2>3, DrainRefines
<1>5. CASE AddAppend(r)
  <2>1. PICK m \in hand[r] :
          \/ /\ batch' = [batch EXCEPT ![r] = Append(pending, m)]
             /\ pending' = <<>>
          \/ pending' = Append(pending, m) /\ batch' = batch
    BY <1>5, Zenon DEF AddAppend
  <2>2. /\ pc[r] = "append" /\ hand' = [hand EXCEPT ![r] = {}]
        /\ UNCHANGED <<committed, stored, dlq, resume, dropped, abandoned>>
    BY <1>5 DEF AddAppend, At, kafkaVars, storeVars
  <2>3. m \in Valid /\ pending \in Seq(Valid) /\ hand[r] = {m}
    <3>1. HandOK(r) /\ pending \in Seq(Valid)
      BY DEF HandInv, TypeOK
    <3> QED
      BY <2>2, <3>1 DEF HandOK
  <2>4. Range(Append(pending, m)) = Range(pending) \cup {m}
    BY <2>3, ElementsOfAppend
  <2>5. batch[r] = <<>>
    BY <2>2 DEF BatchInv, Persisting, Goroutines
  <2>6. hand'[r] = {} /\ \A x \in Readers \ {r} : hand'[x] = hand[x]
    BY <2>2 DEF TypeOK
  <2>7. CASE batch' = [batch EXCEPT ![r] = Append(pending, m)] /\ pending' = <<>>
    <3>1. /\ Range(batch'[r]) = Range(pending) \cup {m}
          /\ \A g \in Goroutines \ {r} : batch'[g] = batch[g]
      BY <2>4, <2>7 DEF TypeOK, Goroutines
    <3>2. r \in Goroutines /\ Range(batch[r]) = {} /\ Range(pending') = {}
      BY <2>5, <2>7, ElementsOfEmpty DEF Goroutines
    <3>3. \A x \in Valid : /\ Settled(x)' <=> Settled(x)
                           /\ Flushing(x)' <=> Flushing(x) \/ x \in Range(pending) \cup {m}
                           /\ Waiting(x)' => Waiting(x)
                           /\ Waiting(x) => Waiting(x)' \/ x \in Range(pending) \cup {m}
                           /\ x \in Range(pending) \cup {m} => Waiting(x)
      BY <2>2, <2>3, <2>6, <3>1, <3>2 DEF Settled, Flushing, Waiting
    <3> QED
      BY <2>2, <3>3, DrainRefines
  <2>8. CASE pending' = Append(pending, m) /\ batch' = batch
    <3>1. \A x \in Valid : /\ Settled(x)' <=> Settled(x)
                           /\ Flushing(x)' <=> Flushing(x)
                           /\ Waiting(x)' <=> Waiting(x)
      BY <2>2, <2>3, <2>4, <2>6, <2>8 DEF Settled, Flushing, Waiting
    <3> QED
      BY <2>2, <3>1, DrainRefines
  <2> QED
    BY <2>1, <2>7, <2>8
<1> QED
  BY <1>1, <1>2, <1>3, <1>4, <1>5 DEF Consume

\* The flush loop drains the buffer into its batch.
LEMMA FlushLoopRefines ==
    ASSUME IInv, ResumeInv, FlushLoop
    PROVE  Refines
<1> USE DEF IInv
<1>1. /\ pc[Flusher] = "loop" /\ pending' = <<>>
      /\ batch' = [batch EXCEPT ![Flusher] = pending]
      /\ UNCHANGED <<committed, stored, dlq, hand, resume, dropped, abandoned>>
  BY DEF FlushLoop, TickerFlush, FinalFlush, At, kafkaVars, storeVars, readVars
<1>2. Flusher \in Goroutines
  BY DEF Goroutines
<1>3. Range(batch[Flusher]) = {} /\ Range(pending') = {}
  BY <1>1, <1>2, ElementsOfEmpty DEF BatchInv, Persisting
<1>4. batch'[Flusher] = pending /\ \A g \in Goroutines \ {Flusher} : batch'[g] = batch[g]
  BY <1>1, <1>2 DEF TypeOK
<1>5. \A m \in Valid : /\ Settled(m)' <=> Settled(m)
                       /\ Flushing(m)' <=> Flushing(m) \/ m \in Range(pending)
                       /\ Waiting(m) <=> Waiting(m)' \/ m \in Range(pending)
  BY <1>1, <1>2, <1>3, <1>4 DEF Settled, Flushing, Waiting
<1> QED
  BY <1>1, <1>5, DrainRefines

\* persist settles messages of its batch, or commits one that is stored.
LEMMA PersistStepRefines ==
    ASSUME IInv, ResumeInv, NEW g \in Goroutines, Persist(g)
    PROVE  Refines
<1> USE DEF IInv
<1>1. CASE SaveBegins(g)
  <2>1. UNCHANGED dataVars
    BY <1>1 DEF SaveBegins, dataVars, kafkaVars, storeVars, readVars, bufVars, procVars
  <2> QED
    BY <2>1, QuietRefines
<1>2. CASE SaveSucceeds(g) \/ SaveFails(g)
  <2>1. PICK S \in SUBSET Range(batch[g]) : Store(S)
    BY <1>2 DEF SaveSucceeds, SaveFails
  <2>2. UNCHANGED <<committed, dlq, hand, pending, batch, resume, dropped, abandoned>>
    BY <1>2 DEF SaveSucceeds, SaveFails, kafkaVars, readVars, bufVars
  <2>3. \A m \in Valid : /\ stored[m] > 0 => stored'[m] > 0
                         /\ stored'[m] > 0 => stored[m] > 0 \/ m \in S
    <3>1. \A m \in Message : stored[m] \in Nat
      BY DEF TypeOK
    <3>2. \A m \in Message : stored'[m] = stored[m] + IF m \in S THEN 1 ELSE 0
      BY <2>1, Zenon DEF Store
    <3> QED
      BY <3>1, <3>2 DEF Valid
  <2>4. \A m \in Valid : /\ Settled(m) => Settled(m)'
                         /\ Settled(m)' => Settled(m) \/ Flushing(m)
                         /\ Flushing(m)' <=> Flushing(m)
                         /\ Waiting(m)' <=> Waiting(m)
    BY <2>2, <2>3 DEF Settled, Flushing, Waiting
  <2> QED
    BY <2>2, <2>4, PersistRefines DEF ResumeInv
<1>3. CASE WriteDLQ(g)
  <2>1. /\ dlq' \cup abandoned' = dlq \cup abandoned \cup Range(batch[g])
        /\ batch' = [batch EXCEPT ![g] = <<>>]
        /\ UNCHANGED <<committed, stored, hand, pending, resume, dropped>>
    BY <1>3 DEF WriteDLQ, kafkaVars, readVars
  <2>2. Range(batch'[g]) = {} /\ \A h \in Goroutines \ {g} : batch'[h] = batch[h]
    BY <2>1, ElementsOfEmpty DEF TypeOK
  <2>3. \A m \in Valid : /\ Settled(m)' <=> Settled(m) \/ m \in Range(batch[g])
                         /\ Flushing(m)' => Flushing(m)
                         /\ Flushing(m) => Flushing(m)' \/ m \in Range(batch[g])
                         /\ m \in Range(batch[g]) => Flushing(m)
                         /\ Waiting(m)' <=> Waiting(m)
    BY <2>1, <2>2 DEF Settled, Flushing, Waiting
  <2> QED
    BY <2>1, <2>3, PersistRefines DEF ResumeInv
<1>4. CASE CommitNext(g)
  <2>1. /\ pc[g] = "commit" /\ batch' = [batch EXCEPT ![g] = Tail(@)]
        /\ committed' \in {CommitMessages(Head(batch[g])), committed}
        /\ UNCHANGED <<stored, dlq, hand, pending, resume, dropped, abandoned>>
    BY <1>4 DEF CommitNext, At, storeVars, readVars
  <2>2. batch[g] \in Seq(Valid) /\ batch[g] # <<>>
    BY <2>1 DEF TypeOK, BatchInv, Persisting
  <2>3. /\ Head(batch[g]) \in Range(batch[g])
        /\ Range(Tail(batch[g])) \subseteq Range(batch[g])
        /\ Range(batch[g]) \subseteq Range(Tail(batch[g])) \cup {Head(batch[g])}
    BY <2>2, ElementsOfTail
  <2>4. batch'[g] = Tail(batch[g]) /\ \A h \in Goroutines \ {g} : batch'[h] = batch[h]
    BY <2>1 DEF TypeOK
  <2>5. PICK n : n = Head(batch[g])
    OBVIOUS
  <2>6. n \in Valid /\ stored[n] > 0 /\ Flushing(n)
    BY <2>1, <2>2, <2>3, <2>5, MessagesTyped DEF BatchInv, Flushing
  <2>7. \A m \in Valid : /\ Settled(m)' <=> Settled(m)
                         /\ Flushing(m)' => Flushing(m)
                         /\ Flushing(m) => Flushing(m)' \/ m = n
                         /\ Waiting(m)' <=> Waiting(m)
    BY <2>1, <2>3, <2>4, <2>5 DEF Settled, Flushing, Waiting
  <2>8. \A p \in Partitions : resume[p] <= committed'[p]
    <3>1. resume[n.part] <= n.off /\ n.part \in Partitions /\ n.off \in Nat
      BY <2>6, MessageFields DEF ResumeInv, Valid
    <3>2. CASE committed' = [committed EXCEPT ![n.part] = n.off + 1]
      <4>1. /\ committed'[n.part] = n.off + 1
            /\ \A p \in Partitions \ {n.part} : committed'[p] = committed[p]
        BY <3>1, <3>2 DEF TypeOK
      <4>2. resume[n.part] \in Nat
        BY <3>1, Offsets, Zenon
      <4>3. resume[n.part] <= committed'[n.part]
        BY <3>1, <4>1, <4>2
      <4>4. \A p \in Partitions : resume[p] <= committed[p]
        BY DEF ResumeInv
      <4> QED
        BY <4>1, <4>3, <4>4, Zenon
    <3>3. CASE committed' = committed
      BY <3>3 DEF ResumeInv
    <3> QED
      BY <2>1, <2>5, <3>2, <3>3 DEF CommitMessages
  <2> QED
    BY <2>1, <2>6, <2>7, <2>8, PersistRefines DEF Settled
<1> QED
  BY <1>1, <1>2, <1>3, <1>4 DEF Persist

\* The end of a process gives what is above the committed offset back to the
\* topic; only messages of a batch can be below it unsettled.
LEMMA EndRefines ==
    ASSUME IInv, ResumeInv, ProcessEnds
    PROVE  Refines
<1> USE DEF IInv
<1>1. /\ pending' = <<>> /\ dropped' = {} /\ resume' = committed
      /\ batch' = [g \in Goroutines |-> <<>>] /\ hand' = [r \in Readers |-> {}]
      /\ UNCHANGED <<committed, stored, dlq, abandoned>>
  BY DEF ProcessEnds, storeVars
<1>2. \A m \in Valid : ~Flushing(m)' /\ ~Waiting(m)' /\ (Settled(m)' <=> Settled(m))
  BY <1>1, ElementsOfEmpty DEF Flushing, Waiting, Settled
<1>3. ResumeInv'
  <2>1. \A p \in Partitions : committed[p] <= committed[p]
    BY Offsets
  <2> QED
    BY <1>1, <1>2, <2>1 DEF ResumeInv
<1>4. ASSUME NEW m \in Valid
      PROVE  \/ Stays(m) /\ PlaceOf(m) \notin {"held", "flushing"}
             \/ Moves(m, "held", "queued") \/ Moves(m, "flushing", "queued")
             \/ Moves(m, "flushing", "lost")
  <2>1. /\ m.part \in Partitions /\ m.off \in Nat /\ committed[m.part] \in Nat
        /\ resume[m.part] \in Nat /\ position[m.part] \in Nat
    <3>1. m.part \in Partitions /\ m.off \in Nat
      BY MessageFields DEF Valid
    <3> QED
      BY <3>1, Offsets, Zenon
  <2>2. resume[m.part] <= committed[m.part] /\ committed[m.part] <= position[m.part]
    BY <2>1 DEF ResumeInv, CommitInv
  <2>3. Waiting(m) => ~(m.off < committed[m.part])
    <3>1. Waiting(m) => committed[m.part] <= m.off
      BY DEF Waiting, CommitInv
    <3> QED
      BY <2>1, <3>1, OffsetOrder, Zenon
  <2>4. m.off < committed[m.part] /\ ~(m.off < resume[m.part])
            => Settled(m) \/ Flushing(m) \/ Waiting(m)
    <3>1. InMemory(m) => Flushing(m) \/ Waiting(m)
      BY DEF InMemory, Flushing, Waiting
    <3>2. m.off < committed[m.part] => m.off < position[m.part]
      BY <2>1, <2>2, OffsetOrder, Zenon
    <3>3. ~(m.off < resume[m.part]) => resume[m.part] <= m.off
      BY <2>1, OffsetOrder, Zenon
    <3> QED
      BY <3>1, <3>2, <3>3 DEF AccountInv
  <2>5. m.off < resume[m.part] => m.off < committed[m.part]
    BY <2>1, <2>2
  <2> QED
    BY <1>1, <1>2, <2>3, <2>4, <2>5, PlaceCases DEF Stays, Moves
<1> QED
  BY <1>3, <1>4, EndMove DEF Refines, Abstract!Next

\* Every step of Consumer is a step of Delivery, or moves no message.
LEMMA StepRefines == IInv /\ ResumeInv /\ [Next]_vars => Refines
<1> SUFFICES ASSUME IInv, ResumeInv, [Next]_vars PROVE Refines
  OBVIOUS
<1>1. ASSUME NEW r \in Readers, Consume(r) PROVE Refines
  BY <1>1, ConsumeRefines
<1>2. ASSUME NEW g \in Goroutines, Persist(g) PROVE Refines
  BY <1>2, PersistStepRefines
<1>3. CASE FlushLoop
  BY <1>3, FlushLoopRefines
<1>4. CASE CloseReturns \/ Crash
  BY <1>4, EndRefines DEF CloseReturns, Crash
<1>5. CASE Sigterm \/ Restart
  <2>1. UNCHANGED dataVars
    BY <1>5 DEF Sigterm, Restart, dataVars, kafkaVars, storeVars, readVars, bufVars
  <2> QED
    BY <2>1, QuietRefines
<1>6. CASE UNCHANGED vars
  <2>1. UNCHANGED dataVars
    BY <1>6, SMTT(30) DEF vars, dataVars, kafkaVars, storeVars, readVars, bufVars, procVars
  <2> QED
    BY <2>1, QuietRefines
<1> QED
  BY <1>1, <1>2, <1>3, <1>4, <1>5, <1>6 DEF Next

\* In the initial state all messages are in the topic.
LEMMA InitRefines == Init => ResumeInv /\ Abstract!Init
<1> SUFFICES ASSUME Init PROVE ResumeInv /\ Abstract!Init
  OBVIOUS
<1>1. \A m \in Valid : ~Settled(m) /\ ~Flushing(m) /\ ~Waiting(m)
  BY ElementsOfEmpty DEF Init, Settled, Flushing, Waiting, Valid
<1>2. \A m \in Valid : ~(m.off < resume[m.part])
  <2>1. \A p \in Partitions : resume[p] = 0
    BY DEF Init
  <2> QED
    BY <2>1, MessageFields DEF Valid
<1>3. ResumeInv
  BY <1>1 DEF Init, ResumeInv
<1>4. \A m \in Valid : PlaceOf(m) = "queued"
  BY <1>1, <1>2, PlaceCases
<1> QED
  BY <1>3, <1>4 DEF Abstract!Init

\* Whatever the goroutines, signals, crashes and restarts do, messages move as
\* Delivery says (consume, Add, flushLoop, persist and Close).
THEOREM ConsumerImplementsDelivery == Spec => ImplementsDelivery
<1>1. IInv /\ ResumeInv /\ [Next]_vars => ResumeInv' /\ [Abstract!Next]_place
  BY StepRefines DEF Refines
<1> QED
  BY <1>1, InitRefines, Invariance, PTL DEF Spec, ImplementsDelivery, Abstract!Spec, place

-----------------------------------------------------------------------------
\* What Consumer counts: the copies the repository holds of a message, the
\* messages in a batch, and activeConsumers.

Saving == {"save", "write"}

\* The running process has not passed message m to SaveBatch.
Unsaved(m) ==
    /\ up
    /\ \/ position[m.part] <= m.off
       \/ Waiting(m)
       \/ \E g \in Goroutines : pc[g] \in Saving /\ m \in Range(batch[g])

\* A message is in one batch at most, and what the running process has not saved
\* was stored by earlier ones only.
OnceInv ==
    /\ \A g, h \in Goroutines : g # h => Range(batch[g]) \cap Range(batch[h]) = {}
    /\ \A m \in Message : Unsaved(m) => stored[m] <= restarts
    /\ StoredOncePerProcess

\* What a step of goroutine g may do with messages: fetch one, take what waits
\* into a batch, let go of what it has, and store a batch as it leaves SaveBatch.
HandsOn(g) ==
    /\ up /\ up' /\ restarts' = restarts
    /\ \A x \in Goroutines \ {g} : pc'[x] = pc[x] /\ batch'[x] = batch[x]
    /\ \A m \in Range(batch'[g]) : m \in Range(batch[g]) \/ Waiting(m)
    /\ pc'[g] \in Saving => \A m \in Range(batch'[g]) :
          Waiting(m) \/ (pc[g] \in Saving /\ m \in Range(batch[g]))
    /\ \A m \in Message : Waiting(m)' => Waiting(m) \/ position[m.part] <= m.off
    /\ \A m \in Message : position'[m.part] <= m.off => position[m.part] <= m.off
    /\ \/ stored' = stored
       \/ /\ pc[g] = "write" /\ pc'[g] \notin Saving
          /\ \E S \in SUBSET Range(batch[g]) : Store(S)
          /\ UNCHANGED <<hand, pending, dropped, position, batch>>

\* What a batch holds waits nowhere any more.
LEMMA BatchedNotWaiting ==
    ASSUME IInv, NEW g \in Goroutines, NEW m \in Range(batch[g])
    PROVE  m \in Message /\ ~Waiting(m) /\ ~(position[m.part] <= m.off)
<1>1. m \in Message /\ m.off \in Nat /\ m.part \in Partitions
  BY MessagesTyped, MessageFields DEF IInv
<1>2. position[m.part] \in Nat
  BY <1>1, ConsumerAssumption DEF IInv, TypeOK
<1>3. ~(m.off < m.off)
  BY <1>1
<1>4. ~Waiting(m)
  BY <1>3, Zenon DEF IInv, OrderInv, Below, Waiting
<1>5. m.off < position[m.part]
  BY Zenon DEF IInv, OrderInv
<1> QED
  BY <1>1, <1>2, <1>4, <1>5

\* Steps of that kind store nothing twice.
LEMMA HandedOnOnce ==
    ASSUME IInv, OnceInv, NEW g \in Goroutines, HandsOn(g)
    PROVE  OnceInv'
<1>1. \A x, y \in Goroutines : x # y => Range(batch[x]) \cap Range(batch[y]) = {}
  BY DEF OnceInv
<1>2. /\ up /\ up' /\ restarts' = restarts
      /\ \A x \in Goroutines \ {g} : pc'[x] = pc[x] /\ batch'[x] = batch[x]
      /\ \A m \in Range(batch'[g]) : m \in Range(batch[g]) \/ Waiting(m)
      /\ pc'[g] \in Saving => \A m \in Range(batch'[g]) :
            Waiting(m) \/ (pc[g] \in Saving /\ m \in Range(batch[g]))
  BY DEF HandsOn
<1>3. /\ \A m \in Message : Waiting(m)' => Waiting(m) \/ position[m.part] <= m.off
      /\ \A m \in Message : position'[m.part] <= m.off => position[m.part] <= m.off
  BY DEF HandsOn
<1>4. ASSUME NEW x \in Goroutines, NEW y \in Goroutines, x # y
      PROVE  Range(batch'[x]) \cap Range(batch'[y]) = {}
  <2>1. \A z \in Goroutines \ {g} : Range(batch[g]) \cap Range(batch[z]) = {}
    BY <1>1
  <2>2. \A z \in Goroutines \ {g} : \A m \in Range(batch[z]) : ~Waiting(m)
    BY BatchedNotWaiting
  <2>3. \A z \in Goroutines \ {g} : Range(batch'[g]) \cap Range(batch'[z]) = {}
    BY <1>2, <2>1, <2>2
  <2>4. CASE x = g \/ y = g
    BY <1>4, <2>3, <2>4
  <2>5. CASE x # g /\ y # g
    BY <1>1, <1>2, <1>4, <2>5
  <2> QED
    BY <2>4, <2>5
<1>5. ASSUME NEW m \in Message, Unsaved(m)' PROVE Unsaved(m)
  <2>1. up
    BY <1>2
  <2>2. CASE position'[m.part] <= m.off \/ Waiting(m)'
    BY <1>3, <2>1, <2>2 DEF Unsaved
  <2>3. ASSUME NEW x \in Goroutines, pc'[x] \in Saving, m \in Range(batch'[x])
        PROVE  Waiting(m) \/ (pc[x] \in Saving /\ m \in Range(batch[x]))
    BY <1>2, <2>3
  <2> QED
    BY <1>5, <2>1, <2>2, <2>3 DEF Unsaved
<1>6. CASE stored' = stored
  BY <1>2, <1>4, <1>5, <1>6 DEF OnceInv, StoredOncePerProcess
<1>7. ASSUME pc[g] = "write", pc'[g] \notin Saving, NEW S \in SUBSET Range(batch[g]),
             Store(S), UNCHANGED <<hand, pending, dropped, position, batch>>
      PROVE  OnceInv'
  <2>1. /\ stored \in [Message -> Nat] /\ restarts \in Nat
    BY ConsumerAssumption DEF IInv, TypeOK
  <2>2. \A m \in Message : stored'[m] = stored[m] + IF m \in S THEN 1 ELSE 0
    BY <1>7 DEF Store
  <2>3. ASSUME NEW m \in S PROVE Unsaved(m)
    BY <1>2, <1>7, <2>3 DEF Unsaved, Saving
  <2>4. ASSUME NEW m \in S PROVE ~Unsaved(m)'
    <3>1. ~Waiting(m) /\ ~(position[m.part] <= m.off)
      BY <2>4, BatchedNotWaiting
    <3>2. ~Waiting(m)' /\ ~(position'[m.part] <= m.off)
      BY <1>7, <3>1 DEF Waiting
    <3>3. \A x \in Goroutines : m \in Range(batch'[x]) => pc'[x] \notin Saving
      BY <1>1, <1>7
    <3> QED
      BY <3>2, <3>3 DEF Unsaved
  <2>5. ASSUME NEW m \in Message
        PROVE  /\ stored'[m] <= restarts + 1
               /\ Unsaved(m)' => stored'[m] <= restarts
    <3>1. /\ stored[m] \in Nat /\ stored[m] <= restarts + 1
          /\ Unsaved(m) => stored[m] <= restarts
      BY <2>1 DEF OnceInv, StoredOncePerProcess
    <3>2. m \in S => stored'[m] = stored[m] + 1 /\ Unsaved(m) /\ ~Unsaved(m)'
      BY <2>2, <2>3, <2>4
    <3>3. m \notin S => stored'[m] = stored[m]
      BY <2>2, <3>1
    <3> QED
      BY <1>5, <2>1, <3>1, <3>2, <3>3
  <2> QED
    BY <1>2, <1>4, <2>5 DEF OnceInv, StoredOncePerProcess
<1> QED
  BY <1>6, <1>7 DEF HandsOn

\* consume and Add hand a message on from the partition to a batch.
LEMMA ConsumeHandsOn ==
    ASSUME IInv, NEW r \in Readers, Consume(r)
    PROVE  r \in Goroutines /\ HandsOn(r)
<1>1. r \in Goroutines /\ up /\ up' = up /\ restarts' = restarts /\ stored' = stored
  BY DEF Consume, FetchMessage, FetchFails, ConsumeReturns, WaitForRetry, DiscardMalformed,
     CallHandler, AddCheck, AddAppend, HandlerReturns, At, Goroutines, kafkaVars,
     storeVars, procVars
<1>2. /\ TypeOK /\ pc \in [Goroutines -> Labels] /\ hand \in [Readers -> SUBSET Message]
      /\ batch \in [Goroutines -> Seq(Valid)] /\ pending \in Seq(Valid)
  BY DEF IInv, TypeOK
<1>3. CASE FetchMessage(r)
  <2>1. /\ pc' = [pc EXCEPT ![r] = "decode"] /\ batch' = batch /\ pending' = pending
        /\ dropped' = dropped
    BY <1>3 DEF FetchMessage, Goto, bufVars
  <2>2. PICK p \in Partitions :
           /\ hand' = [hand EXCEPT ![r] = {[part |-> p, off |-> position[p]]}]
           /\ position' = [position EXCEPT ![p] = @ + 1]
    BY <1>3 DEF FetchMessage
  <2>3. \A q \in Partitions : position[q] \in Nat /\ position'[q] \in Nat
                               /\ position[q] <= position'[q]
    <3>1. position \in [Partitions -> Nat]
      BY ConsumerAssumption DEF IInv, TypeOK
    <3>2. \A q \in Partitions :
             position'[q] = position[q] \/ position'[q] = position[q] + 1
      BY <2>2, <3>1
    <3> QED
      BY <3>1, <3>2
  <2>4. ASSUME NEW m \in Message, position'[m.part] <= m.off
        PROVE  position[m.part] <= m.off
    <3>1. m.part \in Partitions /\ m.off \in Nat
      BY MessageFields
    <3>2. /\ position[m.part] \in Nat /\ position'[m.part] \in Nat
          /\ position[m.part] <= position'[m.part]
      BY <2>3, <3>1, Zenon
    <3> QED
      BY <2>4, <3>1, <3>2, OffsetOrder
  <2>5. ASSUME NEW m \in Message, Waiting(m)'
        PROVE  Waiting(m) \/ position[m.part] <= m.off
    <3>1. m = [part |-> p, off |-> position[p]] => position[m.part] <= m.off
      <4>1. position[p] <= position[p]
        BY <2>3, OffsetOrder, Zenon
      <4> QED
        BY <4>1
    <3> QED
      BY <1>2, <2>1, <2>2, <2>5, <3>1 DEF Waiting
  <2>6. \A x \in Goroutines \ {r} : pc'[x] = pc[x]
    BY <1>2, <2>1
  <2>7. pc'[r] \notin Saving
    BY <1>1, <1>2, <2>1 DEF Saving
  <2> QED
    BY <1>1, <2>1, <2>4, <2>5, <2>6, <2>7 DEF HandsOn
<1>4. CASE Consume(r) /\ ~FetchMessage(r) /\ ~AddAppend(r)
  <2>1. /\ position' = position /\ batch' = batch /\ pending' = pending
        /\ hand' = hand \/ hand' = [hand EXCEPT ![r] = {}]
        /\ dropped' \subseteq dropped \cup hand[r]
    BY <1>4 DEF Consume, FetchFails, ConsumeReturns, WaitForRetry, DiscardMalformed,
       CallHandler, AddCheck, HandlerReturns, readVars, bufVars
  <2>2. \E label \in Labels \ Saving : pc' = [pc EXCEPT ![r] = label]
    BY <1>4 DEF Consume, FetchFails, ConsumeReturns, WaitForRetry, DiscardMalformed,
       CallHandler, AddCheck, HandlerReturns, Goto, Labels, Saving
  <2>3. pc'[r] \notin Saving /\ \A x \in Goroutines \ {r} : pc'[x] = pc[x]
    BY <1>1, <1>2, <2>2
  <2>4. \A x \in Readers : hand'[x] \subseteq hand[x]
    BY <1>2, <2>1
  <2>5. \A m : Waiting(m)' => Waiting(m)
    BY <2>1, <2>4 DEF Waiting
  <2> QED
    BY <1>1, <2>1, <2>3, <2>5, Zenon DEF HandsOn
<1>5. CASE AddAppend(r)
  <2>1. PICK m \in hand[r] :
           LET buf == Append(pending, m)
           IN  IF Len(buf) >= FlushSize
               THEN /\ batch' = [batch EXCEPT ![r] = buf]
                    /\ pending' = <<>>
                    /\ Goto(r, "save")
               ELSE /\ pending' = buf
                    /\ Goto(r, "return")
                    /\ UNCHANGED batch
    BY <1>5 DEF AddAppend
  <2>2. /\ position' = position /\ dropped' = dropped
        /\ \A x \in Readers : hand'[x] \subseteq hand[x]
    BY <1>2, <1>5 DEF AddAppend
  <2>3. /\ Range(Append(pending, m)) = Range(pending) \cup {m} /\ Range(<<>>) = {}
        /\ \A n \in Range(pending) \cup {m} : Waiting(n)
    <3>1. m \in Valid
      BY <1>5 DEF IInv, HandInv, HandOK, AddAppend, At
    <3>2. Range(Append(pending, m)) = Range(pending) \cup {m} /\ Range(<<>>) = {}
      BY <1>2, <3>1, ElementsOfAppend, ElementsOfEmpty
    <3>3. \A n \in Range(pending) \cup {m} : Waiting(n)
      BY DEF Waiting
    <3> QED
      BY <3>2, <3>3
  <2>4. /\ \A n \in Range(pending') : Waiting(n)
        /\ \A x \in Goroutines \ {r} : pc'[x] = pc[x] /\ batch'[x] = batch[x]
        /\ \/ pc'[r] \notin Saving /\ batch' = batch
           \/ \A n \in Range(batch'[r]) : Waiting(n)
    <3>1. CASE Len(Append(pending, m)) >= FlushSize
      BY <1>1, <1>2, <2>1, <2>3, <3>1 DEF Goto
    <3>2. CASE ~(Len(Append(pending, m)) >= FlushSize)
      BY <1>1, <1>2, <2>1, <2>3, <3>2 DEF Goto, Saving
    <3> QED
      BY <3>1, <3>2
  <2>5. \A n : Waiting(n)' => Waiting(n)
    BY <2>2, <2>4 DEF Waiting
  <2> QED
    BY <1>1, <2>2, <2>4, <2>5, Zenon DEF HandsOn
<1> QED
  BY <1>3, <1>4, <1>5

\* So does the flush loop.
LEMMA FlushHandsOn ==
    ASSUME IInv, FlushLoop
    PROVE  Flusher \in Goroutines /\ HandsOn(Flusher)
<1>1. /\ Flusher \in Goroutines /\ up /\ up' = up /\ restarts' = restarts
      /\ stored' = stored /\ position' = position /\ hand' = hand /\ dropped' = dropped
  BY DEF FlushLoop, TickerFlush, FinalFlush, At, Goroutines, kafkaVars, storeVars,
     readVars, procVars
<1>2. /\ pending' = <<>> /\ batch' = [batch EXCEPT ![Flusher] = pending]
      /\ \E label : pc' = [pc EXCEPT ![Flusher] = label]
  BY DEF FlushLoop, TickerFlush, FinalFlush, Goto
<1>3. /\ batch'[Flusher] = pending
      /\ \A x \in Goroutines \ {Flusher} : pc'[x] = pc[x] /\ batch'[x] = batch[x]
  BY <1>1, <1>2 DEF IInv, TypeOK
<1>4. \A m : Waiting(m)' => Waiting(m)
  BY <1>1, <1>2, ElementsOfEmpty DEF Waiting
<1>5. \A m \in Range(batch'[Flusher]) : Waiting(m)
  BY <1>3 DEF Waiting
<1> QED
  BY <1>1, <1>3, <1>4, <1>5, Zenon DEF HandsOn

\* persist stores its batch on the way out of SaveBatch, and then lets go of it.
LEMMA PersistHandsOn ==
    ASSUME IInv, NEW g \in Goroutines, Persist(g)
    PROVE  HandsOn(g)
<1>1. /\ up /\ up' = up /\ restarts' = restarts /\ position' = position /\ hand' = hand
      /\ pending' = pending /\ dropped' = dropped
  BY DEF Persist, SaveBegins, SaveSucceeds, SaveFails, WriteDLQ, CommitNext, At,
     kafkaVars, readVars, bufVars, procVars
<1>2. \A m : Waiting(m)' => Waiting(m)
  BY <1>1 DEF Waiting
<1>3. \A x \in Goroutines \ {g} : pc'[x] = pc[x] /\ batch'[x] = batch[x]
  <2>1. /\ \E label : pc' = [pc EXCEPT ![g] = label]
        /\ batch' = batch \/ \E b : batch' = [batch EXCEPT ![g] = b]
    BY DEF Persist, SaveBegins, SaveSucceeds, SaveFails, WriteDLQ, CommitNext, Goto, bufVars
  <2> QED
    BY <2>1 DEF IInv, TypeOK
<1>4. pc'[g] \in Saving => pc[g] \in Saving /\ batch' = batch
  BY DEF Persist, SaveBegins, SaveSucceeds, SaveFails, WriteDLQ, CommitNext, Goto, At,
     AfterPersist, Saving, bufVars, IInv, TypeOK
<1>5. Range(batch'[g]) \subseteq Range(batch[g])
  <2>1. CASE CommitNext(g)
    <3>1. batch[g] # <<>> /\ batch[g] \in Seq(Valid) /\ batch'[g] = Tail(batch[g])
      BY <2>1 DEF CommitNext, At, IInv, BatchInv, Persisting, TypeOK
    <3> QED
      BY <3>1, ElementsOfTail
  <2>2. CASE WriteDLQ(g)
    <3>1. batch'[g] = <<>>
      BY <2>2 DEF WriteDLQ, IInv, TypeOK
    <3> QED
      BY <3>1, ElementsOfEmpty
  <2>3. CASE SaveBegins(g) \/ SaveSucceeds(g) \/ SaveFails(g)
    BY <2>3 DEF SaveBegins, SaveSucceeds, SaveFails, bufVars
  <2> QED
    BY <2>1, <2>2, <2>3 DEF Persist
<1>6. \/ stored' = stored
      \/ /\ pc[g] = "write" /\ pc'[g] \notin Saving /\ batch' = batch
         /\ \E S \in SUBSET Range(batch[g]) : Store(S)
  <2>1. CASE SaveSucceeds(g)
    BY <2>1 DEF SaveSucceeds, At, Goto, Saving, bufVars, IInv, TypeOK
  <2>2. CASE SaveFails(g)
    BY <2>2 DEF SaveFails, At, Goto, Saving, bufVars, IInv, TypeOK
  <2>3. CASE SaveBegins(g) \/ WriteDLQ(g) \/ CommitNext(g)
    BY <2>3 DEF SaveBegins, WriteDLQ, CommitNext, storeVars
  <2> QED
    BY <2>1, <2>2, <2>3 DEF Persist
<1>7. \/ stored' = stored
      \/ /\ pc[g] = "write" /\ pc'[g] \notin Saving
         /\ \E S \in SUBSET Range(batch[g]) : Store(S)
         /\ UNCHANGED <<hand, pending, dropped, position, batch>>
  BY <1>1, <1>6
<1> QED
  BY <1>1, <1>2, <1>3, <1>4, <1>5, <1>7, Zenon DEF HandsOn

\* A process that ends saves nothing more, and the next one may save everything
\* it fetches once.
LEMMA ProcessOnce ==
    ASSUME IInv, OnceInv, Sigterm \/ CloseReturns \/ Crash \/ Restart
    PROVE  OnceInv'
<1>1. restarts \in Nat /\ \A m \in Message : stored[m] \in Nat
  BY ConsumerAssumption DEF IInv, TypeOK
<1>2. CASE Sigterm
  <2>1. /\ up' = up /\ restarts' = restarts /\ stored' = stored /\ position' = position
        /\ hand' = hand /\ pending' = pending /\ dropped' = dropped /\ batch' = batch
        /\ pc' = pc
    BY <1>2 DEF Sigterm, kafkaVars, storeVars, readVars, bufVars
  <2> QED
    BY <2>1 DEF OnceInv, Unsaved, Waiting, StoredOncePerProcess
<1>3. CASE ProcessEnds
  <2>1. /\ up' = FALSE /\ restarts' = restarts /\ stored' = stored
        /\ batch' = [g \in Goroutines |-> <<>>]
    BY <1>3 DEF ProcessEnds, storeVars
  <2>2. \A g \in Goroutines : Range(batch'[g]) = {}
    BY <2>1, ElementsOfEmpty
  <2> QED
    BY <2>1, <2>2 DEF OnceInv, Unsaved, StoredOncePerProcess
<1>4. CASE Restart
  <2>1. restarts' = restarts + 1 /\ stored' = stored /\ batch' = batch
    BY <1>4 DEF Restart, storeVars, bufVars
  <2>2. \A m \in Message : stored'[m] <= restarts' /\ stored'[m] <= restarts' + 1
    BY <1>1, <2>1 DEF OnceInv, StoredOncePerProcess
  <2> QED
    BY <2>1, <2>2 DEF OnceInv, StoredOncePerProcess
<1> QED
  BY <1>2, <1>3, <1>4 DEF CloseReturns, Crash

\* A message is stored once by each process that ran, at most (Add, drainLocked
\* and persist, consumer.go): whichever goroutine flushes it and however often
\* SaveBatch fails, a copy is made by redelivery after a restart only.
THEOREM StoredOnce == Spec => []StoredOncePerProcess
<1>1. Init => OnceInv
  <2>1. SUFFICES ASSUME Init PROVE OnceInv
    OBVIOUS
  <2>2. /\ restarts = 0 /\ \A m \in Message : stored[m] = 0
        /\ \A g \in Goroutines : Range(batch[g]) = {}
    BY <2>1, ElementsOfEmpty DEF Init
  <2> QED
    BY <2>2 DEF OnceInv, StoredOncePerProcess
<1>2. IInv /\ OnceInv /\ [Next]_vars => OnceInv'
  <2>1. SUFFICES ASSUME IInv, OnceInv, [Next]_vars PROVE OnceInv'
    OBVIOUS
  <2>2. ASSUME NEW r \in Readers, Consume(r) PROVE OnceInv'
    BY <2>1, <2>2, ConsumeHandsOn, HandedOnOnce
  <2>3. CASE FlushLoop
    BY <2>1, <2>3, FlushHandsOn, HandedOnOnce
  <2>4. ASSUME NEW g \in Goroutines, Persist(g) PROVE OnceInv'
    BY <2>1, <2>4, PersistHandsOn, HandedOnOnce
  <2>5. CASE UNCHANGED vars
    <3>1. /\ up' = up /\ restarts' = restarts /\ stored' = stored /\ position' = position
          /\ hand' = hand /\ pending' = pending /\ dropped' = dropped /\ batch' = batch
          /\ pc' = pc
      BY <2>5 DEF vars, kafkaVars, storeVars, readVars, bufVars, procVars
    <3> QED
      BY <2>1, <3>1 DEF OnceInv, Unsaved, Waiting, StoredOncePerProcess
  <2> QED
    BY <2>1, <2>2, <2>3, <2>4, <2>5, ProcessOnce DEF Next
<1>3. OnceInv => StoredOncePerProcess
  BY DEF OnceInv
<1> QED
  BY <1>1, <1>2, <1>3, Invariance, PTL DEF Spec

-----------------------------------------------------------------------------
\* flushSize.

\* A batch is what was in the buffer, with the message that filled it; the
\* commit loop only shortens it.
LEMMA SizeKept ==
    ASSUME IInv, BatchWithinFlushSize, Next
    PROVE  BatchWithinFlushSize'
<1>1. /\ FlushSize \in Nat \ {0} /\ Len(<<>>) = 0
      /\ batch \in [Goroutines -> Seq(Valid)] /\ pending \in Seq(Valid)
      /\ Len(pending) < FlushSize /\ \A g \in Goroutines : Len(batch[g]) <= FlushSize
  BY ConsumerAssumption DEF IInv, TypeOK, BatchWithinFlushSize
<1>2. ASSUME NEW g \in Goroutines, NEW b, Len(b) <= FlushSize,
             batch' = [batch EXCEPT ![g] = b], Len(pending') < FlushSize
      PROVE  BatchWithinFlushSize'
  BY <1>1, <1>2 DEF BatchWithinFlushSize
<1>3. ASSUME NEW r \in Readers, Consume(r) PROVE BatchWithinFlushSize'
  <2>1. CASE AddAppend(r)
    <3>1. PICK m \in hand[r] :
             LET buf == Append(pending, m)
             IN  IF Len(buf) >= FlushSize
                 THEN /\ batch' = [batch EXCEPT ![r] = buf]
                      /\ pending' = <<>>
                      /\ Goto(r, "save")
                 ELSE /\ pending' = buf
                      /\ Goto(r, "return")
                      /\ UNCHANGED batch
      BY <2>1 DEF AddAppend
    <3>2. m \in Valid /\ r \in Goroutines
      BY <2>1 DEF IInv, HandInv, HandOK, AddAppend, At, Goroutines
    <3>3. Len(Append(pending, m)) = Len(pending) + 1
      BY <1>1, <3>2
    <3>4. CASE Len(Append(pending, m)) >= FlushSize
      <4>1. batch' = [batch EXCEPT ![r] = Append(pending, m)] /\ pending' = <<>>
        BY <3>1, <3>4, Zenon
      <4>2. Len(Append(pending, m)) <= FlushSize /\ Len(pending') < FlushSize
        BY <1>1, <3>3, <4>1
      <4> QED
        BY <1>2, <3>2, <4>1, <4>2
    <3>5. CASE ~(Len(Append(pending, m)) >= FlushSize)
      <4>1. batch' = batch /\ pending' = Append(pending, m)
        BY <3>1, <3>5, Zenon
      <4>2. Len(pending') < FlushSize
        BY <1>1, <3>3, <3>5, <4>1
      <4> QED
        BY <1>1, <4>1, <4>2 DEF BatchWithinFlushSize
    <3> QED
      BY <3>4, <3>5
  <2>2. CASE ~AddAppend(r)
    <3>1. batch' = batch /\ pending' = pending
      BY <1>3, <2>2 DEF Consume, FetchMessage, FetchFails, ConsumeReturns, WaitForRetry,
         DiscardMalformed, CallHandler, AddCheck, HandlerReturns, bufVars
    <3> QED
      BY <3>1 DEF BatchWithinFlushSize
  <2> QED
    BY <2>1, <2>2
<1>4. CASE FlushLoop
  <2>1. /\ Flusher \in Goroutines /\ pending' = <<>>
        /\ batch' = [batch EXCEPT ![Flusher] = pending]
    BY <1>4 DEF FlushLoop, TickerFlush, FinalFlush, Goroutines
  <2>2. Len(pending) <= FlushSize /\ Len(pending') < FlushSize
    BY <1>1, <2>1
  <2> QED
    BY <1>2, <2>1, <2>2
<1>5. ASSUME NEW g \in Goroutines, Persist(g) PROVE BatchWithinFlushSize'
  <2>1. pending' = pending
    BY <1>5 DEF Persist, SaveBegins, SaveSucceeds, SaveFails, WriteDLQ, CommitNext, bufVars
  <2>2. CASE CommitNext(g)
    <3>1. batch[g] # <<>> /\ batch' = [batch EXCEPT ![g] = Tail(batch[g])]
      BY <2>2 DEF CommitNext, At, IInv, BatchInv, Persisting
    <3>2. batch[g] \in Seq(Valid) /\ Len(batch[g]) <= FlushSize
      BY <1>1
    <3>3. Len(Tail(batch[g])) <= FlushSize
      BY <1>1, <3>1, <3>2
    <3> QED
      BY <1>1, <1>2, <2>1, <3>1, <3>3
  <2>3. CASE ~CommitNext(g)
    <3>1. batch' = batch \/ batch' = [batch EXCEPT ![g] = <<>>]
      BY <1>5, <2>3 DEF Persist, SaveBegins, SaveSucceeds, SaveFails, WriteDLQ, bufVars
    <3> QED
      BY <1>1, <1>2, <2>1, <3>1 DEF BatchWithinFlushSize
  <2> QED
    BY <2>2, <2>3
<1>6. CASE Sigterm \/ Restart
  <2>1. batch' = batch /\ pending' = pending
    BY <1>6 DEF Sigterm, Restart, bufVars
  <2> QED
    BY <2>1 DEF BatchWithinFlushSize
<1>7. CASE CloseReturns \/ Crash
  <2>1. pending' = <<>> /\ batch' = [g \in Goroutines |-> <<>>]
    BY <1>7 DEF CloseReturns, Crash, ProcessEnds
  <2> QED
    BY <1>1, <2>1 DEF BatchWithinFlushSize
<1> QED
  BY <1>3, <1>4, <1>5, <1>6, <1>7 DEF Next

\* SaveBatch is never given more than flushSize messages, and Add leaves less
\* than that in the buffer, with any number of goroutines appending.
THEOREM BatchesAreBounded == Spec => []BatchWithinFlushSize
<1>1. Init => BatchWithinFlushSize
  BY ConsumerAssumption DEF Init, BatchWithinFlushSize
<1>2. IInv /\ BatchWithinFlushSize /\ [Next]_vars => BatchWithinFlushSize'
  <2>1. ASSUME BatchWithinFlushSize, UNCHANGED vars PROVE BatchWithinFlushSize'
    BY <2>1 DEF BatchWithinFlushSize, vars, bufVars
  <2> QED
    BY <2>1, SizeKept
<1> QED
  BY <1>1, <1>2, Invariance, PTL DEF Spec

-----------------------------------------------------------------------------
\* activeConsumers.

Resting == {"fetch", "backoff", "stopped"}
Busy == {r \in Readers : pc[r] \notin Resting}

\* A reader that starts or ends its handling changes their number by one.
LEMMA BusyMoves ==
    ASSUME NEW r \in Readers, \A x \in Readers \ {r} : pc'[x] = pc[x]
    PROVE  /\ (pc[r] \in Resting <=> pc'[r] \in Resting) => Busy' = Busy
           /\ (pc[r] \in Resting /\ pc'[r] \notin Resting) =>
                 Cardinality(Busy') = Cardinality(Busy) + 1
           /\ (pc[r] \notin Resting /\ pc'[r] \in Resting) =>
                 Cardinality(Busy') = Cardinality(Busy) - 1
<1>1. IsFiniteSet(Busy)
  BY ReadersFinite, FS_Subset DEF Busy
<1>2. ASSUME pc[r] \in Resting, pc'[r] \notin Resting
      PROVE  Cardinality(Busy') = Cardinality(Busy) + 1
  <2>1. Busy' = Busy \cup {r} /\ r \notin Busy
    BY <1>2 DEF Busy
  <2> QED
    BY <1>1, <2>1, FS_AddElement
<1>3. ASSUME pc[r] \notin Resting, pc'[r] \in Resting
      PROVE  Cardinality(Busy') = Cardinality(Busy) - 1
  <2>1. Busy' = Busy \ {r} /\ r \in Busy
    BY <1>3 DEF Busy
  <2> QED
    BY <1>1, <2>1, FS_RemoveElement
<1>4. ASSUME pc[r] \in Resting <=> pc'[r] \in Resting PROVE Busy' = Busy
  BY <1>4 DEF Busy
<1> QED
  BY <1>2, <1>3, <1>4

\* consume counts itself active on a fetch, and inactive once on every way back.
LEMMA ConsumeCounts ==
    ASSUME TypeOK, NEW r \in Readers, Consume(r)
    PROVE  /\ \A x \in Readers \ {r} : pc'[x] = pc[x]
           /\ \/ active' = active + 1 /\ pc[r] \in Resting /\ pc'[r] \notin Resting
              \/ active' = active - 1 /\ pc[r] \notin Resting /\ pc'[r] \in Resting
              \/ active' = active /\ (pc[r] \in Resting <=> pc'[r] \in Resting)
<1>1. r \in Goroutines /\ Readers \subseteq Goroutines /\ pc \in [Goroutines -> Labels]
  BY DEF Goroutines, TypeOK
<1> USE <1>1 DEF At, Goto, Resting, readVars
<1>2. CASE FetchMessage(r)
  BY <1>2 DEF FetchMessage
<1>3. CASE FetchFails(r) \/ ConsumeReturns(r) \/ WaitForRetry(r)
  BY <1>3 DEF FetchFails, ConsumeReturns, WaitForRetry
<1>4. CASE DiscardMalformed(r) \/ HandlerReturns(r)
  BY <1>4 DEF DiscardMalformed, HandlerReturns
<1>5. CASE CallHandler(r) \/ AddCheck(r)
  BY <1>5 DEF CallHandler, AddCheck
<1>6. CASE AddAppend(r)
  BY <1>6 DEF AddAppend
<1> QED
  BY <1>2, <1>3, <1>4, <1>5, <1>6 DEF Consume

\* activeConsumers is the number of consume goroutines between a fetch and the
\* end of its handling (kafka_queue_consumer.go:67-90): no path loses or repeats
\* a decrement.
THEOREM ActiveIsExact == Spec => []ActiveCountsHandlers
<1>1. Init => ActiveCountsHandlers
  <2>1. SUFFICES ASSUME Init PROVE ActiveCountsHandlers
    OBVIOUS
  <2>2. \A r \in Readers : pc[r] = "fetch"
    BY <2>1, ConsumerAssumption DEF Init, Goroutines
  <2>3. Busy = {}
    BY <2>2 DEF Busy, Resting
  <2>4. active = Cardinality(Busy)
    BY <2>1, <2>3, FS_EmptySet DEF Init
  <2> QED
    BY <2>4 DEF ActiveCountsHandlers, Busy, Resting
<1>2. IInv /\ ActiveCountsHandlers /\ [Next]_vars => ActiveCountsHandlers'
  <2>1. SUFFICES ASSUME IInv, active = Cardinality(Busy), [Next]_vars
                 PROVE  active' = Cardinality(Busy')
    BY DEF ActiveCountsHandlers, Busy, Resting
  <2>2. TypeOK /\ Flusher \notin Readers
    BY <2>1, ConsumerAssumption DEF IInv
  <2>3. ASSUME active' = active, \A x \in Readers : pc'[x] = pc[x]
        PROVE  active' = Cardinality(Busy')
    <3>1. Busy' = Busy
      BY <2>3 DEF Busy
    <3> QED
      BY <2>1, <2>3, <3>1
  <2>4. ASSUME NEW r \in Readers, Consume(r) PROVE active' = Cardinality(Busy')
    <3>1. /\ \A x \in Readers \ {r} : pc'[x] = pc[x]
          /\ \/ active' = active + 1 /\ pc[r] \in Resting /\ pc'[r] \notin Resting
             \/ active' = active - 1 /\ pc[r] \notin Resting /\ pc'[r] \in Resting
             \/ active' = active /\ (pc[r] \in Resting <=> pc'[r] \in Resting)
      BY <2>2, <2>4, ConsumeCounts, Zenon
    <3>2. /\ (pc[r] \in Resting <=> pc'[r] \in Resting) => Busy' = Busy
          /\ (pc[r] \in Resting /\ pc'[r] \notin Resting) =>
                Cardinality(Busy') = Cardinality(Busy) + 1
          /\ (pc[r] \notin Resting /\ pc'[r] \in Resting) =>
                Cardinality(Busy') = Cardinality(Busy) - 1
      BY <3>1, BusyMoves, Zenon
    <3> QED
      BY <2>1, <3>1, <3>2, Zenon
  <2>5. CASE FlushLoop
    <3>1. active' = active /\ \A x \in Readers : pc'[x] = pc[x]
      BY <2>2, <2>5 DEF FlushLoop, TickerFlush, FinalFlush, Goto, readVars, TypeOK,
         Goroutines
    <3> QED
      BY <2>3, <3>1
  <2>6. ASSUME NEW g \in Goroutines, Persist(g) PROVE active' = Cardinality(Busy')
    <3>1. active' = active /\ \A x \in Readers \ {g} : pc'[x] = pc[x]
      <4>1. active' = active /\ \E label : pc' = [pc EXCEPT ![g] = label]
        BY <2>6 DEF Persist, SaveBegins, SaveSucceeds, SaveFails, WriteDLQ, CommitNext,
           Goto, readVars
      <4> QED
        BY <2>2, <4>1 DEF TypeOK, Goroutines
    <3>2. g \in Readers => pc[g] \notin Resting /\ pc'[g] \notin Resting
      BY <2>2, <2>6 DEF Persist, SaveBegins, SaveSucceeds, SaveFails, WriteDLQ, CommitNext,
         At, Goto, AfterPersist, Resting, TypeOK, Goroutines
    <3>3. Busy' = Busy
      BY <3>1, <3>2 DEF Busy
    <3> QED
      BY <2>1, <3>1, <3>3
  <2>7. CASE Sigterm \/ Restart \/ UNCHANGED vars
    BY <2>3, <2>7 DEF Sigterm, Restart, vars, readVars
  <2>8. CASE CloseReturns \/ Crash
    <3>1. active' = 0 /\ \A r \in Readers : pc'[r] = "fetch"
      BY <2>2, <2>8 DEF CloseReturns, Crash, ProcessEnds, Goroutines
    <3>2. Busy' = {}
      BY <3>1 DEF Busy, Resting
    <3> QED
      BY <3>1, <3>2, FS_EmptySet
  <2> QED
    BY <2>1, <2>4, <2>5, <2>6, <2>7, <2>8 DEF Next
<1> QED
  BY <1>1, <1>2, Invariance, PTL DEF Spec

=============================================================================
