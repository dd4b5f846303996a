------------------------------ MODULE Consumer ------------------------------
(***************************************************************************)
(* The V2 consumer side: the consume goroutines of                         *)
(* internal/queue/kafka_queue_consumer.go, the consumerBatchWriter of      *)
(* service/consumer.go that coalesces what they fetch, and the broker's    *)
(* committed offsets, across crashes, shutdowns and restarts of the        *)
(* process.                                                                *)
(*                                                                         *)
(* Every goroutine has a program counter.  A persist is performed either   *)
(* by the consume goroutine whose Add filled the buffer or by the          *)
(* flushLoop goroutine, so two batches can be in flight at once.           *)
(***************************************************************************)
EXTENDS Integers, Sequences, FiniteSets, Functions

CONSTANTS
    Readers,      \* the consume goroutines, one Kafka reader each
    Flusher,      \* the flushLoop goroutine
    Partitions,   \* the partitions of the topic
    Owner,        \* the broker's assignment of partitions to readers
    LogEnd,       \* messages of a partition have offsets 0 .. LogEnd - 1
    Malformed,    \* messages whose value json.Unmarshal rejects
    FlushSize,    \* consumerBatchWriter.flushSize, defaulted to be positive
    DLQFaults,    \* TRUE when a DLQ file may fail to be written
    MaxRestarts   \* bound on the process restarts explored

Message == [part : Partitions, off : 0 .. LogEnd - 1]
Goroutines == Readers \cup {Flusher}

ASSUME ConsumerAssumption ==
    /\ Flusher \notin Readers
    /\ Owner \in [Partitions -> Readers]
    /\ LogEnd \in Nat
    /\ Malformed \subseteq Message
    /\ FlushSize \in Nat \ {0}
    /\ DLQFaults \in BOOLEAN
    /\ MaxRestarts \in Nat

\* StartConsumers starts Kafka.Consumers goroutines, an int of the configuration.
ASSUME ReadersFinite == IsFiniteSet(Readers)

VARIABLES
    \* Outside the process: the broker, the repository and the DLQ directory.
    committed,  \* the group's committed offset of each partition
    stored,     \* how many times the repository holds each message
    dlq,        \* messages in a DLQ file
    \* The process.
    up,         \* the process is running
    ctxDone,    \* the application context is cancelled (SIGTERM)
    pc,         \* program counter of each goroutine
    position,   \* the next offset FetchMessage returns, per partition
    hand,       \* the message a consume goroutine fetched last
    pending,    \* consumerBatchWriter.pending
    batch,      \* the batch a goroutine is persisting; then what it has
                \* still to commit
    final,      \* flushLoop is in its deferred flush(true)
    active,     \* KafkaLogQueue.activeConsumers
    \* History.
    resume,     \* the offsets at which the running process resumed
    dropped,    \* messages Add returned from because the context was done
    abandoned,  \* messages whose DLQ file could not be written
    orphaned,   \* messages in a goroutine's batch when the process died
    restarts    \* process restarts so far

kafkaVars == <<committed, resume, restarts>>
storeVars == <<stored, dlq, abandoned>>
readVars == <<position, hand, active>>
bufVars == <<pending, batch, final, dropped>>
procVars == <<up, ctxDone, orphaned>>
vars == <<kafkaVars, storeVars, readVars, bufVars, procVars, pc>>

Valid == Message \ Malformed

\* The state of a process that has just started: NewKafkaLogQueue,
\* newConsumerWriter and StartConsumers.
Init ==
    /\ committed = [p \in Partitions |-> 0]
    /\ stored = [m \in Message |-> 0]
    /\ dlq = {}
    /\ up = TRUE
    /\ ctxDone = FALSE
    /\ pc = [g \in Goroutines |-> IF g = Flusher THEN "loop" ELSE "fetch"]
    /\ position = committed
    /\ hand = [r \in Readers |-> {}]
    /\ pending = <<>>
    /\ batch = [g \in Goroutines |-> <<>>]
    /\ final = FALSE
    /\ active = 0
    /\ resume = committed
    /\ dropped = {}
    /\ abandoned = {}
    /\ orphaned = {}
    /\ restarts = 0

At(g, label) == up /\ pc[g] = label
Goto(g, label) == pc' = [pc EXCEPT ![g] = label]

-----------------------------------------------------------------------------
(* consume: the fetch loop of a reader.                                    *)

\* FetchMessage delivers the next message of a partition the reader owns; the
\* reader counts itself active.  A cancelled context does not stop FetchMessage
\* from returning a message it already has.
FetchMessage(r) ==
    /\ At(r, "fetch")
    /\ \E p \in Partitions :
          /\ Owner[p] = r
          /\ position[p] < LogEnd
          /\ hand' = [hand EXCEPT ![r] = {[part |-> p, off |-> position[p]]}]
          /\ position' = [position EXCEPT ![p] = @ + 1]
    /\ active' = active + 1
    /\ Goto(r, "decode")
    /\ UNCHANGED <<kafkaVars, storeVars, bufVars, procVars>>

\* FetchMessage fails with the context still alive and an error that is neither
\* a cancellation nor a deadline: back off.
FetchFails(r) ==
    /\ At(r, "fetch")
    /\ ~ctxDone
    /\ Goto(r, "backoff")
    /\ UNCHANGED <<kafkaVars, storeVars, readVars, bufVars, procVars>>

\* FetchMessage fails because the context is done, or with a deadline error of
\* the reader's own; either way consume returns for good.
ConsumeReturns(r) ==
    /\ At(r, "fetch")
    /\ Goto(r, "stopped")
    /\ UNCHANGED <<kafkaVars, storeVars, readVars, bufVars, procVars>>

\* WaitForRetry: the timer fires (fetch again) or the context ends the wait.
WaitForRetry(r) ==
    /\ At(r, "backoff")
    /\ \/ Goto(r, "fetch")
       \/ ctxDone /\ Goto(r, "stopped")
    /\ UNCHANGED <<kafkaVars, storeVars, readVars, bufVars, procVars>>

\* Faulty variant of DiscardMalformed: the continue is missing.
DiscardFallsThrough(r) ==
    /\ At(r, "decode")
    /\ hand[r] \subseteq Malformed
    /\ active' = active - 1
    /\ Goto(r, "add")
    /\ UNCHANGED <<kafkaVars, storeVars, bufVars, procVars, position, hand>>

\* Faulty variant of DiscardMalformed: the decrement is missing.
DiscardKeepsActive(r) ==
    /\ At(r, "decode")
    /\ hand[r] \subseteq Malformed
    /\ hand' = [hand EXCEPT ![r] = {}]
    /\ Goto(r, "fetch")
    /\ UNCHANGED <<kafkaVars, storeVars, bufVars, procVars, position, active>>

\* A value that is not a JSON log record is discarded, its offset uncommitted.
DiscardMalformed(r) ==
    /\ At(r, "decode")
    /\ hand[r] \subseteq Malformed
    /\ hand' = [hand EXCEPT ![r] = {}]
    /\ active' = active - 1
    /\ Goto(r, "fetch")
    /\ UNCHANGED <<kafkaVars, storeVars, bufVars, procVars, position>>

\* A well-formed message is handed to the handler, which calls Add.
CallHandler(r) ==
    /\ At(r, "decode")
    /\ hand[r] \cap Malformed = {}
    /\ Goto(r, "add")
    /\ UNCHANGED <<kafkaVars, storeVars, readVars, bufVars, procVars>>

\* The handler has returned.
HandlerReturns(r) ==
    /\ At(r, "return")
    /\ active' = active - 1
    /\ Goto(r, "fetch")
    /\ UNCHANGED <<kafkaVars, storeVars, bufVars, procVars, position, hand>>

-----------------------------------------------------------------------------
(* consumerBatchWriter: Add, the flush loop, persist and writeDLQ.         *)

\* persist's ctx: flush(true) uses context.Background, everything else the
\* writer's context, a child of the application's.
CtxDone(g) == ctxDone /\ ~(g = Flusher /\ final)

\* Where a goroutine continues when its persist returns.
AfterPersist(g) ==
    IF g # Flusher THEN "return" ELSE IF final THEN "done" ELSE "loop"

\* Add's first look at the context: when it is done the message is dropped.
AddCheck(r) ==
    /\ At(r, "add")
    /\ IF ctxDone
       THEN Goto(r, "return") /\ dropped' = dropped \cup hand[r]
                              /\ hand' = [hand EXCEPT ![r] = {}]
       ELSE Goto(r, "append") /\ UNCHANGED <<dropped, hand>>
    /\ UNCHANGED <<kafkaVars, storeVars, procVars, position, active,
                   pending, batch, final>>

\* Faulty variant of AddAppend: the buffer is flushed one message late.
AddFlushesLate(r) ==
    /\ At(r, "append")
    /\ \E m \in hand[r] :
          LET full == Len(pending) >= FlushSize
              buf == Append(pending, m)
          IN  /\ batch' = [batch EXCEPT ![r] = IF full THEN buf ELSE <<>>]
              /\ pending' = IF full THEN <<>> ELSE buf
              /\ Goto(r, IF full THEN "save" ELSE "return")
    /\ hand' = [hand EXCEPT ![r] = {}]
    /\ UNCHANGED <<kafkaVars, storeVars, procVars, position, active,
                   final, dropped>>

\* Faulty variant of AddAppend: a full buffer is drained before the message is
\* appended, and the message is not put back.
AddDrainsFirst(r) ==
    /\ At(r, "append")
    /\ \E m \in hand[r] :
          LET full == Len(pending) + 1 >= FlushSize /\ pending # <<>>
          IN  /\ batch' = [batch EXCEPT ![r] = IF full THEN pending ELSE <<>>]
              /\ pending' = IF full THEN <<>> ELSE Append(pending, m)
              /\ Goto(r, IF full THEN "save" ELSE "return")
    /\ hand' = [hand EXCEPT ![r] = {}]
    /\ UNCHANGED <<kafkaVars, storeVars, procVars, position, active,
                   final, dropped>>

\* The rest of Add, in one step because it holds w.mu: append and, when the
\* buffer is full, drain it into a batch that this goroutine persists itself.
AddAppend(r) ==
    /\ At(r, "append")
    /\ \E m \in hand[r] :
          LET buf == Append(pending, m)
          IN  IF Len(buf) >= FlushSize
              THEN /\ batch' = [batch EXCEPT ![r] = buf]
                   /\ pending' = <<>>
                   /\ Goto(r, "save")
              ELSE /\ pending' = buf
                   /\ Goto(r, "return")
                   /\ UNCHANGED batch
    /\ hand' = [hand EXCEPT ![r] = {}]
    /\ UNCHANGED <<kafkaVars, storeVars, procVars, position, active,
                   final, dropped>>

\* Faulty variant of TickerFlush: drainLocked does not reset pending.
TickerFlushKeepsPending ==
    /\ At(Flusher, "loop")
    /\ pending # <<>>
    /\ batch' = [batch EXCEPT ![Flusher] = pending]
    /\ Goto(Flusher, "save")
    /\ UNCHANGED <<kafkaVars, storeVars, readVars, procVars, pending, final,
                   dropped>>

\* Faulty variant of TickerFlush: the ticker, too, waits for a full buffer.
TickerWaitsForFull ==
    /\ At(Flusher, "loop")
    /\ Len(pending) >= FlushSize
    /\ batch' = [batch EXCEPT ![Flusher] = pending]
    /\ pending' = <<>>
    /\ Goto(Flusher, "save")
    /\ UNCHANGED <<kafkaVars, storeVars, readVars, procVars, final, dropped>>

\* flushLoop's ticker case: flush(false) of a non-empty buffer.  The select
\* may choose it although the context is done.
TickerFlush ==
    /\ At(Flusher, "loop")
    /\ pending # <<>>
    /\ batch' = [batch EXCEPT ![Flusher] = pending]
    /\ pending' = <<>>
    /\ Goto(Flusher, "save")
    /\ UNCHANGED <<kafkaVars, storeVars, readVars, procVars, final, dropped>>

\* Faulty variant of FinalFlush: an empty buffer returns before w.done is
\* closed.
FinalFlushNeedsPending ==
    /\ At(Flusher, "loop")
    /\ ctxDone
    /\ pending # <<>>
    /\ final' = TRUE
    /\ batch' = [batch EXCEPT ![Flusher] = pending]
    /\ pending' = <<>>
    /\ Goto(Flusher, "save")
    /\ UNCHANGED <<kafkaVars, storeVars, readVars, procVars, dropped>>

\* flushLoop's ctx.Done case: return into the deferred flush(true), after
\* which w.done is closed.
FinalFlush ==
    /\ At(Flusher, "loop")
    /\ ctxDone
    /\ final' = TRUE
    /\ batch' = [batch EXCEPT ![Flusher] = pending]
    /\ pending' = <<>>
    /\ Goto(Flusher, IF pending = <<>> THEN "done" ELSE "save")
    /\ UNCHANGED <<kafkaVars, storeVars, readVars, procVars, dropped>>

\* SaveBatch looks at its context before it writes anything.
SaveBegins(g) ==
    /\ At(g, "save")
    /\ Goto(g, IF CtxDone(g) THEN "dlq" ELSE "write")
    /\ UNCHANGED <<kafkaVars, storeVars, readVars, bufVars, procVars>>

Store(S) == stored' = [m \in Message |-> stored[m] + IF m \in S THEN 1 ELSE 0]

\* SaveBatch succeeds: every record of the batch is in the repository.
SaveSucceeds(g) ==
    /\ At(g, "write")
    /\ Store(Range(batch[g]))
    /\ Goto(g, "commit")
    /\ UNCHANGED <<kafkaVars, readVars, bufVars, procVars, dlq, abandoned>>

\* Faulty variant of SaveFails: the error is logged and persist goes on to
\* commit.
SaveErrorIgnored(g) ==
    /\ At(g, "write")
    /\ \E S \in SUBSET Range(batch[g]) : Store(S)
    /\ Goto(g, "commit")
    /\ UNCHANGED <<kafkaVars, readVars, bufVars, procVars, dlq, abandoned>>

\* Faulty variant of SaveFails: persist returns without calling writeDLQ.
SaveErrorSkipsDLQ(g) ==
    /\ At(g, "write")
    /\ \E S \in SUBSET Range(batch[g]) : Store(S)
    /\ batch' = [batch EXCEPT ![g] = <<>>]
    /\ Goto(g, AfterPersist(g))
    /\ UNCHANGED <<kafkaVars, readVars, procVars, pending, final, dropped,
                   dlq, abandoned>>

\* SaveBatch fails, or runs into persistTimeout, after any part of the batch
\* was written: both repositories write hour by hour and undo nothing.
SaveFails(g) ==
    /\ At(g, "write")
    /\ \E S \in SUBSET Range(batch[g]) : Store(S)
    /\ Goto(g, "dlq")
    /\ UNCHANGED <<kafkaVars, readVars, bufVars, procVars, dlq, abandoned>>

\* writeDLQ, after which persist returns without committing.  A failure to
\* make the directory or the file is only logged.
WriteDLQ(g) ==
    /\ At(g, "dlq")
    /\ \/ dlq' = dlq \cup Range(batch[g]) /\ UNCHANGED abandoned
       \/ /\ DLQFaults
          /\ abandoned' = abandoned \cup Range(batch[g])
          /\ UNCHANGED dlq
    /\ batch' = [batch EXCEPT ![g] = <<>>]
    /\ Goto(g, AfterPersist(g))
    /\ UNCHANGED <<kafkaVars, readVars, procVars, stored, pending, final,
                   dropped>>

\* The broker's side of CommitMessages for one message: the committed offset
\* of the partition becomes the one after the message, whatever it was.
CommitMessages(m) == [committed EXCEPT ![m.part] = m.off + 1]

\* One round of persist's commit loop.  An error is only logged, and does not
\* tell whether the broker applied the commit.
CommitNext(g) ==
    /\ At(g, "commit")
    /\ committed' \in {CommitMessages(Head(batch[g])), committed}
    /\ batch' = [batch EXCEPT ![g] = Tail(@)]
    /\ Goto(g, IF Len(batch[g]) = 1 THEN AfterPersist(g) ELSE "commit")
    /\ UNCHANGED <<storeVars, readVars, procVars, resume, restarts, pending,
                   final, dropped>>

-----------------------------------------------------------------------------
(* The process.                                                            *)

\* SIGTERM cancels the context that consume and the writer share.
Sigterm ==
    /\ up /\ ~ctxDone
    /\ ctxDone' = TRUE
    /\ UNCHANGED <<kafkaVars, storeVars, readVars, bufVars, up, orphaned, pc>>

InFlight == UNION {Range(batch[g]) : g \in Goroutines}

\* The memory of the process is gone; a new one would resume at the committed
\* offsets.
ProcessEnds ==
    /\ up' = FALSE
    /\ ctxDone' = FALSE
    /\ pc' = [g \in Goroutines |-> IF g = Flusher THEN "loop" ELSE "fetch"]
    /\ position' = committed
    /\ resume' = committed
    /\ hand' = [r \in Readers |-> {}]
    /\ pending' = <<>>
    /\ batch' = [g \in Goroutines |-> <<>>]
    /\ final' = FALSE
    /\ active' = 0
    /\ dropped' = {}
    /\ orphaned' = orphaned \cup InFlight
    /\ UNCHANGED <<committed, restarts, storeVars>>

\* ConsumerService.Close waits for w.done and for nothing else, then main
\* returns: goroutines still in consume or in a persist die with the process.
CloseReturns == At(Flusher, "done") /\ ProcessEnds

Crash == up /\ ProcessEnds

\* A new process starts: ConsumerService.Start.
Restart ==
    /\ ~up
    /\ restarts < MaxRestarts
    /\ up' = TRUE
    /\ restarts' = restarts + 1
    /\ UNCHANGED <<committed, resume, storeVars, readVars, bufVars, ctxDone,
                   orphaned, pc>>

Persist(g) ==
    \/ SaveBegins(g)
    \/ SaveSucceeds(g)
    \/ SaveFails(g)
    \/ WriteDLQ(g)
    \/ CommitNext(g)

Consume(r) ==
    \/ FetchMessage(r)
    \/ FetchFails(r)
    \/ ConsumeReturns(r)
    \/ WaitForRetry(r)
    \/ DiscardMalformed(r)
    \/ CallHandler(r)
    \/ AddCheck(r)
    \/ AddAppend(r)
    \/ HandlerReturns(r)

FlushLoop == TickerFlush \/ FinalFlush

Next ==
    \/ \E r \in Readers : Consume(r)
    \/ FlushLoop
    \/ \E g \in Goroutines : Persist(g)
    \/ Sigterm
    \/ CloseReturns
    \/ Crash
    \/ Restart

Spec == Init /\ [][Next]_vars

\* What the code's scheduling gives: a goroutine that can run does run, the
\* ticker keeps firing, CommitMessages returns (it heeds persistTimeout), and
\* main goes on once Close has returned.  Nothing is assumed of the broker, of
\* SIGTERM, of crashes, or of the disk: FileRepo takes its mutex and writes
\* without a look at the context, and so does writeDLQ, so that either may never
\* return.
Handle(r) ==
    \/ DiscardMalformed(r)
    \/ CallHandler(r)
    \/ AddCheck(r)
    \/ AddAppend(r)
    \/ HandlerReturns(r)

Fairness ==
    /\ \A r \in Readers : WF_vars(Handle(r))
    /\ \A g \in Goroutines : WF_vars(SaveBegins(g) \/ CommitNext(g))
    /\ WF_vars(FlushLoop)
    /\ WF_vars(CloseReturns)

LiveSpec == Spec /\ Fairness

-----------------------------------------------------------------------------
(* Properties.                                                             *)

Labels == {"fetch", "backoff", "decode", "add", "append", "return", "stopped",
           "loop", "save", "write", "dlq", "commit", "done"}

\* Every variable has its type; in particular only well-formed messages reach
\* the buffer, a batch or the DLQ.
TypeOK ==
    /\ committed \in [Partitions -> 0 .. LogEnd]
    /\ stored \in [Message -> Nat]
    /\ dlq \subseteq Valid
    /\ up \in BOOLEAN
    /\ ctxDone \in BOOLEAN
    /\ pc \in [Goroutines -> Labels]
    /\ pc[Flusher] \in {"loop", "save", "write", "dlq", "commit", "done"}
    /\ position \in [Partitions -> 0 .. LogEnd]
    /\ hand \in [Readers -> SUBSET Message]
    /\ pending \in Seq(Valid)
    /\ batch \in [Goroutines -> Seq(Valid)]
    /\ final \in BOOLEAN
    /\ active \in Int
    /\ resume \in [Partitions -> 0 .. LogEnd]
    /\ dropped \subseteq Valid
    /\ abandoned \subseteq Valid
    /\ orphaned \subseteq Valid
    /\ restarts \in 0 .. MaxRestarts

Held == UNION {hand[r] : r \in Readers}

\* What the running process has fetched and not yet put into a batch: in the
\* buffer, in a consume goroutine's hands, or dropped by Add.
Unflushed == Range(pending) \cup Held \cup dropped

\* A commit never passes a message that is still waiting in the buffer, that a
\* consume goroutine is still handling, or that Add dropped during shutdown:
\* those are all delivered again to the next process (Add, drainLocked and
\* persist's commit loop).
CommitBehindUnflushed ==
    \A m \in Unflushed : committed[m.part] <= m.off

\* The message just below a partition's committed offset was itself persisted:
\* persist commits only what SaveBatch stored, also across restarts.
CommitOnlyPersisted ==
    \A p \in Partitions : committed[p] > 0 =>
        stored[[part |-> p, off |-> committed[p] - 1]] > 0

\* Every well-formed message below the committed offset is stored, in a DLQ
\* file, logged as lost by writeDLQ, in a batch that is being persisted, or was
\* in such a batch when a process died.  So a batch in flight is the only thing
\* a crash can lose.
CommittedAccountedFor ==
    \A m \in Valid : m.off < committed[m.part] =>
        \/ stored[m] > 0
        \/ m \in dlq \cup abandoned \cup InFlight \cup orphaned

\* No message the running process fetched is forgotten: it is stored, in the
\* DLQ, logged as lost, or still held somewhere in memory (consume, Add,
\* takePending, persist and writeDLQ hand it on without a gap).
NothingForgotten ==
    \A m \in Valid :
        (up /\ resume[m.part] <= m.off /\ m.off < position[m.part]) =>
            \/ stored[m] > 0
            \/ m \in dlq \cup abandoned \cup InFlight \cup Unflushed

\* One process persists a message at most once, whichever goroutine flushes it
\* and however often SaveBatch fails: a copy is only ever made by redelivery
\* after a restart.  (Partitions keep their readers here; a rebalance, too,
\* delivers again.)
StoredOncePerProcess ==
    \A m \in Message : stored[m] <= restarts + 1

\* flushSize bounds what SaveBatch is given, and Add leaves less than that in
\* the buffer, with any number of consume goroutines appending.
BatchWithinFlushSize ==
    /\ Len(pending) < FlushSize
    /\ \A g \in Goroutines : Len(batch[g]) <= FlushSize

\* activeConsumers counts exactly the consume goroutines between a fetch and
\* the end of its handling: no path through consume loses or repeats a
\* decrement.
ActiveCountsHandlers ==
    active = Cardinality({r \in Readers :
                             pc[r] \notin {"fetch", "backoff", "stopped"}})

\* Every well-formed message below the committed offset is stored or in the DLQ
\* once the process is gone: nothing was committed that was not persisted.
CommitGatedOnPersistence ==
    ~up => \A m \in Valid : m.off < committed[m.part] =>
               stored[m] > 0 \/ m \in dlq

\* A message that went to the DLQ because its batch could not be persisted
\* stays uncommitted until it is persisted.
FailedStaysUncommitted ==
    \A m \in dlq : stored[m] = 0 => committed[m.part] <= m.off

\* The goroutine is in a file operation of SaveBatch or writeDLQ.
OnDisk(g) == At(g, "write") \/ At(g, "dlq")

\* A cancelled context ends the process, unless the disk never answers flushLoop
\* itself.  docs/remaining_gaps.md:5 says that the final flush has no timeout and
\* that "a stuck `SaveBatch` can block shutdown indefinitely": the timeout is
\* there by now (consumer.go:230), but FileRepo does not heed it.  A consume
\* goroutine whose write hangs holds up nothing, for Close waits only for w.done.
ShutdownCompletes == ([]<>~OnDisk(Flusher)) => (ctxDone ~> ~up)

\* A message that consume has fetched does not linger: unless the process ends
\* it is persisted, written to the DLQ, logged as lost, or dropped because the
\* context was cancelled.  A disk that never answers keeps it only in the batch
\* it does not answer for, or in the buffer when it is flushLoop that hangs.
FetchedIsSettled ==
    \A m \in Valid :
        (\A g \in Goroutines : []<>~(OnDisk(g) /\ (g = Flusher \/ m \in Range(batch[g]))))
        => ((m \in Held \cup Range(pending)) ~>
               (~up \/ stored[m] > 0 \/ m \in dlq \cup abandoned \cup dropped))

=============================================================================
