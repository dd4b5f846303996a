------------------------------ MODULE Producer ------------------------------
(***************************************************************************)
(* The V2 producer side: calls of IngestionService.ProcessBatch            *)
(* (service/ingestion.go), the ProducerService they go through             *)
(* (service/producer.go) with its buffered channel, worker goroutines,     *)
(* retries, dead-letter files and circuit breaker, and the shutdown that   *)
(* closes both services.                                                   *)
(*                                                                         *)
(* Each call carries one batch and is named by it.  The breaker's two      *)
(* atomics are read and written in separate steps, as the code does.       *)
(***************************************************************************)
EXTENDS Integers, Sequences, FiniteSets, Functions

CONSTANTS
    Calls,       \* the calls of ProcessBatch, each with a non-empty batch
    Workers,     \* the runProducer goroutines
    Sync,        \* ingestion.syncOnIngest
    BufferSize,  \* capacity of workCh
    MaxRetries,  \* ProducerService.maxRetries
    Threshold,   \* circuitFailureThreshold
    Cooldown,    \* circuitCooldown, in clock ticks
    MaxTime      \* bound on the clock

ASSUME ProducerAssumption ==
    /\ Calls \cap Workers = {}
    /\ IsFiniteSet(Calls) /\ IsFiniteSet(Workers)
    /\ Sync \in BOOLEAN
    /\ Sync \/ Workers # {}   \* NewProducerService: ten unless positive
    /\ BufferSize \in Nat \ {0}
    /\ MaxRetries \in Nat
    /\ Threshold \in Nat \ {0}
    /\ Cooldown \in Nat \ {0}
    /\ MaxTime \in Nat \ {0}

VARIABLES
    pc,         \* program counter of each call and worker
    reply,      \* what ProcessBatch returned to each call
    item,       \* the batch a worker took from workCh
    attempt,    \* tryEnqueueWithRetry's attempt
    seen,       \* the deadline isCircuitOpen loaded before its CompareAndSwap
    workCh,     \* the buffered channel
    started,    \* ProducerService.started
    stage,      \* how far shutdown has come
    failures,   \* consecutiveFailures
    openUntil,  \* circuitOpenUntilNs; 0 when the circuit is closed
    now,        \* the clock
    kafka,      \* how often each batch was written to the topic
    dlq,        \* batches in a producer DLQ file
    abandoned   \* batches whose DLQ file could not be written

callVars == <<reply, seen>>
sendVars == <<item, attempt>>
queueVars == <<workCh, started>>
circuitVars == <<failures, openUntil>>
outVars == <<kafka, dlq, abandoned>>
vars == <<pc, callVars, sendVars, queueVars, stage, circuitVars, now, outVars>>

Goroutines == Calls \cup Workers

\* The steps of shutdown, in the order of BuildApp's cleanups: the ingestion
\* service is closed, then ProducerService.Close sets its flag, closes the
\* channel, cancels the context and waits for the workers.
Stages == <<"running", "ingestionClosed", "closed", "channelClosed",
            "cancelled", "stopped">>
Reached(s) == \E i, j \in DOMAIN Stages :
                 Stages[i] = s /\ Stages[j] = stage /\ i <= j

Init ==
    /\ pc = [g \in Goroutines |-> IF g \in Calls THEN "idle" ELSE "notStarted"]
    /\ reply = [c \in Calls |-> "none"]
    /\ item = [w \in Workers |-> {}]
    /\ attempt = [g \in Goroutines |-> 0]
    /\ seen = [c \in Calls |-> 0]
    /\ workCh = <<>>
    /\ started = FALSE
    /\ stage = "running"
    /\ failures = 0
    /\ openUntil = 0
    /\ now = 1
    /\ kafka = [c \in Calls |-> 0]
    /\ dlq = {}
    /\ abandoned = {}

At(g, label) == pc[g] = label
Goto(g, label) == pc' = [pc EXCEPT ![g] = label]
Return(c, r) == Goto(c, "done") /\ reply' = [reply EXCEPT ![c] = r]

-----------------------------------------------------------------------------
(* ProcessBatch, Enqueue and EnqueueSync, up to the channel or the first   *)
(* attempt.                                                                *)

\* ProcessBatch looks at the ingestion service's closed flag.
ProcessBatch(c) ==
    /\ At(c, "idle")
    /\ IF Reached("ingestionClosed")
       THEN Return(c, "ingestionStopped")
       ELSE Goto(c, "check") /\ UNCHANGED reply
    /\ UNCHANGED <<seen, sendVars, queueVars, stage, circuitVars, now, outVars>>

\* Enqueue refuses before StartAsync; both forms refuse once closed is set.
CheckAccepting(c) ==
    /\ At(c, "check")
    /\ IF ~Sync /\ ~started THEN Return(c, "notStarted")
       ELSE IF Reached("closed") THEN Return(c, "stopped")
       ELSE Goto(c, "circuit") /\ UNCHANGED reply
    /\ UNCHANGED <<seen, sendVars, queueVars, stage, circuitVars, now, outVars>>

\* Faulty variant of LoadCircuit: an open circuit is waited for, not refused.
LoadWaits(c) ==
    /\ At(c, "circuit")
    /\ openUntil <= now
    /\ seen' = [seen EXCEPT ![c] = openUntil]
    /\ Goto(c, IF openUntil = 0 THEN "admit" ELSE "expired")
    /\ UNCHANGED <<reply, sendVars, queueVars, stage, circuitVars, now, outVars>>

\* isCircuitOpen: load the deadline and compare it with the clock.
LoadCircuit(c) ==
    /\ At(c, "circuit")
    /\ seen' = [seen EXCEPT ![c] = openUntil]
    /\ IF openUntil = 0 THEN Goto(c, "admit") /\ UNCHANGED reply
       ELSE IF now < openUntil THEN Return(c, "circuitOpen")
       ELSE Goto(c, "expired") /\ UNCHANGED reply
    /\ UNCHANGED <<sendVars, queueVars, stage, circuitVars, now, outVars>>

\* Faulty variant of ClearExpired: Store(0) in place of CompareAndSwap.
ClearBlindly(c) ==
    /\ At(c, "expired")
    /\ openUntil' = 0
    /\ Goto(c, "admit")
    /\ UNCHANGED <<callVars, sendVars, queueVars, stage, failures, now, outVars>>

\* isCircuitOpen: CompareAndSwap(until, 0) of a deadline that has passed.
ClearExpired(c) ==
    /\ At(c, "expired")
    /\ openUntil' = IF openUntil = seen[c] THEN 0 ELSE openUntil
    /\ Goto(c, "admit")
    /\ UNCHANGED <<callVars, sendVars, queueVars, stage, failures, now, outVars>>

\* Enqueue: the request's context may be done by now.
ContextDone(c) ==
    /\ At(c, "admit") /\ ~Sync
    /\ Return(c, "contextDone")
    /\ UNCHANGED <<seen, sendVars, queueVars, stage, circuitVars, now, outVars>>

\* Faulty variant of Send: a full buffer answers ErrQueueFull but the batch is
\* handed to the channel all the same.
SendThenFull(c) ==
    /\ At(c, "admit") /\ ~Sync
    /\ IF Reached("channelClosed") THEN Return(c, "panic") /\ UNCHANGED workCh
       ELSE /\ workCh' = Append(workCh, c)
            /\ Return(c, IF Len(workCh) < BufferSize THEN "accepted" ELSE "full")
    /\ UNCHANGED <<seen, sendVars, started, stage, circuitVars, now, outVars>>

\* Enqueue's non-blocking send: a full buffer is refused, and a send on the
\* channel that Close has closed panics.
Send(c) ==
    /\ At(c, "admit") /\ ~Sync
    /\ IF Reached("channelClosed") THEN Return(c, "panic") /\ UNCHANGED workCh
       ELSE IF Len(workCh) < BufferSize
            THEN Return(c, "accepted") /\ workCh' = Append(workCh, c)
            ELSE Return(c, "full") /\ UNCHANGED workCh
    /\ UNCHANGED <<seen, sendVars, started, stage, circuitVars, now, outVars>>

\* EnqueueSync enters tryEnqueueWithRetry in the caller's goroutine.
BeginSync(c) ==
    /\ At(c, "admit") /\ Sync
    /\ attempt' = [attempt EXCEPT ![c] = 1]
    /\ Goto(c, "publish")
    /\ UNCHANGED <<callVars, item, queueVars, stage, circuitVars, now, outVars>>

-----------------------------------------------------------------------------
(* tryEnqueueWithRetry, in a worker or in a synchronous call.              *)

\* The batch goroutine g is publishing.
Batch(g) == IF g \in Workers THEN item[g] ELSE {g}

Write(S) == kafka' = [c \in Calls |-> kafka[c] + IF c \in S THEN 1 ELSE 0]

\* Leave tryEnqueueWithRetry: a worker goes on to the next batch or to the DLQ,
\* a call returns.
Succeed(g) ==
    IF g \in Workers THEN Goto(g, "receive") /\ UNCHANGED reply
                     ELSE Return(g, "accepted")
Fail(g, r) ==
    IF g \in Workers THEN Goto(g, "dlq") /\ UNCHANGED reply
                     ELSE Return(g, r)

\* The last error was the caller's deadline or cancellation, or another one.
Errors == {"timedOut", "failed"}

\* EnqueueBatch returns nil.
EnqueueSucceeds(g) ==
    /\ At(g, "publish")
    /\ Write(Batch(g))
    /\ Goto(g, "success")
    /\ UNCHANGED <<callVars, sendVars, queueVars, stage, circuitVars, now, dlq,
                   abandoned>>

\* EnqueueBatch returns an error, by itself or because writeTimeout or the
\* context ended it; the broker may have the batch nevertheless.
EnqueueFails(g) ==
    /\ At(g, "publish")
    /\ \E S \in {{}, Batch(g)} : Write(S)
    /\ Goto(g, IF attempt[g] = MaxRetries + 1 THEN "failure" ELSE "backoff")
    /\ UNCHANGED <<callVars, sendVars, queueVars, stage, circuitVars, now, dlq,
                   abandoned>>

\* The backoff timer fires: next attempt.
BackoffElapses(g) ==
    /\ At(g, "backoff")
    /\ attempt' = [attempt EXCEPT ![g] = @ + 1]
    /\ Goto(g, "publish")
    /\ UNCHANGED <<callVars, item, queueVars, stage, circuitVars, now, outVars>>

\* The backoff is cut short: a worker's context by Close, a call's by its
\* client or by the request timeout.  No failure is counted.
BackoffCancelled(g) ==
    /\ At(g, "backoff")
    /\ g \in Workers => Reached("cancelled")
    /\ Fail(g, "timedOut")
    /\ UNCHANGED <<seen, sendVars, queueVars, stage, circuitVars, now, outVars>>

\* onEnqueueSuccess, first store.
ResetFailures(g) ==
    /\ At(g, "success")
    /\ failures' = 0
    /\ Goto(g, "closeCircuit")
    /\ UNCHANGED <<callVars, sendVars, queueVars, stage, openUntil, now, outVars>>

\* onEnqueueSuccess, second store.
CloseCircuit(g) ==
    /\ At(g, "closeCircuit")
    /\ openUntil' = 0
    /\ Succeed(g)
    /\ UNCHANGED <<seen, sendVars, queueVars, stage, failures, now, outVars>>

\* Faulty variant of CountFailure: only the failure that hits the threshold
\* exactly opens the circuit.
CountExactly(g) ==
    /\ At(g, "failure")
    /\ failures' = failures + 1
    /\ IF failures + 1 # Threshold THEN \E r \in Errors : Fail(g, r)
       ELSE Goto(g, "openCircuit") /\ UNCHANGED reply
    /\ UNCHANGED <<seen, sendVars, queueVars, stage, openUntil, now, outVars>>

\* onEnqueueFailure: add one, and open the circuit at the threshold.
CountFailure(g) ==
    /\ At(g, "failure")
    /\ failures' = failures + 1
    /\ IF failures + 1 < Threshold THEN \E r \in Errors : Fail(g, r)
       ELSE Goto(g, "openCircuit") /\ UNCHANGED reply
    /\ UNCHANGED <<seen, sendVars, queueVars, stage, openUntil, now, outVars>>

\* onEnqueueFailure: store the new deadline.
OpenCircuit(g) ==
    /\ At(g, "openCircuit")
    /\ openUntil' = now + Cooldown
    /\ Goto(g, "resetCount")
    /\ UNCHANGED <<callVars, sendVars, queueVars, stage, failures, now, outVars>>

\* onEnqueueFailure: store zero into the counter.
ResetCount(g) ==
    /\ At(g, "resetCount")
    /\ failures' = 0
    /\ \E r \in Errors : Fail(g, r)
    /\ UNCHANGED <<seen, sendVars, queueVars, stage, openUntil, now, outVars>>

-----------------------------------------------------------------------------
(* runProducer and writeProducerDLQ.                                       *)

StartAsync ==
    /\ ~Sync /\ ~started /\ stage = "running"
    /\ started' = TRUE
    /\ pc' = [g \in Goroutines |-> IF g \in Workers THEN "receive" ELSE pc[g]]
    /\ UNCHANGED <<callVars, sendVars, workCh, stage, circuitVars, now, outVars>>

\* Faulty variant of Receive: a worker stops receiving once the channel is
\* closed, leaving what is buffered.
ReceiveWhileOpen(w) ==
    /\ At(w, "receive")
    /\ IF workCh # <<>> /\ ~Reached("channelClosed")
       THEN /\ item' = [item EXCEPT ![w] = {Head(workCh)}]
            /\ attempt' = [attempt EXCEPT ![w] = 1]
            /\ workCh' = Tail(workCh)
            /\ Goto(w, "publish")
       ELSE /\ Reached("channelClosed")
            /\ Goto(w, "exited")
            /\ UNCHANGED <<sendVars, workCh>>
    /\ UNCHANGED <<callVars, started, stage, circuitVars, now, outVars>>

\* Faulty variant of Receive: a worker waits on the closed, empty channel.
ReceiveForever(w) ==
    /\ At(w, "receive") /\ workCh # <<>>
    /\ item' = [item EXCEPT ![w] = {Head(workCh)}]
    /\ attempt' = [attempt EXCEPT ![w] = 1]
    /\ workCh' = Tail(workCh)
    /\ Goto(w, "publish")
    /\ UNCHANGED <<callVars, started, stage, circuitVars, now, outVars>>

\* range over workCh: take the next batch, also after Close closed the channel;
\* exit when it is closed and empty.
Receive(w) ==
    /\ At(w, "receive")
    /\ IF workCh # <<>>
       THEN /\ item' = [item EXCEPT ![w] = {Head(workCh)}]
            /\ attempt' = [attempt EXCEPT ![w] = 1]
            /\ workCh' = Tail(workCh)
            /\ Goto(w, "publish")
       ELSE /\ Reached("channelClosed")
            /\ Goto(w, "exited")
            /\ UNCHANGED <<sendVars, workCh>>
    /\ UNCHANGED <<callVars, started, stage, circuitVars, now, outVars>>

\* Faulty variant of WriteDLQ: a failed batch is logged and dropped.
DropFailed(w) ==
    /\ At(w, "dlq")
    /\ item' = [item EXCEPT ![w] = {}]
    /\ Goto(w, "receive")
    /\ UNCHANGED <<callVars, attempt, queueVars, stage, circuitVars, now, outVars>>

\* writeProducerDLQ: the failed batch goes to a file, or the failure to write
\* one is logged.
WriteDLQ(w) ==
    /\ At(w, "dlq")
    /\ \/ dlq' = dlq \cup item[w] /\ UNCHANGED abandoned
       \/ abandoned' = abandoned \cup item[w] /\ UNCHANGED dlq
    /\ item' = [item EXCEPT ![w] = {}]
    /\ Goto(w, "receive")
    /\ UNCHANGED <<callVars, attempt, queueVars, stage, circuitVars, now, kafka>>

-----------------------------------------------------------------------------
(* Shutdown and time.                                                      *)

WorkersDone == \A w \in Workers : pc[w] \in {"notStarted", "exited"}

\* The next step of shutdown; the last one is wg.Wait returning.
Shutdown ==
    /\ \E i \in 1 .. Len(Stages) - 1 :
          stage = Stages[i] /\ stage' = Stages[i + 1]
    /\ stage' = "stopped" => WorkersDone
    /\ UNCHANGED <<pc, callVars, sendVars, queueVars, circuitVars, now, outVars>>

\* The clock is read against openUntil only, so a tick while the circuit is
\* closed would change nothing but the names of the instants.
Tick ==
    /\ now < MaxTime /\ openUntil # 0
    /\ now' = now + 1
    /\ UNCHANGED <<pc, callVars, sendVars, queueVars, stage, circuitVars, outVars>>

Call(c) ==
    \/ ProcessBatch(c)
    \/ CheckAccepting(c)
    \/ LoadCircuit(c)
    \/ ClearExpired(c)
    \/ ContextDone(c)
    \/ Send(c)
    \/ BeginSync(c)

Publish(g) ==
    \/ EnqueueSucceeds(g)
    \/ EnqueueFails(g)
    \/ BackoffElapses(g)
    \/ BackoffCancelled(g)
    \/ ResetFailures(g)
    \/ CloseCircuit(g)
    \/ CountFailure(g)
    \/ OpenCircuit(g)
    \/ ResetCount(g)

RunProducer(w) == Receive(w) \/ WriteDLQ(w)

Next ==
    \/ \E c \in Calls : Call(c)
    \/ \E g \in Goroutines : Publish(g)
    \/ \E w \in Workers : RunProducer(w)
    \/ StartAsync
    \/ Shutdown
    \/ Tick

Spec == Init /\ [][Next]_vars

-----------------------------------------------------------------------------
(* Properties.                                                             *)

Replies == {"none", "ingestionStopped", "notStarted", "stopped", "circuitOpen",
            "contextDone", "panic", "accepted", "full"} \cup Errors
CallLabels == {"idle", "check", "circuit", "expired", "admit", "done"}
WorkerLabels == {"notStarted", "receive", "exited", "dlq"}
PublishLabels == {"publish", "backoff", "success", "closeCircuit", "failure",
                  "openCircuit", "resetCount"}

\* Every variable has its type; workCh never exceeds its capacity, and
\* tryEnqueueWithRetry never makes more than maxRetries + 1 attempts.
TypeOK ==
    /\ pc \in [Goroutines -> CallLabels \cup WorkerLabels \cup PublishLabels]
    /\ \A c \in Calls : pc[c] \notin WorkerLabels
    /\ \A w \in Workers : pc[w] \notin CallLabels
    /\ reply \in [Calls -> Replies]
    /\ item \in [Workers -> SUBSET Calls]
    /\ attempt \in [Goroutines -> 0 .. MaxRetries + 1]
    /\ seen \in [Calls -> Nat]
    /\ workCh \in Seq(Calls) /\ Len(workCh) <= BufferSize
    /\ started \in BOOLEAN
    /\ stage \in Range(Stages)
    /\ failures \in Nat
    /\ openUntil \in Nat
    /\ now \in 1 .. MaxTime
    /\ kafka \in [Calls -> Nat]
    /\ dlq \subseteq Calls
    /\ abandoned \subseteq Calls

Queued == Range(workCh)
Held == UNION {item[w] : w \in Workers}
Delivered(c) == kafka[c] > 0 \/ c \in dlq \cup abandoned

\* A batch that ProcessBatch accepted is in the channel, in a worker's hands, in
\* Kafka, in the DLQ or logged as lost by writeProducerDLQ, at every moment and
\* whatever Close does meanwhile.
AcceptedIsHeld ==
    \A c \in Calls : reply[c] = "accepted" =>
        c \in Queued \cup Held \/ Delivered(c)

\* A batch that Enqueue refused (429 or 503) was not published and never will
\* be: the client may send it again without making a duplicate.
RefusedIsUnpublished ==
    \A c \in Calls : reply[c] \notin {"none", "accepted"} \cup Errors =>
        c \notin Queued \cup Held /\ ~Delivered(c)

\* When Close has returned every accepted batch has reached Kafka, the DLQ or
\* the log: the workers drained the channel that Close closed.
ClosedMeansSettled ==
    stage = "stopped" =>
        \A c \in Calls : reply[c] = "accepted" => Delivered(c)

\* The failure counter is at or above the threshold only while as many
\* goroutines are between their increment and their reset in onEnqueueFailure:
\* it cannot get stuck there, nor creep up without bound.
CounterNeverStuck ==
    failures < Threshold + Cardinality({g \in Goroutines :
                                  pc[g] \in {"openCircuit", "resetCount"}})

\* The circuit closes only because its deadline has passed or because a publish
\* succeeded: a check that saw an older, expired deadline cannot close a circuit
\* that has opened again since (isCircuitOpen's CompareAndSwap).
CircuitClosesForCause ==
    [][(openUntil # 0 /\ openUntil' = 0) =>
           \/ openUntil <= now
           \/ \E g \in Goroutines : At(g, "closeCircuit") /\ pc'[g] # pc[g]]_vars

\* An accepted batch is eventually published, written to the DLQ or logged as
\* lost by writeProducerDLQ, also when Close intervenes.  writeProducerDLQ has no
\* timeout: one that never returns keeps its own batch, and the batches behind it
\* only when it happens to every worker.
AcceptedIsDelivered ==
    \A c \in Calls :
        (/\ []<>(\E w \in Workers : ~At(w, "dlq"))
         /\ \A w \in Workers : []<>~(At(w, "dlq") /\ c \in item[w]))
        => ((reply[c] = "accepted") ~> Delivered(c))

\* A call that finds the producer closed gets an error, never a panic.
NoPanic == \A c \in Calls : reply[c] # "panic"

=============================================================================
