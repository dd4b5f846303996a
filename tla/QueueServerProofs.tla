------------------------- MODULE QueueServerProofs --------------------------
(***************************************************************************)
(* Proofs about QueueServer, the pipeline from POST /logs to the topic,    *)
(* for any requests, traffic, workers, buffer size, retries, threshold and *)
(* cooldown, in both modes.                                                *)
(*                                                                         *)
(* The pipeline takes no step of the producer that Producer does not       *)
(* describe, so the theorems of ProducerProofs hold of it; the rest        *)
(* follows from an invariant that ties the producer to the phases of Run.  *)
(***************************************************************************)
EXTENDS QueueServer, ProducerProofs, FiniteSetTheorems

\* The composition adds nothing to the producer (app.go:187-191, 364-383): each
\* of its steps is one of Producer's or leaves the producer alone.
LEMMA StepIsProducers == QueueNext => [Next]_vars
<1>1. RunStep => [Next]_vars
  BY DEF RunStep, Next
<1>2. ASSUME NEW c \in Calls, RequestStep(c) \/ HandlerStep(c) PROVE [Next]_vars
  BY <1>2 DEF RequestStep, HandlerStep, Next, Goroutines
<1>3. ASSUME NEW w \in Workers, WorkerStep(w) PROVE [Next]_vars
  BY <1>3 DEF WorkerStep, Next, Goroutines
<1>4. Clock => [Next]_vars
  BY DEF Clock, Next
<1>5. FlushLoopEnds => [Next]_vars
  BY DEF FlushLoopEnds
<1> QED
  BY <1>1, <1>2, <1>3, <1>4, <1>5 DEF QueueNext

\* The pipeline behind the HTTP server implements the producer on its own.
THEOREM PipelineRunsProducer == QueueSpec => Spec
<1>1. QueueInit => Init
  BY DEF QueueInit
<1>2. [QueueNext]_serviceVars => [Next]_vars
  BY StepIsProducers DEF serviceVars
<1> QED
  BY <1>1, <1>2, PTL DEF QueueSpec, SafeQueueSpec, Spec

-----------------------------------------------------------------------------
\* The failure counter.

\* The goroutines that have counted a failure and not yet reset the counter.
Counting == {g \in Goroutines : pc[g] \in {"openCircuit", "resetCount"}}

\* They are finitely many, and their number changes by the one that moves.
LEMMA CountingMoves ==
    ASSUME TypeOK, NEW g \in Goroutines, \A x \in Goroutines \ {g} : pc'[x] = pc[x]
    PROVE  /\ Cardinality(Counting) \in Nat /\ Cardinality(Counting') \in Nat
           /\ (pc[g] \in {"openCircuit", "resetCount"} <=>
               pc'[g] \in {"openCircuit", "resetCount"}) => Counting' = Counting
           /\ (pc[g] \notin {"openCircuit", "resetCount"} /\
               pc'[g] \in {"openCircuit", "resetCount"}) =>
                 Cardinality(Counting') = Cardinality(Counting) + 1
<1>1. IsFiniteSet(Goroutines)
  BY ProducerAssumption, FS_Union DEF Goroutines
<1>2. IsFiniteSet(Counting) /\ IsFiniteSet(Counting')
  BY <1>1, FS_Subset DEF Counting
<1>3. ASSUME pc[g] \notin {"openCircuit", "resetCount"},
             pc'[g] \in {"openCircuit", "resetCount"}
      PROVE  Cardinality(Counting') = Cardinality(Counting) + 1
  <2>1. Counting' = Counting \cup {g} /\ g \notin Counting
    BY <1>3 DEF Counting
  <2> QED
    BY <1>2, <2>1, FS_AddElement
<1>4. ASSUME pc[g] \in {"openCircuit", "resetCount"} <=>
                 pc'[g] \in {"openCircuit", "resetCount"}
      PROVE  Counting' = Counting
  BY <1>4 DEF Counting
<1> QED
  BY <1>2, <1>3, <1>4, FS_CardinalityType

\* What a step of tryEnqueueWithRetry does to the counter: onEnqueueFailure adds
\* one on the way to opening the circuit, or while below the threshold.
LEMMA CounterEdges ==
    ASSUME TypeOK, NEW g \in Goroutines, Publish(g)
    PROVE  \/ failures' = 0
           \/ failures' = failures + 1 /\ failures + 1 < Threshold
           \/ /\ failures' = failures + 1
              /\ pc[g] = "failure" /\ pc'[g] = "openCircuit"
           \/ /\ failures' = failures
              /\ pc[g] \in {"openCircuit", "resetCount"} <=>
                    pc'[g] \in {"openCircuit", "resetCount"}
<1>1. pc \in [Goroutines -> Labels]
  BY DEF TypeOK, Labels
<1> USE <1>1 DEF Goto, At
<1>2. CASE EnqueueSucceeds(g) \/ EnqueueFails(g) \/ BackoffElapses(g)
  BY <1>2 DEF EnqueueSucceeds, EnqueueFails, BackoffElapses, circuitVars
<1>3. CASE BackoffCancelled(g) \/ CloseCircuit(g)
  BY <1>3 DEF BackoffCancelled, CloseCircuit, Succeed, Fail, Return, circuitVars
<1>4. CASE ResetFailures(g) \/ ResetCount(g)
  BY <1>4 DEF ResetFailures, ResetCount
<1>5. CASE CountFailure(g) \/ OpenCircuit(g)
  BY <1>5 DEF CountFailure, OpenCircuit
<1> QED
  BY <1>2, <1>3, <1>4, <1>5 DEF Publish

\* The counter stays below the threshold plus the goroutines that have yet to
\* reset it, whatever the interleaving of their increments and resets.
LEMMA CounterKept ==
    ASSUME TypeOK, WorkerInv, CounterNeverStuck, Next
    PROVE  CounterNeverStuck'
<1>1. /\ failures \in Nat /\ Threshold \in Nat \ {0}
      /\ failures < Threshold + Cardinality(Counting)
  BY ProducerAssumption DEF TypeOK, CounterNeverStuck, Counting
<1>2. SUFFICES failures' < Threshold + Cardinality(Counting')
  BY DEF CounterNeverStuck, Counting
<1>3. ASSUME failures' = failures, Counting' = Counting
      PROVE  failures' < Threshold + Cardinality(Counting')
  BY <1>1, <1>3
<1>4. ASSUME NEW c \in Calls, Call(c) PROVE failures' < Threshold + Cardinality(Counting')
  <2>1. /\ c \in Goroutines /\ \A x \in Goroutines \ {c} : pc'[x] = pc[x]
        /\ pc[c] \notin {"openCircuit", "resetCount"}
        /\ pc'[c] \notin {"openCircuit", "resetCount"}
    BY <1>4, CallEdges DEF Goroutines
  <2>2. Counting' = Counting
    BY <2>1 DEF Counting
  <2> QED
    BY <1>3, <1>4, <2>2, CallLeaves
<1>5. ASSUME NEW g \in Goroutines, Publish(g)
      PROVE  failures' < Threshold + Cardinality(Counting')
  <2>1. \A x \in Goroutines \ {g} : pc'[x] = pc[x]
    BY <1>5, PublishEdges
  <2>2. /\ Cardinality(Counting) \in Nat /\ Cardinality(Counting') \in Nat
        /\ (pc[g] \in {"openCircuit", "resetCount"} <=>
            pc'[g] \in {"openCircuit", "resetCount"}) => Counting' = Counting
        /\ (pc[g] \notin {"openCircuit", "resetCount"} /\
            pc'[g] \in {"openCircuit", "resetCount"}) =>
              Cardinality(Counting') = Cardinality(Counting) + 1
    BY <2>1, CountingMoves
  <2>3. CASE failures' = 0 \/ (failures' = failures + 1 /\ failures + 1 < Threshold)
    BY <1>1, <2>2, <2>3
  <2>4. CASE failures' = failures + 1 /\ pc[g] = "failure" /\ pc'[g] = "openCircuit"
    BY <1>1, <2>2, <2>4
  <2>5. CASE /\ failures' = failures
             /\ pc[g] \in {"openCircuit", "resetCount"} <=>
                   pc'[g] \in {"openCircuit", "resetCount"}
    BY <1>3, <2>2, <2>5
  <2> QED
    BY <1>5, <2>3, <2>4, <2>5, CounterEdges
<1>6. ASSUME NEW w \in Workers, RunProducer(w)
      PROVE  failures' < Threshold + Cardinality(Counting')
  <2>1. /\ w \in Goroutines /\ \A x \in Goroutines \ {w} : pc'[x] = pc[x]
        /\ pc[w] \notin {"openCircuit", "resetCount"}
        /\ pc'[w] \notin {"openCircuit", "resetCount"}
    BY <1>6, WorkerEdges DEF Goroutines
  <2>2. Counting' = Counting
    BY <2>1 DEF Counting
  <2> QED
    BY <1>3, <1>6, <2>2, WorkerLeaves
<1>7. CASE Shutdown \/ Tick
  BY <1>3, <1>7 DEF Shutdown, Tick, circuitVars, Counting
<1>8. CASE StartAsync
  BY <1>3, <1>8 DEF StartAsync, circuitVars, Counting, WorkerInv
<1> QED
  BY <1>4, <1>5, <1>6, <1>7, <1>8 DEF Next

\* The failure counter of the circuit breaker can neither creep up nor stay at
\* the threshold with nobody left to reset it (onEnqueueFailure,
\* producer.go:322-336), for any number of goroutines failing at once.
THEOREM CounterAlwaysReset == Spec => []CounterNeverStuck
<1>1. Init => CounterNeverStuck
  <2>1. SUFFICES ASSUME Init PROVE CounterNeverStuck
    OBVIOUS
  <2>2. \A g \in Goroutines : pc[g] \notin {"openCircuit", "resetCount"}
    BY <2>1 DEF Init
  <2>3. Counting = {}
    BY <2>2 DEF Counting
  <2>4. failures = 0 /\ Threshold \in Nat \ {0} /\ Cardinality(Counting) = 0
    BY <2>1, <2>3, FS_EmptySet, ProducerAssumption DEF Init
  <2>5. failures < Threshold + Cardinality(Counting)
    BY <2>4
  <2> QED
    BY <2>5 DEF CounterNeverStuck, Counting
<1>2. ProducerInv /\ CounterNeverStuck /\ [Next]_vars => CounterNeverStuck'
  <2>1. ASSUME ProducerInv, CounterNeverStuck, Next PROVE CounterNeverStuck'
    BY <2>1, CounterKept DEF ProducerInv
  <2>2. ASSUME CounterNeverStuck, UNCHANGED vars PROVE CounterNeverStuck'
    BY <2>2 DEF CounterNeverStuck, vars, circuitVars
  <2> QED
    BY <2>1, <2>2
<1> QED
  BY <1>1, <1>2, ProducerInvariant, PTL DEF Spec

-----------------------------------------------------------------------------
\* The invariant of the composition.

\* The producer accepts while the server listens or drains, and no request is
\* handled before the server listens or, unless Shutdown gave up, after it
\* returned.
PhaseInv ==
    /\ phase \in {"building", "serving", "draining"} => stage = "running" /\ ~expired
    /\ phase \in {"serving", "draining", "closing"} => Sync \/ started
    /\ phase = "building" => \A c \in Calls : http[c] = NotSent
    /\ phase = "exited" => \A c \in Calls : http[c] # Handling
    /\ phase = "closing" /\ ~expired => \A c \in Calls : http[c] # Handling

\* A call under way is that of a request being handled, until the process ends.
RequestInv ==
    \A c \in Calls : pc[c] \notin {"idle", "done"} =>
        http[c] = Handling \/ phase = "exited"

PipelineInv ==
    /\ ServerTypeOK /\ PhaseInv /\ RequestInv
    /\ GracefulShutdown /\ NoInternalError

\* handleLogs answers with one of its status codes: 500 only for an error that
\* is none of the producer's own, and a refusal is none of the codes that
\* follow ProcessBatch.
LEMMA RefusalCodes == \A req : Refusal(req) \in {0, 400, 401, 405, 413, 415}
BY DEF Refusal

LEMMA AnswerCodes ==
    /\ \A r : StatusOf(r) \in {202, 429, 503, 500}
    /\ \A r \in Replies \ {"none", "failed", "panic"} : StatusOf(r) # 500
BY DEF StatusOf, Unavailable, Replies, Errors

\* A step of handleLogs belongs to a request being handled, so Run is serving,
\* draining, or past a Shutdown that gave up.
LEMMA HandlerHandles ==
    ASSUME TypeOK, ServerTypeOK, PhaseInv, RequestInv,
           NEW c \in Calls, HandlerStep(c)
    PROVE  /\ http[c] = Handling
           /\ phase \in {"serving", "draining"} \/ (phase = "closing" /\ expired)
<1>1. phase # "exited" /\ phase \in {"building", "serving", "draining", "closing", "exited"}
  BY DEF HandlerStep, ServerTypeOK
<1>2. Call(c) => pc[c] # "done"
  BY CallEdges
<1>3. Publish(c) => pc[c] \in PublishLabels
  BY PublishEdges DEF Goroutines
<1>4. pc[c] # "done" /\ (pc[c] = "idle" => http[c] = Handling)
  BY <1>2, <1>3 DEF HandlerStep, At, Decoded, PublishLabels
<1>5. http[c] = Handling
  BY <1>1, <1>4 DEF RequestInv
<1>6. http[c] # NotSent
  BY <1>5 DEF NotSent, Handling
<1> QED
  BY <1>1, <1>5, <1>6 DEF PhaseInv

\* The replies that only a stopping or never started producer gives.
Stopping == {"notStarted", "ingestionStopped", "stopped", "panic"}

\* Before the cleanups begin, and with the workers started or not needed,
\* ProcessBatch meets no closed service and no closed channel.
LEMMA RunningReplies ==
    ASSUME TypeOK, stage = "running", Sync \/ started, NEW c \in Calls, Call(c),
           reply[c] \notin Stopping
    PROVE  reply'[c] \notin Stopping
<1>1. /\ ~Reached("ingestionClosed") /\ ~Reached("closed") /\ ~Reached("channelClosed")
      /\ reply \in [Calls -> Replies]
  BY StageFacts DEF TypeOK
<1> USE <1>1 DEF Stopping
<1>2. CASE ProcessBatch(c) \/ CheckAccepting(c)
  BY <1>2 DEF ProcessBatch, CheckAccepting, Return
<1>3. CASE LoadCircuit(c)
  BY <1>3 DEF LoadCircuit, Return
<1>4. CASE ContextDone(c) \/ Send(c)
  BY <1>4 DEF ContextDone, Send, Return
<1>5. CASE ClearExpired(c) \/ BeginSync(c)
  BY <1>5 DEF ClearExpired, BeginSync, callVars
<1> QED
  BY <1>2, <1>3, <1>4, <1>5 DEF Call

\* A step of handleLogs concerns its own request and leaves Run alone.
LEMMA HandlerLeaves ==
    ASSUME TypeOK, ServerTypeOK, NEW c \in Calls, HandlerStep(c)
    PROVE  /\ phase' = phase /\ expired' = expired
           /\ stage' = stage /\ started' = started
           /\ \A d \in Calls \ {c} :
                 pc'[d] = pc[d] /\ reply'[d] = reply[d] /\ http'[d] = http[d]
<1>1. phase' = phase /\ expired' = expired /\ \A d \in Calls \ {c} : http'[d] = http[d]
  BY QueueServerAssumption DEF HandlerStep, Respond, ServerTypeOK
<1>2. ASSUME Call(c)
      PROVE  /\ stage' = stage /\ started' = started
             /\ \A d \in Calls \ {c} : pc'[d] = pc[d] /\ reply'[d] = reply[d]
  BY <1>2, CallLeaves, CallEdges, Zenon DEF Goroutines
<1>3. ASSUME Publish(c)
      PROVE  /\ stage' = stage /\ started' = started
             /\ \A d \in Calls \ {c} : pc'[d] = pc[d] /\ reply'[d] = reply[d]
  BY <1>3, PublishLeaves, PublishEdges, Zenon DEF Goroutines
<1> QED
  BY <1>1, <1>2, <1>3 DEF HandlerStep

\* The request stays open until its call has its reply, and is then answered.
\* Asynchronous calls have no reply that means 500; calls that run before the
\* cleanups have none that means a stopped service.
LEMMA HandlerAnswers ==
    ASSUME ProducerInv, ServerTypeOK, PhaseInv, RequestInv, GracefulShutdown,
           NEW c \in Calls, HandlerStep(c)
    PROVE  /\ pc'[c] # "done" => http'[c] = Handling
           /\ http' \in [Requests -> Statuses \cup {NotSent, Handling, Aborted}]
           /\ ~Sync => http'[c] # 500
           /\ ~expired => reply'[c] \notin Stopping /\ http'[c] # Aborted
<1>1. /\ TypeOK /\ CallInv
  BY DEF ProducerInv
<1>2. /\ http[c] = Handling
      /\ ~expired => phase \in {"serving", "draining"}
  BY <1>1, HandlerHandles
<1>3. /\ reply[c] \notin Stopping \/ expired
      /\ ~expired => stage = "running" /\ (Sync \/ started)
  BY <1>2 DEF GracefulShutdown, Stopping, PhaseInv
<1>4. /\ c \in Requests /\ c \in Goroutines
      /\ http \in [Requests -> Statuses \cup {NotSent, Handling, Aborted}]
  BY QueueServerAssumption DEF Goroutines, ServerTypeOK
<1>5. reply'[c] \in Replies
  <2>1. Call(c) => TypeOK'
    BY <1>1, CallTyped
  <2>2. Publish(c) => TypeOK'
    BY <1>4, PublishTyped DEF ProducerInv
  <2> QED
    BY <2>1, <2>2 DEF HandlerStep, TypeOK
<1>6. /\ pc'[c] # "done" => reply'[c] = reply[c]
      /\ reply'[c] # reply[c] => reply'[c] # "none"
      /\ reply'[c] = "failed" => Sync \/ reply'[c] = reply[c]
      /\ ~expired => reply'[c] \notin Stopping
  <2>1. CASE Call(c)
    <3>1. IF pc'[c] = "done" THEN reply'[c] \notin {"none"} \cup Errors
                             ELSE reply'[c] = reply[c]
      BY <1>1, <2>1, CallEdges, Zenon
    <3> QED
      BY <1>1, <1>3, <2>1, <3>1, RunningReplies DEF Errors
  <2>2. CASE Publish(c)
    <3>1. /\ pc[c] \in PublishLabels
          /\ IF pc'[c] = "done" THEN reply'[c] \in Errors \/ reply'[c] = "accepted"
                                ELSE reply'[c] = reply[c]
      BY <1>1, <1>4, <2>2, PublishEdges, Zenon
    <3>2. Sync
      BY <1>1, <3>1 DEF CallInv
    <3> QED
      BY <1>3, <3>1, <3>2 DEF Errors, Stopping
  <2> QED
    BY <2>1, <2>2 DEF HandlerStep
<1>7. CASE reply'[c] = reply[c]
  <2>1. http' = http
    BY <1>7 DEF HandlerStep
  <2> QED
    BY <1>2, <1>4, <1>6, <2>1 DEF Handling, Aborted
<1>8. CASE reply'[c] # reply[c]
  <2>1. http' = [http EXCEPT ![c] = IF reply'[c] = "panic" THEN Aborted
                                    ELSE StatusOf(reply'[c])]
    BY <1>8 DEF HandlerStep, Respond
  <2>2. /\ StatusOf(reply'[c]) \in {202, 429, 503, 500}
        /\ ~Sync /\ reply'[c] # "panic" => StatusOf(reply'[c]) # 500
    BY <1>5, <1>6, <1>8, AnswerCodes
  <2> QED
    BY <1>4, <1>6, <1>8, <2>1, <2>2 DEF Statuses, Aborted, Stopping
<1> QED
  BY <1>7, <1>8

-----------------------------------------------------------------------------
\* Every step keeps the invariant of the composition.

\* The steps that change neither the server, nor a call or its reply, nor stop
\* the producer before the cleanups.
LEMMA OutsideKept ==
    ASSUME PipelineInv, UNCHANGED serverVars, reply' = reply,
           \A c \in Calls : pc'[c] = pc[c],
           started => started', stage' = stage \/ phase = "closing"
    PROVE  PipelineInv'
<1>1. phase' = phase /\ http' = http /\ expired' = expired
  BY DEF serverVars
<1>2. ServerTypeOK' /\ GracefulShutdown' /\ NoInternalError'
  BY <1>1 DEF PipelineInv, ServerTypeOK, GracefulShutdown, NoInternalError
<1>3. RequestInv'
  BY <1>1 DEF PipelineInv, RequestInv
<1>4. PhaseInv'
  BY <1>1 DEF PipelineInv, PhaseInv
<1> QED
  BY <1>2, <1>3, <1>4 DEF PipelineInv

\* A step of handleLogs and what it calls.
LEMMA HandlerKept ==
    ASSUME ProducerInv, PipelineInv, NEW c \in Calls, HandlerStep(c)
    PROVE  PipelineInv'
<1>1. /\ TypeOK /\ ServerTypeOK /\ PhaseInv /\ RequestInv
      /\ GracefulShutdown /\ NoInternalError
  BY DEF ProducerInv, PipelineInv
<1>2. /\ phase' = phase /\ expired' = expired
      /\ stage' = stage /\ started' = started
      /\ \A d \in Calls \ {c} :
            pc'[d] = pc[d] /\ reply'[d] = reply[d] /\ http'[d] = http[d]
  BY <1>1, HandlerLeaves, Zenon
<1>3. phase \in {"serving", "draining"} \/ (phase = "closing" /\ expired)
  BY <1>1, HandlerHandles
<1>4. /\ pc'[c] # "done" => http'[c] = Handling
      /\ http' \in [Requests -> Statuses \cup {NotSent, Handling, Aborted}]
      /\ ~Sync => http'[c] # 500
      /\ ~expired => reply'[c] \notin Stopping /\ http'[c] # Aborted
  BY <1>1, HandlerAnswers
<1>5. ServerTypeOK'
  BY <1>1, <1>2, <1>4 DEF ServerTypeOK
<1>6. PhaseInv'
  BY <1>1, <1>2, <1>3 DEF PhaseInv
<1>7. RequestInv'
  BY <1>1, <1>2, <1>4 DEF RequestInv
<1>8. GracefulShutdown' /\ NoInternalError'
  BY <1>1, <1>2, <1>4 DEF GracefulShutdown, NoInternalError, Stopping
<1> QED
  BY <1>5, <1>6, <1>7, <1>8 DEF PipelineInv

\* A request that arrives or is refused without a call.
LEMMA RequestKept ==
    ASSUME ProducerInv, PipelineInv, NEW c \in Calls, RequestStep(c)
    PROVE  PipelineInv'
<1>1. /\ ServerTypeOK /\ PhaseInv /\ RequestInv /\ GracefulShutdown /\ NoInternalError
  BY DEF PipelineInv
<1>2. /\ phase' = phase /\ expired' = expired /\ pc[c] = "idle"
      /\ pc' = pc /\ reply' = reply /\ stage' = stage /\ started' = started
  BY DEF RequestStep, Arrive, Refuse, At, vars, callVars, queueVars
<1>3. \E s \in {Handling, 400, 401, 405, 413, 415} :
         /\ http' = [http EXCEPT ![c] = s]
         /\ s = Handling => phase = "serving"
         /\ s # Handling => http[c] = Handling
  BY RefusalCodes DEF RequestStep, Arrive, Refuse, Handling
<1>4. /\ http' \in [Requests -> Statuses \cup {NotSent, Handling, Aborted}]
      /\ \A d \in Calls \ {c} : http'[d] = http[d]
      /\ http'[c] # Aborted /\ http'[c] # 500
      /\ http'[c] = Handling => phase = "serving"
      /\ http'[c] # Handling => http[c] = Handling
  BY <1>1, <1>3, QueueServerAssumption DEF ServerTypeOK, Statuses, Handling, Aborted
<1>5. ServerTypeOK'
  BY <1>1, <1>2, <1>4 DEF ServerTypeOK
<1>6. PhaseInv'
  <2>1. phase # "building"
    BY <1>1, <1>4 DEF PhaseInv, NotSent, Handling
  <2> QED
    BY <1>1, <1>2, <1>4, <2>1 DEF PhaseInv
<1>7. RequestInv'
  <2>1. ASSUME NEW d \in Calls, pc[d] \notin {"idle", "done"}
        PROVE  http'[d] = Handling \/ phase = "exited"
    <3>1. d # c
      BY <1>2, <2>1
    <3> QED
      BY <1>1, <1>4, <2>1, <3>1 DEF RequestInv
  <2> QED
    BY <1>2, <2>1 DEF RequestInv
<1>8. GracefulShutdown' /\ NoInternalError'
  BY <1>1, <1>2, <1>4 DEF GracefulShutdown, NoInternalError
<1> QED
  BY <1>5, <1>6, <1>7, <1>8 DEF PipelineInv

\* The steps of Run that concern the server: they leave the producer alone.  A
\* Shutdown that did not give up found no request, so the exit cuts none off.
LEMMA PhaseKept ==
    ASSUME ProducerInv, PipelineInv, UNCHANGED vars,
           \/ Listen /\ (Sync \/ started)
           \/ BuildFails /\ ~started
           \/ ListenFails
           \/ Sigterm
           \/ ShutdownReturns
           \/ Exit /\ stage = "stopped"
    PROVE  PipelineInv'
<1>1. /\ ServerTypeOK /\ PhaseInv /\ RequestInv /\ GracefulShutdown /\ NoInternalError
      /\ \A c \in Calls : c \in Requests
  BY QueueServerAssumption DEF PipelineInv
<1>2. pc' = pc /\ reply' = reply /\ stage' = stage /\ started' = started
  BY DEF vars, callVars, queueVars
<1>3. ASSUME http' = http, expired' \in BOOLEAN, ~expired' => ~expired,
             phase # "exited", phase' \in {"serving", "draining", "closing", "exited"},
             PhaseInv'
      PROVE  PipelineInv'
  <2>1. ServerTypeOK' /\ RequestInv'
    BY <1>1, <1>2, <1>3 DEF ServerTypeOK, RequestInv
  <2>2. GracefulShutdown' /\ NoInternalError'
    BY <1>1, <1>2, <1>3 DEF GracefulShutdown, NoInternalError
  <2> QED
    BY <1>3, <2>1, <2>2 DEF PipelineInv
<1>4. CASE (Listen /\ (Sync \/ started)) \/ Sigterm
  <2>1. /\ phase \in {"building", "serving"} /\ phase' \in {"serving", "draining"}
        /\ http' = http /\ expired' = expired
        /\ Sync \/ started
    BY <1>1, <1>4 DEF Listen, Sigterm, PhaseInv
  <2>2. PhaseInv'
    BY <1>1, <1>2, <2>1 DEF PhaseInv
  <2> QED
    BY <1>1, <1>3, <2>1, <2>2 DEF ServerTypeOK
<1>5. CASE (BuildFails /\ ~started) \/ ListenFails
  <2>1. /\ phase # "exited" /\ phase' = "exited" /\ http' = http /\ expired' = expired
        /\ \A c \in Calls : http[c] = NotSent
    BY <1>1, <1>5 DEF BuildFails, ListenFails, PhaseInv
  <2>2. PhaseInv'
    BY <2>1 DEF PhaseInv, NotSent, Handling
  <2> QED
    BY <1>1, <1>3, <2>1, <2>2 DEF ServerTypeOK
<1>6. CASE ShutdownReturns
  <2>1. /\ phase = "draining" /\ phase' = "closing" /\ http' = http /\ ~expired
        /\ expired' \in BOOLEAN
        /\ Sync \/ started
        /\ ~expired' => \A c \in Calls : http[c] # Handling
    BY <1>1, <1>6 DEF ShutdownReturns, Active, PhaseInv
  <2>2. PhaseInv'
    BY <1>2, <2>1 DEF PhaseInv
  <2> QED
    BY <1>3, <2>1, <2>2
<1>7. CASE Exit /\ stage = "stopped"
  <2>1. /\ phase = "closing" /\ phase' = "exited" /\ expired' = expired
        /\ http' = [r \in Requests |-> IF r \in Active THEN Aborted ELSE http[r]]
    BY <1>7 DEF Exit, Vanish
  <2>2. /\ http' \in [Requests -> Statuses \cup {NotSent, Handling, Aborted}]
        /\ \A c \in Calls : /\ http'[c] # Handling
                            /\ http'[c] = http[c] \/ http'[c] = Aborted
    BY <1>1, <2>1 DEF ServerTypeOK, Active, Handling, Aborted
  <2>3. ~expired => \A c \in Calls : http'[c] = http[c]
    BY <1>1, <2>1 DEF PhaseInv, Active
  <2>4. PhaseInv' /\ RequestInv'
    BY <2>1, <2>2 DEF PhaseInv, RequestInv
  <2>5. GracefulShutdown' /\ NoInternalError'
    BY <1>1, <1>2, <2>1, <2>2, <2>3 DEF GracefulShutdown, NoInternalError, Aborted
  <2>6. ServerTypeOK'
    BY <1>1, <2>1, <2>2 DEF ServerTypeOK
  <2> QED
    BY <2>4, <2>5, <2>6 DEF PipelineInv
<1> QED
  BY <1>4, <1>5, <1>6, <1>7

\* The steps of Run that concern the producer, its workers and the clock.
LEMMA BackgroundKept ==
    ASSUME ProducerInv, PipelineInv, UNCHANGED serverVars,
           \/ StartAsync
           \/ phase = "closing" /\ Shutdown
           \/ \E w \in Workers : Publish(w) \/ RunProducer(w)
           \/ Tick
    PROVE  PipelineInv'
<1>1. TypeOK
  BY DEF ProducerInv
<1>2. \A w \in Workers : w \in Goroutines /\ w \notin Calls
  BY ProducerAssumption DEF Goroutines
<1>3. CASE StartAsync \/ (phase = "closing" /\ Shutdown) \/ Tick
  <2>1. stage' = stage \/ phase = "closing"
    BY <1>3 DEF StartAsync, Tick
  <2> QED
    BY <1>1, <1>3, <2>1, OtherLeaves, OutsideKept
<1>4. ASSUME NEW w \in Workers, Publish(w) PROVE PipelineInv'
  <2>1. \A c \in Calls : pc'[c] = pc[c] /\ reply'[c] = reply[c]
    BY <1>1, <1>2, <1>4, PublishEdges DEF Goroutines
  <2>2. reply' = reply /\ started' = started /\ stage' = stage
    BY <1>2, <1>4, PublishMoves, PublishLeaves
  <2> QED
    BY <2>1, <2>2, OutsideKept
<1>5. ASSUME NEW w \in Workers, RunProducer(w) PROVE PipelineInv'
  <2>1. \A c \in Calls : pc'[c] = pc[c]
    BY <1>1, <1>2, <1>5, WorkerEdges DEF Goroutines
  <2> QED
    BY <1>5, <2>1, WorkerLeaves, OutsideKept
<1> QED
  BY <1>3, <1>4, <1>5

\* The composition keeps its invariant.
LEMMA PipelineInvariant == QueueSpec => []PipelineInv
<1>1. QueueInit => PipelineInv
  <2>1. SUFFICES ASSUME QueueInit PROVE PipelineInv
    OBVIOUS
  <2>2. phase = "building" /\ stage = "running" /\ expired = FALSE
    BY <2>1 DEF QueueInit, Init, ServerInit
  <2>3. \A c \in Calls : pc[c] = "idle" /\ reply[c] = "none"
    BY <2>1 DEF QueueInit, Init, Goroutines
  <2>4. /\ http \in [Requests -> {NotSent}]
        /\ \A c \in Calls : http[c] = NotSent
    BY <2>1, QueueServerAssumption DEF QueueInit, ServerInit
  <2>5. ServerTypeOK /\ PhaseInv /\ RequestInv
    BY <2>2, <2>3, <2>4 DEF ServerTypeOK, PhaseInv, RequestInv
  <2>6. GracefulShutdown /\ NoInternalError
    BY <2>3, <2>4 DEF GracefulShutdown, NoInternalError, NotSent, Aborted
  <2> QED
    BY <2>5, <2>6 DEF PipelineInv
<1>2. ProducerInv /\ PipelineInv /\ [QueueNext]_serviceVars => PipelineInv'
  <2>1. SUFFICES ASSUME ProducerInv, PipelineInv, [QueueNext]_serviceVars
                 PROVE  PipelineInv'
    OBVIOUS
  <2>2. CASE RunStep
    BY <2>1, <2>2, BackgroundKept, PhaseKept DEF RunStep
  <2>3. ASSUME NEW c \in Calls, RequestStep(c) \/ HandlerStep(c) PROVE PipelineInv'
    BY <2>1, <2>3, RequestKept, HandlerKept
  <2>4. CASE Clock \/ \E w \in Workers : WorkerStep(w)
    BY <2>1, <2>4, BackgroundKept DEF Clock, WorkerStep
  <2>5. CASE FlushLoopEnds \/ UNCHANGED serviceVars
    <3>1. UNCHANGED vars /\ UNCHANGED serverVars
      BY <2>5 DEF FlushLoopEnds, serviceVars
    <3> QED
      BY <2>1, <3>1, OutsideKept DEF vars, callVars, queueVars
  <2> QED
    BY <2>1, <2>2, <2>3, <2>4, <2>5 DEF QueueNext
<1>3. QueueSpec => []ProducerInv
  BY PipelineRunsProducer, ProducerInvariant, PTL
<1> QED
  BY <1>1, <1>2, <1>3, PTL DEF QueueSpec, SafeQueueSpec

\* Producer and server keep their types: workCh its capacity, a retry its number
\* of attempts, every request one of the codes of handleLogs.
THEOREM PipelineTypes == QueueSpec => []QueueTypeOK
<1> DEFINE WriterTyped == writerDone \in BOOLEAN
<1>1. ProducerInv /\ PipelineInv /\ WriterTyped => QueueTypeOK
  BY DEF ProducerInv, PipelineInv, QueueTypeOK
<1>2. QueueSpec => []ProducerInv
  BY PipelineRunsProducer, ProducerInvariant, PTL
<1>3. QueueInit => WriterTyped
  BY DEF QueueInit
<1>4. WriterTyped /\ [QueueNext]_serviceVars => WriterTyped'
  <2>1. [QueueNext]_serviceVars => writerDone' = writerDone \/ writerDone' = TRUE
    BY DEF QueueNext, RunStep, FlushLoopEnds, RequestStep, HandlerStep, WorkerStep,
           Clock, serviceVars
  <2> QED
    BY <2>1
<1> HIDE DEF WriterTyped
<1>5. QueueSpec => []WriterTyped
  BY <1>3, <1>4, PTL DEF QueueSpec, SafeQueueSpec
<1> QED
  BY <1>1, <1>2, <1>5, PipelineInvariant, PTL

\* A shutdown within its deadline is invisible to clients (app.go:364-383): no
\* request meets a stopped service, a closed channel or the end of the process,
\* however many requests and workers there are and however they interleave.
THEOREM ShutdownIsGraceful == QueueSpec => []GracefulShutdown
<1>1. PipelineInv => GracefulShutdown
  BY DEF PipelineInv
<1> QED
  BY <1>1, PipelineInvariant, PTL

\* In asynchronous mode handleLogs never answers 500 (handler.go:155-173).
THEOREM NeverInternalError == QueueSpec => []NoInternalError
<1>1. PipelineInv => NoInternalError
  BY DEF PipelineInv
<1> QED
  BY <1>1, PipelineInvariant, PTL

\* What the producer promises holds behind the HTTP server: an accepted batch is
\* never lost from sight, one that Enqueue refused is not published, Close
\* settles every accepted batch, the failure counter does not stick, and the
\* circuit closes only for cause.
THEOREM PipelineKeepsPromises ==
    QueueSpec => /\ []AcceptedIsHeld /\ []RefusedIsUnpublished
                 /\ []ClosedMeansSettled /\ []CounterNeverStuck
                 /\ CircuitClosesForCause
BY PipelineRunsProducer, AcceptedNeverLost, RefusedMayBeResent, CloseSettles,
   CounterAlwaysReset, CircuitNotClosedByOldDeadline, PTL

=============================================================================
