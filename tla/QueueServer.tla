---------------------------- MODULE QueueServer -----------------------------
(***************************************************************************)
(* The V2 pipeline from the HTTP request to the topic: Server composed     *)
(* with Producer.  BuildApp starts the consumer and the producer's workers *)
(* before the server listens, handleLogs calls ProcessBatch, and the       *)
(* cleanups that close ingestion, producer and consumer, in this order,    *)
(* follow server.Shutdown.  Of the consumer (module Consumer) only what    *)
(* its cleanup waits for is kept: the end of its flush loop.               *)
(***************************************************************************)
EXTENDS Producer, Server

ASSUME QueueServerAssumption == Requests = Calls

VARIABLE writerDone   \* the consumer's flush loop has closed w.done

serviceVars == <<vars, serverVars, writerDone>>

QueueInit == Init /\ ServerInit /\ writerDone = FALSE

\* The steps of Run.  Producer's Shutdown is the first two cleanups; the last,
\* ConsumerService.Close, waits for w.done, and Exit follows it.
RunStep ==
    /\ \/ /\ phase = "building" /\ StartAsync /\ UNCHANGED serverVars
       \/ /\ \/ Listen /\ (Sync \/ started)
             \/ BuildFails /\ ~started
             \/ ListenFails
             \/ Sigterm
             \/ ShutdownReturns
             \/ Exit /\ stage = "stopped" /\ writerDone
          /\ UNCHANGED vars
       \/ /\ phase = "closing" /\ Shutdown /\ UNCHANGED serverVars
    /\ UNCHANGED writerDone

\* SIGTERM cancels the writer's context too: flushLoop ends, and closes w.done,
\* when its last SaveBatch, if there is one, has returned.  Only the last cleanup
\* looks at w.done, so that it may have been closed earlier makes no difference.
FlushLoopEnds ==
    /\ phase = "closing" /\ stage = "stopped"
    /\ ~writerDone /\ writerDone' = TRUE
    /\ UNCHANGED <<vars, serverVars>>

\* A request on its way to ProcessBatch.
RequestStep(c) ==
    /\ At(c, "idle")
    /\ Arrive(c) \/ Refuse(c)
    /\ UNCHANGED <<vars, writerDone>>

\* A step of ProcessBatch and what it calls; its return is the response.
HandlerStep(c) ==
    /\ phase # "exited"
    /\ Call(c) \/ Publish(c)
    /\ At(c, "idle") => Decoded(c)
    /\ IF reply'[c] # reply[c] THEN Respond(c, reply'[c]) ELSE UNCHANGED http
    /\ UNCHANGED <<phase, expired, writerDone>>

WorkerStep(w) ==
    /\ phase # "exited"
    /\ Publish(w) \/ RunProducer(w)
    /\ UNCHANGED <<serverVars, writerDone>>

Clock == phase # "exited" /\ Tick /\ UNCHANGED <<serverVars, writerDone>>

QueueNext ==
    \/ RunStep
    \/ FlushLoopEnds
    \/ \E c \in Calls : RequestStep(c) \/ HandlerStep(c)
    \/ \E w \in Workers : WorkerStep(w)
    \/ Clock

\* A goroutine that can run does run: net/http reads the body or times out,
\* EnqueueBatch returns within writeTimeout, the backoff timer and Shutdown's
\* deadline fire.  Nothing is assumed of clients, SIGTERM, startup or the clock,
\* nor of the disk: writeProducerDLQ and the consumer's last write may hang.
QueueFairness ==
    /\ \A c \in Calls :
          WF_serviceVars(http[c] = Handling /\ (RequestStep(c) \/ HandlerStep(c)))
    /\ \A w \in Workers : WF_serviceVars(~At(w, "dlq") /\ WorkerStep(w))
    /\ WF_serviceVars(phase \in {"draining", "closing"} /\ RunStep)

SafeQueueSpec == QueueInit /\ [][QueueNext]_serviceVars
QueueSpec == SafeQueueSpec /\ QueueFairness

-----------------------------------------------------------------------------

\* Both parts have their types.
QueueTypeOK == TypeOK /\ ServerTypeOK /\ writerDone \in BOOLEAN

\* A shutdown within its deadline is invisible to the requests it finds: none
\* of them meets a stopped service, a closed channel or the end of the process,
\* and none ever met a producer that was not started (the order of BuildApp, of
\* Run and of the cleanups, app.go:187-191 and 364-383).
GracefulShutdown ==
    ~expired => \A c \in Calls :
        /\ reply[c] \notin {"notStarted", "ingestionStopped", "stopped", "panic"}
        /\ http[c] # Aborted

\* In asynchronous mode handleLogs never answers 500: every error Enqueue can
\* return is one the client is told to retry (handler.go:155-173).
NoInternalError == ~Sync => \A c \in Calls : http[c] # 500

\* Once SIGTERM has arrived ingestion and producer are closed, however long a
\* request takes and whatever the consumer does, and then the process ends,
\* unless the consumer's last flush never returns.  It is the last cleanup
\* (app.go:187-191, 272) and has no limit of its own: "a stuck `SaveBatch` can
\* block shutdown indefinitely", docs/remaining_gaps.md:5 (ShutdownCompletes of
\* Consumer says when).  A DLQ file that never gets written stops Close as well.
ExitsAfterSigterm ==
    (\A w \in Workers : []<>~At(w, "dlq")) =>
        /\ (phase = "draining") ~> (stage = "stopped")
        /\ ([]<>(stage = "stopped" => writerDone)) =>
              ((phase = "draining") ~> (phase = "exited"))

=============================================================================
