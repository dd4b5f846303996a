--------------------------- MODULE ProducerProofs ---------------------------
(***************************************************************************)
(* The inductive invariant of Producer and the theorems that follow, for   *)
(* any calls, workers, buffer size, retries, threshold and cooldown, in    *)
(* both modes: that steps keep the types, where the steps of each goroutine *)
(* lead, and that every step keeps the invariant, one lemma for each       *)
(* conjunct.                                                               *)
(***************************************************************************)
EXTENDS Producer, TLAPS

-----------------------------------------------------------------------------
\* The inductive invariant of the producer.

\* A goroutine that waits for its backoff timer has an attempt left.
RetryInv == \A g \in Goroutines : At(g, "backoff") => attempt[g] <= MaxRetries

\* A call has its reply when it is done, publishes by itself only in synchronous
\* mode, and passes the first check of Enqueue only once the workers run.
CallInv ==
    \A c \in Calls :
        /\ reply[c] = "none" <=> pc[c] # "done"
        /\ pc[c] \in PublishLabels => Sync
        /\ pc[c] \in {"circuit", "expired", "admit"} => Sync \/ started

\* The channel has been closed.
ChannelClosed == stage \in {"channelClosed", "cancelled", "stopped"}

\* The workers run from StartAsync until they have found the channel closed and
\* empty, and Close waits for all of them.
WorkerInv ==
    /\ started => ~Sync
    /\ ~started => workCh = <<>>
    /\ \A w \in Workers :
          /\ pc[w] = "notStarted" <=> ~started
          /\ pc[w] = "exited" => ChannelClosed /\ workCh = <<>>
          /\ stage = "stopped" => pc[w] \in {"notStarted", "exited"}

\* What is queued, held by a worker or written off was accepted before; what
\* is in the topic was accepted, or published by its call itself.
SourceInv ==
    \A c \in Calls :
        /\ c \in Queued \cup Held \cup dlq \cup abandoned => reply[c] = "accepted"
        /\ kafka[c] > 0 => \/ reply[c] \in {"accepted"} \cup Errors
                           \/ pc[c] \in PublishLabels

\* A worker between two batches is done with the last one, and a goroutine
\* that goes through onEnqueueSuccess has published its batch.
DoneInv ==
    /\ \A w \in Workers : pc[w] \in {"notStarted", "receive", "exited"} =>
          \A c \in item[w] : Delivered(c)
    /\ \A g \in Goroutines : pc[g] \in {"success", "closeCircuit"} =>
          \A c \in Batch(g) : kafka[c] > 0

\* A deadline that isCircuitOpen is about to clear has passed.
DeadlineInv == \A c \in Calls : At(c, "expired") => seen[c] <= now

ProducerInv ==
    /\ TypeOK /\ RetryInv /\ CallInv /\ WorkerInv
    /\ SourceInv /\ DoneInv /\ AcceptedIsHeld /\ DeadlineInv

-----------------------------------------------------------------------------
\* The channel as a sequence, and the stages of shutdown.

\* A channel with nothing in it holds no batch.
LEMMA EmptyChannel ==
    /\ Range(<<>>) = {}
    /\ \A s \in Seq(Calls) : s # <<>> => Head(s) \in Range(s)
BY DEF Range

\* A send adds its batch to what the channel holds.
LEMMA SentIsQueued ==
    ASSUME NEW s \in Seq(Calls), NEW c \in Calls
    PROVE  /\ Append(s, c) \in Seq(Calls) /\ Len(Append(s, c)) = Len(s) + 1
           /\ Range(Append(s, c)) = Range(s) \cup {c}
<1>1. Append(s, c) \in Seq(Calls) /\ Len(Append(s, c)) = Len(s) + 1
  OBVIOUS
<1>2. ASSUME NEW x \in Range(s) PROVE x \in Range(Append(s, c))
  BY DEF Range
<1>3. c \in Range(Append(s, c))
  <2>1. Append(s, c)[Len(s) + 1] = c /\ Len(s) + 1 \in DOMAIN Append(s, c)
    OBVIOUS
  <2> QED
    BY <2>1 DEF Range
<1>4. ASSUME NEW x \in Range(Append(s, c)) PROVE x \in Range(s) \cup {c}
  BY DEF Range
<1> QED
  BY <1>1, <1>2, <1>3, <1>4

\* A receive splits what the channel holds into its first batch and the rest.
LEMMA ReceivedIsFirst ==
    ASSUME NEW s \in Seq(Calls), s # <<>>
    PROVE  /\ Head(s) \in Calls
           /\ Tail(s) \in Seq(Calls) /\ Len(Tail(s)) = Len(s) - 1
           /\ Range(s) = {Head(s)} \cup Range(Tail(s))
<1>1. /\ Head(s) \in Calls /\ Head(s) = s[1] /\ 1 \in DOMAIN s
      /\ Tail(s) \in Seq(Calls) /\ Len(Tail(s)) = Len(s) - 1
      /\ \A i \in 1 .. Len(s) - 1 : Tail(s)[i] = s[i + 1]
  OBVIOUS
<1>2. ASSUME NEW x \in Range(Tail(s)) PROVE x \in Range(s)
  BY <1>1 DEF Range
<1>3. ASSUME NEW x \in Range(s) PROVE x = Head(s) \/ x \in Range(Tail(s))
  <2>1. PICK i \in DOMAIN s : x = s[i]
    BY DEF Range
  <2>2. CASE i = 1
    BY <1>1, <2>1, <2>2
  <2>3. CASE i # 1
    <3>1. i - 1 \in DOMAIN Tail(s) /\ Tail(s)[i - 1] = x
      BY <1>1, <2>1, <2>3
    <3> QED
      BY <3>1 DEF Range
  <2> QED
    BY <2>2, <2>3
<1>4. Head(s) \in Range(s)
  BY <1>1 DEF Range
<1> QED
  BY <1>1, <1>2, <1>3, <1>4

\* What Reached tells of the stage, and where the next step of shutdown leads.
LEMMA StageFacts ==
    ASSUME TypeOK
    PROVE  /\ stage \in {"running", "ingestionClosed", "closed", "channelClosed",
                         "cancelled", "stopped"}
           /\ Reached("channelClosed") <=> ChannelClosed
           /\ stage = "running" => /\ ~Reached("ingestionClosed")
                                  /\ ~Reached("closed")
                                  /\ ~Reached("channelClosed")
<1> DEFINE D == 1 .. 6
<1>1. /\ DOMAIN Stages = D
      /\ Stages[1] = "running" /\ Stages[2] = "ingestionClosed" /\ Stages[3] = "closed"
      /\ Stages[4] = "channelClosed" /\ Stages[5] = "cancelled" /\ Stages[6] = "stopped"
  BY DEF Stages
<1>2. \A i \in D : i = 1 \/ i = 2 \/ i = 3 \/ i = 4 \/ i = 5 \/ i = 6
  OBVIOUS
<1>3. stage \in {"running", "ingestionClosed", "closed", "channelClosed",
                 "cancelled", "stopped"}
  BY <1>1, <1>2 DEF TypeOK, Range
<1>4. Reached("channelClosed") <=> ChannelClosed
  BY <1>1, <1>2, <1>3 DEF Reached, ChannelClosed
<1>5. stage = "running" => ~Reached("ingestionClosed") /\ ~Reached("closed")
  BY <1>1, <1>2 DEF Reached
<1> QED
  BY <1>3, <1>4, <1>5 DEF ChannelClosed

\* Shutdown moves the stage forward: to a closed channel or on from there.
LEMMA ShutdownMoves ==
    ASSUME TypeOK, Shutdown
    PROVE  /\ stage' \in Range(Stages)
           /\ ChannelClosed => ChannelClosed'
           /\ stage # "stopped"
<1>1. PICK i \in 1 .. Len(Stages) - 1 : stage = Stages[i] /\ stage' = Stages[i + 1]
  BY DEF Shutdown
<1>2. /\ Len(Stages) = 6 /\ DOMAIN Stages = 1 .. 6
      /\ Stages[1] = "running" /\ Stages[2] = "ingestionClosed" /\ Stages[3] = "closed"
      /\ Stages[4] = "channelClosed" /\ Stages[5] = "cancelled" /\ Stages[6] = "stopped"
  BY DEF Stages
<1>3. i + 1 \in DOMAIN Stages
  BY <1>1, <1>2
<1>4. i = 1 \/ i = 2 \/ i = 3 \/ i = 4 \/ i = 5
  BY <1>1, <1>2
<1> QED
  BY <1>1, <1>2, <1>3, <1>4 DEF Range, ChannelClosed

-----------------------------------------------------------------------------
\* Types.

Labels == CallLabels \cup WorkerLabels \cup PublishLabels

\* A goroutine that moves on to a label of its own kind leaves pc typed.
LEMMA GotoTyped ==
    ASSUME TypeOK, NEW g \in Goroutines, NEW label \in Labels, Goto(g, label),
           g \in Calls => label \notin WorkerLabels,
           g \in Workers => label \notin CallLabels
    PROVE  /\ pc' \in [Goroutines -> Labels]
           /\ \A c \in Calls : pc'[c] \notin WorkerLabels
           /\ \A w \in Workers : pc'[w] \notin CallLabels
BY DEF TypeOK, Goto, Labels, Goroutines

\* Every step of a call moves it to a label of its own and may give its reply.
LEMMA CallMoves ==
    ASSUME NEW c \in Calls, Call(c)
    PROVE  /\ \E label \in Labels \ WorkerLabels : Goto(c, label)
           /\ reply' = reply \/ \E r \in Replies : reply' = [reply EXCEPT ![c] = r]
<1> USE DEF Return, Labels, CallLabels, WorkerLabels, PublishLabels, Replies
<1>1. CASE ProcessBatch(c) \/ CheckAccepting(c)
  BY <1>1 DEF ProcessBatch, CheckAccepting
<1>2. CASE LoadCircuit(c)
  BY <1>2 DEF LoadCircuit
<1>3. CASE ContextDone(c) \/ Send(c)
  BY <1>3 DEF ContextDone, Send
<1>4. CASE ClearExpired(c) \/ BeginSync(c)
  BY <1>4 DEF ClearExpired, BeginSync, callVars
<1> QED
  BY <1>1, <1>2, <1>3, <1>4 DEF Call

\* What no step of a call touches, and what it only can do to its own locals.
LEMMA CallLeaves ==
    ASSUME NEW c \in Calls, Call(c)
    PROVE  /\ item' = item /\ started' = started /\ stage' = stage
           /\ failures' = failures /\ now' = now
           /\ kafka' = kafka /\ dlq' = dlq /\ abandoned' = abandoned
           /\ attempt' = attempt \/ attempt' = [attempt EXCEPT ![c] = 1]
           /\ seen' = seen \/ seen' = [seen EXCEPT ![c] = openUntil]
           /\ openUntil' = openUntil \/ openUntil' = 0
BY DEF Call, ProcessBatch, CheckAccepting, LoadCircuit, ClearExpired, ContextDone, Send,
   BeginSync, callVars, sendVars, queueVars, circuitVars, outVars

\* The calls keep the types.
LEMMA CallTyped ==
    ASSUME TypeOK, NEW c \in Calls, Call(c)
    PROVE  TypeOK'
<1>1. PICK label \in Labels \ WorkerLabels : Goto(c, label)
  BY CallMoves
<1>2. /\ pc' \in [Goroutines -> Labels]
      /\ \A d \in Calls : pc'[d] \notin WorkerLabels
      /\ \A w \in Workers : pc'[w] \notin CallLabels
  BY <1>1, GotoTyped, ProducerAssumption DEF Goroutines
<1>3. reply' \in [Calls -> Replies]
  <2>1. reply' = reply \/ \E r \in Replies : reply' = [reply EXCEPT ![c] = r]
    BY CallMoves
  <2>2. reply \in [Calls -> Replies]
    BY DEF TypeOK
  <2> QED
    BY <2>1, <2>2
<1>4. seen' \in [Calls -> Nat] /\ openUntil' \in Nat
  <2>1. seen \in [Calls -> Nat] /\ openUntil \in Nat
    BY DEF TypeOK
  <2>2. /\ seen' = seen \/ seen' = [seen EXCEPT ![c] = openUntil]
        /\ openUntil' = openUntil \/ openUntil' = 0
    BY CallLeaves, Zenon
  <2> QED
    BY <2>1, <2>2
<1>5. attempt' \in [Goroutines -> 0 .. MaxRetries + 1]
  <2>1. 1 \in 0 .. MaxRetries + 1
    BY ProducerAssumption
  <2> QED
    BY <2>1, CallLeaves, Zenon DEF TypeOK
<1>6. workCh' \in Seq(Calls) /\ Len(workCh') <= BufferSize
  <2>1. CASE Send(c)
    <3>1. workCh' = workCh \/ (workCh' = Append(workCh, c) /\ Len(workCh) < BufferSize)
      BY <2>1 DEF Send
    <3>2. workCh \in Seq(Calls) /\ Len(workCh) <= BufferSize /\ BufferSize \in Nat
      BY ProducerAssumption DEF TypeOK
    <3> QED
      BY <3>1, <3>2, SentIsQueued
  <2>2. CASE ~Send(c)
    BY <2>2 DEF Call, ProcessBatch, CheckAccepting, LoadCircuit, ClearExpired, ContextDone,
       BeginSync, queueVars, TypeOK
  <2> QED
    BY <2>1, <2>2
<1> QED
  BY <1>2, <1>3, <1>4, <1>5, <1>6, CallLeaves DEF TypeOK, Labels

\* Every step of tryEnqueueWithRetry moves its goroutine to a label of its kind;
\* a call may return from it, a worker never replies.
LEMMA PublishMoves ==
    ASSUME NEW g \in Goroutines, Publish(g)
    PROVE  /\ \E label \in Labels :
                 /\ Goto(g, label)
                 /\ g \in Calls => label \notin WorkerLabels
                 /\ g \in Workers => label \notin CallLabels
           /\ \/ reply' = reply
              \/ g \notin Workers /\ \E r \in Replies : reply' = [reply EXCEPT ![g] = r]
<1>1. g \in Calls <=> g \notin Workers
  BY ProducerAssumption DEF Goroutines
<1> USE <1>1 DEF Labels, CallLabels, WorkerLabels, PublishLabels
<1>2. CASE EnqueueSucceeds(g) \/ EnqueueFails(g) \/ BackoffElapses(g)
  BY <1>2 DEF EnqueueSucceeds, EnqueueFails, BackoffElapses, callVars
<1>3. CASE ResetFailures(g) \/ OpenCircuit(g)
  BY <1>3 DEF ResetFailures, OpenCircuit, callVars
<1>4. CASE BackoffCancelled(g) \/ ResetCount(g)
  BY <1>4 DEF BackoffCancelled, ResetCount, Fail, Return, Replies, Errors
<1>5. CASE CloseCircuit(g)
  BY <1>5 DEF CloseCircuit, Succeed, Return, Replies
<1>6. CASE CountFailure(g)
  BY <1>6 DEF CountFailure, Fail, Return, Replies, Errors
<1> QED
  BY <1>2, <1>3, <1>4, <1>5, <1>6 DEF Publish

\* What no step of tryEnqueueWithRetry touches.
LEMMA PublishLeaves ==
    ASSUME NEW g \in Goroutines, Publish(g)
    PROVE  /\ item' = item /\ seen' = seen /\ workCh' = workCh
           /\ started' = started /\ stage' = stage /\ now' = now
           /\ dlq' = dlq /\ abandoned' = abandoned
           /\ \/ attempt' = attempt
              \/ pc[g] = "backoff" /\ attempt' = [attempt EXCEPT ![g] = @ + 1]
BY DEF Publish, EnqueueSucceeds, EnqueueFails, BackoffElapses, BackoffCancelled,
   ResetFailures, CloseCircuit, CountFailure, OpenCircuit, ResetCount, At, callVars,
   sendVars, queueVars, outVars

\* What a goroutine publishes is a set of calls.
LEMMA BatchTyped ==
    ASSUME TypeOK, NEW g \in Goroutines
    PROVE  Batch(g) \subseteq Calls
BY DEF TypeOK, Batch, Goroutines

\* tryEnqueueWithRetry keeps the types: the attempt that follows a backoff is
\* one of the MaxRetries + 1.
LEMMA PublishTyped ==
    ASSUME TypeOK, RetryInv, NEW g \in Goroutines, Publish(g)
    PROVE  TypeOK'
<1>1. PICK label \in Labels : /\ Goto(g, label)
                              /\ g \in Calls => label \notin WorkerLabels
                              /\ g \in Workers => label \notin CallLabels
  BY PublishMoves
<1>2. /\ pc' \in [Goroutines -> Labels]
      /\ \A d \in Calls : pc'[d] \notin WorkerLabels
      /\ \A w \in Workers : pc'[w] \notin CallLabels
  BY <1>1, GotoTyped
<1>3. reply' \in [Calls -> Replies]
  BY PublishMoves, Zenon DEF TypeOK
<1>4. attempt' \in [Goroutines -> 0 .. MaxRetries + 1]
  <2>1. pc[g] = "backoff" => attempt[g] + 1 \in 0 .. MaxRetries + 1
    BY ProducerAssumption DEF TypeOK, RetryInv, At
  <2> QED
    BY <2>1, PublishLeaves DEF TypeOK
<1>5. failures' \in Nat /\ openUntil' \in Nat
  <2>1. /\ failures \in Nat /\ openUntil \in Nat /\ now \in Nat /\ Cooldown \in Nat
    BY ProducerAssumption DEF TypeOK
  <2>2. /\ failures' \in {failures, 0, failures + 1}
        /\ openUntil' \in {openUntil, 0, now + Cooldown}
    BY DEF Publish, EnqueueSucceeds, EnqueueFails, BackoffElapses, BackoffCancelled,
       ResetFailures, CloseCircuit, CountFailure, OpenCircuit, ResetCount, circuitVars
  <2> QED
    BY <2>1, <2>2
<1>6. kafka' \in [Calls -> Nat]
  <2>1. kafka' = kafka \/ \E S : Write(S)
    BY DEF Publish, EnqueueSucceeds, EnqueueFails, BackoffElapses, BackoffCancelled,
       ResetFailures, CloseCircuit, CountFailure, OpenCircuit, ResetCount, outVars
  <2>2. ASSUME NEW S, Write(S) PROVE kafka' \in [Calls -> Nat]
    <3>1. \A c \in Calls : kafka[c] + (IF c \in S THEN 1 ELSE 0) \in Nat
      BY DEF TypeOK
    <3> QED
      BY <2>2, <3>1 DEF Write
  <2> QED
    BY <2>1, <2>2 DEF TypeOK
<1> QED
  BY <1>2, <1>3, <1>4, <1>5, <1>6, PublishLeaves DEF TypeOK, Labels

\* What no step of a worker between two publications touches.
LEMMA WorkerLeaves ==
    ASSUME NEW w \in Workers, RunProducer(w)
    PROVE  /\ reply' = reply /\ seen' = seen /\ started' = started /\ stage' = stage
           /\ failures' = failures /\ openUntil' = openUntil /\ now' = now
           /\ kafka' = kafka
BY DEF RunProducer, Receive, WriteDLQ, callVars, queueVars, circuitVars, outVars

\* runProducer and writeProducerDLQ keep the types.
LEMMA WorkerTyped ==
    ASSUME TypeOK, NEW w \in Workers, RunProducer(w)
    PROVE  TypeOK'
<1>1. \E label \in Labels \ CallLabels : Goto(w, label)
  BY DEF RunProducer, Receive, WriteDLQ, Labels, CallLabels, WorkerLabels, PublishLabels
<1>2. /\ pc' \in [Goroutines -> Labels]
      /\ \A d \in Calls : pc'[d] \notin WorkerLabels
      /\ \A v \in Workers : pc'[v] \notin CallLabels
  BY <1>1, GotoTyped, ProducerAssumption, Zenon DEF Goroutines
<1>3. /\ item' \in [Workers -> SUBSET Calls]
      /\ workCh' \in Seq(Calls) /\ Len(workCh') <= BufferSize
  <2>1. /\ item \in [Workers -> SUBSET Calls] /\ BufferSize \in Nat
        /\ workCh \in Seq(Calls) /\ Len(workCh) <= BufferSize
    BY ProducerAssumption DEF TypeOK
  <2>2. CASE workCh' = workCh
    <3>1. item' = item \/ item' = [item EXCEPT ![w] = {}]
      BY <2>1, <2>2, ReceivedIsFirst DEF RunProducer, Receive, WriteDLQ, sendVars
    <3> QED
      BY <2>1, <2>2, <3>1
  <2>3. CASE workCh' # workCh
    <3>1. /\ workCh # <<>> /\ item' = [item EXCEPT ![w] = {Head(workCh)}]
          /\ workCh' = Tail(workCh)
      BY <2>3 DEF RunProducer, Receive, WriteDLQ, sendVars, queueVars
    <3>2. /\ Head(workCh) \in Calls /\ Tail(workCh) \in Seq(Calls)
          /\ Len(Tail(workCh)) = Len(workCh) - 1
      BY <2>1, <3>1, ReceivedIsFirst
    <3>3. Len(Tail(workCh)) <= BufferSize
      BY <2>1, <3>2
    <3> QED
      BY <2>1, <3>1, <3>2, <3>3
  <2> QED
    BY <2>2, <2>3
<1>4. attempt' \in [Goroutines -> 0 .. MaxRetries + 1]
  <2>1. attempt' = attempt \/ attempt' = [attempt EXCEPT ![w] = 1]
    BY DEF RunProducer, Receive, WriteDLQ, sendVars
  <2>2. 1 \in 0 .. MaxRetries + 1
    BY ProducerAssumption
  <2> QED
    BY <2>1, <2>2 DEF TypeOK
<1>5. dlq' \subseteq Calls /\ abandoned' \subseteq Calls
  <2>1. item[w] \subseteq Calls
    BY DEF TypeOK
  <2> QED
    BY <2>1 DEF RunProducer, Receive, WriteDLQ, outVars, TypeOK
<1> QED
  BY <1>2, <1>3, <1>4, <1>5, WorkerLeaves DEF TypeOK, Labels

\* So do StartAsync, the cleanups and the clock.
LEMMA OtherTyped ==
    ASSUME TypeOK, StartAsync \/ Shutdown \/ Tick
    PROVE  TypeOK'
<1>1. CASE StartAsync
  <2>1. /\ pc' \in [Goroutines -> Labels]
        /\ \A d \in Calls : pc'[d] \notin WorkerLabels
        /\ \A v \in Workers : pc'[v] \notin CallLabels
    BY <1>1, ProducerAssumption
       DEF StartAsync, TypeOK, Goroutines, Labels, CallLabels, WorkerLabels
  <2> QED
    BY <1>1, <2>1 DEF StartAsync, TypeOK, Labels, callVars, sendVars, circuitVars, outVars
<1>2. CASE Shutdown
  BY <1>2, ShutdownMoves DEF Shutdown, TypeOK, callVars, sendVars, queueVars, circuitVars,
     outVars
<1>3. CASE Tick
  <2>1. now' \in 1 .. MaxTime
    BY <1>3, ProducerAssumption DEF Tick, TypeOK
  <2> QED
    BY <1>3, <2>1 DEF Tick, TypeOK, callVars, sendVars, queueVars, circuitVars, outVars
<1> QED
  BY <1>1, <1>2, <1>3

-----------------------------------------------------------------------------
\* Where a step leads, and what it takes with it.

\* A call goes from the checks of ProcessBatch and Enqueue to its reply, or in
\* synchronous mode to its first attempt.  Only the send accepts, and it queues.
LEMMA CallEdges ==
    ASSUME TypeOK, NEW c \in Calls, Call(c)
    PROVE  /\ \A x \in Goroutines \ {c} : pc'[x] = pc[x]
           /\ \A d \in Calls \ {c} : reply'[d] = reply[d]
           /\ pc[c] \in {"idle", "check", "circuit", "expired", "admit"}
           /\ pc'[c] \in {"check", "circuit", "expired", "admit", "done", "publish"}
           /\ pc'[c] = "publish" => Sync
           /\ pc'[c] \in {"circuit", "expired", "admit"} =>
                 pc[c] \in {"circuit", "expired"} \/ Sync \/ started
           /\ IF pc'[c] = "done" THEN reply'[c] \notin {"none"} \cup Errors
                                 ELSE reply'[c] = reply[c]
           /\ \/ workCh' = workCh /\ reply'[c] # "accepted"
              \/ workCh' = workCh /\ reply'[c] = reply[c]
              \/ /\ workCh' = Append(workCh, c) /\ reply'[c] = "accepted"
                 /\ pc[c] = "admit" /\ ~Sync /\ ~Reached("channelClosed")
<1>1. c \in Goroutines /\ pc \in [Goroutines -> Labels] /\ reply \in [Calls -> Replies]
  BY DEF Goroutines, TypeOK, Labels
<1> USE <1>1 DEF Goto, Return, At, Errors
<1>2. CASE ProcessBatch(c)
  BY <1>2 DEF ProcessBatch, queueVars
<1>3. CASE CheckAccepting(c)
  BY <1>3 DEF CheckAccepting, queueVars
<1>4. CASE LoadCircuit(c)
  BY <1>4 DEF LoadCircuit, queueVars
<1>5. CASE ClearExpired(c)
  BY <1>5 DEF ClearExpired, queueVars, callVars
<1>6. CASE ContextDone(c)
  BY <1>6 DEF ContextDone, queueVars
<1>7. CASE Send(c)
  BY <1>7 DEF Send
<1>8. CASE BeginSync(c)
  BY <1>8 DEF BeginSync, queueVars, callVars
<1> QED
  BY <1>2, <1>3, <1>4, <1>5, <1>6, <1>7, <1>8, Zenon DEF Call

\* A goroutine leaves tryEnqueueWithRetry through onEnqueueSuccess or with an
\* error, and writes to the topic only in an attempt.
LEMMA PublishEdges ==
    ASSUME TypeOK, NEW g \in Goroutines, Publish(g)
    PROVE  /\ \A x \in Goroutines \ {g} : pc'[x] = pc[x]
           /\ \A d \in Calls \ {g} : reply'[d] = reply[d]
           /\ pc[g] \in PublishLabels
           /\ pc'[g] \in PublishLabels \cup
                          (IF g \in Workers THEN {"receive", "dlq"} ELSE {"done"})
           /\ pc'[g] = "receive" => pc[g] = "closeCircuit"
           /\ g \in Calls => IF pc'[g] = "done"
                             THEN reply'[g] \in Errors \/ (/\ reply'[g] = "accepted"
                                                           /\ pc[g] = "closeCircuit")
                             ELSE reply'[g] = reply[g]
           /\ pc'[g] = "success" => Write(Batch(g))
           /\ pc'[g] = "closeCircuit" => pc[g] = "success"
           /\ pc'[g] = "backoff" => attempt' = attempt /\ attempt[g] # MaxRetries + 1
           /\ \/ kafka' = kafka
              \/ pc[g] = "publish" /\ pc'[g] \in PublishLabels /\ Write({})
              \/ pc[g] = "publish" /\ pc'[g] \in PublishLabels /\ Write(Batch(g))
<1>1. /\ g \in Calls <=> g \notin Workers
      /\ pc \in [Goroutines -> Labels] /\ reply \in [Calls -> Replies]
  BY ProducerAssumption DEF Goroutines, TypeOK, Labels
<1> USE <1>1 DEF Goto, Return, At, PublishLabels
<1>2. CASE EnqueueSucceeds(g)
  BY <1>2 DEF EnqueueSucceeds, callVars
<1>3. CASE EnqueueFails(g)
  BY <1>3 DEF EnqueueFails, callVars, sendVars
<1>4. CASE BackoffElapses(g)
  BY <1>4 DEF BackoffElapses, callVars, outVars
<1>5. CASE BackoffCancelled(g)
  BY <1>5 DEF BackoffCancelled, Fail, Errors, outVars
<1>6. CASE ResetFailures(g) \/ OpenCircuit(g)
  BY <1>6 DEF ResetFailures, OpenCircuit, callVars, outVars
<1>7. CASE CloseCircuit(g)
  BY <1>7 DEF CloseCircuit, Succeed, outVars
<1>8. CASE CountFailure(g)
  BY <1>8 DEF CountFailure, Fail, outVars
<1>9. CASE ResetCount(g)
  BY <1>9 DEF ResetCount, Fail, outVars
<1> QED
  BY <1>2, <1>3, <1>4, <1>5, <1>6, <1>7, <1>8, <1>9, Zenon DEF Publish

\* A worker takes the first batch, finds the channel closed and empty, or writes
\* its failed batch off.
LEMMA WorkerEdges ==
    ASSUME TypeOK, NEW w \in Workers, RunProducer(w)
    PROVE  /\ \A x \in Goroutines \ {w} : pc'[x] = pc[x]
           /\ \A v \in Workers \ {w} : item'[v] = item[v]
           /\ \/ /\ pc[w] = "receive" /\ pc'[w] = "publish"
                 /\ workCh # <<>> /\ workCh' = Tail(workCh)
                 /\ item'[w] = {Head(workCh)}
                 /\ dlq' = dlq /\ abandoned' = abandoned
              \/ /\ pc[w] = "receive" /\ pc'[w] = "exited"
                 /\ Reached("channelClosed") /\ workCh = <<>> /\ workCh' = <<>>
                 /\ item' = item /\ dlq' = dlq /\ abandoned' = abandoned
              \/ /\ pc[w] = "dlq" /\ pc'[w] = "receive"
                 /\ workCh' = workCh /\ item'[w] = {}
                 /\ dlq' \cup abandoned' = dlq \cup abandoned \cup item[w]
<1>1. /\ w \in Goroutines /\ pc \in [Goroutines -> Labels]
      /\ item \in [Workers -> SUBSET Calls]
  BY DEF Goroutines, TypeOK, Labels
<1> USE <1>1 DEF Goto, At
<1>2. CASE Receive(w)
  BY <1>2 DEF Receive, sendVars, outVars
<1>3. CASE WriteDLQ(w)
  BY <1>3 DEF WriteDLQ, queueVars
<1> QED
  BY <1>2, <1>3 DEF RunProducer

\* Only a goroutine that has an attempt left goes to wait for its timer.
LEMMA RetryKept ==
    ASSUME TypeOK, RetryInv, Next
    PROVE  RetryInv'
<1>1. ASSUME NEW g \in Goroutines,
             pc'[g] = "backoff" => attempt'[g] <= MaxRetries,
             \A x \in Goroutines \ {g} : pc'[x] = pc[x] /\ attempt'[x] = attempt[x]
      PROVE  RetryInv'
  BY <1>1 DEF RetryInv, At
<1>2. ASSUME NEW c \in Calls, Call(c) PROVE RetryInv'
  <2>1. \A x \in Goroutines \ {c} : attempt'[x] = attempt[x]
    BY <1>2, CallLeaves, Zenon DEF TypeOK
  <2>2. c \in Goroutines /\ pc'[c] # "backoff" /\ \A x \in Goroutines \ {c} : pc'[x] = pc[x]
    BY <1>2, CallEdges DEF Goroutines
  <2> QED
    BY <1>1, <2>1, <2>2
<1>3. ASSUME NEW g \in Goroutines, Publish(g) PROVE RetryInv'
  <2>1. \A x \in Goroutines \ {g} : attempt'[x] = attempt[x]
    BY <1>3, PublishLeaves, Zenon DEF TypeOK
  <2>2. /\ \A x \in Goroutines \ {g} : pc'[x] = pc[x]
        /\ pc'[g] = "backoff" => attempt' = attempt /\ attempt[g] # MaxRetries + 1
    BY <1>3, PublishEdges, Zenon
  <2>3. attempt[g] \in 0 .. MaxRetries + 1 /\ MaxRetries \in Nat
    BY ProducerAssumption DEF TypeOK
  <2> QED
    BY <1>1, <2>1, <2>2, <2>3
<1>4. ASSUME NEW w \in Workers, RunProducer(w) PROVE RetryInv'
  <2>1. \A x \in Goroutines \ {w} : attempt'[x] = attempt[x]
    BY <1>4 DEF RunProducer, Receive, WriteDLQ, sendVars, TypeOK
  <2>2. w \in Goroutines /\ pc'[w] # "backoff" /\ \A x \in Goroutines \ {w} : pc'[x] = pc[x]
    BY <1>4, WorkerEdges DEF Goroutines
  <2> QED
    BY <1>1, <2>1, <2>2
<1>5. CASE StartAsync
  BY <1>5 DEF StartAsync, sendVars, RetryInv, At
<1>6. CASE Shutdown \/ Tick
  BY <1>6 DEF Shutdown, Tick, sendVars, RetryInv, At
<1> QED
  BY <1>2, <1>3, <1>4, <1>5, <1>6 DEF Next

\* StartAsync, the cleanups and the clock leave the calls and the batches alone.
LEMMA OtherLeaves ==
    ASSUME TypeOK, StartAsync \/ Shutdown \/ Tick
    PROVE  /\ \A c \in Calls : pc'[c] = pc[c]
           /\ reply' = reply /\ item' = item /\ workCh' = workCh /\ seen' = seen
           /\ kafka' = kafka /\ dlq' = dlq /\ abandoned' = abandoned
           /\ started => started'
           /\ now \in Int /\ now' \in Int /\ now <= now'
<1>1. \A c \in Calls : c \notin Workers /\ c \in Goroutines
  BY ProducerAssumption DEF Goroutines
<1>2. now \in Int
  BY DEF TypeOK
<1> QED
  BY <1>1, <1>2
     DEF StartAsync, Shutdown, Tick, callVars, sendVars, queueVars, outVars

-----------------------------------------------------------------------------
\* Every step keeps ProducerInv, one lemma for each conjunct.

\* Steps of calls and of what they call keep CallInv; no worker disturbs it.
LEMMA CallKept ==
    ASSUME TypeOK, CallInv, Next
    PROVE  CallInv'
<1>1. ASSUME NEW c \in Calls, Call(c) PROVE CallInv'
  BY <1>1, CallEdges, CallLeaves DEF CallInv, PublishLabels, Goroutines
<1>2. ASSUME NEW g \in Goroutines, Publish(g) PROVE CallInv'
  <2>1. \A c \in Calls \ {g} : pc'[c] = pc[c] /\ reply'[c] = reply[c]
    BY <1>2, PublishEdges DEF Goroutines
  <2>2. CASE g \in Calls
    <3>1. g \notin Workers
      BY <2>2, ProducerAssumption
    <3>2. reply[g] = "none" /\ Sync
      BY <1>2, <2>2, PublishEdges DEF CallInv, PublishLabels
    <3>3. /\ pc'[g] \in PublishLabels \cup {"done"}
          /\ pc'[g] = "done" => reply'[g] \in Errors \cup {"accepted"}
          /\ pc'[g] # "done" => reply'[g] = "none"
      BY <1>2, <2>2, <3>1, <3>2, PublishEdges
    <3>4. started' = started
      BY <1>2, PublishLeaves
    <3> QED
      BY <2>1, <3>2, <3>3, <3>4 DEF CallInv, PublishLabels, Errors
  <2>3. CASE g \notin Calls
    <3>1. started' = started
      BY <1>2, PublishLeaves
    <3> QED
      BY <2>1, <2>3, <3>1 DEF CallInv
  <2> QED
    BY <2>2, <2>3
<1>3. ASSUME NEW w \in Workers, RunProducer(w) PROVE CallInv'
  <2>1. \A c \in Calls : pc'[c] = pc[c]
    BY <1>3, WorkerEdges, ProducerAssumption DEF Goroutines
  <2>2. reply' = reply /\ started' = started
    BY <1>3, WorkerLeaves
  <2> QED
    BY <2>1, <2>2 DEF CallInv
<1>4. CASE StartAsync \/ Shutdown \/ Tick
  BY <1>4, OtherLeaves DEF CallInv
<1> QED
  BY <1>1, <1>2, <1>3, <1>4 DEF Next

\* The workers start together, exit on the closed and empty channel and are
\* waited for; nothing is sent before they start or after the channel is closed.
LEMMA WorkerKept ==
    ASSUME TypeOK, CallInv, WorkerInv, Next
    PROVE  WorkerInv'
<1>1. ASSUME NEW c \in Calls, Call(c) PROVE WorkerInv'
  <2>1. \A w \in Workers : pc'[w] = pc[w]
    BY <1>1, CallEdges, ProducerAssumption DEF Goroutines
  <2>2. workCh' = workCh \/ (started /\ ~ChannelClosed)
    BY <1>1, CallEdges, StageFacts DEF CallInv
  <2> QED
    BY <1>1, <2>1, <2>2, CallLeaves DEF WorkerInv, ChannelClosed
<1>2. ASSUME NEW g \in Goroutines, Publish(g) PROVE WorkerInv'
  <2>1. \A w \in Workers \ {g} : pc'[w] = pc[w]
    BY <1>2, PublishEdges DEF Goroutines
  <2>2. /\ pc[g] \notin {"notStarted", "exited"}
        /\ g \in Workers => pc'[g] \notin {"notStarted", "exited"}
    BY <1>2, PublishEdges DEF PublishLabels
  <2> QED
    BY <1>2, <2>1, <2>2, PublishLeaves DEF WorkerInv, ChannelClosed
<1>3. ASSUME NEW w \in Workers, RunProducer(w) PROVE WorkerInv'
  <2>1. \A v \in Workers \ {w} : pc'[v] = pc[v]
    BY <1>3, WorkerEdges DEF Goroutines
  <2>2. started /\ stage # "stopped" /\ pc'[w] # "notStarted"
    BY <1>3, WorkerEdges DEF WorkerInv
  <2>3. pc'[w] = "exited" => ChannelClosed /\ workCh' = <<>>
    BY <1>3, WorkerEdges, StageFacts
  <2>4. workCh = <<>> => workCh' = <<>>
    BY <1>3, WorkerEdges
  <2> QED
    BY <1>3, <2>1, <2>2, <2>3, <2>4, WorkerLeaves, Zenon DEF WorkerInv, ChannelClosed
<1>4. CASE StartAsync
  BY <1>4 DEF StartAsync, WorkerInv, Goroutines
<1>5. CASE Shutdown
  <2>1. pc' = pc /\ workCh' = workCh /\ started' = started
    BY <1>5 DEF Shutdown, queueVars
  <2>2. stage' = "stopped" => \A w \in Workers : pc[w] \in {"notStarted", "exited"}
    BY <1>5 DEF Shutdown, WorkersDone
  <2> QED
    BY <1>5, <2>1, <2>2, ShutdownMoves DEF WorkerInv
<1>6. CASE Tick
  BY <1>6 DEF Tick, queueVars, WorkerInv, ChannelClosed
<1> QED
  BY <1>1, <1>2, <1>3, <1>4, <1>5, <1>6 DEF Next

\* What the workers hold between them, after a step of one of them.
LEMMA HeldAfter ==
    ASSUME TypeOK, NEW w \in Workers, \A v \in Workers \ {w} : item'[v] = item[v]
    PROVE  /\ Held' \subseteq Held \cup item'[w]
           /\ Held \subseteq Held' \cup item[w]
           /\ item[w] \subseteq Held /\ item'[w] \subseteq Held'
BY Zenon DEF Held

\* A batch reaches the topic or a file only from a worker that took it from the
\* channel, where it was accepted, or from its own call.
LEMMA SourceKept ==
    ASSUME TypeOK, CallInv, SourceInv, Next
    PROVE  SourceInv'
<1>1. ASSUME NEW c \in Calls, Call(c) PROVE SourceInv'
  <2>1. Held' = Held
    BY <1>1, CallLeaves DEF Held
  <2>2. \A d \in Calls \ {c} : pc'[d] = pc[d] /\ reply'[d] = reply[d]
    BY <1>1, CallEdges DEF Goroutines
  <2>3. Queued' = Queued \/ (Queued' = Queued \cup {c} /\ reply'[c] = "accepted")
    <3>1. workCh \in Seq(Calls)
      BY DEF TypeOK
    <3> QED
      BY <1>1, <3>1, CallEdges, SentIsQueued, Zenon DEF Queued
  <2>4. ~(kafka[c] > 0) /\ c \notin Queued \cup Held \cup dlq \cup abandoned
    <3>1. reply[c] = "none" /\ pc[c] \notin PublishLabels
      BY <1>1, CallEdges DEF CallInv, PublishLabels
    <3> QED
      BY <3>1 DEF SourceInv, Errors
  <2> QED
    BY <1>1, <2>1, <2>2, <2>3, <2>4, CallLeaves DEF SourceInv
<1>2. ASSUME NEW g \in Goroutines, Publish(g) PROVE SourceInv'
  <2>1. \A d \in Calls \ {g} : pc'[d] = pc[d] /\ reply'[d] = reply[d]
    BY <1>2, PublishEdges DEF Goroutines
  <2>2. Held' = Held /\ Queued' = Queued
    BY <1>2, PublishLeaves DEF Held, Queued
  <2>3. ASSUME NEW d \in Calls, kafka'[d] > 0
        PROVE  kafka[d] > 0 \/ (d \in Batch(g) /\ pc'[g] \in PublishLabels)
    <3>1. kafka[d] \in Nat
      BY DEF TypeOK
    <3> QED
      BY <1>2, <2>3, <3>1, PublishEdges DEF Write
  <2>4. CASE g \in Workers
    <3>1. g \notin Calls /\ Batch(g) \subseteq Held
      BY <2>4, ProducerAssumption DEF Batch, Held
    <3> QED
      BY <1>2, <2>1, <2>2, <2>3, <3>1, PublishLeaves DEF SourceInv
  <2>5. CASE g \notin Workers
    <3>1. g \in Calls /\ Batch(g) = {g}
      BY <2>5 DEF Batch, Goroutines
    <3>2. reply[g] = "none" /\ g \notin Queued \cup Held \cup dlq \cup abandoned
      BY <1>2, <3>1, PublishEdges DEF CallInv, PublishLabels, SourceInv
    <3>3. pc'[g] \in PublishLabels \/ reply'[g] \in {"accepted"} \cup Errors
      BY <1>2, <2>5, <3>1, PublishEdges
    <3> QED
      BY <1>2, <2>1, <2>2, <2>3, <3>1, <3>2, <3>3, PublishLeaves DEF SourceInv
  <2> QED
    BY <2>4, <2>5
<1>3. ASSUME NEW w \in Workers, RunProducer(w) PROVE SourceInv'
  <2>1. \A c \in Calls : pc'[c] = pc[c]
    BY <1>3, WorkerEdges, ProducerAssumption DEF Goroutines
  <2>2. /\ Queued' \cup item'[w] \subseteq Queued \cup item[w]
        /\ dlq' \cup abandoned' \subseteq dlq \cup abandoned \cup item[w]
    <3>1. workCh \in Seq(Calls)
      BY DEF TypeOK
    <3> QED
      BY <1>3, <3>1, WorkerEdges, ReceivedIsFirst, Zenon DEF Queued
  <2>3. Held' \subseteq Held \cup item'[w] /\ item[w] \subseteq Held
    BY <1>3, WorkerEdges, HeldAfter
  <2>4. Queued' \cup Held' \cup dlq' \cup abandoned' \subseteq
            Queued \cup Held \cup dlq \cup abandoned
    BY <2>2, <2>3
  <2> QED
    BY <1>3, <2>1, <2>4, WorkerLeaves DEF SourceInv
<1>4. CASE StartAsync \/ Shutdown \/ Tick
  BY <1>4, OtherLeaves DEF SourceInv, Queued, Held
<1> QED
  BY <1>1, <1>2, <1>3, <1>4 DEF Next

\* A worker is done with its batch when it goes back to the channel, and the
\* topic has a batch whose goroutine reports success.
LEMMA DoneKept ==
    ASSUME TypeOK, WorkerInv, DoneInv, Next
    PROVE  DoneInv'
<1>1. ASSUME NEW c \in Calls, Call(c) PROVE DoneInv'
  <2>1. pc'[c] \notin {"success", "closeCircuit"} /\ c \notin Workers
    BY <1>1, CallEdges, ProducerAssumption
  <2>2. /\ \A x \in Goroutines : Batch(x)' = Batch(x)
        /\ \A d \in Calls : Delivered(d)' <=> Delivered(d)
    BY <1>1, CallLeaves DEF Batch, Delivered
  <2>3. \A w \in Workers : pc'[w] = pc[w] /\ item'[w] = item[w]
    BY <1>1, <2>1, CallEdges, CallLeaves DEF Goroutines
  <2> QED
    BY <1>1, <2>1, <2>2, <2>3, CallEdges, CallLeaves DEF DoneInv, Delivered
<1>2. ASSUME NEW g \in Goroutines, Publish(g) PROVE DoneInv'
  <2>1. \A c \in Calls : kafka[c] > 0 => kafka'[c] > 0
    <3>1. \A c \in Calls : kafka[c] \in Nat
      BY DEF TypeOK
    <3> QED
      BY <1>2, <3>1, PublishEdges DEF Write
  <2>2. /\ \A x \in Goroutines : Batch(x)' = Batch(x) /\ Batch(x) \subseteq Calls
        /\ \A w \in Workers : item'[w] = item[w] /\ item[w] \subseteq Calls
        /\ \A c \in Calls : Delivered(c) => Delivered(c)'
    BY <1>2, <2>1, BatchTyped, PublishLeaves DEF Batch, Delivered, TypeOK
  <2>3. ASSUME pc'[g] \in {"success", "closeCircuit"}
        PROVE  \A c \in Batch(g) : kafka'[c] > 0
    <3>1. CASE pc'[g] = "success"
      <4>1. \A c \in Calls : kafka[c] \in Nat
        BY DEF TypeOK
      <4>2. Write(Batch(g)) /\ Batch(g) \subseteq Calls
        BY <1>2, <2>2, <3>1, PublishEdges, Zenon
      <4> QED
        BY <4>1, <4>2 DEF Write
    <3>2. CASE pc'[g] = "closeCircuit"
      BY <1>2, <2>1, <2>2, <3>2, PublishEdges DEF DoneInv
    <3> QED
      BY <2>3, <3>1, <3>2
  <2>4. ASSUME g \in Workers, pc'[g] \in {"notStarted", "receive", "exited"}
        PROVE  \A c \in item[g] : Delivered(c)'
    <3>1. pc[g] = "closeCircuit" /\ Batch(g) = item[g]
      BY <1>2, <2>4, PublishEdges, Zenon DEF PublishLabels, Batch
    <3> QED
      BY <2>2, <3>1 DEF DoneInv, Delivered
  <2>5. \A x \in Goroutines \ {g} : pc'[x] = pc[x]
    BY <1>2, PublishEdges
  <2>6. \A w \in Workers : w \in Goroutines
    BY DEF Goroutines
  <2> QED
    BY <2>1, <2>2, <2>3, <2>4, <2>5, <2>6 DEF DoneInv
<1>3. ASSUME NEW w \in Workers, RunProducer(w) PROVE DoneInv'
  <2>1. /\ \A c \in Calls : Delivered(c) => Delivered(c)'
        /\ kafka' = kafka
    BY <1>3, WorkerEdges, WorkerLeaves DEF Delivered
  <2>2. /\ pc'[w] \notin {"success", "closeCircuit"}
        /\ pc'[w] \in {"notStarted", "receive", "exited"} =>
              item'[w] = {} \/ (item' = item /\ pc[w] = "receive")
    BY <1>3, WorkerEdges
  <2>3. /\ \A x \in Goroutines \ {w} : pc'[x] = pc[x] /\ Batch(x)' = Batch(x)
        /\ \A v \in Workers \ {w} : pc'[v] = pc[v] /\ item'[v] = item[v]
    BY <1>3, WorkerEdges DEF Batch, Goroutines
  <2>4. \A v \in Workers : item[v] \subseteq Calls
    BY DEF TypeOK
  <2> QED
    BY <2>1, <2>2, <2>3, <2>4 DEF DoneInv
<1>4. CASE StartAsync
  <2>1. \A w \in Workers : pc[w] = "notStarted" /\ pc'[w] = "receive"
    BY <1>4 DEF StartAsync, WorkerInv, Goroutines
  <2>2. /\ \A x \in Goroutines : Batch(x)' = Batch(x)
        /\ \A c \in Calls : Delivered(c)' <=> Delivered(c)
    BY <1>4, OtherLeaves DEF Batch, Delivered
  <2>3. \A x \in Goroutines \ Workers : pc'[x] = pc[x]
    BY <1>4, OtherLeaves DEF Goroutines
  <2> QED
    BY <1>4, <2>1, <2>2, <2>3, OtherLeaves DEF DoneInv, Delivered
<1>5. CASE Shutdown \/ Tick
  <2>1. pc' = pc
    BY <1>5 DEF Shutdown, Tick
  <2> QED
    BY <1>5, <2>1, OtherLeaves DEF DoneInv, Batch, Delivered
<1> QED
  BY <1>1, <1>2, <1>3, <1>4, <1>5 DEF Next

\* A batch leaves the channel into a worker's hands, and these for the topic or
\* for writeProducerDLQ.
LEMMA AcceptedKept ==
    ASSUME TypeOK, CallInv, DoneInv, AcceptedIsHeld, Next
    PROVE  AcceptedIsHeld'
<1>1. ASSUME NEW c \in Calls, Call(c) PROVE AcceptedIsHeld'
  <2>1. Held' = Held /\ \A d \in Calls : Delivered(d)' <=> Delivered(d)
    BY <1>1, CallLeaves DEF Held, Delivered
  <2>2. Queued \subseteq Queued' /\ (reply'[c] = "accepted" => c \in Queued')
    <3>1. reply[c] = "none"
      BY <1>1, CallEdges DEF CallInv
    <3>2. CASE workCh' = workCh /\ reply'[c] # "accepted"
      BY <3>2 DEF Queued
    <3>3. CASE workCh' = Append(workCh, c)
      BY <3>3, SentIsQueued DEF Queued, TypeOK
    <3> QED
      BY <1>1, <3>1, <3>2, <3>3, CallEdges
  <2> QED
    BY <1>1, <2>1, <2>2, CallEdges DEF AcceptedIsHeld
<1>2. ASSUME NEW g \in Goroutines, Publish(g) PROVE AcceptedIsHeld'
  <2>1. Held' = Held /\ Queued' = Queued
    BY <1>2, PublishLeaves DEF Held, Queued
  <2>2. \A c \in Calls : Delivered(c) => Delivered(c)'
    <3>1. \A c \in Calls : kafka[c] \in Nat
      BY DEF TypeOK
    <3>2. \A c \in Calls : kafka[c] > 0 => kafka'[c] > 0
      BY <1>2, <3>1, PublishEdges DEF Write
    <3> QED
      BY <1>2, <3>2, PublishLeaves DEF Delivered
  <2>3. ASSUME g \in Calls, reply'[g] = "accepted" PROVE Delivered(g)'
    <3>1. pc[g] = "closeCircuit" /\ g \notin Workers
      <4>1. reply[g] = "none"
        BY <1>2, <2>3, PublishEdges DEF CallInv, PublishLabels
      <4> QED
        BY <1>2, <2>3, <4>1, PublishEdges, ProducerAssumption DEF Errors
    <3> QED
      BY <2>2, <2>3, <3>1 DEF DoneInv, Batch, Delivered
  <2> QED
    BY <1>2, <2>1, <2>2, <2>3, PublishEdges DEF AcceptedIsHeld
<1>3. ASSUME NEW w \in Workers, RunProducer(w) PROVE AcceptedIsHeld'
  <2>1. /\ Held \subseteq Held' \cup item[w] /\ item'[w] \subseteq Held'
        /\ item[w] \subseteq Calls
    <3>1. \A v \in Workers \ {w} : item'[v] = item[v]
      BY <1>3, WorkerEdges
    <3>2. Held \subseteq Held' \cup item[w] /\ item'[w] \subseteq Held'
      BY <3>1, HeldAfter
    <3> QED
      BY <3>2 DEF TypeOK
  <2>2. \A c \in Calls : Delivered(c) => Delivered(c)'
    BY <1>3, WorkerEdges, WorkerLeaves DEF Delivered
  <2>3. Queued \subseteq Queued' \cup item'[w]
    <3>1. workCh \in Seq(Calls)
      BY DEF TypeOK
    <3> QED
      BY <1>3, <3>1, WorkerEdges, ReceivedIsFirst, EmptyChannel, Zenon DEF Queued
  <2>4. \A c \in item[w] : Delivered(c)'
    <3>1. CASE pc[w] = "receive"
      BY <2>1, <2>2, <3>1 DEF DoneInv
    <3>2. CASE pc[w] # "receive"
      BY <1>3, <3>2, WorkerEdges DEF Delivered
    <3> QED
      BY <3>1, <3>2
  <2> QED
    BY <1>3, <2>1, <2>2, <2>3, <2>4, WorkerLeaves DEF AcceptedIsHeld
<1>4. CASE StartAsync \/ Shutdown \/ Tick
  BY <1>4, OtherLeaves DEF AcceptedIsHeld, Queued, Held, Delivered
<1> QED
  BY <1>1, <1>2, <1>3, <1>4 DEF Next

\* isCircuitOpen goes on to its CompareAndSwap only with a deadline it has found
\* passed, and time does not run back.
LEMMA DeadlineKept ==
    ASSUME TypeOK, DeadlineInv, Next
    PROVE  DeadlineInv'
<1>1. now \in Int /\ \A c \in Calls : seen[c] \in Int
  BY DEF TypeOK
<1>2. ASSUME NEW c \in Calls, Call(c) PROVE DeadlineInv'
  <2>1. CASE LoadCircuit(c)
    <3>1. openUntil \in Int /\ c \in Goroutines
      BY DEF TypeOK, Goroutines
    <3>2. pc'[c] = "expired" => seen'[c] <= now
      BY <1>1, <2>1, <3>1 DEF LoadCircuit, Return, Goto, TypeOK
    <3>3. \A d \in Calls \ {c} : seen'[d] = seen[d]
      BY <2>1 DEF LoadCircuit, TypeOK
    <3>4. now' = now /\ \A d \in Calls \ {c} : pc'[d] = pc[d]
      BY <1>2, CallEdges, CallLeaves, Zenon DEF Goroutines
    <3> QED
      BY <3>2, <3>3, <3>4 DEF DeadlineInv, At
  <2>2. CASE ~LoadCircuit(c)
    <3>1. seen' = seen
      BY <1>2, <2>2 DEF Call, ProcessBatch, CheckAccepting, ClearExpired, ContextDone, Send,
         BeginSync, callVars
    <3>2. pc'[c] # "expired"
      BY <1>2, <2>2 DEF Call, ProcessBatch, CheckAccepting, ClearExpired, ContextDone, Send,
         BeginSync, Return, Goto, TypeOK, Goroutines
    <3> QED
      BY <1>2, <3>1, <3>2, CallEdges, CallLeaves DEF DeadlineInv, At, Goroutines
  <2> QED
    BY <2>1, <2>2
<1>3. ASSUME NEW g \in Goroutines, Publish(g) PROVE DeadlineInv'
  <2>1. pc'[g] # "expired"
    BY <1>3, PublishEdges DEF PublishLabels
  <2> QED
    BY <1>3, <2>1, PublishEdges, PublishLeaves DEF DeadlineInv, At, Goroutines
<1>4. ASSUME NEW w \in Workers, RunProducer(w) PROVE DeadlineInv'
  <2>1. \A c \in Calls : pc'[c] = pc[c]
    BY <1>4, WorkerEdges, ProducerAssumption DEF Goroutines
  <2> QED
    BY <1>4, <2>1, WorkerLeaves DEF DeadlineInv, At
<1>5. CASE StartAsync \/ Shutdown \/ Tick
  BY <1>1, <1>5, OtherLeaves DEF DeadlineInv, At
<1> QED
  BY <1>2, <1>3, <1>4, <1>5 DEF Next

-----------------------------------------------------------------------------
\* The invariant, and the theorems that follow from it.

\* It holds before StartAsync, with nothing asked of the producer yet.
LEMMA InitProducer == Init => ProducerInv
<1> SUFFICES ASSUME Init PROVE ProducerInv
  OBVIOUS
<1>1. TypeOK
  <2>1. /\ pc \in [Goroutines -> CallLabels \cup WorkerLabels \cup PublishLabels]
        /\ \A c \in Calls : pc[c] \notin WorkerLabels
        /\ \A w \in Workers : pc[w] \notin CallLabels
    BY ProducerAssumption DEF Init, Goroutines, CallLabels, WorkerLabels
  <2>2. stage \in Range(Stages)
    <3>1. Stages[1] = "running" /\ 1 \in DOMAIN Stages
      BY DEF Stages
    <3> QED
      BY <3>1 DEF Init, Range
  <2>3. /\ reply \in [Calls -> Replies] /\ item \in [Workers -> SUBSET Calls]
        /\ seen \in [Calls -> Nat] /\ kafka \in [Calls -> Nat]
        /\ attempt \in [Goroutines -> 0 .. MaxRetries + 1]
    BY ProducerAssumption DEF Init, Replies
  <2>4. workCh \in Seq(Calls) /\ Len(workCh) <= BufferSize /\ now \in 1 .. MaxTime
    BY ProducerAssumption DEF Init
  <2> QED
    BY <2>1, <2>2, <2>3, <2>4 DEF Init, TypeOK
<1>2. /\ \A c \in Calls : pc[c] = "idle" /\ reply[c] = "none" /\ kafka[c] = 0
      /\ \A w \in Workers : pc[w] = "notStarted" /\ item[w] = {}
      /\ workCh = <<>> /\ started = FALSE /\ stage = "running"
      /\ dlq = {} /\ abandoned = {}
  BY ProducerAssumption DEF Init, Goroutines
<1>3. RetryInv /\ CallInv /\ WorkerInv /\ DeadlineInv
  BY <1>2 DEF RetryInv, CallInv, WorkerInv, DeadlineInv, At, Goroutines, PublishLabels
<1>4. Queued = {} /\ Held = {}
  BY <1>2, EmptyChannel DEF Queued, Held
<1>5. SourceInv /\ AcceptedIsHeld
  BY <1>2, <1>4 DEF SourceInv, AcceptedIsHeld
<1>6. DoneInv
  BY <1>2 DEF DoneInv, Goroutines
<1> QED
  BY <1>1, <1>3, <1>5, <1>6 DEF ProducerInv

\* Every step keeps it.
LEMMA StepProducer == ProducerInv /\ [Next]_vars => ProducerInv'
<1> SUFFICES ASSUME ProducerInv, [Next]_vars PROVE ProducerInv'
  OBVIOUS
<1>1. CASE Next
  <2>1. TypeOK'
    BY <1>1, CallTyped, PublishTyped, WorkerTyped, OtherTyped DEF Next, ProducerInv
  <2> QED
    BY <1>1, <2>1, RetryKept, CallKept, WorkerKept, SourceKept, DoneKept, AcceptedKept,
       DeadlineKept DEF ProducerInv
<1>2. CASE UNCHANGED vars
  <2>1. /\ pc' = pc /\ reply' = reply /\ seen' = seen /\ item' = item
        /\ attempt' = attempt /\ workCh' = workCh /\ started' = started
        /\ stage' = stage /\ failures' = failures /\ openUntil' = openUntil
        /\ now' = now /\ kafka' = kafka /\ dlq' = dlq /\ abandoned' = abandoned
    BY <1>2 DEF vars, callVars, sendVars, queueVars, circuitVars, outVars
  <2>2. TypeOK' /\ RetryInv' /\ CallInv' /\ DeadlineInv'
    BY <2>1 DEF ProducerInv, TypeOK, RetryInv, CallInv, DeadlineInv, At
  <2>3. WorkerInv' /\ SourceInv' /\ DoneInv' /\ AcceptedIsHeld'
    BY <2>1 DEF ProducerInv, WorkerInv, SourceInv, DoneInv, AcceptedIsHeld, ChannelClosed,
       Queued, Held, Delivered, Batch
  <2> QED
    BY <2>2, <2>3 DEF ProducerInv
<1> QED
  BY <1>1, <1>2

\* ProducerInv is an invariant of the producer.
LEMMA ProducerInvariant == Spec => []ProducerInv
  BY InitProducer, StepProducer, PTL DEF Spec

\* The producer's state keeps its types: workCh (producer.go:144) never holds
\* more than its capacity, and tryEnqueueWithRetry (producer.go:257-302) never
\* makes more than maxRetries + 1 attempts.
THEOREM ProducerTypes == Spec => []TypeOK
<1>1. ProducerInv => TypeOK
  BY DEF ProducerInv
<1> QED
  BY <1>1, ProducerInvariant, PTL

\* A batch that Enqueue accepted is never lost inside the producer, whatever
\* Close does meanwhile.
THEOREM AcceptedNeverLost == Spec => []AcceptedIsHeld
<1>1. ProducerInv => AcceptedIsHeld
  BY DEF ProducerInv
<1> QED
  BY <1>1, ProducerInvariant, PTL

\* A batch that Enqueue refused is not in the producer nor in the topic, and
\* may be sent again.
THEOREM RefusedMayBeResent == Spec => []RefusedIsUnpublished
<1>1. ASSUME ProducerInv, NEW c \in Calls,
             reply[c] \notin {"none", "accepted"} \cup Errors
      PROVE  c \notin Queued \cup Held /\ ~Delivered(c)
  <2>1. pc[c] \notin PublishLabels
    BY <1>1 DEF ProducerInv, CallInv, PublishLabels
  <2> QED
    BY <1>1, <2>1 DEF ProducerInv, SourceInv, Delivered
<1>2. ProducerInv => RefusedIsUnpublished
  BY <1>1 DEF RefusedIsUnpublished
<1> QED
  BY <1>2, ProducerInvariant, PTL

\* When Close has returned, every accepted batch has been published, written to
\* a file or logged: there is a worker, and it left only an empty channel.
THEOREM CloseSettles == Spec => []ClosedMeansSettled
<1>1. ASSUME ProducerInv, stage = "stopped" PROVE workCh = <<>>
  <2>1. CASE Sync
    BY <1>1, <2>1 DEF ProducerInv, WorkerInv
  <2>2. CASE ~Sync
    <3>1. PICK w \in Workers : TRUE
      BY <2>2, ProducerAssumption
    <3> QED
      BY <1>1, <3>1 DEF ProducerInv, WorkerInv
  <2> QED
    BY <2>1, <2>2
<1>2. ASSUME ProducerInv, stage = "stopped" PROVE \A c \in Held : Delivered(c)
  <2>1. \A w \in Workers : \A c \in item[w] : Delivered(c)
    BY <1>2 DEF ProducerInv, WorkerInv, DoneInv
  <2> QED
    BY <2>1 DEF Held
<1>3. ProducerInv => ClosedMeansSettled
  BY <1>1, <1>2, EmptyChannel DEF ProducerInv, ClosedMeansSettled, AcceptedIsHeld, Queued
<1> QED
  BY <1>3, ProducerInvariant, PTL

\* isCircuitOpen's CompareAndSwap (producer.go:304-315) cannot close a circuit
\* that has opened again since the deadline was read.
THEOREM CircuitNotClosedByOldDeadline == Spec => CircuitClosesForCause
<1> DEFINE Cause == \/ openUntil <= now
                    \/ \E g \in Goroutines : At(g, "closeCircuit") /\ pc'[g] # pc[g]
<1>1. ASSUME ProducerInv, Next, openUntil # 0, openUntil' = 0 PROVE Cause
  <2>1. TypeOK
    BY <1>1 DEF ProducerInv
  <2>2. ASSUME NEW c \in Calls, Call(c) PROVE Cause
    <3>1. CASE ClearExpired(c)
      BY <1>1, <3>1 DEF ClearExpired, ProducerInv, DeadlineInv
    <3>2. CASE ~ClearExpired(c)
      BY <1>1, <2>2, <3>2 DEF Call, ProcessBatch, CheckAccepting, LoadCircuit, ContextDone,
         Send, BeginSync, circuitVars
    <3> QED
      BY <3>1, <3>2
  <2>3. ASSUME NEW g \in Goroutines, Publish(g) PROVE Cause
    <3>1. CASE CloseCircuit(g)
      <4>1. pc \in [Goroutines -> Labels]
        BY <2>1 DEF TypeOK, Labels
      <4>2. pc[g] = "closeCircuit" /\ pc'[g] # "closeCircuit"
        BY <3>1, <4>1 DEF CloseCircuit, At, Succeed, Return, Goto
      <4> QED
        BY <4>2 DEF At
    <3>2. CASE OpenCircuit(g)
      <4>1. now \in Nat \ {0} /\ Cooldown \in Nat
        BY <2>1, ProducerAssumption DEF TypeOK
      <4>2. openUntil' = now + Cooldown
        BY <3>2 DEF OpenCircuit
      <4> QED
        BY <1>1, <4>1, <4>2
    <3>3. CASE ~(CloseCircuit(g) \/ OpenCircuit(g))
      BY <1>1, <2>3, <3>3 DEF Publish, EnqueueSucceeds, EnqueueFails, BackoffElapses,
         BackoffCancelled, ResetFailures, CountFailure, ResetCount, circuitVars
    <3> QED
      BY <3>1, <3>2, <3>3
  <2>4. ASSUME NEW w \in Workers, RunProducer(w) PROVE Cause
    BY <1>1, <2>4, WorkerLeaves
  <2>5. CASE StartAsync \/ Shutdown \/ Tick
    BY <1>1, <2>5 DEF StartAsync, Shutdown, Tick, circuitVars
  <2> QED
    BY <1>1, <2>2, <2>3, <2>4, <2>5 DEF Next
<1>2. ProducerInv /\ [Next]_vars =>
          [(openUntil # 0 /\ openUntil' = 0) => Cause]_vars
  BY <1>1
<1> QED
  BY <1>2, ProducerInvariant, PTL DEF Spec, CircuitClosesForCause

=============================================================================
