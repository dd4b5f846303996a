---------------------------- MODULE KafkaHealth -----------------------------
(***************************************************************************)
(* What internal/queue/kafka_queue.go tells about Kafka: the kafka_up      *)
(* gauge and the kafkaDown flag, two atomics that the consume loops, the   *)
(* readiness checks and the writer's error logger update without a lock,   *)
(* the throttle of the writer's log, and the retry delay of a consume      *)
(* loop.  Each access to an atomic is a step.                              *)
(***************************************************************************)
EXTENDS Retry

CONSTANTS
    Readers,      \* the consume goroutines
    Writers,      \* the goroutines in which kafka-go reports a writer error
    Probes,       \* the goroutines that run a readiness check
    Brokers,      \* readerCfg.Brokers, by number
    MinBackoff, MaxBackoff,   \* kafkaRetryMinBackoff, kafkaRetryMaxBackoff
    LogInterval,  \* kafkaWriterLogInterval
    MaxTime,      \* bound on the clock
    MaxFaults     \* bound on the failing fetches and writes: the outage ends

ASSUME KafkaHealthAssumption ==
    /\ Brokers \in Nat \ {0}
    /\ MinBackoff \in Nat \ {0} /\ MaxBackoff \in Nat /\ MinBackoff <= MaxBackoff
    /\ MaxBackoff <= MaxDuration
    /\ LogInterval \in Nat \ {0} /\ MaxTime \in Nat /\ MaxFaults \in Nat

VARIABLES
    pc,             \* where each goroutine is
    kafkaUp,        \* the gauge
    kafkaDown,      \* the flag
    lastWriterLog,  \* lastWriterLogNs
    now,            \* the clock
    local,          \* now and last of a logWriterError call
    retryDelay,     \* of a consume loop
    streak,         \* failed fetches since the last successful one
    untried,        \* the brokers a readiness check has not dialled yet
    faults          \* failures so far

vars == <<pc, kafkaUp, kafkaDown, lastWriterLog, now, local, retryDelay,
          streak, untried, faults>>

Goroutines == Readers \cup Writers \cup Probes

\* After the startup check, with the clock long past the zero stamp.
Init ==
    /\ pc = [g \in Goroutines |-> IF g \in Readers THEN "fetch" ELSE "idle"]
    /\ kafkaUp = TRUE
    /\ kafkaDown = FALSE
    /\ lastWriterLog = 0
    /\ now = LogInterval
    /\ local = [w \in Writers |-> [now |-> 0, last |-> 0]]
    /\ retryDelay = [r \in Readers |-> MinBackoff]
    /\ streak = [r \in Readers |-> 0]
    /\ untried = [p \in Probes |-> 0]
    /\ faults = 0

Goto(g, from, to) == pc[g] = from /\ pc' = [pc EXCEPT ![g] = to]

logVars == <<lastWriterLog, now, local>>
retryVars == <<retryDelay, streak>>

-----------------------------------------------------------------------------
\* consume, as far as Kafka's health goes.

\* FetchMessage fails while the context is alive: markKafkaDown begins.
FetchFails(r) ==
    /\ Goto(r, "fetch", "markDown")
    /\ faults < MaxFaults
    /\ faults' = faults + 1
    /\ kafkaUp' = FALSE
    /\ streak' = [streak EXCEPT ![r] = @ + 1]
    /\ UNCHANGED <<kafkaDown, logVars, retryDelay, untried>>

\* kafkaDown.Swap(true), and WaitForRetry.
MarkDown(r) ==
    /\ Goto(r, "markDown", "wait")
    /\ kafkaDown' = TRUE
    /\ UNCHANGED <<kafkaUp, logVars, retryVars, untried, faults>>

\* The delays WaitForRetry may be given, and its timer firing.
Waits(r) == JitterRetryDelay(retryDelay[r])

RetryElapsed(r) ==
    /\ Goto(r, "wait", "fetch")
    /\ retryDelay' = [retryDelay EXCEPT
                         ![r] = NextRetryDelay(@, MinBackoff, MaxBackoff)]
    /\ UNCHANGED <<kafkaUp, kafkaDown, logVars, streak, untried, faults>>

\* The context is cancelled: in FetchMessage or in WaitForRetry.
ConsumeReturns(r) ==
    /\ Goto(r, "fetch", "done") \/ Goto(r, "wait", "done")
    /\ UNCHANGED <<kafkaUp, kafkaDown, logVars, retryVars, untried, faults>>

\* Faulty variant of FetchMessage: the gauge follows the flag.
FetchTrustsFlag(r) ==
    /\ Goto(r, "fetch", "markUp")
    /\ retryDelay' = [retryDelay EXCEPT ![r] = MinBackoff]
    /\ streak' = [streak EXCEPT ![r] = 0]
    /\ kafkaUp' = (kafkaUp \/ kafkaDown)
    /\ UNCHANGED <<kafkaDown, logVars, untried, faults>>

\* Faulty variant of FetchMessage: the delay of the outage is kept.
FetchKeepsDelay(r) ==
    /\ Goto(r, "fetch", "markUp")
    /\ streak' = [streak EXCEPT ![r] = 0]
    /\ kafkaUp' = TRUE
    /\ UNCHANGED <<kafkaDown, logVars, retryDelay, untried, faults>>

\* FetchMessage returns a message: markKafkaUp begins.
FetchMessage(r) ==
    /\ Goto(r, "fetch", "markUp")
    /\ retryDelay' = [retryDelay EXCEPT ![r] = MinBackoff]
    /\ streak' = [streak EXCEPT ![r] = 0]
    /\ kafkaUp' = TRUE
    /\ UNCHANGED <<kafkaDown, logVars, untried, faults>>

\* kafkaDown.Swap(false); the message is handled.
MarkUp(r) ==
    /\ Goto(r, "markUp", "fetch")
    /\ kafkaDown' = FALSE
    /\ UNCHANGED <<kafkaUp, logVars, retryVars, untried, faults>>

-----------------------------------------------------------------------------
\* CheckConnectivity: a GET /ready dials the brokers in turn.

ProbeStarts(p) ==
    /\ Goto(p, "idle", "dial")
    /\ untried' = [untried EXCEPT ![p] = Brokers]
    /\ UNCHANGED <<kafkaUp, kafkaDown, logVars, retryVars, faults>>

\* DialContext fails, and the next broker's turn comes; or the context is done.
DialFails(p) ==
    /\ pc[p] = "dial"
    /\ \/ /\ untried[p] > 1
          /\ untried' = [untried EXCEPT ![p] = @ - 1]
          /\ UNCHANGED pc
       \/ /\ Goto(p, "dial", "idle")
          /\ untried' = [untried EXCEPT ![p] = 0]
    /\ UNCHANGED <<kafkaUp, kafkaDown, logVars, retryVars, faults>>

DialSucceeds(p) ==
    /\ Goto(p, "dial", "store")
    /\ untried' = [untried EXCEPT ![p] = 0]
    /\ kafkaUp' = TRUE
    /\ UNCHANGED <<kafkaDown, logVars, retryVars, faults>>

\* kafkaDown.Store(false)
ProbeReturns(p) ==
    /\ Goto(p, "store", "idle")
    /\ kafkaDown' = FALSE
    /\ UNCHANGED <<kafkaUp, logVars, retryVars, untried, faults>>

-----------------------------------------------------------------------------
\* logWriterError, which kafka-go calls in its own goroutines.

WriterError(w) ==
    /\ Goto(w, "idle", "clock")
    /\ faults < MaxFaults
    /\ faults' = faults + 1
    /\ kafkaUp' = FALSE
    /\ UNCHANGED <<kafkaDown, logVars, retryVars, untried>>

ReadClock(w) ==
    /\ Goto(w, "clock", "load")
    /\ local' = [local EXCEPT ![w].now = now]
    /\ UNCHANGED <<kafkaUp, kafkaDown, lastWriterLog, now, retryVars, untried, faults>>

\* logWriterError returns and its locals are gone.
Returned(w) == local' = [local EXCEPT ![w] = [now |-> 0, last |-> 0]]

\* Load, and the test of the interval.
LoadLast(w) ==
    /\ \/ /\ local[w].now - lastWriterLog < LogInterval
          /\ Goto(w, "load", "idle") /\ Returned(w)
       \/ /\ local[w].now - lastWriterLog >= LogInterval
          /\ Goto(w, "load", "swap")
          /\ local' = [local EXCEPT ![w].last = lastWriterLog]
    /\ UNCHANGED <<kafkaUp, kafkaDown, lastWriterLog, now, retryVars, untried, faults>>

\* Faulty variant of SwapLast: Store in the place of CompareAndSwap.
StoreLast(w) ==
    /\ Goto(w, "swap", "idle") /\ Returned(w)
    /\ lastWriterLog' = local[w].now
    /\ UNCHANGED <<kafkaUp, kafkaDown, now, retryVars, untried, faults>>

\* CompareAndSwap; the line is written if it succeeds.
SwapLast(w) ==
    /\ Goto(w, "swap", "idle") /\ Returned(w)
    /\ lastWriterLog' = IF lastWriterLog = local[w].last THEN local[w].now
                        ELSE lastWriterLog
    /\ UNCHANGED <<kafkaUp, kafkaDown, now, retryVars, untried, faults>>

-----------------------------------------------------------------------------

Tick ==
    /\ now < MaxTime
    /\ now' = now + 1
    /\ UNCHANGED <<pc, kafkaUp, kafkaDown, lastWriterLog, local, retryVars,
                   untried, faults>>

\* The steps a goroutine takes by itself once it has begun.
Goes(g) ==
    \/ g \in Readers /\ (MarkDown(g) \/ RetryElapsed(g) \/ MarkUp(g))
    \/ g \in Probes /\ (DialFails(g) \/ DialSucceeds(g) \/ ProbeReturns(g))
    \/ g \in Writers /\ (ReadClock(g) \/ LoadLast(g) \/ SwapLast(g))

\* Kafka is seen to work, by a message or by a readiness check.
Works == (\E r \in Readers : FetchMessage(r)) \/ (\E p \in Probes : DialSucceeds(p))

Next ==
    \/ \E g \in Goroutines : Goes(g)
    \/ \E r \in Readers : FetchFails(r) \/ FetchMessage(r) \/ ConsumeReturns(r)
    \/ \E p \in Probes : ProbeStarts(p)
    \/ \E w \in Writers : WriterError(w)
    \/ Tick

\* A goroutine that has begun goes on; readiness checks are made again and
\* again, and do not fail for ever.
Fairness ==
    /\ \A g \in Goroutines : WF_vars(Goes(g))
    /\ \A p \in Probes : WF_vars(ProbeStarts(p))
    /\ SF_vars(Works)

Spec == Init /\ [][Next]_vars /\ Fairness

-----------------------------------------------------------------------------

\* The variables have their types.  A retry delay stays between the two backoffs,
\* although doubling it may overflow (retry.go:38-53).
TypeOK ==
    /\ pc \in [Goroutines -> {"fetch", "markDown", "wait", "markUp", "done", "idle",
                              "dial", "store", "clock", "load", "swap"}]
    /\ kafkaUp \in BOOLEAN /\ kafkaDown \in BOOLEAN
    /\ lastWriterLog \in Nat /\ now \in Nat
    /\ local \in [Writers -> [now : Nat, last : Nat]]
    /\ retryDelay \in [Readers -> MinBackoff .. MaxBackoff]
    /\ streak \in [Readers -> Nat]
    /\ untried \in [Probes -> 0 .. Brokers] /\ faults \in 0 .. MaxFaults

\* The delay after n failures in a row: doubled for each, up to the maximum.
Delay(n) ==
    LET doubled == MinBackoff * 2^n IN IF doubled > MaxBackoff THEN MaxBackoff ELSE doubled

\* The n-th wait in a row is the minimum doubled n - 1 times, at most the
\* maximum, give or take a fifth; a message starts the series again
\* (kafka_queue_consumer.go:58-65, retry.go:25-53).
WaitFollowsStreak ==
    \A r \in Readers : pc[r] = "wait" =>
        \A d \in Waits(r) :
            /\ d > 0
            /\ 4 * Delay(streak[r] - 1) <= 5 * d
            /\ 5 * d <= 6 * Delay(streak[r] - 1)

\* The writer's log lines carry stamps at least an interval apart, however many
\* goroutines report errors at once (kafka_queue.go:204-211).
WriterLogsSpaced ==
    [][lastWriterLog' # lastWriterLog => lastWriterLog' - lastWriterLog >= LogInterval]_vars

\* Once the outage is over the gauge and the flag say so for good, whichever
\* goroutines set them in which order (kafka_queue.go:139-212).
HealthRecovers == <>[](kafkaUp /\ ~kafkaDown)

=============================================================================
