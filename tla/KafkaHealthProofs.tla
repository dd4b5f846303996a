-------------------------- MODULE KafkaHealthProofs --------------------------
(***************************************************************************)
(* Proofs about KafkaHealth and the retry delays, for any number of        *)
(* goroutines, any backoffs and any width of a Duration.                   *)
(***************************************************************************)
EXTENDS KafkaHealth, TLAPS

\* A number below the modulus is its own remainder.
LEMMA SmallRemainder ==
    ASSUME NEW a \in Nat, NEW m \in Nat \ {0}, a < m
    PROVE  a % m = a
  OBVIOUS

\* A number that passes the modulus once leaves the difference.
LEMMA PassedRemainder ==
    ASSUME NEW a \in Nat, NEW m \in Nat \ {0}, a >= m, a < 2 * m
    PROVE  a % m = a - m
  OBVIOUS

\* Doubling a Duration gives the double, or overflows to a negative number.
LEMMA WrapDouble ==
    ASSUME NEW c \in 1 .. MaxDuration
    PROVE  /\ 2 * c <= MaxDuration => Wrap(c * 2) = 2 * c
           /\ 2 * c > MaxDuration => Wrap(c * 2) \in Int /\ Wrap(c * 2) < 0
<1> DEFINE half == MaxDuration + 1
           a == c * 2 + half
<1>1. half \in Nat \ {0} /\ 2 * half \in Nat \ {0} /\ a \in Nat
  BY DurationAssumption
<1>2. CASE 2 * c <= MaxDuration
  <2>1. a < 2 * half
    BY <1>2, DurationAssumption
  <2>2. a % (2 * half) = a
    BY <1>1, <2>1, SmallRemainder
  <2> QED BY <1>2, <2>2, DurationAssumption DEF Wrap
<1>3. CASE 2 * c > MaxDuration
  <2>1. a >= 2 * half /\ a < 2 * (2 * half)
    BY <1>3, DurationAssumption
  <2>2. a % (2 * half) = a - 2 * half
    BY <1>1, <2>1, PassedRemainder
  <2> QED BY <1>3, <2>2, DurationAssumption DEF Wrap
<1> QED BY <1>2, <1>3, DurationAssumption

\* NextRetryDelay (retry.go:38-53) doubles a delay between its bounds and stops
\* at the maximum, also when the double overflows.
THEOREM DoublesToMaximum ==
    ASSUME NEW min \in Nat \ {0}, NEW max \in Nat, min <= max, max <= MaxDuration,
           NEW c \in min .. max
    PROVE  NextRetryDelay(c, min, max) = IF 2 * c > max THEN max ELSE 2 * c
<1>1. c \in 1 .. MaxDuration
  BY DurationAssumption
<1>2. CASE 2 * c <= MaxDuration
  BY <1>1, <1>2, WrapDouble DEF NextRetryDelay
<1>3. CASE 2 * c > MaxDuration
  <2>1. Wrap(c * 2) \in Int /\ Wrap(c * 2) < 0
    BY <1>1, <1>3, WrapDouble
  <2>2. 2 * c > max
    BY <1>3, DurationAssumption
  <2> QED BY <2>1, <2>2 DEF NextRetryDelay
<1> QED BY <1>2, <1>3, DurationAssumption

\* JitterRetryDelay (retry.go:25-35) moves a positive delay by a fifth at most
\* and leaves it positive.
THEOREM JitterWithinFifth ==
    ASSUME NEW base \in Nat \ {0}, NEW d \in JitterRetryDelay(base)
    PROVE  d \in Int /\ d > 0 /\ 4 * base <= 5 * d /\ 5 * d <= 6 * base
<1>1. base \div 5 \in Nat /\ 5 * (base \div 5) <= base
  OBVIOUS
<1> QED BY <1>1 DEF JitterRetryDelay

-----------------------------------------------------------------------------
\* The inductive invariant.

\* A logWriterError call that is about to swap has passed the interval test.
PassedTest ==
    \A w \in Writers : pc[w] = "swap" => local[w].now - local[w].last >= LogInterval

HealthInv == TypeOK /\ PassedTest

\* It holds when the startup check has passed (app.go:261-266).
LEMMA InitHealth == Init => HealthInv
<1> SUFFICES ASSUME Init PROVE HealthInv
  OBVIOUS
<1> USE KafkaHealthAssumption DEF Init
<1>1. \A g \in Goroutines : pc[g] \in {"fetch", "idle"}
  OBVIOUS
<1>2. TypeOK
  <2>1. pc \in [Goroutines -> {"fetch", "idle"}]
    BY <1>1
  <2>2. retryDelay \in [Readers -> MinBackoff .. MaxBackoff]
    OBVIOUS
  <2>3. streak \in [Readers -> Nat] /\ untried \in [Probes -> 0 .. Brokers]
    OBVIOUS
  <2>4. local \in [Writers -> [now : Nat, last : Nat]]
    OBVIOUS
  <2>5. lastWriterLog \in Nat /\ now \in Nat /\ faults \in 0 .. MaxFaults
    OBVIOUS
  <2>6. kafkaUp \in BOOLEAN /\ kafkaDown \in BOOLEAN
    OBVIOUS
  <2> QED BY <2>1, <2>2, <2>3, <2>4, <2>5, <2>6 DEF TypeOK
<1>3. PassedTest
  BY <1>1 DEF PassedTest, Goroutines
<1> QED BY <1>2, <1>3 DEF HealthInv

\* The steps of a consume loop leave the writers alone.
LEMMA ReaderHealth ==
    ASSUME HealthInv, NEW r \in Readers,
           FetchFails(r) \/ MarkDown(r) \/ RetryElapsed(r) \/ ConsumeReturns(r)
             \/ FetchMessage(r) \/ MarkUp(r)
    PROVE  HealthInv'
<1> USE KafkaHealthAssumption
        DEF HealthInv, TypeOK, PassedTest, Goroutines, Goto, logVars, retryVars
<1>1. CASE FetchFails(r)
  <2>1. faults' \in 0 .. MaxFaults /\ streak' \in [Readers -> Nat]
    BY <1>1 DEF FetchFails
  <2> QED BY <1>1, <2>1 DEF FetchFails
<1>2. CASE MarkDown(r)
  BY <1>2 DEF MarkDown
<1>3. CASE RetryElapsed(r)
  <2>1. retryDelay[r] \in MinBackoff .. MaxBackoff
    OBVIOUS
  <2>2. NextRetryDelay(retryDelay[r], MinBackoff, MaxBackoff)
            = IF 2 * retryDelay[r] > MaxBackoff THEN MaxBackoff ELSE 2 * retryDelay[r]
    BY <2>1, DoublesToMaximum
  <2>3. NextRetryDelay(retryDelay[r], MinBackoff, MaxBackoff) \in MinBackoff .. MaxBackoff
    BY <2>1, <2>2
  <2> QED BY <1>3, <2>3 DEF RetryElapsed
<1>4. CASE ConsumeReturns(r)
  BY <1>4 DEF ConsumeReturns
<1>5. CASE FetchMessage(r)
  BY <1>5 DEF FetchMessage
<1>6. CASE MarkUp(r)
  BY <1>6 DEF MarkUp
<1> QED BY <1>1, <1>2, <1>3, <1>4, <1>5, <1>6

\* So do the steps of a readiness check.
LEMMA ProbeHealth ==
    ASSUME HealthInv, NEW p \in Probes,
           ProbeStarts(p) \/ DialFails(p) \/ DialSucceeds(p) \/ ProbeReturns(p)
    PROVE  HealthInv'
<1> USE KafkaHealthAssumption
        DEF HealthInv, TypeOK, PassedTest, Goroutines, Goto, logVars, retryVars
<1>1. CASE ProbeStarts(p)
  BY <1>1 DEF ProbeStarts
<1>2. CASE DialFails(p)
  BY <1>2 DEF DialFails
<1>3. CASE DialSucceeds(p)
  BY <1>3 DEF DialSucceeds
<1>4. CASE ProbeReturns(p)
  BY <1>4 DEF ProbeReturns
<1> QED BY <1>1, <1>2, <1>3, <1>4

\* A logWriterError call reaches its swap through the test only.
LEMMA WriterHealth ==
    ASSUME HealthInv, NEW w \in Writers,
           WriterError(w) \/ ReadClock(w) \/ LoadLast(w) \/ SwapLast(w)
    PROVE  HealthInv'
<1> USE KafkaHealthAssumption
        DEF HealthInv, TypeOK, PassedTest, Goroutines, Goto, Returned, logVars, retryVars
<1>1. CASE WriterError(w)
  <2>1. faults' \in 0 .. MaxFaults
    BY <1>1 DEF WriterError
  <2> QED BY <1>1, <2>1 DEF WriterError
<1>2. CASE ReadClock(w)
  BY <1>2 DEF ReadClock
<1>3. CASE LoadLast(w)
  BY <1>3 DEF LoadLast
<1>4. CASE SwapLast(w)
  BY <1>4 DEF SwapLast
<1> QED BY <1>1, <1>2, <1>3, <1>4

\* Every step of every goroutine preserves it.
LEMMA StepHealth == HealthInv /\ [Next]_vars => HealthInv'
<1> SUFFICES ASSUME HealthInv, [Next]_vars PROVE HealthInv'
  OBVIOUS
<1>1. ASSUME NEW r \in Readers, FetchFails(r) \/ FetchMessage(r) \/ ConsumeReturns(r)
      PROVE  HealthInv'
  BY <1>1, ReaderHealth
<1>2. ASSUME NEW p \in Probes, ProbeStarts(p) PROVE HealthInv'
  BY <1>2, ProbeHealth
<1>3. ASSUME NEW w \in Writers, WriterError(w) PROVE HealthInv'
  BY <1>3, WriterHealth
<1>4. ASSUME NEW g \in Goroutines, Goes(g) PROVE HealthInv'
  BY <1>4, ReaderHealth, ProbeHealth, WriterHealth DEF Goes
<1>5. CASE Tick
  BY <1>5 DEF Tick, HealthInv, TypeOK, PassedTest, retryVars
<1>6. CASE UNCHANGED vars
  BY <1>6 DEF vars, HealthInv, TypeOK, PassedTest
<1> QED BY <1>1, <1>2, <1>3, <1>4, <1>5, <1>6 DEF Next

\* So it holds in every state.
LEMMA HealthInvariant == Spec => []HealthInv
  BY InitHealth, StepHealth, PTL DEF Spec

\* The goroutines and atomics of kafka_queue.go keep their types, and no retry
\* delay leaves its bounds.
THEOREM HealthTypes == Spec => []TypeOK
  BY HealthInvariant, PTL DEF HealthInv

\* The lines logWriterError writes are an interval apart (kafka_queue.go:204-211),
\* for any number of goroutines: only a swap moves the stamp, it finds the stamp
\* the interval test was made on, and the test has been passed.
THEOREM WriterLogsAreSpaced == Spec => WriterLogsSpaced
<1> DEFINE Spaced == lastWriterLog' # lastWriterLog
                        => lastWriterLog' - lastWriterLog >= LogInterval
<1>1. HealthInv /\ [Next]_vars => [Spaced]_vars
  <2> SUFFICES ASSUME HealthInv, Next, lastWriterLog' # lastWriterLog
               PROVE  lastWriterLog' - lastWriterLog >= LogInterval
    BY DEF vars
  <2>1. PICK w \in Writers : SwapLast(w)
    BY DEF Next, Goes, FetchFails, MarkDown, RetryElapsed, ConsumeReturns, FetchMessage,
           MarkUp, ProbeStarts, DialFails, DialSucceeds, ProbeReturns, WriterError,
           ReadClock, LoadLast, Tick, logVars
  <2> QED BY <2>1 DEF SwapLast, Goto, HealthInv, PassedTest
<1> QED BY <1>1, HealthInvariant, PTL DEF Spec, WriterLogsSpaced

-----------------------------------------------------------------------------
\* The waits of a consume loop.  That raising 2 to the next power doubles it is
\* the definition of ^ in module Naturals, which the provers do not know.
PowersDouble == \A n \in Nat : 2^n \in Nat \ {0} /\ 2^(n + 1) = 2 * 2^n

\* The double of a product.
LEMMA DoubledProduct ==
    ASSUME NEW a \in Nat, NEW p \in Nat
    PROVE  a * p \in Nat /\ a * (2 * p) = 2 * (a * p)
  OBVIOUS

\* A positive factor does not make a number smaller.
LEMMA GrownProduct ==
    ASSUME NEW a \in Nat, NEW p \in Nat \ {0}
    PROVE  a <= a * p
  OBVIOUS

\* One failure more doubles the delay, up to the maximum.
LEMMA DelayDoubles ==
    ASSUME PowersDouble, NEW n \in Nat
    PROVE  /\ Delay(n) \in MinBackoff .. MaxBackoff
           /\ Delay(n + 1) = IF 2 * Delay(n) > MaxBackoff THEN MaxBackoff
                             ELSE 2 * Delay(n)
<1> DEFINE power == 2^n
           x == MinBackoff * power
<1>0. /\ MinBackoff \in Nat \ {0} /\ MaxBackoff \in Nat /\ MinBackoff <= MaxBackoff
  BY KafkaHealthAssumption
<1>1. power \in Nat \ {0} /\ 2^(n + 1) = 2 * power
  BY DEF PowersDouble
<1>2. x \in Nat /\ MinBackoff <= x /\ MinBackoff * 2^(n + 1) = 2 * x
  <2> HIDE DEF power
  <2> QED BY <1>0, <1>1, DoubledProduct, GrownProduct
<1>3. Delay(n) = IF x > MaxBackoff THEN MaxBackoff ELSE x
  BY DEF Delay
<1>4. Delay(n + 1) = IF 2 * x > MaxBackoff THEN MaxBackoff ELSE 2 * x
  BY <1>2 DEF Delay
<1> HIDE DEF x
<1> QED BY <1>0, <1>2, <1>3, <1>4

\* Without a failure the delay is the minimum.
LEMMA FirstDelay == Delay(0) = MinBackoff
<1>1. 2^0 = 1
  OBVIOUS
<1> QED BY <1>1, KafkaHealthAssumption DEF Delay

\* Where a consume loop is, and the delay it has come to.  The failure that
\* brought it to its wait is counted in streak and not yet in the delay.
StreakOK(r) ==
    /\ pc[r] \in {"fetch", "markDown", "wait", "markUp", "done"}
    /\ pc[r] \in {"fetch", "markUp"} => retryDelay[r] = Delay(streak[r])
    /\ pc[r] \in {"markDown", "wait"} =>
          streak[r] > 0 /\ retryDelay[r] = Delay(streak[r] - 1)

StreakInv == \A r \in Readers : StreakOK(r)

\* A loop is where it was after the steps of the other goroutines.
LEMMA StreakStays ==
    ASSUME NEW r \in Readers, StreakOK(r), pc'[r] = pc[r],
           retryDelay'[r] = retryDelay[r], streak'[r] = streak[r]
    PROVE  StreakOK(r)'
  BY DEF StreakOK

\* A step of its own brings a loop to the delay its streak asks for.
LEMMA OwnStreak ==
    ASSUME PowersDouble, TypeOK, NEW r \in Readers, StreakOK(r),
           FetchFails(r) \/ MarkDown(r) \/ RetryElapsed(r) \/ ConsumeReturns(r)
             \/ FetchMessage(r) \/ MarkUp(r)
    PROVE  StreakOK(r)'
<1>0. /\ streak[r] \in Nat /\ streak \in [Readers -> Nat]
      /\ retryDelay \in [Readers -> MinBackoff .. MaxBackoff]
      /\ r \in DOMAIN pc
  BY DEF TypeOK, Goroutines
<1>1. CASE FetchFails(r)
  <2>1. /\ pc[r] = "fetch" /\ pc'[r] = "markDown"
        /\ streak'[r] = streak[r] + 1 /\ retryDelay'[r] = retryDelay[r]
    BY <1>0, <1>1 DEF FetchFails, Goto
  <2>2. streak'[r] > 0 /\ streak'[r] - 1 = streak[r]
    BY <1>0, <2>1
  <2>3. retryDelay'[r] = Delay(streak'[r] - 1)
    BY <2>1, <2>2 DEF StreakOK
  <2> QED BY <2>1, <2>2, <2>3 DEF StreakOK
<1>2. CASE MarkDown(r)
  BY <1>0, <1>2 DEF MarkDown, Goto, retryVars, StreakOK
<1>3. CASE RetryElapsed(r)
  <2> DEFINE n == streak[r] - 1
             next == NextRetryDelay(retryDelay[r], MinBackoff, MaxBackoff)
  <2>1. pc[r] = "wait" /\ pc'[r] = "fetch" /\ streak'[r] = streak[r]
        /\ retryDelay'[r] = next
    BY <1>0, <1>3 DEF RetryElapsed, Goto
  <2>2. n \in Nat /\ n + 1 = streak[r] /\ retryDelay[r] = Delay(n)
    BY <1>0, <2>1 DEF StreakOK
  <2>3. retryDelay[r] \in MinBackoff .. MaxBackoff
    BY <1>0
  <2>4. next = IF 2 * retryDelay[r] > MaxBackoff THEN MaxBackoff ELSE 2 * retryDelay[r]
    BY <2>3, DoublesToMaximum, KafkaHealthAssumption
  <2>5. next = Delay(n + 1)
    BY <2>2, <2>4, DelayDoubles
  <2> HIDE DEF n, next
  <2> QED BY <2>1, <2>2, <2>5 DEF StreakOK
<1>4. CASE ConsumeReturns(r)
  BY <1>0, <1>4 DEF ConsumeReturns, Goto, StreakOK
<1>5. CASE FetchMessage(r)
  <2>1. /\ pc'[r] = "markUp" /\ streak'[r] = 0 /\ retryDelay'[r] = MinBackoff
    BY <1>0, <1>5 DEF FetchMessage, Goto
  <2>2. Delay(0) = MinBackoff
    BY FirstDelay
  <2> QED BY <2>1, <2>2 DEF StreakOK
<1>6. CASE MarkUp(r)
  BY <1>0, <1>6 DEF MarkUp, Goto, retryVars, StreakOK
<1> QED BY <1>1, <1>2, <1>3, <1>4, <1>5, <1>6

LEMMA StepStreak ==
    ASSUME PowersDouble, TypeOK, StreakInv, [Next]_vars
    PROVE  StreakInv'
<1> SUFFICES ASSUME NEW r \in Readers PROVE StreakOK(r)'
  BY DEF StreakInv
<1>0. /\ StreakOK(r) /\ pc[r] \in {"fetch", "markDown", "wait", "markUp", "done"}
      /\ pc \in [Goroutines -> {pc[g] : g \in Goroutines}]
      /\ retryDelay \in [Readers -> MinBackoff .. MaxBackoff]
      /\ streak \in [Readers -> Nat]
  BY DEF StreakInv, StreakOK, TypeOK
<1>1. ASSUME NEW q \in Readers,
             FetchFails(q) \/ MarkDown(q) \/ RetryElapsed(q) \/ ConsumeReturns(q)
               \/ FetchMessage(q) \/ MarkUp(q)
      PROVE  StreakOK(r)'
  <2>1. CASE q = r
    BY <1>0, <1>1, <2>1, OwnStreak
  <2>2. CASE q # r
    <3>1. pc'[r] = pc[r] /\ retryDelay'[r] = retryDelay[r] /\ streak'[r] = streak[r]
      BY <1>0, <1>1, <2>2 DEF FetchFails, MarkDown, RetryElapsed, ConsumeReturns,
         FetchMessage, MarkUp, Goto, retryVars, Goroutines
    <3> QED BY <1>0, <3>1, StreakStays
  <2> QED BY <2>1, <2>2
<1>2. ASSUME NEW p \in Probes,
             ProbeStarts(p) \/ DialFails(p) \/ DialSucceeds(p) \/ ProbeReturns(p)
      PROVE  StreakOK(r)'
  <2>1. pc[p] \in {"idle", "dial", "store"} /\ (pc' = pc \/ pc' = [pc EXCEPT ![p] = pc'[p]])
        /\ UNCHANGED retryVars
    BY <1>0, <1>2 DEF ProbeStarts, DialFails, DialSucceeds, ProbeReturns, Goto, Goroutines
  <2> QED BY <1>0, <2>1, StreakStays DEF retryVars, Goroutines
<1>3. ASSUME NEW w \in Writers,
             WriterError(w) \/ ReadClock(w) \/ LoadLast(w) \/ SwapLast(w)
      PROVE  StreakOK(r)'
  <2>1. pc[w] \in {"idle", "clock", "load", "swap"} /\ pc' = [pc EXCEPT ![w] = pc'[w]]
        /\ UNCHANGED retryVars
    BY <1>0, <1>3 DEF WriterError, ReadClock, LoadLast, SwapLast, Goto, Goroutines
  <2> QED BY <1>0, <2>1, StreakStays DEF retryVars, Goroutines
<1>4. CASE Tick \/ UNCHANGED vars
  BY <1>0, <1>4, StreakStays DEF Tick, vars, retryVars
<1> QED BY <1>1, <1>2, <1>3, <1>4 DEF Next, Goes

\* The n-th wait in a row of a consume loop is the minimum backoff doubled n - 1
\* times, at most the maximum, give or take a fifth, and a message starts the
\* series again (kafka_queue_consumer.go:58-65, retry.go:25-53): for any number
\* of loops, any backoffs and streaks of any length, overflow included.
THEOREM WaitsFollowStreaks ==
    ASSUME PowersDouble
    PROVE  Spec => []WaitFollowsStreak
<1>1. Init => StreakInv
  BY FirstDelay DEF Init, StreakInv, StreakOK, Goroutines
<1>2. HealthInv /\ StreakInv /\ [Next]_vars => StreakInv'
  BY StepStreak DEF HealthInv
<1>3. HealthInv /\ StreakInv => WaitFollowsStreak
  <2> SUFFICES ASSUME HealthInv, StreakInv, NEW r \in Readers, pc[r] = "wait",
                      NEW d \in Waits(r)
               PROVE  /\ d > 0
                      /\ 4 * Delay(streak[r] - 1) <= 5 * d
                      /\ 5 * d <= 6 * Delay(streak[r] - 1)
    BY DEF WaitFollowsStreak
  <2>1. retryDelay[r] = Delay(streak[r] - 1)
    BY DEF StreakInv, StreakOK
  <2>2. retryDelay[r] \in Nat \ {0}
    BY KafkaHealthAssumption DEF HealthInv, TypeOK
  <2> QED BY <2>1, <2>2, JitterWithinFifth DEF Waits
<1> QED BY <1>1, <1>2, <1>3, HealthInvariant, PTL DEF Spec
=============================================================================
