---------------------------- MODULE ConsumerInv -----------------------------
(***************************************************************************)
(* The inductive invariant of Consumer, from which the theorems of         *)
(* ConsumerProofs follow, for any readers, partitions, assignment, log     *)
(* length, flush size and number of restarts: that it holds initially, that *)
(* steps keep the types, and that consume, Add, the flush loop and persist *)
(* keep the invariant.                                                     *)
(*                                                                         *)
(* The core of IInv is an order: in each partition everything in a batch   *)
(* lies below everything in the buffer, which lies below what a reader     *)
(* holds or Add dropped, which lies below the fetch position.  A commit    *)
(* therefore cannot pass what has not been flushed.                        *)
(***************************************************************************)
EXTENDS Consumer, TLAPS

Persisting == {"save", "write", "dlq", "commit"}
Handling == {"decode", "add", "append"}

\* A goroutine has a batch exactly while it persists, and commits only what it
\* stored.
BatchInv ==
    \A g \in Goroutines :
        /\ batch[g] # <<>> <=> pc[g] \in Persisting
        /\ pc[g] = "commit" => \A m \in Range(batch[g]) : stored[m] > 0

\* A reader holds at most one message, of its own partition, and only between
\* the fetch and the append; past the context check nothing of its partitions
\* was dropped before.
HandOK(r) ==
    /\ hand[r] # {} => pc[r] \in Handling
    /\ \A m \in hand[r] : Owner[m.part] = r
    /\ \A m, n \in hand[r] : m = n
    /\ pc[r] \in {"add", "append"} => hand[r] \subseteq Valid
    /\ pc[r] = "append" => \A d \in dropped : Owner[d.part] # r
HandInv ==
    /\ \A r \in Readers : HandOK(r)
    /\ dropped # {} => ctxDone

Below(S, T) == \A m \in S, n \in T : m.part = n.part => m.off < n.off

\* Batches, buffer, hands or dropped messages, and the fetch position follow
\* each other in every partition.
OrderInv ==
    /\ \A g \in Goroutines :
          /\ Below(Range(batch[g]), Range(pending))
          /\ Below(Range(batch[g]), dropped)
          /\ \A r \in Readers : Below(Range(batch[g]), hand[r])
          /\ \A m \in Range(batch[g]) : m.off < position[m.part]
    /\ Below(Range(pending), dropped)
    /\ \A r \in Readers : Below(Range(pending), hand[r])
    /\ \A r \in Readers : Below(dropped, hand[r])
    /\ \A m \in Range(pending) \cup dropped : m.off < position[m.part]
    /\ \A r \in Readers : \A m \in hand[r] : m.off < position[m.part]

\* Commits stay below what is unflushed and below the fetch position, and point
\* just past a stored message.
CommitInv ==
    /\ \A p \in Partitions : committed[p] <= position[p]
    /\ \A m \in Range(pending) \cup dropped : committed[m.part] <= m.off
    /\ \A r \in Readers : \A m \in hand[r] : committed[m.part] <= m.off
    /\ CommitOnlyPersisted

\* Where a message that was fetched can be: settled, in a batch, or fetched and
\* not yet in a batch.
Flushing(m) == \E g \in Goroutines : m \in Range(batch[g])
Waiting(m) == m \in Range(pending) \cup dropped \/ \E r \in Readers : m \in hand[r]
Settled(m) == stored[m] > 0 \/ m \in dlq \cup abandoned
InMemory(m) ==
    \/ m \in Range(pending) \cup dropped
    \/ \E r \in Readers : m \in hand[r]
    \/ \E g \in Goroutines : m \in Range(batch[g])

\* Messages fetched by the running process are settled or in memory; those below
\* its starting offsets are settled or were in a batch of a process that died.
AccountInv ==
    /\ \A m \in Valid :
          (resume[m.part] <= m.off /\ m.off < position[m.part]) =>
              Settled(m) \/ InMemory(m)
    /\ \A m \in Valid : m.off < resume[m.part] => Settled(m) \/ m \in orphaned

IInv ==
    /\ TypeOK
    /\ BatchInv
    /\ HandInv
    /\ OrderInv
    /\ CommitInv
    /\ AccountInv

-----------------------------------------------------------------------------
(* Sequences as the sets of their elements.                                *)

\* The elements of a sequence over S are in S.
LEMMA ElementsTyped ==
    ASSUME NEW S, NEW s \in Seq(S)
    PROVE  Range(s) \subseteq S
BY DEF Range

\* The buffer of a new process is a sequence, the only one without elements.
LEMMA EmptyBuffer ==
    ASSUME NEW S
    PROVE  /\ <<>> \in Seq(S)
           /\ \A s \in Seq(S) : s = <<>> <=> Len(s) = 0
OBVIOUS

\* drainLocked leaves a buffer without elements.
LEMMA ElementsOfEmpty == Range(<<>>) = {}
BY DEF Range

\* append adds one element to those of the buffer.
LEMMA ElementsOfAppend ==
    ASSUME NEW S, NEW s \in Seq(S), NEW x \in S
    PROVE  /\ Append(s, x) \in Seq(S)
           /\ Append(s, x) # <<>>
           /\ Range(Append(s, x)) = Range(s) \cup {x}
<1>1. Append(s, x) \in Seq(S) /\ Len(Append(s, x)) = Len(s) + 1
  OBVIOUS
<1>2. \A i \in 1 .. Len(s) : Append(s, x)[i] = s[i]
  OBVIOUS
<1>3. Append(s, x)[Len(s) + 1] = x
  OBVIOUS
<1>4. DOMAIN s = 1 .. Len(s) /\ DOMAIN Append(s, x) = 1 .. Len(s) + 1
  BY <1>1
<1>5. Len(s) \in Nat
  OBVIOUS
<1>6. Range(s) \cup {x} \subseteq Range(Append(s, x))
  BY <1>2, <1>3, <1>4, <1>5 DEF Range
<1>7. Range(Append(s, x)) \subseteq Range(s) \cup {x}
  BY <1>2, <1>3, <1>4, <1>5 DEF Range
<1> QED
  BY <1>1, <1>6, <1>7

\* The commit loop takes the first element of a batch off the others.
LEMMA ElementsOfTail ==
    ASSUME NEW S, NEW s \in Seq(S), s # <<>>
    PROVE  /\ Tail(s) \in Seq(S)
           /\ Head(s) \in Range(s)
           /\ Range(Tail(s)) \subseteq Range(s)
           /\ Range(s) \subseteq Range(Tail(s)) \cup {Head(s)}
           /\ Tail(s) = <<>> <=> Len(s) = 1
<1>1. Len(s) \in Nat /\ Len(s) > 0 /\ DOMAIN s = 1 .. Len(s)
  OBVIOUS
<1>2. Tail(s) \in Seq(S) /\ Len(Tail(s)) = Len(s) - 1
  BY <1>1
<1>3. \A i \in 1 .. Len(s) - 1 : Tail(s)[i] = s[i + 1]
  BY <1>1
<1>4. DOMAIN Tail(s) = 1 .. Len(s) - 1
  BY <1>1, <1>2
<1>5. Head(s) = s[1]
  BY <1>1
<1>6. Head(s) \in Range(s)
  BY <1>1, <1>5 DEF Range
<1>7. Range(Tail(s)) \subseteq Range(s)
  BY <1>1, <1>3, <1>4 DEF Range
<1>8. ASSUME NEW i \in 1 .. Len(s)
      PROVE  s[i] \in Range(Tail(s)) \cup {Head(s)}
  <2>1. CASE i = 1
    BY <2>1, <1>5
  <2>2. CASE i # 1
    <3>1. i - 1 \in 1 .. Len(s) - 1 /\ s[i] = Tail(s)[i - 1]
      BY <1>1, <1>3, <2>2
    <3> QED
      BY <3>1, <1>4, Zenon DEF Range
  <2> QED
    BY <2>1, <2>2
<1>9. Tail(s) = <<>> <=> Len(s) = 1
  <2>1. Tail(s) = <<>> <=> Len(Tail(s)) = 0
    BY <1>2, EmptyBuffer, Zenon
  <2> QED
    BY <1>1, <1>2, <2>1
<1> QED
  BY <1>1, <1>2, <1>6, <1>7, <1>8, <1>9 DEF Range

-----------------------------------------------------------------------------
(* Messages.                                                               *)

\* A message is its partition and its offset.
LEMMA MessageFields ==
    /\ \A m \in Message : m.part \in Partitions /\ m.off \in Nat /\ m.off < LogEnd
    /\ \A m, n \in Message : m.part = n.part /\ m.off = n.off => m = n
BY ConsumerAssumption DEF Message

\* Offsets are natural numbers.
LEMMA Offsets ==
    ASSUME TypeOK
    PROVE  \A p \in Partitions :
              committed[p] \in Nat /\ position[p] \in Nat /\ resume[p] \in Nat
BY ConsumerAssumption DEF TypeOK

LEMMA NextOffset == \A i, j \in Nat : i < j => i + 1 <= j
OBVIOUS

LEMMA OffsetOrder ==
    /\ \A i \in Nat : i <= i /\ i <= i + 1
    /\ \A i, j \in Nat : ~(i < j) <=> j <= i
    /\ \A i, j, k \in Nat : i <= j /\ j <= k => i <= k
    /\ \A i, j, k \in Nat : i < j /\ j <= k => i < k
OBVIOUS

\* Everything the process keeps is a message.
LEMMA MessagesTyped ==
    ASSUME TypeOK
    PROVE  /\ Range(pending) \subseteq Valid /\ dropped \subseteq Valid
           /\ \A g \in Goroutines : Range(batch[g]) \subseteq Valid
           /\ \A r \in Readers : hand[r] \subseteq Message
           /\ Valid \subseteq Message
<1>1. Range(pending) \subseteq Valid
  BY ElementsTyped DEF TypeOK
<1>2. ASSUME NEW g \in Goroutines PROVE Range(batch[g]) \subseteq Valid
  <2>1. batch[g] \in Seq(Valid)
    BY DEF TypeOK
  <2> QED
    BY <2>1, ElementsTyped
<1> QED
  BY <1>1, <1>2 DEF TypeOK, Valid

-----------------------------------------------------------------------------
(* The initial state.                                                      *)

\* A process that has just started satisfies the inductive invariant.
LEMMA InitIInv == Init => IInv
<1> SUFFICES ASSUME Init PROVE IInv
  OBVIOUS
<1> USE ConsumerAssumption
<1>1. <<>> \in Seq(Valid) /\ Range(<<>>) = {}
  BY EmptyBuffer, ElementsOfEmpty
<1>2. TypeOK
  <2>1. /\ pc \in [Goroutines -> Labels]
        /\ pc[Flusher] \in {"loop", "save", "write", "dlq", "commit", "done"}
    BY DEF Init, Goroutines, Labels
  <2>2. batch \in [Goroutines -> Seq(Valid)] /\ pending \in Seq(Valid)
    BY <1>1 DEF Init
  <2>3. /\ committed \in [Partitions -> 0 .. LogEnd]
        /\ position \in [Partitions -> 0 .. LogEnd]
        /\ resume \in [Partitions -> 0 .. LogEnd]
    BY DEF Init
  <2>4. stored \in [Message -> Nat] /\ hand \in [Readers -> SUBSET Message]
    BY DEF Init
  <2>5. /\ dlq \subseteq Valid /\ dropped \subseteq Valid
        /\ abandoned \subseteq Valid /\ orphaned \subseteq Valid
    BY DEF Init
  <2>6. up \in BOOLEAN /\ ctxDone \in BOOLEAN /\ final \in BOOLEAN
    BY Zenon DEF Init
  <2>7. active \in Int /\ restarts \in 0 .. MaxRestarts
    BY DEF Init
  <2> QED
    BY <2>1, <2>2, <2>3, <2>4, <2>5, <2>6, <2>7 DEF TypeOK
<1>3. BatchInv
  BY <1>1 DEF Init, BatchInv, Persisting, Goroutines
<1>4. HandInv
  BY DEF Init, HandInv, HandOK, Goroutines
<1>5. OrderInv
  BY <1>1 DEF Init, OrderInv, Below, Goroutines
<1>6. CommitInv
  BY <1>1 DEF Init, CommitInv, CommitOnlyPersisted
<1>7. AccountInv
  BY <1>1 DEF Init, AccountInv, Valid, Message
<1> QED
  BY <1>2, <1>3, <1>4, <1>5, <1>6, <1>7 DEF IInv

-----------------------------------------------------------------------------
(* Type correctness.                                                       *)

\* What the typing of a step needs besides TypeOK: a persisting goroutine has a
\* batch, and a reader that is adding holds a well-formed message.
LEMMA ConsumeTyped ==
    ASSUME IInv, NEW r \in Readers, Consume(r)
    PROVE  TypeOK'
<1> USE ConsumerAssumption DEF IInv, TypeOK, At, Goto, Goroutines, Labels,
        kafkaVars, storeVars, readVars, bufVars, procVars
<1>1. CASE FetchMessage(r)
  <2> PICK p \in Partitions :
         /\ position[p] < LogEnd
         /\ hand' = [hand EXCEPT ![r] = {[part |-> p, off |-> position[p]]}]
         /\ position' = [position EXCEPT ![p] = @ + 1]
    BY <1>1, Zenon DEF FetchMessage
  <2>1. [part |-> p, off |-> position[p]] \in Message
    BY DEF Message
  <2> QED
    BY <1>1, <2>1, SMTT(30) DEF FetchMessage
<1>2. CASE FetchFails(r)
  BY <1>2 DEF FetchFails
<1>3. CASE ConsumeReturns(r)
  BY <1>3 DEF ConsumeReturns
<1>4. CASE WaitForRetry(r)
  BY <1>4, Zenon DEF WaitForRetry
<1>5. CASE DiscardMalformed(r)
  BY <1>5 DEF DiscardMalformed
<1>6. CASE CallHandler(r)
  BY <1>6 DEF CallHandler
<1>7. CASE AddCheck(r)
  <2>1. hand[r] \subseteq Valid
    BY <1>7 DEF AddCheck, HandInv, HandOK
  <2>2. CASE ctxDone
    BY <1>7, <2>1, <2>2, Zenon DEF AddCheck
  <2>3. CASE ~ctxDone
    BY <1>7, <2>3, Zenon DEF AddCheck
  <2> QED
    BY <2>2, <2>3, Zenon
<1>8. CASE AddAppend(r)
  <2> PICK m \in hand[r] :
         LET buf == Append(pending, m)
         IN  IF Len(buf) >= FlushSize
             THEN /\ batch' = [batch EXCEPT ![r] = buf]
                  /\ pending' = <<>>
                  /\ Goto(r, "save")
             ELSE /\ pending' = buf
                  /\ Goto(r, "return")
                  /\ UNCHANGED batch
    BY <1>8, Zenon DEF AddAppend
  <2>1. m \in Valid
    BY <1>8 DEF AddAppend, HandInv, HandOK
  <2>2. Append(pending, m) \in Seq(Valid) /\ <<>> \in Seq(Valid)
    BY <2>1, ElementsOfAppend, EmptyBuffer
  <2> QED
    <3>1. CASE Len(Append(pending, m)) >= FlushSize
      <4>1. pending' \in Seq(Valid)
        BY <2>2, <3>1, Zenon
      <4>3. batch' \in [Goroutines -> Seq(Valid)]
        BY <2>2, <3>1, Zenon
      <4>2. pc' = [pc EXCEPT ![r] = "save"]
        BY <3>1
      <4> QED
        BY <1>8, <4>1, <4>2, <4>3, Zenon DEF AddAppend
    <3>2. CASE ~(Len(Append(pending, m)) >= FlushSize)
      BY <1>8, <2>2, <3>2, Zenon DEF AddAppend
    <3> QED
      BY <3>1, <3>2, Zenon
<1>9. CASE HandlerReturns(r)
  BY <1>9, SMTT(30) DEF HandlerReturns
<1> QED
  BY <1>1, <1>2, <1>3, <1>4, <1>5, <1>6, <1>7, <1>8, <1>9, Zenon DEF Consume

\* The steps of persist (service/consumer.go) keep the types.
LEMMA PersistTyped ==
    ASSUME IInv, NEW g \in Goroutines, Persist(g)
    PROVE  TypeOK'
<1> USE ConsumerAssumption DEF IInv, TypeOK, At, Goto, Labels,
        kafkaVars, storeVars, readVars, bufVars, procVars
<1>0. Range(batch[g]) \subseteq Valid /\ <<>> \in Seq(Valid)
  BY ElementsTyped, EmptyBuffer
<1>1. CASE SaveBegins(g)
  BY <1>1 DEF SaveBegins
<1>2. CASE SaveSucceeds(g)
  BY <1>2 DEF SaveSucceeds, Store
<1>3. CASE SaveFails(g)
  BY <1>3 DEF SaveFails, Store
<1>4. CASE WriteDLQ(g)
  BY <1>0, <1>4 DEF WriteDLQ, AfterPersist
<1>5. CASE CommitNext(g)
  <2>1. batch[g] # <<>>
    BY <1>5 DEF CommitNext, BatchInv, Persisting
  <2>2. Tail(batch[g]) \in Seq(Valid) /\ Head(batch[g]) \in Valid
    BY <1>0, <2>1, ElementsOfTail
  <2>3. CommitMessages(Head(batch[g])) \in [Partitions -> 0 .. LogEnd]
    <3>1. /\ Head(batch[g]).part \in Partitions
          /\ Head(batch[g]).off \in 0 .. LogEnd - 1
      BY <2>2, Zenon DEF Valid, Message
    <3>2. Head(batch[g]).off + 1 \in 0 .. LogEnd
      BY <3>1, SMTT(30)
    <3> QED
      BY <3>1, <3>2 DEF CommitMessages
  <2> QED
    BY <1>5, <2>2, <2>3, SMTT(30) DEF CommitNext, AfterPersist
<1> QED
  BY <1>1, <1>2, <1>3, <1>4, <1>5, Zenon DEF Persist

\* Shutdown, process end, crash and restart keep the types.
LEMMA ProcessTyped ==
    ASSUME IInv, FlushLoop \/ Sigterm \/ CloseReturns \/ Crash \/ Restart
    PROVE  TypeOK'
<1> USE ConsumerAssumption DEF IInv, TypeOK, At, Goto, Labels,
        kafkaVars, storeVars, readVars, bufVars, procVars
<1>0. <<>> \in Seq(Valid) /\ Flusher \in Goroutines
  BY EmptyBuffer DEF Goroutines
<1>1. CASE TickerFlush
  <2>1. pending' \in Seq(Valid)
    BY <1>0, <1>1, Zenon DEF TickerFlush
  <2> QED
    BY <1>0, <1>1, <2>1 DEF TickerFlush
<1>2. CASE FinalFlush
  <2>1. pending' \in Seq(Valid)
    BY <1>0, <1>2, Zenon DEF FinalFlush
  <2>2. final' \in BOOLEAN
    BY <1>2, Zenon DEF FinalFlush
  <2> QED
    BY <1>0, <1>2, <2>1, <2>2 DEF FinalFlush
<1>3. CASE Sigterm
  <2>1. ctxDone' \in BOOLEAN
    BY <1>3, Zenon DEF Sigterm
  <2> QED
    BY <1>3, <2>1 DEF Sigterm
<1>4. CASE ProcessEnds
  <2>1. pending' \in Seq(Valid)
    BY <1>0, <1>4, Zenon DEF ProcessEnds
  <2>2. batch' \in [Goroutines -> Seq(Valid)]
    BY <1>0, <1>4, Zenon DEF ProcessEnds
  <2>3. up' \in BOOLEAN /\ ctxDone' \in BOOLEAN /\ final' \in BOOLEAN
    BY <1>4, Zenon DEF ProcessEnds
  <2>4. /\ pc' \in [Goroutines -> Labels]
        /\ pc'[Flusher] \in {"loop", "save", "write", "dlq", "commit", "done"}
    BY <1>0, <1>4 DEF ProcessEnds
  <2>5. InFlight \subseteq Valid
    BY ElementsTyped DEF InFlight
  <2>6. orphaned' \subseteq Valid /\ dropped' \subseteq Valid
    BY <1>4, <2>5 DEF ProcessEnds
  <2>7. hand' \in [Readers -> SUBSET Message]
    BY <1>4 DEF ProcessEnds
  <2>8. /\ committed' \in [Partitions -> 0 .. LogEnd]
        /\ position' \in [Partitions -> 0 .. LogEnd]
        /\ resume' \in [Partitions -> 0 .. LogEnd]
        /\ active' \in Int /\ restarts' \in 0 .. MaxRestarts
        /\ stored' \in [Message -> Nat]
        /\ dlq' \subseteq Valid /\ abandoned' \subseteq Valid
    BY <1>4 DEF ProcessEnds
  <2> QED
    BY <2>1, <2>2, <2>3, <2>4, <2>6, <2>7, <2>8, SMTT(30)
<1>5. CASE Restart
  <2>1. up' \in BOOLEAN
    BY <1>5, Zenon DEF Restart
  <2> QED
    BY <1>5, <2>1 DEF Restart
<1> QED
  BY <1>1, <1>2, <1>3, <1>4, <1>5, Zenon DEF FlushLoop, CloseReturns, Crash

-----------------------------------------------------------------------------
(* consume, up to the append.                                              *)

dataVars == <<committed, stored, dlq, position, hand, pending, batch, resume,
              dropped, abandoned, orphaned>>

\* A step that moves no message disturbs none of the orders and accounts.
LEMMA Frame ==
    ASSUME OrderInv, CommitInv, AccountInv, UNCHANGED dataVars
    PROVE  OrderInv' /\ CommitInv' /\ AccountInv'
BY DEF dataVars, OrderInv, CommitInv, AccountInv, Below, CommitOnlyPersisted,
       Settled, InMemory

\* Moving messages between the hands, the buffer and the dropped ones, or out of
\* them, keeps the commits behind.
LEMMA CommitKept ==
    ASSUME CommitInv, UNCHANGED <<committed, stored, position>>,
           \A m : Waiting(m)' => Waiting(m)
    PROVE  CommitInv'
<1>1. \A m : Waiting(m) => committed[m.part] <= m.off
  BY Zenon DEF CommitInv, Waiting
<1>2. \A m : Waiting(m)' => committed'[m.part] <= m.off
  BY <1>1, Zenon
<1>3. \A m \in Range(pending') \cup dropped' : committed'[m.part] <= m.off
  BY <1>2, Zenon DEF Waiting
<1>4. \A r \in Readers : \A m \in hand'[r] : committed'[m.part] <= m.off
  BY <1>2, Zenon DEF Waiting
<1>5. (\A p \in Partitions : committed[p] <= position[p])'
  BY Zenon DEF CommitInv
<1>6. CommitOnlyPersisted'
  BY Zenon DEF CommitInv, CommitOnlyPersisted
<1> QED
  BY <1>3, <1>4, <1>5, <1>6, Zenon DEF CommitInv

\* A step that settles nothing and keeps what is in memory there loses nothing.
LEMMA AccountKept ==
    ASSUME AccountInv,
           UNCHANGED <<stored, dlq, position, resume, abandoned, orphaned>>,
           \A m \in Valid : InMemory(m) => InMemory(m)'
    PROVE  AccountInv'
<1>1. \A m : Settled(m) => Settled(m)'
  BY Zenon DEF Settled
<1> QED
  BY <1>1, Zenon DEF AccountInv

\* A step of g leaves the hands of the other readers alone.
LEMMA HandMoves ==
    ASSUME HandInv, NEW g, dropped' = dropped, ctxDone' = ctxDone,
           \A x \in Readers \ {g} : pc'[x] = pc[x],
           \A x \in Readers \ {g} : hand'[x] = hand[x],
           g \in Readers => HandOK(g)'
    PROVE  HandInv'
<1>1. ASSUME NEW x \in Readers \ {g}
      PROVE  HandOK(x)'
  <2>1. HandOK(x) /\ hand'[x] = hand[x] /\ pc'[x] = pc[x]
    BY DEF HandInv
  <2> QED
    BY <2>1 DEF HandOK
<1> QED
  BY <1>1 DEF HandInv

\* A goroutine that moves between labels outside persist has no batch.
LEMMA BatchKept ==
    ASSUME BatchInv, UNCHANGED <<batch, stored>>,
           \A g \in Goroutines :
              pc'[g] = pc[g] \/ (pc[g] \notin Persisting /\ pc'[g] \notin Persisting)
    PROVE  BatchInv'
<1>1. "commit" \in Persisting
  BY DEF Persisting
<1>2. ASSUME NEW g \in Goroutines
      PROVE  /\ batch'[g] # <<>> <=> pc'[g] \in Persisting
             /\ pc'[g] = "commit" => pc[g] = "commit"
  BY <1>1, Zenon DEF BatchInv
<1>3. \A g \in Goroutines : pc'[g] = "commit" => \A m \in Range(batch'[g]) : stored'[m] > 0
  BY <1>2, Zenon DEF BatchInv
<1> QED
  BY <1>2, <1>3, Zenon DEF BatchInv

\* Goto moves one goroutine.
LEMMA GotoMoves ==
    ASSUME TypeOK, NEW g \in Goroutines, NEW l, pc' = [pc EXCEPT ![g] = l]
    PROVE  pc'[g] = l /\ \A x \in Goroutines \ {g} : pc'[x] = pc[x]
BY DEF TypeOK

\* A reader r that is done with its message and lets go of it; the message may
\* have been dropped.
LetsGo(r) ==
    /\ pc[r] \notin Persisting /\ pc'[r] \notin Persisting \cup Handling
    /\ \A x \in Goroutines \ {r} : pc'[x] = pc[x]
    /\ hand'[r] = {} /\ \A x \in Readers \ {r} : hand'[x] = hand[x]
    /\ dropped \subseteq dropped' /\ dropped' \subseteq dropped \cup hand[r]
    /\ dropped' # {} => ctxDone'
    /\ UNCHANGED <<committed, stored, dlq, position, pending, batch, resume,
                   abandoned, orphaned>>

\* Letting go of a message disturbs neither the order nor the commits.
LEMMA LetGoStep ==
    ASSUME IInv, NEW r \in Readers, LetsGo(r)
    PROVE  BatchInv' /\ HandInv' /\ OrderInv' /\ CommitInv'
<1>1. BatchInv /\ HandInv /\ OrderInv /\ CommitInv
  BY Zenon DEF IInv
<1>2. /\ hand'[r] = {} /\ \A x \in Readers \ {r} : hand'[x] = hand[x]
      /\ dropped' \subseteq dropped \cup hand[r]
      /\ dropped' # {} => ctxDone'
  BY Zenon DEF LetsGo
<1>3. /\ committed' = committed /\ stored' = stored /\ position' = position
      /\ pending' = pending /\ batch' = batch
  BY DEF LetsGo
<1>4. BatchInv'
  <2>1. \A g \in Goroutines :
           pc'[g] = pc[g] \/ (pc[g] \notin Persisting /\ pc'[g] \notin Persisting)
    BY Zenon DEF LetsGo
  <2> QED
    BY <1>1, <1>3, <2>1, BatchKept, Zenon
<1>5. \A m \in hand[r] : Owner[m.part] = r
  BY <1>1, Zenon DEF HandInv, HandOK
<1>6. HandInv'
  <2>1. /\ pc'[r] \notin {"add", "append"} /\ pc'[r] # "append"
        /\ \A x \in Readers \ {r} : pc'[x] = pc[x]
    BY DEF LetsGo, Handling, Goroutines
  <2>2. ASSUME NEW x \in Readers
        PROVE  HandOK(x)'
    <3>1. CASE x = r
      BY <1>2, <2>1, <3>1, Zenon DEF HandOK
    <3>2. CASE x # r
      <4>1. hand'[x] = hand[x] /\ pc'[x] = pc[x] /\ HandOK(x)
        BY <1>1, <1>2, <2>1, <3>2 DEF HandInv
      <4>2. pc[x] = "append" => \A d \in dropped' : Owner[d.part] # x
        BY <1>2, <1>5, <3>2, <4>1 DEF HandOK
      <4> QED
        BY <4>1, <4>2, Zenon DEF HandOK
    <3> QED
      BY <3>1, <3>2
  <2> QED
    BY <1>2, <2>2 DEF HandInv
<1>7. OrderInv'
  <2>1. ASSUME NEW g \in Goroutines
        PROVE  /\ Below(Range(batch'[g]), Range(pending'))
               /\ Below(Range(batch'[g]), dropped')
               /\ \A m \in Range(batch'[g]) : m.off < position'[m.part]
    BY <1>1, <1>2, <1>3 DEF OrderInv, Below
  <2>2. \A x \in Readers : hand'[x] \subseteq hand[x]
    BY <1>2, Zenon
  <2>3. \A g \in Goroutines : \A x \in Readers : Below(Range(batch'[g]), hand'[x])
    BY <1>1, <1>3, <2>2, Zenon DEF OrderInv, Below
  <2>4. /\ Below(Range(pending'), dropped')
        /\ \A x \in Readers : Below(Range(pending'), hand'[x])
    BY <1>1, <1>2, <1>3, <2>2 DEF OrderInv, Below
  <2>5. ASSUME NEW x \in Readers, NEW d \in dropped', NEW n \in hand'[x], d.part = n.part
        PROVE  d.off < n.off
    <3>1. x # r /\ n \in hand[x] /\ Owner[n.part] = x
      BY <1>1, <1>2, <2>5, Zenon DEF HandInv, HandOK
    <3>2. d \in dropped
      BY <1>2, <1>5, <2>5, <3>1
    <3> QED
      BY <1>1, <2>5, <3>1, <3>2, Zenon DEF OrderInv, Below
  <2>6. /\ \A m \in Range(pending') \cup dropped' : m.off < position'[m.part]
        /\ \A x \in Readers : \A m \in hand'[x] : m.off < position'[m.part]
    BY <1>1, <1>2, <1>3, <2>2 DEF OrderInv
  <2>7. \A x \in Readers : Below(dropped', hand'[x])
    BY <2>5, Zenon DEF Below
  <2> QED
    BY <2>1, <2>3, <2>4, <2>6, <2>7, Zenon DEF OrderInv
<1>8. CommitInv'
  <2>1. \A m : Waiting(m)' => Waiting(m)
    BY <1>2, <1>3 DEF Waiting
  <2> QED
    BY <1>1, <1>3, <2>1, CommitKept, Zenon
<1> QED
  BY <1>4, <1>6, <1>7, <1>8

\* The steps of consume that move no message.
LEMMA QuietConsume ==
    ASSUME IInv, TypeOK', NEW r \in Readers,
           \/ FetchFails(r) \/ ConsumeReturns(r) \/ WaitForRetry(r)
           \/ CallHandler(r) \/ HandlerReturns(r)
    PROVE  IInv'
<1> USE DEF IInv
<1>1. UNCHANGED <<dataVars, ctxDone>>
  BY DEF FetchFails, ConsumeReturns, WaitForRetry, CallHandler, HandlerReturns,
         dataVars, kafkaVars, storeVars, readVars, bufVars, procVars
<1>2. /\ pc[r] \in {"fetch", "backoff", "decode", "return"}
      /\ pc'[r] \in {"fetch", "backoff", "stopped", "add"}
      /\ pc'[r] = "add" => hand[r] \cap Malformed = {} /\ pc[r] = "decode"
      /\ pc[r] = "decode" => pc'[r] = "add"
      /\ \A g \in Goroutines \ {r} : pc'[g] = pc[g]
  BY DEF FetchFails, ConsumeReturns, WaitForRetry, CallHandler, HandlerReturns,
         At, Goto, TypeOK, Goroutines
<1>3. BatchInv'
  BY <1>1, <1>2 DEF BatchInv, Persisting, dataVars, Goroutines
<1>4. HandInv'
  <2>1. hand[r] \subseteq Message
    BY DEF TypeOK
  <2>2. pc'[r] = "add" => hand[r] \subseteq Valid
    BY <1>2, <2>1 DEF Valid
  <2>3. hand' = hand /\ dropped' = dropped /\ ctxDone' = ctxDone
    BY <1>1 DEF dataVars
  <2>4. \A x \in Readers \ {r} : pc'[x] = pc[x]
    BY <1>2 DEF Goroutines
  <2>5. HandOK(r)
    BY DEF HandInv
  <2>6. /\ hand[r] # {} => pc'[r] \in Handling
        /\ pc'[r] # "append"
    BY <1>2, <2>5 DEF HandOK, Handling
  <2>7. HandOK(r)'
    BY <2>2, <2>3, <2>5, <2>6, Zenon DEF HandOK
  <2> QED
    BY <2>3, <2>4, <2>7, HandMoves, Zenon
<1> QED
  BY <1>1, <1>3, <1>4, Frame

\* FetchMessage hands the next message of a partition to its reader.
LEMMA FetchStep ==
    ASSUME IInv, TypeOK', NEW r \in Readers, FetchMessage(r)
    PROVE  IInv'
<1> USE DEF IInv
<1>0. PICK p \in Partitions :
       /\ Owner[p] = r
       /\ position[p] < LogEnd
       /\ hand' = [hand EXCEPT ![r] = {[part |-> p, off |-> position[p]]}]
       /\ position' = [position EXCEPT ![p] = @ + 1]
  BY Zenon DEF FetchMessage
<1> DEFINE n == [part |-> p, off |-> position[p]]
<1>1. /\ n \in Message /\ n.part = p /\ n.off = position[p]
      /\ \A q \in Message : q.part = p /\ q.off = position[p] => q = n
  <2>1. n \in Message /\ n.part = p /\ n.off = position[p]
    BY <1>0, ConsumerAssumption DEF TypeOK, Message
  <2> QED
    BY <2>1, MessageFields
<1>2. /\ pc[r] = "fetch" /\ pc' = [pc EXCEPT ![r] = "decode"]
      /\ hand'[r] = {n} /\ \A x \in Readers \ {r} : hand'[x] = hand[x]
      /\ position'[p] = position[p] + 1
      /\ \A q \in Partitions \ {p} : position'[q] = position[q]
      /\ position \in [Partitions -> Nat]
  <2>1. pc[r] = "fetch" /\ pc' = [pc EXCEPT ![r] = "decode"]
    BY Zenon DEF FetchMessage, At, Goto
  <2>2. hand'[r] = {n} /\ \A x \in Readers \ {r} : hand'[x] = hand[x]
    BY <1>0 DEF TypeOK
  <2>3. /\ position'[p] = position[p] + 1
        /\ \A q \in Partitions \ {p} : position'[q] = position[q]
        /\ position \in [Partitions -> Nat]
    <3>1. position \in [Partitions -> Nat]
      BY DEF TypeOK
    <3> QED
      BY <1>0, <3>1
  <2> QED
    BY <2>1, <2>2, <2>3, Zenon
<1>3. UNCHANGED <<committed, stored, dlq, pending, batch, resume, dropped,
                  abandoned, orphaned, ctxDone>>
  BY DEF FetchMessage, kafkaVars, storeVars, bufVars, procVars
<1>4. hand[r] = {}
  BY <1>2 DEF HandInv, HandOK, Handling
<1>5. /\ Range(pending) \subseteq Message /\ dropped \subseteq Message
      /\ \A g \in Goroutines : Range(batch[g]) \subseteq Message
      /\ \A x \in Readers : hand[x] \subseteq Message
      /\ \A m \in Message : m.part \in Partitions /\ m.off \in Nat
  BY MessagesTyped, MessageFields
<1> HIDE DEF n
<1>6. BatchInv'
  <2>1. r \in Goroutines /\ "fetch" \notin Persisting /\ "decode" \notin Persisting
    BY DEF Goroutines, Persisting
  <2>2. pc'[r] = "decode" /\ \A x \in Goroutines \ {r} : pc'[x] = pc[x]
    BY <1>2, <2>1 DEF TypeOK
  <2> QED
    BY <1>2, <1>3, <2>1, <2>2, BatchKept
<1>7. HandInv'
  <2>1. pc'[r] = "decode" /\ \A x \in Readers \ {r} : pc'[x] = pc[x]
    BY <1>2 DEF TypeOK, Goroutines
  <2>2. dropped' = dropped /\ ctxDone' = ctxDone
    BY <1>3
  <2>3. \A m \in hand'[r] : m = n /\ Owner[m.part] = r
    BY <1>0, <1>1, <1>2
  <2>4. pc'[r] \in Handling /\ pc'[r] \notin {"add", "append"}
    BY <2>1 DEF Handling
  <2>5. HandOK(r)'
    BY <2>3, <2>4 DEF HandOK
  <2> QED
    BY <1>2, <2>1, <2>2, <2>5, HandMoves, Zenon
<1>8. OrderInv'
  <2>1. \A m \in Message : m.off < position[m.part] => m.off < position'[m.part]
    <3>1. \A q \in Partitions : position[q] \in Nat
      BY DEF TypeOK
    <3>2. \A q \in Partitions :
             position'[q] = position[q] \/ position'[q] = position[q] + 1
      BY <1>2, Zenon
    <3>3. \A m \in Message : m.part \in Partitions /\ m.off \in Nat
      BY MessageFields
    <3> QED
      BY <3>1, <3>2, <3>3, SMT
  <2>2. \A m \in Message : m.off < position[m.part] /\ m.part = n.part
                             => m.off < n.off
    BY <1>1
  <2>3. n.off < position'[n.part]
    <3>1. position[p] \in Nat
      BY DEF TypeOK
    <3>2. n.part = p /\ n.off = position[p] /\ position'[p] = position[p] + 1
      BY <1>1, <1>2, Zenon
    <3> QED
      BY <3>1, <3>2, SMT
  <2>4. batch' = batch /\ pending' = pending /\ dropped' = dropped
    BY <1>3
  <2>5. \A S \in SUBSET Message : (\A m \in S : m.off < position[m.part]) =>
           /\ Below(S, {n})
           /\ \A m \in S : m.off < position'[m.part]
    BY <2>1, <2>2 DEF Below
  <2>6. ASSUME NEW g \in Goroutines
        PROVE  /\ Below(Range(batch'[g]), Range(pending'))
               /\ Below(Range(batch'[g]), dropped')
               /\ \A x \in Readers : Below(Range(batch'[g]), hand'[x])
               /\ \A m \in Range(batch'[g]) : m.off < position'[m.part]
    BY <1>2, <1>5, <2>4, <2>5 DEF OrderInv
  <2>7. /\ Below(Range(pending'), dropped')
        /\ \A x \in Readers : Below(Range(pending'), hand'[x])
        /\ \A x \in Readers : Below(dropped', hand'[x])
    BY <1>2, <1>5, <2>4, <2>5 DEF OrderInv
  <2>8. /\ \A m \in Range(pending') \cup dropped' : m.off < position'[m.part]
        /\ \A x \in Readers : \A m \in hand'[x] : m.off < position'[m.part]
    BY <1>2, <1>5, <2>1, <2>3, <2>4 DEF OrderInv
  <2> QED
    BY <2>6, <2>7, <2>8, Zenon DEF OrderInv
<1>9. CommitInv'
  <2>1. \A q \in Partitions : committed'[q] <= position'[q]
    <3>1. \A q \in Partitions : committed[q] \in Nat
      BY Offsets, Zenon
    <3>2. \A q \in Partitions : committed[q] <= position[q]
      BY Zenon DEF CommitInv
    <3>3. committed' = committed
      BY <1>3
    <3>4. \A q \in Partitions :
             position'[q] = position[q] \/ position'[q] = position[q] + 1
      BY <1>2
    <3>5. \A q \in Partitions : position[q] \in Nat
      BY <1>2
    <3> QED
      BY <3>1, <3>2, <3>3, <3>4, <3>5
  <2>2. committed'[n.part] <= n.off
    BY <1>1, <1>3 DEF CommitInv
  <2> QED
    BY <1>2, <1>3, <2>1, <2>2 DEF CommitInv, CommitOnlyPersisted
<1>10. AccountInv'
  <2>1. ASSUME NEW m \in Valid, m.off < position'[m.part]
        PROVE  m.off < position[m.part] \/ m = n
    <3>1. m \in Message /\ m.part \in Partitions /\ m.off \in Nat
      BY MessageFields DEF Valid
    <3>2. CASE m.part = p
      <4>1. position[p] \in Nat /\ m.off < position[p] + 1
        BY <1>2, <2>1, <3>2
      <4>2. m.off < position[p] \/ m.off = position[p]
        BY <3>1, <4>1
      <4> QED
        BY <1>1, <3>1, <3>2, <4>2
    <3>3. CASE m.part # p
      BY <1>2, <2>1, <3>1, <3>3
    <3> QED
      BY <3>2, <3>3
  <2>2. ASSUME NEW m \in Valid, InMemory(m) \/ m = n
        PROVE  InMemory(m)'
    BY <1>2, <1>3, <1>4, <2>2 DEF InMemory
  <2> QED
    BY <1>3, <2>1, <2>2 DEF AccountInv, Settled
<1> QED
  BY <1>6, <1>7, <1>8, <1>9, <1>10

\* consume drops a message json.Unmarshal rejects.
LEMMA DiscardStep ==
    ASSUME IInv, TypeOK', NEW r \in Readers, DiscardMalformed(r)
    PROVE  IInv'
<1>1. /\ pc[r] = "decode" /\ pc' = [pc EXCEPT ![r] = "fetch"]
      /\ hand[r] \subseteq Malformed /\ hand' = [hand EXCEPT ![r] = {}]
      /\ UNCHANGED <<committed, stored, dlq, position, pending, batch, resume,
                     dropped, abandoned, orphaned, ctxDone>>
  BY DEF DiscardMalformed, At, Goto, kafkaVars, storeVars, bufVars, procVars
<1>2. TypeOK /\ HandInv /\ AccountInv /\ r \in Goroutines
  BY DEF IInv, Goroutines
<1>3. hand'[r] = {} /\ \A x \in Readers \ {r} : hand'[x] = hand[x]
  BY <1>1, <1>2 DEF TypeOK
<1>4. LetsGo(r)
  <2>1. pc'[r] = "fetch" /\ \A x \in Goroutines \ {r} : pc'[x] = pc[x]
    BY <1>1, <1>2, GotoMoves, Zenon
  <2>2. dropped' # {} => ctxDone'
    BY <1>1, <1>2, Zenon DEF HandInv, HandOK
  <2>3. pc[r] \notin Persisting /\ pc'[r] \notin Persisting \cup Handling
    BY <1>1, <2>1 DEF Persisting, Handling
  <2> QED
    BY <1>1, <1>3, <2>1, <2>2, <2>3, Zenon DEF LetsGo
<1>5. ASSUME NEW m \in Valid, InMemory(m) PROVE InMemory(m)'
  <2>1. m \notin hand[r]
    BY <1>1 DEF Valid
  <2> QED
    BY <1>1, <1>3, <1>5, <2>1, Zenon DEF InMemory
<1>6. AccountInv'
  BY <1>1, <1>2, <1>5, AccountKept, Zenon
<1> QED
  BY <1>4, <1>6, LetGoStep, Zenon DEF IInv

\* Add's check of the context: the message goes on or is dropped.
LEMMA AddCheckStep ==
    ASSUME IInv, TypeOK', NEW r \in Readers, AddCheck(r)
    PROVE  IInv'
<1>1. /\ TypeOK /\ BatchInv /\ HandInv /\ OrderInv /\ CommitInv /\ AccountInv
      /\ r \in Goroutines /\ pc[r] = "add"
  BY DEF IInv, Goroutines, AddCheck, At
<1>2. UNCHANGED <<committed, stored, dlq, position, pending, batch, resume,
                  abandoned, orphaned, ctxDone>>
  BY DEF AddCheck, kafkaVars, storeVars, procVars
<1>3. CASE ~ctxDone
  <2>1. pc' = [pc EXCEPT ![r] = "append"] /\ UNCHANGED <<dropped, hand>>
    BY <1>3 DEF AddCheck, Goto
  <2>2. pc'[r] = "append" /\ \A x \in Goroutines \ {r} : pc'[x] = pc[x]
    BY <1>1, <2>1, GotoMoves, Zenon
  <2>3. BatchInv'
    <3>1. pc[r] \notin Persisting /\ pc'[r] \notin Persisting
      BY <1>1, <2>2 DEF Persisting
    <3> QED
      BY <1>1, <1>2, <2>2, <3>1, BatchKept, Zenon
  <2>4. HandInv'
    <3>1. dropped = {} /\ "append" \in Handling
      BY <1>1, <1>3 DEF HandInv, HandOK, Handling
    <3>2. \A x \in Readers \ {r} : pc'[x] = pc[x]
      BY <2>2 DEF Goroutines
    <3>3. hand[r] \subseteq Valid
      BY <1>1 DEF HandInv, HandOK
    <3>4. hand' = hand /\ dropped' = {} /\ ctxDone' = ctxDone
      BY <1>2, <2>1, <3>1
    <3>5. HandOK(r)'
      <4>1. HandOK(r)
        BY <1>1 DEF HandInv
      <4> QED
        BY <2>2, <3>1, <3>3, <3>4, <4>1 DEF HandOK
    <3> QED
      BY <1>1, <3>1, <3>2, <3>4, <3>5, HandMoves
  <2>5. UNCHANGED dataVars
    BY <1>2, <2>1, Zenon DEF dataVars
  <2> QED
    BY <1>1, <2>3, <2>4, <2>5, Frame, Zenon DEF IInv
<1>4. CASE ctxDone
  <2>1. /\ pc' = [pc EXCEPT ![r] = "return"]
        /\ dropped' = dropped \cup hand[r] /\ hand' = [hand EXCEPT ![r] = {}]
    BY <1>4 DEF AddCheck, Goto
  <2>2. hand'[r] = {} /\ \A x \in Readers \ {r} : hand'[x] = hand[x]
    BY <1>1, <2>1 DEF TypeOK
  <2>3. LetsGo(r)
    <3>1. pc'[r] = "return" /\ \A x \in Goroutines \ {r} : pc'[x] = pc[x]
      BY <1>1, <2>1, GotoMoves, Zenon
    <3>2. pc[r] \notin Persisting /\ pc'[r] \notin Persisting \cup Handling
      BY <1>1, <3>1 DEF Persisting, Handling
    <3>3. dropped \subseteq dropped' /\ dropped' \subseteq dropped \cup hand[r]
      BY <2>1
    <3> QED
      BY <1>2, <1>4, <2>2, <3>1, <3>2, <3>3, Zenon DEF LetsGo
  <2>4. ASSUME NEW m \in Valid, InMemory(m) PROVE InMemory(m)'
    BY <1>2, <2>1, <2>2, <2>4, Zenon DEF InMemory
  <2>5. AccountInv'
    BY <1>1, <1>2, <2>4, AccountKept, Zenon
  <2> QED
    BY <2>3, <2>5, LetGoStep, Zenon DEF IInv
<1> QED
  BY <1>3, <1>4

-----------------------------------------------------------------------------
\* The steps that make, persist and commit batches: Add, the flush loop and
\* persist.

\* drainLocked in the hands of goroutine g: what was in the buffer, and possibly
\* the message S that reader g was appending, becomes g's batch.
Drains(g, S) ==
    /\ batch[g] = <<>> /\ batch'[g] # <<>> /\ pc'[g] = "save"
    /\ \A x \in Goroutines \ {g} : batch'[x] = batch[x] /\ pc'[x] = pc[x]
    /\ Range(pending') = {} /\ Range(batch'[g]) = Range(pending) \cup S
    /\ \/ S = {} /\ UNCHANGED hand /\ g \notin Readers
       \/ /\ g \in Readers /\ pc[g] = "append" /\ S = hand[g]
          /\ hand'[g] = {} /\ \A x \in Readers \ {g} : hand'[x] = hand[x]
    /\ UNCHANGED <<committed, stored, dlq, position, resume, dropped,
                   abandoned, orphaned, ctxDone>>

\* A goroutine that drains the buffer preserves the inductive invariant.
LEMMA DrainStep ==
    ASSUME IInv, TypeOK', NEW g \in Goroutines, NEW S, Drains(g, S)
    PROVE  IInv'
<1>0. BatchInv /\ HandInv /\ OrderInv /\ CommitInv /\ AccountInv
  BY Zenon DEF IInv
<1>1. /\ pc'[g] = "save" /\ batch[g] = <<>> /\ batch'[g] # <<>>
      /\ \A x \in Goroutines \ {g} : batch'[x] = batch[x] /\ pc'[x] = pc[x]
      /\ Range(pending') = {} /\ Range(batch'[g]) = Range(pending) \cup S
  BY DEF Drains
<1>2. /\ \A x \in Readers \ {g} : hand'[x] = hand[x]
      /\ g \in Readers => hand'[g] = {} /\ pc[g] = "append" /\ S = hand[g]
      /\ g \notin Readers => S = {}
  BY DEF Drains
<1>3. UNCHANGED <<committed, stored, dlq, position, resume, dropped,
                  abandoned, orphaned, ctxDone>>
  BY DEF Drains
<1>4. BatchInv'
  BY <1>0, <1>1, <1>3 DEF BatchInv, Persisting
<1>5. HandInv'
  <2>1. \A x \in Readers \ {g} : pc'[x] = pc[x]
    BY <1>1 DEF Goroutines
  <2>2. g \in Readers => HandOK(g)'
    BY <1>1, <1>2 DEF HandOK
  <2>3. dropped' = dropped /\ ctxDone' = ctxDone
    BY <1>3
  <2> QED
    BY <1>0, <1>2, <2>1, <2>2, <2>3, HandMoves, Zenon
<1>6. /\ \A x \in Goroutines : Below(Range(batch[x]), S)
      /\ Below(S, dropped)
      /\ \A x \in Readers : Below(S, hand'[x])
      /\ \A m \in S : m.off < position[m.part]
  <2>1. CASE g \notin Readers
    BY <1>2, <2>1 DEF Below
  <2>2. CASE g \in Readers
    <3>0. S = hand[g] /\ \A m \in S : Owner[m.part] = g
      BY <1>0, <1>2, <2>2, Zenon DEF HandInv, HandOK
    <3>1. ASSUME NEW m \in S, NEW d \in dropped PROVE m.part # d.part
      <4>1. Owner[d.part] # g
        BY <1>0, <1>2, <2>2, Zenon DEF HandInv, HandOK
      <4> QED
        BY <3>0, <4>1, Zenon
    <3>2. ASSUME NEW m \in S, NEW x \in Readers, NEW n \in hand'[x]
          PROVE  m.part # n.part
      <4>1. x # g /\ n \in hand[x]
        BY <1>2, Zenon
      <4>2. Owner[n.part] = x
        BY <1>0, <4>1, Zenon DEF HandInv, HandOK
      <4> QED
        BY <3>0, <4>1, <4>2, Zenon
    <3>3. /\ \A x \in Goroutines : Below(Range(batch[x]), S)
          /\ \A m \in S : m.off < position[m.part]
      BY <1>0, <2>2, <3>0, Zenon DEF OrderInv
    <3>4. Below(S, dropped) /\ \A x \in Readers : Below(S, hand'[x])
      BY <3>1, <3>2, Zenon DEF Below
    <3> QED
      BY <3>3, <3>4, Zenon
  <2> QED
    BY <2>1, <2>2
<1>7. OrderInv'
  <2>1. ASSUME NEW x \in Goroutines
        PROVE  /\ Below(Range(batch'[x]), Range(pending'))
               /\ Below(Range(batch'[x]), dropped')
               /\ \A y \in Readers : Below(Range(batch'[x]), hand'[y])
               /\ \A m \in Range(batch'[x]) : m.off < position'[m.part]
    <3>1. \A y \in Readers : hand'[y] \subseteq hand[y]
      BY <1>2, Zenon
    <3>2. \A y \in Readers : /\ Below(Range(pending), hand'[y])
                             /\ Below(Range(batch[x]), hand'[y])
      BY <1>0, <3>1, Zenon DEF OrderInv, Below
    <3>3. Below(Range(batch'[x]), Range(pending'))
      BY <1>1, Zenon DEF Below
    <3>4. CASE x = g
      <4>1. Below(Range(pending) \cup S, dropped)
        BY <1>0, <1>6, Zenon DEF OrderInv, Below
      <4>2. \A y \in Readers : Below(Range(pending) \cup S, hand'[y])
        BY <1>6, <3>2, Zenon DEF Below
      <4>3. \A m \in Range(pending) \cup S : m.off < position[m.part]
        BY <1>0, <1>6, Zenon DEF OrderInv
      <4> QED
        BY <1>1, <1>3, <3>3, <3>4, <4>1, <4>2, <4>3
    <3>5. CASE x # g
      <4>1. batch'[x] = batch[x]
        BY <1>1, <3>5, Zenon
      <4>2. /\ Below(Range(batch[x]), dropped)
            /\ \A m \in Range(batch[x]) : m.off < position[m.part]
        BY <1>0, Zenon DEF OrderInv
      <4> QED
        BY <1>3, <3>2, <3>3, <4>1, <4>2
    <3> QED
      BY <3>4, <3>5
  <2>2. /\ Below(Range(pending'), dropped')
        /\ \A y \in Readers : Below(Range(pending'), hand'[y])
        /\ \A m \in Range(pending') : m.off < position'[m.part]
    BY <1>1, Zenon DEF Below
  <2>3. /\ \A y \in Readers : Below(dropped', hand'[y])
        /\ \A m \in dropped' : m.off < position'[m.part]
        /\ \A y \in Readers : \A m \in hand'[y] : m.off < position'[m.part]
    <3>1. \A y \in Readers : hand'[y] \subseteq hand[y]
      BY <1>2, Zenon
    <3> QED
      BY <1>0, <1>3, <3>1 DEF OrderInv, Below
  <2> QED
    BY <2>1, <2>2, <2>3, Zenon DEF OrderInv
<1>8. CommitInv'
  <2>1. \A m : Waiting(m)' => Waiting(m)
    BY <1>1, <1>2, <1>3, Zenon DEF Waiting
  <2> QED
    BY <1>3, <2>1, <1>0, CommitKept, Zenon
<1>9. AccountInv'
  <2>1. ASSUME NEW m \in Valid, InMemory(m) PROVE InMemory(m)'
    <3>0. Range(batch[g]) = {}
      BY <1>1, ElementsOfEmpty
    <3>1. CASE m \in Range(pending) \cup S
      BY <1>1, <3>1 DEF InMemory
    <3>2. CASE m \in dropped
      BY <1>3, <3>2 DEF InMemory
    <3>3. ASSUME NEW x \in Readers, m \in hand[x], m \notin S
          PROVE  InMemory(m)'
      BY <1>2, <3>3 DEF InMemory
    <3>4. ASSUME NEW x \in Goroutines, m \in Range(batch[x])
          PROVE  InMemory(m)'
      BY <1>1, <3>0, <3>4 DEF InMemory
    <3> QED
      BY <2>1, <3>1, <3>2, <3>3, <3>4 DEF InMemory
  <2> QED
    BY <1>3, <2>1, <1>0, AccountKept, Zenon
<1> QED
  BY <1>4, <1>5, <1>7, <1>8, <1>9 DEF IInv

\* A reader r leaves its message m in a buffer that is not yet full.
Buffers(r, m) ==
    /\ pc[r] = "append" /\ pc'[r] = "return"
    /\ \A x \in Readers \ {r} : pc'[x] = pc[x] /\ hand'[x] = hand[x]
    /\ pc'[Flusher] = pc[Flusher]
    /\ hand[r] = {m} /\ hand'[r] = {} /\ Owner[m.part] = r
    /\ Range(pending') = Range(pending) \cup {m}
    /\ UNCHANGED <<batch, committed, stored, dlq, position, resume, dropped,
                   abandoned, orphaned, ctxDone>>

\* A reader that buffers its message preserves the inductive invariant.
LEMMA BufferStep ==
    ASSUME IInv, TypeOK', NEW r \in Readers, NEW m, Buffers(r, m)
    PROVE  IInv'
<1>0. BatchInv /\ HandInv /\ OrderInv /\ CommitInv /\ AccountInv
  BY Zenon DEF IInv
<1>1. /\ pc[r] = "append" /\ pc'[r] = "return"
      /\ hand[r] = {m} /\ hand'[r] = {} /\ Owner[m.part] = r
      /\ \A x \in Readers \ {r} : pc'[x] = pc[x] /\ hand'[x] = hand[x]
      /\ pc'[Flusher] = pc[Flusher]
  BY DEF Buffers
<1>2. UNCHANGED <<batch, committed, stored, dlq, position, resume, dropped,
                  abandoned, orphaned, ctxDone>>
  BY DEF Buffers
<1>3. Range(pending') = Range(pending) \cup {m}
  BY DEF Buffers
<1>4. BatchInv'
  <2>1. pc[r] \notin Persisting /\ pc'[r] \notin Persisting
    BY <1>1 DEF Persisting
  <2>2. \A g \in Goroutines : g = r \/ pc'[g] = pc[g]
    BY <1>1 DEF Goroutines
  <2> QED
    BY <1>0, <1>2, <2>1, <2>2, BatchKept, Zenon
<1>5. HandInv'
  <2>1. ctxDone' = ctxDone /\ dropped' = dropped
    BY <1>2
  <2>2. HandOK(r)'
    BY <1>1 DEF HandOK
  <2> QED
    BY <1>0, <1>1, <2>1, <2>2, HandMoves, Zenon
<1>6. OrderInv'
  <2>1. \A d \in dropped : m.part # d.part
    BY <1>0, <1>1, Zenon DEF HandInv, HandOK
  <2>2. ASSUME NEW x \in Readers, NEW n \in hand'[x]
        PROVE  m.part # n.part /\ n \in hand[x]
    <3>1. x # r /\ n \in hand[x]
      BY <1>1, Zenon
    <3>2. Owner[n.part] = x
      BY <1>0, <3>1, Zenon DEF HandInv, HandOK
    <3> QED
      BY <1>1, <3>1, <3>2, Zenon
  <2>3. ASSUME NEW g \in Goroutines
        PROVE  /\ Below(Range(batch'[g]), Range(pending'))
               /\ Below(Range(batch'[g]), dropped')
               /\ \A x \in Readers : Below(Range(batch'[g]), hand'[x])
               /\ \A n \in Range(batch'[g]) : n.off < position'[n.part]
    <3>1. /\ Below(Range(batch[g]), Range(pending)) /\ Below(Range(batch[g]), dropped)
          /\ \A x \in Readers : Below(Range(batch[g]), hand[x])
          /\ \A n \in Range(batch[g]) : n.off < position[n.part]
      BY <1>0, Zenon DEF OrderInv
    <3>2. Below(Range(batch[g]), Range(pending'))
      BY <1>1, <1>3, <3>1, Zenon DEF Below
    <3>3. \A x \in Readers : Below(Range(batch[g]), hand'[x])
      BY <2>2, <3>1, Zenon DEF Below
    <3> QED
      BY <1>2, <3>1, <3>2, <3>3
  <2>4. Below(Range(pending'), dropped')
    BY <1>0, <1>2, <1>3, <2>1 DEF OrderInv, Below
  <2>5. ASSUME NEW x \in Readers
        PROVE  Below(Range(pending'), hand'[x]) /\ Below(dropped', hand'[x])
    BY <1>0, <1>2, <1>3, <2>2 DEF OrderInv, Below
  <2>6. \A n \in Range(pending') \cup dropped' : n.off < position'[n.part]
    BY <1>0, <1>1, <1>2, <1>3, Zenon DEF OrderInv
  <2>7. \A x \in Readers : \A n \in hand'[x] : n.off < position'[n.part]
    BY <1>0, <1>2, <2>2, Zenon DEF OrderInv
  <2> QED
    BY <2>3, <2>4, <2>5, <2>6, <2>7, Zenon DEF OrderInv
<1>7. CommitInv'
  <2>1. \A n : Waiting(n)' => Waiting(n)
    BY <1>1, <1>2, <1>3, Zenon DEF Waiting
  <2> QED
    BY <1>2, <2>1, <1>0, CommitKept, Zenon
<1>8. AccountInv'
  <2>1. ASSUME NEW n \in Valid, InMemory(n) PROVE InMemory(n)'
    BY <1>1, <1>2, <1>3, <2>1 DEF InMemory
  <2> QED
    BY <1>2, <2>1, <1>0, AccountKept, Zenon
<1> QED
  BY <1>4, <1>5, <1>6, <1>7, <1>8 DEF IInv

\* Add appends the message and drains the buffer when it is full.
LEMMA AddAppendStep ==
    ASSUME IInv, TypeOK', NEW r \in Readers, AddAppend(r)
    PROVE  IInv'
<1>0. PICK m \in hand[r] :
         LET buf == Append(pending, m)
         IN  IF Len(buf) >= FlushSize
             THEN /\ batch' = [batch EXCEPT ![r] = buf]
                  /\ pending' = <<>>
                  /\ Goto(r, "save")
             ELSE /\ pending' = buf
                  /\ Goto(r, "return")
                  /\ UNCHANGED batch
  BY DEF AddAppend
<1>1. /\ pc[r] = "append" /\ r \in Goroutines
      /\ hand'[r] = {} /\ \A x \in Readers \ {r} : hand'[x] = hand[x]
      /\ hand[r] = {m} /\ m \in Valid /\ Owner[m.part] = r
      /\ batch[r] = <<>>
  <2>1. /\ pc[r] = "append" /\ r \in Goroutines
        /\ hand' = [hand EXCEPT ![r] = {}]
    BY DEF AddAppend, At, Goroutines
  <2>2. hand'[r] = {} /\ \A x \in Readers \ {r} : hand'[x] = hand[x]
    BY <2>1 DEF IInv, TypeOK
  <2>3. hand[r] = {m} /\ m \in Valid /\ Owner[m.part] = r
    <3>1. /\ \A n \in hand[r] : n = m /\ Owner[n.part] = r
          /\ hand[r] \subseteq Valid
      BY <2>1 DEF IInv, HandInv, HandOK
    <3> QED
      BY <3>1
  <2>4. batch[r] = <<>>
    BY <2>1 DEF IInv, BatchInv, Persisting
  <2> QED
    BY <2>1, <2>2, <2>3, <2>4
<1>2. UNCHANGED <<committed, stored, dlq, position, resume, dropped,
                  abandoned, orphaned, ctxDone>>
  BY DEF AddAppend, kafkaVars, storeVars, procVars
<1>3. /\ Append(pending, m) # <<>>
      /\ Range(Append(pending, m)) = Range(pending) \cup {m}
  <2>1. pending \in Seq(Valid) /\ m \in Valid
    BY <1>1 DEF IInv, TypeOK
  <2> QED
    BY <2>1, ElementsOfAppend
<1>4. CASE Len(Append(pending, m)) >= FlushSize
  <2>1. /\ batch' = [batch EXCEPT ![r] = Append(pending, m)]
        /\ pc' = [pc EXCEPT ![r] = "save"]
        /\ pending' = <<>>
    BY <1>0, <1>4, Zenon DEF Goto
  <2>2. /\ batch'[r] = Append(pending, m) /\ pc'[r] = "save"
        /\ \A x \in Goroutines \ {r} : batch'[x] = batch[x] /\ pc'[x] = pc[x]
    BY <1>1, <2>1 DEF IInv, TypeOK
  <2>3. Range(pending') = {}
    BY <2>1, ElementsOfEmpty, Zenon
  <2>4. batch'[r] # <<>> /\ Range(batch'[r]) = Range(pending) \cup hand[r]
    BY <1>1, <1>3, <2>2
  <2>5. Drains(r, hand[r])
    BY <1>1, <1>2, <2>2, <2>3, <2>4, Zenon DEF Drains
  <2> QED
    BY <1>1, <2>5, DrainStep, Zenon
<1>5. CASE ~(Len(Append(pending, m)) >= FlushSize)
  <2>1. /\ pc' = [pc EXCEPT ![r] = "return"]
        /\ pending' = Append(pending, m) /\ UNCHANGED batch
    BY <1>0, <1>5, Zenon DEF Goto
  <2>2. /\ pc'[r] = "return" /\ \A x \in Readers \ {r} : pc'[x] = pc[x]
        /\ pc'[Flusher] = pc[Flusher]
    BY <1>1, <2>1, ConsumerAssumption DEF IInv, TypeOK, Goroutines
  <2>3. Buffers(r, m)
    BY <1>1, <1>2, <1>3, <2>1, <2>2, Zenon DEF Buffers
  <2> QED
    BY <2>3, BufferStep, Zenon
<1> QED
  BY <1>4, <1>5

\* flushLoop takes the buffer at a tick and once more when it ends.
LEMMA FlushLoopStep ==
    ASSUME IInv, TypeOK', FlushLoop
    PROVE  IInv'
<1>1. /\ Flusher \in Goroutines /\ Flusher \notin Readers
      /\ pc[Flusher] = "loop" /\ batch[Flusher] = <<>>
  BY ConsumerAssumption DEF FlushLoop, TickerFlush, FinalFlush, At, Goroutines,
     IInv, BatchInv, Persisting
<1>2. UNCHANGED <<committed, stored, dlq, position, hand, resume, dropped,
                  abandoned, orphaned, ctxDone>>
  BY DEF FlushLoop, TickerFlush, FinalFlush, kafkaVars, storeVars, readVars,
         procVars
<1>3. /\ batch'[Flusher] = pending
      /\ \A x \in Goroutines \ {Flusher} : batch'[x] = batch[x] /\ pc'[x] = pc[x]
      /\ pc'[Flusher] = IF pending = <<>> THEN "done" ELSE "save"
  BY <1>1 DEF FlushLoop, TickerFlush, FinalFlush, Goto, IInv, TypeOK
<1>4. Range(pending') = {}
  BY ElementsOfEmpty, Zenon DEF FlushLoop, TickerFlush, FinalFlush
<1>5. CASE pending # <<>>
  <2>1. Range(batch'[Flusher]) = Range(pending) \cup {}
    BY <1>3
  <2>2. pc'[Flusher] = "save" /\ batch'[Flusher] # <<>>
    BY <1>3, <1>5, Zenon
  <2>3. Drains(Flusher, {})
    BY <1>1, <1>2, <1>3, <1>4, <2>1, <2>2, Zenon DEF Drains
  <2> QED
    BY <1>1, <2>3, DrainStep, Zenon
<1>6. CASE pending = <<>>
  <2>1. UNCHANGED <<pending, batch>>
    <3>1. pending' = <<>>
      BY Zenon DEF FlushLoop, TickerFlush, FinalFlush
    <3>2. batch' = batch
      <4>1. /\ batch = [x \in Goroutines |-> batch[x]]
            /\ batch' = [x \in Goroutines |-> batch'[x]]
        BY DEF IInv, TypeOK
      <4>2. \A x \in Goroutines : batch'[x] = batch[x]
        BY <1>1, <1>3, <1>6, Zenon
      <4> QED
        BY <4>1, <4>2
    <3> QED
      BY <1>6, <3>1, <3>2, Zenon
  <2>2. BatchInv'
    <3>1. pc[Flusher] \notin Persisting /\ pc'[Flusher] \notin Persisting
      BY <1>1, <1>3, <1>6 DEF Persisting
    <3> QED
      BY <1>2, <1>3, <2>1, <3>1, BatchKept, Zenon DEF IInv
  <2>3. HandInv'
    <3>1. \A x \in Readers : pc'[x] = pc[x]
      BY <1>1, <1>3 DEF Goroutines
    <3> QED
      BY <1>2, <3>1 DEF IInv, HandInv, HandOK
  <2>4. UNCHANGED dataVars
    BY <1>2, <2>1, Zenon DEF dataVars
  <2> QED
    BY <2>2, <2>3, <2>4, Frame, Zenon DEF IInv
<1> QED
  BY <1>5, <1>6

-----------------------------------------------------------------------------
(* persist.                                                                *)

\* A goroutine that persists has no message in its hands before or after.
LEMMA HandKept ==
    ASSUME HandInv, UNCHANGED <<hand, dropped, ctxDone>>,
           \A r \in Readers :
              pc'[r] = pc[r] \/ (pc[r] \notin Handling /\ pc'[r] \notin Handling)
    PROVE  HandInv'
<1>1. hand' = hand /\ dropped' = dropped /\ ctxDone' = ctxDone
  OBVIOUS
<1>2. ASSUME NEW r \in Readers
      PROVE  HandOK(r)'
  <2>1. HandOK(r)
    BY DEF HandInv
  <2>2. /\ hand[r] # {} => pc'[r] \in Handling
        /\ pc'[r] \in {"add", "append"} => pc'[r] = pc[r]
    BY <2>1 DEF HandOK, Handling
  <2> QED
    BY <1>1, <2>1, <2>2 DEF HandOK
<1> QED
  BY <1>1, <1>2 DEF HandInv

\* Taking messages out of batches disturbs no order.
LEMMA OrderKept ==
    ASSUME OrderInv, UNCHANGED <<hand, dropped, pending, position>>,
           \A g \in Goroutines : Range(batch'[g]) \subseteq Range(batch[g])
    PROVE  OrderInv'
<1>1. hand' = hand /\ dropped' = dropped /\ pending' = pending /\ position' = position
  OBVIOUS
<1>2. ASSUME NEW g \in Goroutines
      PROVE  /\ Below(Range(batch'[g]), Range(pending))
             /\ Below(Range(batch'[g]), dropped)
             /\ \A r \in Readers : Below(Range(batch'[g]), hand[r])
             /\ \A m \in Range(batch'[g]) : m.off < position[m.part]
  BY Zenon DEF OrderInv, Below
<1> QED
  BY <1>1, <1>2 DEF OrderInv

\* persist starts SaveBatch on the batch it was given.
LEMMA SaveBeginsStep ==
    ASSUME IInv, TypeOK', NEW g \in Goroutines, SaveBegins(g)
    PROVE  IInv'
<1> USE DEF IInv
<1>1. UNCHANGED <<dataVars, ctxDone>>
  BY DEF SaveBegins, dataVars, kafkaVars, storeVars, readVars, bufVars, procVars
<1>2. /\ pc[g] = "save" /\ pc'[g] \in {"dlq", "write"}
      /\ \A x \in Goroutines \ {g} : pc'[x] = pc[x]
  BY DEF SaveBegins, At, Goto, TypeOK
<1>3. BatchInv'
  BY <1>1, <1>2 DEF BatchInv, Persisting, dataVars
<1>4. HandInv'
  <2>1. UNCHANGED <<hand, dropped, ctxDone>>
    BY <1>1 DEF dataVars
  <2>2. pc[g] \notin Handling /\ pc'[g] \notin Handling
    BY <1>2 DEF Handling
  <2>3. \A r \in Readers : r # g => pc'[r] = pc[r]
    BY <1>2 DEF Goroutines
  <2> QED
    BY <2>1, <2>2, <2>3, HandKept, Zenon
<1> QED
  BY <1>1, <1>3, <1>4, Frame

\* SaveBatch, whole or in part: more is stored, and g goes on to commit only
\* when all of its batch is.
LEMMA SaveStep ==
    ASSUME IInv, TypeOK', NEW g \in Goroutines, SaveSucceeds(g) \/ SaveFails(g)
    PROVE  IInv'
<1> USE DEF IInv
<1>1. UNCHANGED <<committed, dlq, position, hand, pending, batch, resume,
                  dropped, abandoned, orphaned, ctxDone>>
  BY DEF SaveSucceeds, SaveFails, kafkaVars, readVars, bufVars, procVars
<1>2. /\ pc[g] = "write" /\ pc'[g] \in {"dlq", "commit"}
      /\ \A x \in Goroutines \ {g} : pc'[x] = pc[x]
  BY DEF SaveSucceeds, SaveFails, At, Goto, TypeOK
<1>3. PICK S : Store(S) /\ (pc'[g] = "commit" => S = Range(batch[g]))
  <2>1. CASE SaveSucceeds(g)
    BY <2>1 DEF SaveSucceeds
  <2>2. CASE SaveFails(g)
    <3>1. PICK S \in SUBSET Range(batch[g]) : Store(S)
      BY <2>2 DEF SaveFails
    <3>2. pc'[g] = "dlq"
      BY <2>2 DEF SaveFails, Goto, TypeOK
    <3> QED
      BY <3>1, <3>2
  <2> QED
    BY <2>1, <2>2
<1>4. \A m \in Message : /\ stored[m] > 0 => stored'[m] > 0
                         /\ m \in S => stored'[m] > 0
  <2>1. \A m \in Message : stored[m] \in Nat
    BY DEF TypeOK
  <2>2. \A m \in Message : stored'[m] = stored[m] + IF m \in S THEN 1 ELSE 0
    BY <1>3, Zenon DEF Store
  <2> QED
    BY <2>1, <2>2
<1>5. \A x \in Goroutines : Range(batch[x]) \subseteq Message
  BY MessagesTyped
<1>6. BatchInv'
  BY <1>1, <1>2, <1>3, <1>4, <1>5 DEF BatchInv, Persisting
<1>7. HandInv'
  <2>1. \A r \in Readers : r # g => pc'[r] = pc[r]
    BY <1>2 DEF Goroutines
  <2>2. pc[g] \notin Handling /\ pc'[g] \notin Handling
    BY <1>2 DEF Handling
  <2> QED
    BY <1>1, <2>1, <2>2, HandKept, Zenon
<1>8. OrderInv'
  BY <1>1, OrderKept
<1>9. CommitInv'
  <2>1. ASSUME NEW p \in Partitions, committed[p] > 0
        PROVE  stored'[[part |-> p, off |-> committed[p] - 1]] > 0
    <3>1. committed[p] - 1 \in 0 .. LogEnd - 1
      <4>1. committed[p] \in 0 .. LogEnd
        BY <2>1 DEF TypeOK
      <4> QED
        BY <2>1, <4>1, ConsumerAssumption
    <3>2. [part |-> p, off |-> committed[p] - 1] \in Message
      BY <3>1 DEF Message
    <3> QED
      BY <1>4, <2>1, <3>2 DEF CommitInv, CommitOnlyPersisted
  <2> QED
    BY <1>1, <2>1 DEF CommitInv, CommitOnlyPersisted
<1>10. AccountInv'
  <2>1. \A m \in Valid : /\ Settled(m) => Settled(m)'
                         /\ InMemory(m) => InMemory(m)'
    BY <1>1, <1>4 DEF Settled, InMemory, Valid
  <2> QED
    BY <1>1, <2>1 DEF AccountInv
<1> QED
  BY <1>6, <1>7, <1>8, <1>9, <1>10

\* writeDLQ puts the failed batch in a file, or fails and loses it.
LEMMA WriteDLQStep ==
    ASSUME IInv, TypeOK', NEW g \in Goroutines, WriteDLQ(g)
    PROVE  IInv'
<1> USE DEF IInv
<1>1. UNCHANGED <<committed, stored, position, hand, pending, resume, dropped,
                  orphaned, ctxDone>>
  BY DEF WriteDLQ, kafkaVars, readVars, procVars
<1>2. /\ pc[g] = "dlq" /\ pc'[g] \in {"return", "loop", "done"}
      /\ \A x \in Goroutines \ {g} : pc'[x] = pc[x] /\ batch'[x] = batch[x]
      /\ batch'[g] = <<>>
  BY DEF WriteDLQ, At, Goto, AfterPersist, TypeOK
<1>3. dlq' \cup abandoned' = dlq \cup abandoned \cup Range(batch[g])
  BY DEF WriteDLQ
<1>4. Range(batch'[g]) = {}
  BY <1>2, ElementsOfEmpty
<1>5. BatchInv'
  BY <1>1, <1>2 DEF BatchInv, Persisting
<1>6. HandInv'
  <2>1. \A r \in Readers : r # g => pc'[r] = pc[r]
    BY <1>2 DEF Goroutines
  <2>2. pc[g] \notin Handling /\ pc'[g] \notin Handling
    BY <1>2 DEF Handling
  <2> QED
    BY <1>1, <2>1, <2>2, HandKept, Zenon
<1>7. OrderInv'
  BY <1>1, <1>2, <1>4, OrderKept
<1>8. CommitInv'
  <2>1. \A m : Waiting(m)' => Waiting(m)
    BY <1>1 DEF Waiting
  <2> QED
    BY <1>1, <2>1, CommitKept, Zenon
<1>9. AccountInv'
  <2>1. \A m \in Valid : Settled(m) => Settled(m)'
    BY <1>1, <1>3 DEF Settled
  <2>2. ASSUME NEW m \in Valid, InMemory(m) PROVE Settled(m)' \/ InMemory(m)'
    <3>1. CASE m \in Range(batch[g])
      BY <1>3, <3>1 DEF Settled
    <3>2. CASE m \notin Range(batch[g])
      BY <1>1, <1>2, <2>2, <3>2 DEF InMemory
    <3> QED
      BY <3>1, <3>2
  <2> QED
    BY <1>1, <2>1, <2>2 DEF AccountInv
<1> QED
  BY <1>5, <1>6, <1>7, <1>8, <1>9

\* The commit loop of persist commits one message of a stored batch.
LEMMA CommitStep ==
    ASSUME IInv, TypeOK', NEW g \in Goroutines, CommitNext(g)
    PROVE  IInv'
<1> USE DEF IInv
<1> DEFINE b == Head(batch[g])
<1>1. UNCHANGED <<stored, dlq, position, hand, pending, resume, dropped,
                  abandoned, orphaned, ctxDone>>
  BY DEF CommitNext, storeVars, readVars, procVars
<1>2. /\ pc[g] = "commit" /\ batch[g] # <<>> /\ batch[g] \in Seq(Valid)
      /\ batch'[g] = Tail(batch[g])
      /\ \A x \in Goroutines \ {g} : pc'[x] = pc[x] /\ batch'[x] = batch[x]
      /\ pc'[g] = IF Len(batch[g]) = 1 THEN AfterPersist(g) ELSE "commit"
  <2>1. /\ pc[g] = "commit" /\ batch' = [batch EXCEPT ![g] = Tail(@)]
        /\ pc' = [pc EXCEPT ![g] = IF Len(batch[g]) = 1 THEN AfterPersist(g) ELSE "commit"]
    BY Zenon DEF CommitNext, At, Goto
  <2>2. batch[g] # <<>>
    BY <2>1 DEF BatchInv, Persisting
  <2> QED
    BY <2>1, <2>2 DEF TypeOK
<1>3. /\ b \in Range(batch[g])
      /\ Range(batch'[g]) \subseteq Range(batch[g])
      /\ Range(batch[g]) \subseteq Range(batch'[g]) \cup {b}
      /\ batch'[g] = <<>> <=> Len(batch[g]) = 1
  BY <1>2, ElementsOfTail
<1>4. /\ b \in Valid /\ b \in Message /\ stored[b] > 0
      /\ b.part \in Partitions /\ b.off \in Nat
  BY <1>2, <1>3, MessagesTyped, MessageFields DEF BatchInv
<1>5. AfterPersist(g) \in {"return", "loop", "done"}
  BY DEF AfterPersist
<1>6. \/ UNCHANGED committed
      \/ /\ committed'[b.part] = b.off + 1
         /\ \A p \in Partitions \ {b.part} : committed'[p] = committed[p]
  BY <1>4, Zenon DEF CommitNext, CommitMessages, TypeOK
<1> HIDE DEF b
<1>7. BatchInv'
  <2>1. batch'[g] # <<>> <=> pc'[g] \in Persisting
    BY <1>2, <1>3, <1>5 DEF Persisting
  <2>2. \A m \in Range(batch'[g]) : stored'[m] > 0
    BY <1>1, <1>2, <1>3, Zenon DEF BatchInv
  <2> QED
    BY <1>1, <1>2, <2>1, <2>2 DEF BatchInv
<1>8. HandInv'
  <2>1. \A r \in Readers : r # g => pc'[r] = pc[r]
    BY <1>2 DEF Goroutines
  <2>2. pc[g] \notin Handling /\ pc'[g] \notin Handling
    BY <1>2, <1>5 DEF Handling
  <2> QED
    BY <1>1, <2>1, <2>2, HandKept, Zenon
<1>9. OrderInv'
  BY <1>1, <1>2, <1>3, OrderKept
<1>10. CommitInv'
  <2>0. /\ Range(pending) \cup dropped \subseteq Message
        /\ \A r \in Readers : hand[r] \subseteq Message
        /\ \A m \in Message : m.part \in Partitions /\ m.off \in Nat
    BY MessagesTyped, MessageFields
  <2>1. \A p \in Partitions : committed'[p] <= position'[p]
    <3>1. b.off < position[b.part]
      BY <1>3, Zenon DEF OrderInv
    <3>2. \A p \in Partitions : position[p] \in Nat
      BY Offsets, Zenon
    <3>3. \A p \in Partitions : committed[p] <= position[p]
      BY Zenon DEF CommitInv
    <3>4. position' = position /\ b.part \in Partitions /\ b.off \in Nat
      BY <1>1, <1>4
    <3>5. \A p \in Partitions :
             \/ committed'[p] = committed[p]
             \/ p = b.part /\ committed'[p] = b.off + 1
      BY <1>6, Zenon
    <3>6. b.off + 1 <= position[b.part]
      BY <3>1, <3>2, <3>4, NextOffset, Zenon
    <3> QED
      BY <3>3, <3>4, <3>5, <3>6, Zenon
  <2>2. \A m \in Range(pending) \cup dropped : m.part = b.part => b.off < m.off
    BY <1>3 DEF OrderInv, Below
  <2>3. \A r \in Readers : \A m \in hand[r] : m.part = b.part => b.off < m.off
    BY <1>3, Zenon DEF OrderInv, Below
  <2>4. ASSUME NEW m \in Message, committed[m.part] <= m.off,
               m.part = b.part => b.off < m.off
        PROVE  committed'[m.part] <= m.off
    <3>1. \/ committed'[m.part] = committed[m.part]
          \/ m.part = b.part /\ committed'[m.part] = b.off + 1
      BY <1>6, <2>0, Zenon
    <3>2. b.off \in Nat /\ m.off \in Nat
      BY <1>4, <2>0, Zenon
    <3> QED
      BY <2>4, <3>1, <3>2, NextOffset, Zenon
  <2>5. /\ \A m \in Range(pending') \cup dropped' : committed'[m.part] <= m.off
        /\ \A r \in Readers : \A m \in hand'[r] : committed'[m.part] <= m.off
    <3>1. /\ \A m \in Range(pending) \cup dropped : committed[m.part] <= m.off
          /\ \A r \in Readers : \A m \in hand[r] : committed[m.part] <= m.off
      BY Zenon DEF CommitInv
    <3>2. pending' = pending /\ dropped' = dropped /\ hand' = hand
      BY <1>1
    <3> QED
      BY <2>0, <2>2, <2>3, <2>4, <3>1, <3>2, Zenon
  <2>6. CommitOnlyPersisted'
    <3>1. [part |-> b.part, off |-> b.off] = b
      BY <1>4 DEF Message
    <3>2. ASSUME NEW p \in Partitions, committed'[p] > 0
          PROVE  stored'[[part |-> p, off |-> committed'[p] - 1]] > 0
      <4>1. CASE committed'[p] = committed[p]
        BY <1>1, <3>2, <4>1 DEF CommitInv, CommitOnlyPersisted
      <4>2. CASE committed'[p] # committed[p]
        <5>1. p = b.part /\ committed'[p] - 1 = b.off
          <6>1. p = b.part /\ committed'[p] = b.off + 1
            BY <1>6, <4>2, Zenon
          <6>2. b.off \in Nat
            BY <1>4
          <6> QED
            BY <6>1, <6>2
        <5>2. [part |-> p, off |-> committed'[p] - 1] = b
          BY <3>1, <5>1, Zenon
        <5>3. stored'[b] > 0
          BY <1>1, <1>4
        <5> QED
          BY <5>2, <5>3, Zenon
      <4> QED
        BY <4>1, <4>2
    <3> QED
      BY <3>2 DEF CommitOnlyPersisted
  <2> QED
    BY <2>1, <2>5, <2>6, Zenon DEF CommitInv
<1>11. AccountInv'
  <2>1. \A m \in Valid : Settled(m) => Settled(m)'
    BY <1>1 DEF Settled
  <2>2. ASSUME NEW m \in Valid, InMemory(m) PROVE Settled(m)' \/ InMemory(m)'
    <3>1. CASE m = b
      BY <1>1, <1>4, <3>1 DEF Settled
    <3>2. CASE m # b
      BY <1>1, <1>2, <1>3, <2>2, <3>2 DEF InMemory
    <3> QED
      BY <3>1, <3>2
  <2> QED
    BY <1>1, <2>1, <2>2 DEF AccountInv
<1> QED
  BY <1>7, <1>8, <1>9, <1>10, <1>11

=============================================================================
