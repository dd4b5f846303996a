-------------------------- MODULE ConsumerDelivery --------------------------
(***************************************************************************)
(* Consumer implements Delivery.  The place of a message is read off the   *)
(* repository, the DLQ, the batches, the buffer and the offset at which    *)
(* the broker resumes delivery.                                            *)
(***************************************************************************)
EXTENDS Consumer

\* Where message m is.  A message a restarted process fetches again stays
\* settled; one below the resume offset is not delivered again.
PlaceOf(m) ==
    IF stored[m] > 0 \/ m \in dlq \cup abandoned THEN "settled"
    ELSE IF m \in InFlight THEN "flushing"
    ELSE IF m \in Unflushed THEN "held"
    ELSE IF m.off < resume[m.part] THEN "lost"
    ELSE "queued"

Abstract == INSTANCE Delivery WITH
                Messages <- Valid,
                place <- [m \in Valid |-> PlaceOf(m)]

\* Whatever consume, Add, the flush loop, persist, SIGTERM, crashes and restarts
\* do, each message only ever makes the moves of Delivery: it is never dropped
\* between fetch and batch, a settled message stays settled, the end of a
\* process gives everything unflushed back to the topic, and nothing but a batch
\* being persisted at that moment can be lost.
ImplementsDelivery == Abstract!Spec

=============================================================================
