------------------------------ MODULE Delivery ------------------------------
(***************************************************************************)
(* What the consumer side promises of the messages of the topic, without   *)
(* goroutines, buffers or offsets: every message moves from the topic into *)
(* memory, from there into a batch that is being persisted, and is then    *)
(* settled for good.  When a process ends, what it held goes back to the   *)
(* topic; only a message whose batch was being persisted may be lost.      *)
(***************************************************************************)
CONSTANT Messages

VARIABLE place   \* where each message is

Places == {"queued", "held", "flushing", "settled", "lost"}

In(p) == {m \in Messages : place[m] = p}
Move(S, p) == place' = [m \in Messages |-> IF m \in S THEN p ELSE place[m]]

Init == place = [m \in Messages |-> "queued"]

\* The process takes a message from the topic.
Fetch == \E m \in In("queued") : Move({m}, "held")

\* Some of what it holds becomes a batch.
Flush == \E S \in SUBSET In("held") : Move(S, "flushing")

\* Some messages of a batch are stored, dead-lettered or logged as lost.
Settle == \E S \in SUBSET In("flushing") : Move(S, "settled")

\* The process ends, by a shutdown or a crash.
End ==
    \E L \in SUBSET In("flushing") :
        place' = [m \in Messages |->
                     IF m \in L THEN "lost"
                     ELSE IF place[m] \in {"held", "flushing"} THEN "queued"
                     ELSE place[m]]

Next == Fetch \/ Flush \/ Settle \/ End

Spec == Init /\ [][Next]_place

=============================================================================
