------------------------------ MODULE MCMinIO ------------------------------
(* Small instances of MinIO: two replicas, two SaveBatch calls. *)
EXTENDS MinIO, TLC

CONSTANTS p1, p2, s1, s2, shard, legacy, stray

\* Both calls run in one replica, beside the passes of the other.
TwoCalls == (s1 :> p1) @@ (s2 :> p1)
TwoBatches == (s1 :> <<1, 2>>) @@ (s2 :> <<1>>)

\* A shard of an earlier process, an hour's object of the former layout, and a
\* file beside the date directories that is named like one.
BeforeKeys ==
    (shard :> [dirs |-> <<Other, Date, 1>>, stem |-> <<Other, <<p1, -1>>, 1>>,
               log |-> TRUE]) @@
    (legacy :> [dirs |-> <<Other, Date>>, stem |-> <<1>>, log |-> TRUE]) @@
    (stray :> [dirs |-> <<Other>>, stem |-> <<1>>, log |-> TRUE])
BeforeHours == (shard :> <<1>>) @@ (legacy :> <<1>>) @@ (stray :> <<NoHour>>)
=============================================================================
