--------------------------- MODULE MCAggregation ---------------------------
(* Small instances of Aggregation: two SaveBatch calls over the hours 1, 2. *)
EXTENDS Aggregation, TLC

CONSTANTS s1, s2

\* One call writes both hours, the other adds to the first.
LateRecords == (s1 :> <<1, 2>>) @@ (s2 :> <<1>>)
=============================================================================
