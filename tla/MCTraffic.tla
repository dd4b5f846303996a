----------------------------- MODULE MCTraffic ------------------------------
(***************************************************************************)
(* Requests for TLC: one for every way through handleLogs up to            *)
(* ProcessBatch.                                                           *)
(***************************************************************************)
EXTENDS Integers, Sequences

Good == [ts |-> "time", path |-> TRUE, agent |-> TRUE]
JSON(records) == [fault |-> "none", tail |-> "empty", records |-> records]
Post(type, body) ==
    [method |-> "POST", key |-> "allowed", type |-> type, body |-> body]
Fine == Post("json", JSON(<<Good, Good>>))

\* Two bodies that differ in one blank path.
PlainTraffic == {Fine, Post("json", JSON(<<[Good EXCEPT !.path = FALSE]>>))}

SampleTraffic ==
    {Fine,
     [Fine EXCEPT !.method = "GET"],
     [Fine EXCEPT !.key = "unknown"],
     [Fine EXCEPT !.type = "text"],
     [Fine EXCEPT !.body.fault = "tooLarge"],
     [Fine EXCEPT !.body.tail = "tooLarge"],
     Post("json", JSON(<<Good, [Good EXCEPT !.path = FALSE]>>)),
     Post("csv", [fault |-> "none", rows |-> <<>>])}

=============================================================================
