----------------------------- MODULE MCConsumer -----------------------------
(***************************************************************************)
(* Instances of Consumer for TLC.                                          *)
(***************************************************************************)
EXTENDS ConsumerDelivery, TLC

CONSTANTS r1, r2, p1, p2

\* One partition, one reader: the overlap of Add's flush with the ticker's.
OneOwner == p1 :> r1
OneMalformed == {[part |-> p1, off |-> 1]}
NoneMalformed == {}

\* Two partitions, a reader each: two goroutines in Add and one in flushLoop.
TwoOwners == p1 :> r1 @@ p2 :> r2

=============================================================================
