--------------------------- MODULE MCQueueServer ----------------------------
(***************************************************************************)
(* Instances of QueueServer for TLC.                                       *)
(***************************************************************************)
EXTENDS QueueServer, MCTraffic, TLC

\* Requests are interchangeable, and so are workers.
Symmetry == Permutations(Calls) \cup Permutations(Workers)

=============================================================================
