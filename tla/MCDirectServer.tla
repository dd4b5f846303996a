--------------------------- MODULE MCDirectServer ---------------------------
(* Small instances of DirectServer: two requests over two hours. *)
EXTENDS DirectServer, MCTraffic

CONSTANTS s1, s2, h1, h2

\* Two batches that write both hours, in opposite orders, one hour twice.
CrossingBatches ==
    [s \in Savers |-> IF s = s1 THEN <<h1, h2, h1>> ELSE <<h2, h1, h2>>]
=============================================================================
