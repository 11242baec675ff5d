-------------------------------- MODULE MCFeed --------------------------------
(* Two chains, one fast and one slow reading, one stalled; ages on both sides *)
(* of 30 s and 60 s; a tail of two records, so that a chain that stops is     *)
(* pushed out of it by the other chain or by revert reports; ratios that ask  *)
(* for the middle and for the highest price.                                  *)
EXTENDS Feed

MCMetrics == {[p99 |-> 10000, stall |-> 0], [p99 |-> 500000, stall |-> 0],
              [p99 |-> 10000, stall |-> 1]}
===============================================================================
