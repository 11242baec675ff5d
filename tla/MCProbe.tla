-------------------------------- MODULE MCProbe --------------------------------
(* The windows scaled down in the proportion 30 : 60 : 150, and latencies on   *)
(* both sides of every threshold: fast, steady but creeping, spiking, and a    *)
(* real answer slower than the penalty value.                                  *)
EXTENDS ProbeVerdict
===============================================================================
