----------------------------- MODULE MCSybilWatch -----------------------------
(* Two addresses over two days with room for three records: profiles thin and *)
(* full, cohorts joined, left and re-opened, a sweep of yesterday's records.  *)
EXTENDS SybilWatch, TLC

IpSymmetry == Permutations(Ips)
===============================================================================
