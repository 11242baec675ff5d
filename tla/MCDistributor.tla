----------------------------- MODULE MCDistributor -----------------------------
(* One public client and one that pays: three metrics overflow a buffer of two *)
(* while the replay, the pusher and three broadcasts overlap.                  *)
EXTENDS Distributor

CONSTANTS c1, c2
MCAccess == [c \in Clients |-> IF c = c1 THEN {"public"} ELSE {"demo", "searcher"}]
===============================================================================
