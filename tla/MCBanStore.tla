------------------------------ MODULE MCBanStore ------------------------------
(* Three IPs, a cache of two, an hour of three steps: bans overlap, expire     *)
(* between restarts and crowd each other out.                                  *)
EXTENDS BanStore
===============================================================================
