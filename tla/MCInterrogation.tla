---------------------------- MODULE MCInterrogation ----------------------------
(* Two addresses and three challenges: solves overlap, are replaced, expire    *)
(* while argon2id runs and survive a restart of the server in the page.        *)
EXTENDS Interrogation, TLC

IpSymmetry == Permutations(Ips)
===============================================================================
