------------------------------- MODULE MCEnclave -------------------------------
(* Pages behind one address.  Clocks are right or ahead of the server's, a    *)
(* ratchet comes with the second packet, the ttls exceed the fresh window.    *)
EXTENDS EnclaveSession, TLC

CONSTANTS p1, p2, ip1
OnePage == {p1}
MCIps == {ip1}
MCIpOf == [p \in Pages |-> ip1]
MCOffsets == {-1, 0}
SealSymmetry == Permutations(SealIds)
===============================================================================
