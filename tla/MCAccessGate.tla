----------------------------- MODULE MCAccessGate -----------------------------
(* One key, one paying agent, one address and two attempts: the key is revoked *)
(* and issued while the two processes write the file over each other.          *)
EXTENDS AccessGate
===============================================================================
