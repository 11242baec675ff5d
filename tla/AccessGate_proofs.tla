--------------------------- MODULE AccessGate_proofs ---------------------------
(***************************************************************************)
(* For any keys, agents, addresses and number of attempts: as long as the  *)
(* file was written whole and by one process at a time, the gate admits    *)
(* what Supabase last gave it and blocks nobody who did not deserve it.    *)
(***************************************************************************)
EXTENDS AccessGate, TLAPS

LEMMA GateFacts ==
    /\ Keys \cap Agents = {} /\ MaxFails \in Nat /\ MaxFails > 0
    /\ NoDoc \notin AnyKey
BY GateAssumption DEF AnyKey

Quiet == pc \in {"boot", "idle"}

\* Between two syncs the mirror holds what Supabase gave, and so does the copy
\* an x402 writer took of it; while a writer has it open it is empty, and the
\* two are never in it together.
FileCurrent ==
    damaged = {} =>
        /\ pc \in {"open", "write"} => sb = synced
        /\ pc = "write" => file = Torn /\ xpc = "idle"
        /\ xpc = "write" => file = Torn
        /\ (Quiet /\ xpc # "write") => file # Torn /\ file \ Agents = synced
        /\ (Quiet /\ xpc # "idle") => xkeys \ Agents = synced

\* The failures an address is charged with are the ones it deserved.
CountsDeserved ==
    damaged = {} => \A ip \in Ips :
        /\ strikes[ip] = IF block[ip] = "over" THEN 0 ELSE fails[ip]
        /\ block[ip] = "none" => fails[ip] < MaxFails
        /\ block[ip] = "active" => fails[ip] = MaxFails

\* A count is below the bound whenever it is checked against it.
CountsBounded == \A ip \in Ips : block[ip] = "none" => fails[ip] < MaxFails

Safety == FileCurrent /\ KeysCurrent /\ CountsDeserved
IInv == TypeOK /\ CountsBounded /\ Safety

\* An attempt keeps the types and the count below the bound it is checked
\* against.
LEMMA AttemptTypes ==
    ASSUME TypeOK, CountsBounded, NEW ip \in Ips, NEW k \in AnyKey, Attempt(ip, k)
    PROVE  TypeOK' /\ CountsBounded'
<1> USE GateFacts
<1> DEFINE was == IF block[ip] = "over" THEN 0 ELSE fails[ip]
<1>1. was \in Nat /\ was < MaxFails /\ block[ip] # "active"
  BY DEF TypeOK, CountsBounded, Attempt
<1>2. CASE /\ fails' = [fails EXCEPT ![ip] = 0]
           /\ block' = [block EXCEPT ![ip] = "none"]
           /\ strikes' = [strikes EXCEPT ![ip] = 0]
           /\ UNCHANGED <<dbVars, keys, file, pc, sb, x402Vars, synced, damaged>>
  BY <1>2 DEF TypeOK, CountsBounded, dbVars, x402Vars
<1>3. ASSUME fails' = [fails EXCEPT ![ip] = was + 1],
             block' = [block EXCEPT ![ip] = IF was + 1 >= MaxFails THEN "active" ELSE "none"],
             strikes' = [strikes EXCEPT ![ip] =
                           IF k \in synced \ expired THEN @ ELSE Capped(@ + 1)],
             UNCHANGED <<dbVars, keys, file, pc, sb, x402Vars, synced, damaged>>
      PROVE  TypeOK' /\ CountsBounded'
  <2>1. fails' \in [Ips -> 0..MaxFails]
    BY <1>1, <1>3 DEF TypeOK
  <2>2. strikes' \in [Ips -> 0..MaxFails]
    BY <1>3 DEF TypeOK, Capped
  <2>3. block' \in [Ips -> {"none", "active", "over"}]
    BY <1>3 DEF TypeOK
  <2>4. CountsBounded'
    BY <1>1, <1>3 DEF TypeOK, CountsBounded
  <2> QED
    BY <1>3, <2>1, <2>2, <2>3, <2>4 DEF TypeOK, dbVars, x402Vars
<1> QED
  BY <1>2, <1>3 DEF Attempt

LEMMA InitHolds == Init => IInv
<1> SUFFICES ASSUME Init PROVE IInv
  OBVIOUS
<1> USE GateFacts DEF Init
<1>1. TypeOK /\ CountsBounded
  BY DEF TypeOK, CountsBounded, AnyKey
<1>2. db \ Agents = db /\ db # Torn
  BY DEF AnyKey, Torn
<1> QED
  BY <1>1, <1>2 DEF IInv, Safety, FileCurrent, KeysCurrent, CountsDeserved, Quiet

-------------------------------------------------------------------------------
\* No step of a process, of the database or of a client leaves the types.
LEMMA TypeStep ==
    ASSUME TypeOK, CountsBounded, [Next]_gateVars
    PROVE  TypeOK' /\ CountsBounded'
<1> USE GateFacts DEF TypeOK, CountsBounded, dbVars, x402Vars, blockVars, AnyKey, Torn
<1>1. CASE UNCHANGED gateVars
  BY <1>1 DEF gateVars
<1>2. CASE Administer
  BY <1>2 DEF Administer
<1>3. CASE SyncOk
  BY <1>3 DEF SyncOk
<1>4. CASE Fallback
  BY <1>4 DEF Fallback, CrossedIf, Damage
<1>5. CASE SaveOpen
  BY <1>5 DEF SaveOpen, CrossedIf, Damage
<1>6. CASE SaveWrite
  BY <1>6 DEF SaveWrite, Contents, CrossedIf, Damage
<1>7. CASE GateRestart
  BY <1>7 DEF GateRestart, Damage
<1>8. ASSUME NEW a \in Agents, AgentPays(a) PROVE TypeOK' /\ CountsBounded'
  BY <1>8 DEF AgentPays, CrossedIf, Damage
<1>9. CASE AgentOpen
  BY <1>9 DEF AgentOpen, CrossedIf, Damage
<1>10. CASE AgentWrite
  BY <1>10 DEF AgentWrite, Contents, CrossedIf, Damage
<1>11. CASE AgentFails
  BY <1>11 DEF AgentFails, Damage
<1>12. ASSUME NEW ip \in Ips, NEW k \in AnyKey, Attempt(ip, k)
       PROVE  TypeOK' /\ CountsBounded'
  BY <1>12, AttemptTypes
<1>13. ASSUME NEW ip \in Ips, BlockEnds(ip) PROVE TypeOK' /\ CountsBounded'
  BY <1>13 DEF BlockEnds
<1> QED
  BY <1>1, <1>2, <1>3, <1>4, <1>5, <1>6, <1>7, <1>8, <1>9, <1>10, <1>11, <1>12, <1>13 DEF Next

-------------------------------------------------------------------------------
\* What no process repairs: once the file was damaged, it counts as damaged.
LEMMA DamageStays ==
    ASSUME [Next]_gateVars, damaged' = {}
    PROVE  damaged = {}
<1> USE DEF dbVars, x402Vars, blockVars
<1>1. CASE UNCHANGED gateVars
  BY <1>1 DEF gateVars
<1>2. CASE Administer \/ SyncOk
  BY <1>2 DEF Administer, SyncOk
<1>3. CASE Fallback
  BY <1>3 DEF Fallback
<1>4. CASE SaveOpen
  BY <1>4 DEF SaveOpen
<1>5. CASE SaveWrite
  BY <1>5 DEF SaveWrite
<1>6. CASE GateRestart \/ AgentOpen \/ AgentWrite \/ AgentFails
  BY <1>6 DEF GateRestart, AgentOpen, AgentWrite, AgentFails
<1>7. ASSUME NEW a \in Agents, AgentPays(a) PROVE damaged = {}
  BY <1>7 DEF AgentPays
<1>8. ASSUME NEW ip \in Ips, NEW k \in AnyKey, Attempt(ip, k) PROVE damaged = {}
  BY <1>8 DEF Attempt
<1>9. ASSUME NEW ip \in Ips, BlockEnds(ip) PROVE damaged = {}
  BY <1>9 DEF BlockEnds
<1> QED
  BY <1>1, <1>2, <1>3, <1>4, <1>5, <1>6, <1>7, <1>8, <1>9 DEF Next

\* The mirror, action by action.
LEMMA FileStep ==
    ASSUME IInv, [Next]_gateVars
    PROVE  FileCurrent' /\ KeysCurrent'
<1> SUFFICES ASSUME damaged' = {} PROVE FileCurrent' /\ KeysCurrent'
  BY DEF FileCurrent, KeysCurrent
<1>0. damaged = {}
  BY DamageStays
<1> USE <1>0, GateFacts DEF IInv, Safety, FileCurrent, KeysCurrent, Quiet,
                            dbVars, x402Vars, blockVars
<1>1. CASE UNCHANGED gateVars
  BY <1>1 DEF gateVars
<1>2. CASE Administer
  BY <1>2 DEF Administer
<1>3. CASE SyncOk
  <2>1. db \ Agents = db
    BY DEF TypeOK
  <2> QED
    BY <1>3, <2>1 DEF SyncOk
<1>4. CASE Fallback
  BY <1>4 DEF Fallback, CrossedIf
<1>5. CASE SaveOpen
  BY <1>5 DEF SaveOpen, CrossedIf
<1>6. CASE SaveWrite
  <2>1. sb \ Agents = sb /\ sb # Torn
    BY DEF TypeOK, AnyKey, Torn
  <2> QED
    BY <1>6, <2>1 DEF SaveWrite, Contents, CrossedIf
<1>7. CASE GateRestart
  BY <1>7 DEF GateRestart, TypeOK
<1>8. ASSUME NEW a \in Agents, AgentPays(a) PROVE FileCurrent' /\ KeysCurrent'
  BY <1>8 DEF AgentPays, CrossedIf, TypeOK
<1>9. CASE AgentOpen
  BY <1>9 DEF AgentOpen, CrossedIf, TypeOK
<1>10. CASE AgentWrite
  <2>1. xkeys # Torn
    BY DEF TypeOK, AnyKey, Torn
  <2> QED
    BY <1>10, <2>1 DEF AgentWrite, Contents, CrossedIf, TypeOK
<1>11. CASE AgentFails
  BY <1>11 DEF AgentFails
<1>12. ASSUME NEW ip \in Ips, NEW k \in AnyKey, Attempt(ip, k)
       PROVE  FileCurrent' /\ KeysCurrent'
  BY <1>12 DEF Attempt
<1>13. ASSUME NEW ip \in Ips, BlockEnds(ip) PROVE FileCurrent' /\ KeysCurrent'
  BY <1>13 DEF BlockEnds
<1> QED
  BY <1>1, <1>2, <1>3, <1>4, <1>5, <1>6, <1>7, <1>8, <1>9, <1>10, <1>11, <1>12, <1>13 DEF Next

\* An attempt: whom the gate refuses although the database meant to admit him
\* would be a key of the last sync that the gate does not hold.
LEMMA AttemptCounts ==
    ASSUME IInv, damaged = {}, NEW ip \in Ips, NEW k \in AnyKey, Attempt(ip, k)
    PROVE  CountsDeserved'
<1> USE GateFacts DEF IInv, Safety
<1> DEFINE was == IF block[ip] = "over" THEN 0 ELSE fails[ip]
<1>1. pc # "boot" /\ block[ip] # "active"
  BY DEF Attempt
<1>2. was \in Nat /\ was < MaxFails /\ strikes[ip] = was
  BY <1>1 DEF TypeOK, CountsBounded, CountsDeserved
<1>3. k \in synced \ expired => k \in keys \ expired
  BY <1>1 DEF KeysCurrent
<1>4. CASE /\ fails' = [fails EXCEPT ![ip] = 0]
           /\ block' = [block EXCEPT ![ip] = "none"]
           /\ strikes' = [strikes EXCEPT ![ip] = 0]
  BY <1>4 DEF CountsDeserved, TypeOK
<1>5. ASSUME k \notin keys \ expired,
             fails' = [fails EXCEPT ![ip] = was + 1],
             block' = [block EXCEPT ![ip] = IF was + 1 >= MaxFails THEN "active" ELSE "none"],
             strikes' = [strikes EXCEPT ![ip] =
                           IF k \in synced \ expired THEN @ ELSE Capped(@ + 1)]
      PROVE  CountsDeserved'
  <2>1. strikes'[ip] = was + 1 /\ fails'[ip] = was + 1
    BY <1>2, <1>3, <1>5 DEF TypeOK, Capped
  <2>2. block'[ip] = IF was + 1 >= MaxFails THEN "active" ELSE "none"
    BY <1>5 DEF TypeOK
  <2>3. \A i \in Ips \ {ip} : /\ strikes'[i] = strikes[i] /\ fails'[i] = fails[i]
                              /\ block'[i] = block[i]
    BY <1>5 DEF TypeOK
  <2> QED
    BY <1>2, <2>1, <2>2, <2>3 DEF CountsDeserved
<1> QED
  BY <1>4, <1>5 DEF Attempt

LEMMA CountsStep ==
    ASSUME IInv, [Next]_gateVars
    PROVE  CountsDeserved'
<1> SUFFICES ASSUME damaged' = {} PROVE CountsDeserved'
  BY DEF CountsDeserved
<1>0. damaged = {}
  BY DamageStays
<1>1. CountsDeserved /\ TypeOK
  BY DEF IInv, Safety
<1> USE GateFacts DEF dbVars, x402Vars, blockVars
<1>2. CASE UNCHANGED blockVars
  BY <1>0, <1>1, <1>2 DEF CountsDeserved
<1>3. CASE GateRestart
  BY <1>3 DEF GateRestart, CountsDeserved
<1>4. ASSUME NEW ip \in Ips, NEW k \in AnyKey, Attempt(ip, k) PROVE CountsDeserved'
  BY <1>0, <1>4, AttemptCounts
<1>5. ASSUME NEW ip \in Ips, BlockEnds(ip) PROVE CountsDeserved'
  BY <1>0, <1>1, <1>5 DEF BlockEnds, CountsDeserved, TypeOK
<1>6. CASE Administer \/ SyncOk \/ Fallback \/ SaveOpen \/ SaveWrite
  BY <1>2, <1>6 DEF Administer, SyncOk, Fallback, SaveOpen, SaveWrite
<1>7. CASE AgentOpen \/ AgentWrite \/ AgentFails \/ \E a \in Agents : AgentPays(a)
  BY <1>2, <1>7 DEF AgentOpen, AgentWrite, AgentFails, AgentPays
<1> QED
  BY <1>2, <1>3, <1>4, <1>5, <1>6, <1>7 DEF Next, gateVars

-------------------------------------------------------------------------------
LEMMA Inductive == Spec => []IInv
<1>1. IInv /\ [Next]_gateVars => IInv'
  BY TypeStep, FileStep, CountsStep DEF IInv, Safety
<1> QED
  BY <1>1, InitHolds, PTL DEF Spec

\* Keys, mirror, counts and blocks keep their types; no address is ever counted
\* past MAX_FAILS.
THEOREM TypeCorrect == Spec => []TypeOK
<1>1. IInv => TypeOK
  BY DEF IInv
<1> QED
  BY <1>1, Inductive, PTL

\* Outages and restarts leave the gate with the keys it last heard of, for any
\* set of keys and agents (access_gate.py, _load_keys).
THEOREM KeysAreCurrent == Spec => []KeysCurrent
<1>1. IInv => KeysCurrent
  BY DEF IInv, Safety
<1> QED
  BY <1>1, Inductive, PTL

\* Nobody is blocked short of MAX_FAILS refusals he deserved, for any number of
\* addresses and any MAX_FAILS (access_gate.py, is_authorized).
THEOREM BlocksAreDeserved == Spec => []BlocksDeserved
<1>1. IInv => BlocksDeserved
  BY DEF IInv, Safety, BlocksDeserved, CountsDeserved
<1> QED
  BY <1>1, Inductive, PTL
===============================================================================
