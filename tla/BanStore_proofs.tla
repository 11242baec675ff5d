---------------------------- MODULE BanStore_proofs ----------------------------
(***************************************************************************)
(* For every set of IPs, every ttl and every cache size: an offender is    *)
(* held through crashes and restarts until something named in lost         *)
(* happened, and detention is bounded by two ttls.                         *)
(***************************************************************************)
EXTENDS BanStore, TLAPS

\* The saturation bound is two ttls, and the ttl is positive.
LEMMA NeverFact == Hour \in Nat /\ Hour > 0 /\ Never = Hour + Hour
BY BanAssumption DEF Never

\* bannedIPs.set changes the cache and lost alone, whichever entry it drops:
\* the set IP has the full ttl, every other key keeps its time or is dropped
\* with its time, and a dropped live entry is recorded in lost.
LEMMA CacheSetEffect ==
    ASSUME TypeOK, NEW ip \in Ips, CacheSet(ip)
    PROVE  /\ lru' \in SUBSET Ips /\ ip \in lru'
           /\ lruLeft' \in [Ips -> 0..Hour] /\ lruLeft'[ip] = Hour
           /\ \A x \in Ips \ {ip} : lruLeft'[x] = lruLeft[x] \/ lruLeft'[x] = 0
           /\ lost' \in SUBSET {"stale", "torn", "evicted", "reset"}
           /\ lost' = {} => /\ lost = {}
                            /\ \A x \in Ips \ {ip} :
                                 (x \in lru /\ lruLeft[x] > 0)
                                 => (x \in lru' /\ lruLeft'[x] = lruLeft[x])
<1> USE NeverFact
<1>1. CASE Cardinality(lru \cup {ip}) <= MaxBans /\ lru' = lru \cup {ip}
           /\ lruLeft' = [lruLeft EXCEPT ![ip] = Hour] /\ lost' = lost
  BY <1>1 DEF TypeOK
<1>2. ASSUME NEW v \in Victims(lru \ {ip}),
             lru' = (lru \cup {ip}) \ {v},
             lruLeft' = [lruLeft EXCEPT ![v] = 0, ![ip] = Hour],
             lost' = IF lruLeft[v] > 0 THEN lost \cup {"evicted"} ELSE lost
      PROVE  /\ lru' \in SUBSET Ips /\ ip \in lru'
             /\ lruLeft' \in [Ips -> 0..Hour] /\ lruLeft'[ip] = Hour
             /\ \A x \in Ips \ {ip} : lruLeft'[x] = lruLeft[x] \/ lruLeft'[x] = 0
             /\ lost' \in SUBSET {"stale", "torn", "evicted", "reset"}
             /\ lost' = {} => /\ lost = {}
                              /\ \A x \in Ips \ {ip} :
                                   (x \in lru /\ lruLeft[x] > 0)
                                   => (x \in lru' /\ lruLeft'[x] = lruLeft[x])
  <2>1. v \in Ips /\ v # ip
    BY <1>2 DEF Victims, TypeOK
  <2> QED
    BY <1>2, <2>1 DEF TypeOK
<1> QED
  BY <1>1, <1>2 DEF CacheSet

\* A save leaves the file in one of its three states.
LEMMA SaveType ==
    ASSUME TypeOK, memLeft' \in [Ips -> 0..Hour], Saved \/ SaveFails
    PROVE  /\ file' \in {"current", "stale", "torn"}
           /\ fileLeft' \in [Ips -> 0..Hour]
BY NeverFact DEF Saved, SaveFails, Tears, TypeOK, Nobody

LEMMA DeadType ==
    ASSUME Dead
    PROVE  /\ up' \in BOOLEAN /\ lru' \in SUBSET Ips
           /\ lruLeft' \in [Ips -> 0..Hour] /\ memLeft' \in [Ips -> 0..Hour]
<1>1. up' \in BOOLEAN
  BY Zenon DEF Dead
<1> QED
  BY <1>1, NeverFact DEF Dead, Nobody

\* Every action keeps the types.
LEMMA TypeStep == TypeOK /\ [Next]_vars => TypeOK'
<1> SUFFICES ASSUME TypeOK, [Next]_vars PROVE TypeOK'
  OBVIOUS
<1> USE NeverFact
<1>1. ASSUME NEW ip \in Ips, RecordBan(ip),
             Saved \/ SaveFails
      PROVE  TypeOK'
  <2>1. memLeft' \in [Ips -> 0..Hour] /\ since' \in [Ips -> 0..Never] /\ up' \in BOOLEAN
    BY <1>1 DEF RecordBan, TypeOK
  <2>2. /\ lru' \in SUBSET Ips /\ lruLeft' \in [Ips -> 0..Hour]
        /\ lost' \in SUBSET {"stale", "torn", "evicted", "reset"}
    BY <1>1, CacheSetEffect DEF RecordBan
  <2> QED
    BY <1>1, <2>1, <2>2, SaveType DEF TypeOK
<1>2. ASSUME NEW ip \in Ips, Ban(ip) PROVE TypeOK'
  BY <1>1, <1>2 DEF Ban
<1>3. ASSUME NEW ip \in Ips, BanSaveFails(ip) PROVE TypeOK'
  BY <1>1, <1>3 DEF BanSaveFails
<1>4. ASSUME NEW ip \in Ips, BanCrash(ip) PROVE TypeOK'
  <2>1. /\ up' \in BOOLEAN /\ lru' \in SUBSET Ips
        /\ lruLeft' \in [Ips -> 0..Hour] /\ memLeft' \in [Ips -> 0..Hour]
    BY <1>4, DeadType DEF BanCrash
  <2>2. file' \in {"current", "stale", "torn"} /\ fileLeft' \in [Ips -> 0..Hour]
    BY <1>4, <2>1, SaveType DEF BanCrash
  <2>3. since' \in [Ips -> 0..Never] /\ lost' = lost
    BY <1>4 DEF BanCrash, TypeOK
  <2> QED
    BY <2>1, <2>2, <2>3 DEF TypeOK
<1>5. CASE Crash \/ SaveCrash
  BY <1>5, DeadType, SaveType DEF Crash, SaveCrash, SaveFails, TypeOK
<1>6. CASE Restart
  <2>1. PICK kept \in SUBSET {ip \in Ips : fileLeft[ip] > 0} :
          /\ lru' = kept
          /\ lruLeft' = [ip \in Ips |-> IF ip \in kept THEN Hour ELSE 0]
          /\ lost' = lost \cup ({file} \ {"current"})
                          \cup (IF kept = {ip \in Ips : fileLeft[ip] > 0}
                                THEN {} ELSE {"evicted"})
    BY <1>6 DEF Restart
  <2> QED
    BY <1>6, <2>1 DEF Restart, TypeOK
<1>7. CASE Reset \/ ResetFails
  <2>1. memLeft' \in [Ips -> 0..Hour] /\ lruLeft' \in [Ips -> 0..Hour]
    BY <1>7 DEF Reset, ResetFails, Cleared, Nobody
  <2>2. since' \in [Ips -> 0..Never] /\ lost' \in SUBSET {"stale", "torn", "evicted", "reset"}
    <3>1. CASE Reset
      BY <3>1 DEF Reset
    <3>2. CASE ResetFails
      BY <3>2 DEF ResetFails, TypeOK
    <3> QED
      BY <1>7, <3>1, <3>2
  <2>3. file' \in {"current", "stale", "torn"} /\ fileLeft' \in [Ips -> 0..Hour]
    BY <1>7, <2>1, SaveType DEF Reset, ResetFails
  <2> QED
    BY <1>7, <2>1, <2>2, <2>3 DEF Reset, ResetFails, Cleared, TypeOK
<1>8. CASE Tick
  BY <1>8 DEF Tick, TypeOK, Less
<1>9. CASE UNCHANGED vars
  BY <1>9 DEF vars, TypeOK
<1> QED
  BY <1>2, <1>3, <1>4, <1>5, <1>6, <1>7, <1>8, <1>9 DEF Next

\* The variables always have the types TypeOK gives them.
THEOREM TypeCorrect == Spec => []TypeOK
<1>1. Init => TypeOK
  BY NeverFact DEF Init, TypeOK, Nobody
<1> QED
  BY <1>1, TypeStep, PTL DEF Spec

\* A ban with or without a successful save keeps deadlines and the held bans.
LEMMA RecordBanStep ==
    ASSUME IInv, NEW ip \in Ips, RecordBan(ip),
           Saved \/ SaveFails
    PROVE  FileCurrent' /\ Deadlines' /\ Held'
<1> USE NeverFact DEF IInv
<1>1. FileCurrent'
  BY DEF FileCurrent, Saved, SaveFails, Tears
<1>2. up /\ up' /\ since' \in [Ips -> 0..Never] /\ memLeft' \in [Ips -> 0..Hour]
      /\ since'[ip] = 0 /\ memLeft'[ip] = Hour
      /\ \A x \in Ips \ {ip} : since'[x] = since[x] /\ memLeft'[x] = memLeft[x]
  BY DEF RecordBan, TypeOK
<1>3. Deadlines'
  <2> SUFFICES ASSUME NEW x \in Ips
               PROVE  /\ memLeft'[x] > 0 => since'[x] + memLeft'[x] <= Hour
                      /\ fileLeft'[x] > 0 => since'[x] + fileLeft'[x] <= Hour
                      /\ lruLeft'[x] > 0 => since'[x] + lruLeft'[x] <= Never
    BY DEF Deadlines
  <2>1. memLeft'[x] > 0 => since'[x] + memLeft'[x] <= Hour
    BY <1>2 DEF Deadlines, TypeOK
  <2>2. fileLeft'[x] > 0 => since'[x] + fileLeft'[x] <= Hour
    <3>1. fileLeft'[x] \in {memLeft'[x], fileLeft[x], 0}
      BY DEF Saved, SaveFails, Tears, Nobody
    <3>2. fileLeft[x] > 0 => since'[x] + fileLeft[x] <= Hour
      BY <1>2 DEF Deadlines, TypeOK
    <3> QED
      BY <2>1, <3>1, <3>2
  <2>3. lruLeft'[x] > 0 => since'[x] + lruLeft'[x] <= Never
    BY <1>2, CacheSetEffect DEF Deadlines, TypeOK, RecordBan
  <2> QED
    BY <2>1, <2>2, <2>3
<1>4. Held'
  <2> SUFFICES ASSUME lost' = {}, NEW x \in Ips, since'[x] < Hour
               PROVE  /\ memLeft'[x] = Hour - since'[x]
                      /\ x \in lru' /\ lruLeft'[x] >= Hour - since'[x]
    BY <1>2 DEF Held
  <2>1. CASE x = ip
    BY <1>2, <2>1, CacheSetEffect DEF RecordBan
  <2>2. CASE x # ip
    <3>1. lost = {} /\ since[x] < Hour
      BY <1>2, <2>2, CacheSetEffect DEF RecordBan
    <3>2. memLeft[x] = Hour - since[x] /\ x \in lru /\ lruLeft[x] >= Hour - since[x]
      BY <1>2, <3>1 DEF Held
    <3>3. lruLeft[x] > 0
      BY <3>1, <3>2 DEF TypeOK
    <3>4. x \in lru' /\ lruLeft'[x] = lruLeft[x]
      BY <2>2, <3>2, <3>3, CacheSetEffect DEF RecordBan
    <3> QED
      BY <1>2, <2>2, <3>2, <3>4
  <2> QED
    BY <2>1, <2>2
<1> QED
  BY <1>1, <1>3, <1>4

\* What a process leaves behind when it dies: the file, if no save failed.
LEMMA DeathStep ==
    ASSUME IInv, Dead, lost' = lost,
           \A x \in Ips : since'[x] \in {since[x], 0} /\ fileLeft'[x] \in {fileLeft[x], 0},
           \/ UNCHANGED <<file, fileLeft, since>>
           \/ file' # "current"
    PROVE  FileCurrent' /\ Deadlines' /\ Held'
<1> USE NeverFact DEF IInv
<1>1. FileCurrent'
  BY DEF Dead, FileCurrent
<1>2. Deadlines'
  BY DEF Dead, Deadlines, Nobody, TypeOK
<1>3. Held'
  BY DEF Dead, Held, FileCurrent
<1> QED
  BY <1>1, <1>2, <1>3

\* A reset pardons everybody, or its failure is on record.
LEMMA ResetStep ==
    ASSUME IInv, Reset \/ ResetFails
    PROVE  FileCurrent' /\ Deadlines' /\ Held'
<1> USE NeverFact DEF IInv
<1>1. FileCurrent'
  BY DEF Reset, ResetFails, Saved, SaveFails, Tears, FileCurrent
<1>2. Deadlines'
  <2>1. CASE Reset
    BY <2>1 DEF Reset, Cleared, Saved, Deadlines, Nobody
  <2>2. CASE ResetFails
    BY <2>2 DEF ResetFails, Cleared, SaveFails, Tears, Deadlines, Nobody
  <2> QED
    BY <2>1, <2>2
<1>3. Held'
  BY DEF Reset, ResetFails, Held
<1> QED
  BY <1>1, <1>2, <1>3

\* A start keeps them: the file is all it knows.
LEMMA RestartStep ==
    ASSUME IInv, Restart
    PROVE  FileCurrent' /\ Deadlines' /\ Held'
<1> USE NeverFact DEF IInv
<1> DEFINE active == {ip \in Ips : fileLeft[ip] > 0}
<1>1. PICK kept \in SUBSET active :
        /\ lru' = kept
        /\ lruLeft' = [ip \in Ips |-> IF ip \in kept THEN Hour ELSE 0]
        /\ lost' = lost \cup ({file} \ {"current"})
                        \cup (IF kept = active THEN {} ELSE {"evicted"})
  BY DEF Restart
<1>2. /\ ~up /\ up' /\ file' = "current" /\ memLeft' = fileLeft
      /\ fileLeft' = fileLeft /\ since' = since
  BY DEF Restart
<1>3. FileCurrent'
  BY <1>2 DEF FileCurrent
<1>4. Deadlines'
  BY <1>1, <1>2 DEF Deadlines, TypeOK
<1>5. Held'
  <2> SUFFICES ASSUME lost' = {}, NEW x \in Ips, since[x] < Hour
               PROVE  /\ memLeft'[x] = Hour - since[x]
                      /\ x \in lru' /\ lruLeft'[x] >= Hour - since[x]
    BY <1>2 DEF Held
  <2>1. lost = {} /\ file = "current" /\ kept = active
    BY <1>1 DEF TypeOK
  <2>2. fileLeft[x] = Hour - since[x]
    BY <1>2, <2>1 DEF Held
  <2>3. x \in kept
    BY <2>1, <2>2 DEF TypeOK
  <2> QED
    BY <1>1, <1>2, <2>2, <2>3 DEF TypeOK
<1> QED
  BY <1>3, <1>4, <1>5

\* Time runs off every copy of a deadline alike.
LEMMA TickStep ==
    ASSUME IInv, Tick
    PROVE  FileCurrent' /\ Deadlines' /\ Held'
<1> USE NeverFact DEF IInv
<1>1. FileCurrent'
  BY DEF FileCurrent, Tick
<1>2. Deadlines'
  BY DEF Deadlines, Tick, Less, TypeOK
<1>3. Held'
  <2> SUFFICES ASSUME lost' = {}, NEW x \in Ips, since'[x] < Hour
               PROVE  /\ up' => /\ memLeft'[x] = Hour - since'[x]
                                /\ x \in lru' /\ lruLeft'[x] >= Hour - since'[x]
                      /\ (~up' /\ file' = "current") => fileLeft'[x] = Hour - since'[x]
    BY DEF Held
  <2>1. since[x] < Hour /\ since'[x] = since[x] + 1 /\ lost = {}
    BY DEF Tick, TypeOK
  <2>2. /\ up' = up /\ lru' = lru /\ file' = file
        /\ memLeft'[x] = IF memLeft[x] = 0 THEN 0 ELSE memLeft[x] - 1
        /\ lruLeft'[x] = IF lruLeft[x] = 0 THEN 0 ELSE lruLeft[x] - 1
        /\ fileLeft'[x] = IF fileLeft[x] = 0 THEN 0 ELSE fileLeft[x] - 1
    BY DEF Tick, Less
  <2>3. CASE up
    <3>1. memLeft[x] = Hour - since[x] /\ x \in lru /\ lruLeft[x] >= Hour - since[x]
      BY <2>1, <2>3 DEF Held
    <3> QED
      BY <2>1, <2>2, <2>3, <3>1 DEF TypeOK
  <2>4. CASE ~up
    BY <2>1, <2>2, <2>4 DEF TypeOK, Held
  <2> QED
    BY <2>3, <2>4
<1> QED
  BY <1>1, <1>2, <1>3

\* Every step of the specification keeps the inductive invariant.
LEMMA IInvStep == IInv /\ [Next]_vars => IInv'
<1> SUFFICES ASSUME IInv, [Next]_vars PROVE IInv'
  OBVIOUS
<1> USE NeverFact
<1>0. TypeOK'
  BY TypeStep DEF IInv
<1>1. ASSUME NEW ip \in Ips, Ban(ip) PROVE FileCurrent' /\ Deadlines' /\ Held'
  BY <1>1, RecordBanStep DEF Ban
<1>2. ASSUME NEW ip \in Ips, BanSaveFails(ip) PROVE FileCurrent' /\ Deadlines' /\ Held'
  BY <1>2, RecordBanStep DEF BanSaveFails
<1>3. ASSUME NEW ip \in Ips, BanCrash(ip) PROVE FileCurrent' /\ Deadlines' /\ Held'
  BY <1>3, DeathStep DEF BanCrash, SaveFails, Tears, Nobody
<1>4. ASSUME Crash \/ SaveCrash PROVE FileCurrent' /\ Deadlines' /\ Held'
  BY <1>4, DeathStep DEF Crash, SaveCrash, Tears, Nobody
<1>5. ASSUME Restart PROVE FileCurrent' /\ Deadlines' /\ Held'
  BY <1>5, RestartStep
<1>6. ASSUME Reset \/ ResetFails PROVE FileCurrent' /\ Deadlines' /\ Held'
  BY <1>6, ResetStep
<1>7. ASSUME Tick PROVE FileCurrent' /\ Deadlines' /\ Held'
  BY <1>7, TickStep
<1>8. ASSUME UNCHANGED vars PROVE FileCurrent' /\ Deadlines' /\ Held'
  BY <1>8 DEF vars, IInv, FileCurrent, Deadlines, Held
<1> QED
  BY <1>0, <1>1, <1>2, <1>3, <1>4, <1>5, <1>6, <1>7, <1>8 DEF Next, IInv

\* The copies of the ban list agree in every reachable state.
THEOREM CopiesAgree == Spec => []IInv
<1>1. Init => IInv
  BY NeverFact DEF Init, IInv, TypeOK, FileCurrent, Deadlines, Held, Nobody
<1> QED
  BY <1>1, IInvStep, PTL DEF Spec

\* A running server refuses every offender of the last hour unless lost names
\* a reason: a torn or stale file, a failed reset or a cache too small.
THEOREM OffendersAreHeld == Spec => []OffendersHeld
<1>1. IInv => OffendersHeld
  BY NeverFact DEF IInv, TypeOK, Held, OffendersHeld, Banned
<1> QED
  BY <1>1, CopiesAgree, PTL

\* Nobody is refused two ttls after the last offence or after a pardon.
THEOREM DetentionIsBounded == Spec => []DetentionBounded
<1>1. IInv => DetentionBounded
  BY NeverFact DEF IInv, TypeOK, Deadlines, DetentionBounded, Banned
<1> QED
  BY <1>1, CopiesAgree, PTL
===============================================================================
