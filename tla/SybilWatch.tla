------------------------------ MODULE SybilWatch ------------------------------
(***************************************************************************)
(* The detection path of the Silicon DNA server: sniperFilter              *)
(* (src/gateway/server.ts) with the cross-address cohorts it feeds         *)
(* (src/gateway/src/services/sybilCluster.ts).                             *)
(*                                                                         *)
(* A record is kept per hash, the address with the day of its salt.  Of a  *)
(* Welford profile only the number of samples matters: toDistribution is   *)
(* centred on the profile's own mean and scaled by its own deviation, so   *)
(* all profiles of Full samples have one distribution and all thinner ones *)
(* have zeros.                                                             *)
(***************************************************************************)
EXTENDS Integers, Sequences, SequencesExt, FiniteSets

CONSTANTS
    Ips,
    MinLog,      \* timestamps before a rhythm is scored
    MaxLog,      \* timestamps kept per address
    Stable,      \* isStable(5)
    Full,        \* toDistribution's ten samples
    MaxRecords,  \* MAX_RECORDS
    MaxDay,      \* bound: days of a behaviour
    MaxCohorts   \* bound: cohorts between two resets

ASSUME WatchAssumption ==
    /\ IsFiniteSet(Ips)
    /\ {MinLog, MaxLog, Stable, Full, MaxRecords, MaxDay, MaxCohorts} \subseteq Nat \ {0}
    /\ 1 < MinLog /\ MinLog <= MaxLog /\ Stable < Full

Hashes == Ips \X (1..MaxDay)

VARIABLES
    armed,      \* sniperArmed
    banned,     \* bannedIPs
    day,
    log,        \* requestLog: timestamps kept per address
    sybil,      \* sybilCluster
    culprits,   \* hashes banned or denounced for their rhythm
    felled      \* today's hashes that were in a culprit's cohort when it fell

vars == <<armed, banned, day, log, sybil, culprits, felled>>

\* samples is 0 for no record, cohort 0 for null; members is by cohort the place
\* of each hash in the order of insertion, 0 when it is not listed.
EmptyCluster == [samples |-> [h \in Hashes |-> 0], cohort |-> [h \in Hashes |-> 0],
                 members |-> <<>>, flagged |-> {}]

Init ==
    /\ armed = FALSE /\ banned = {} /\ day = 1 /\ culprits = {} /\ felled = {}
    /\ log = [ip \in Ips |-> 0]
    /\ sybil = EmptyCluster

HashIp(ip) == <<ip, day>>
Records == {h \in Hashes : sybil.samples[h] > 0}
Dropped(ip) == ip \in banned \/ HashIp(ip) \in sybil.flagged
-------------------------------------------------------------------------------
Nobody == [x \in Hashes |-> 0]
Listed(list) == {x \in Hashes : list[x] # 0}
\* The others close up.
Without(list, gone) ==
    [x \in Hashes |-> IF x \notin Listed(list) \ gone THEN 0
                     ELSE Cardinality({y \in Listed(list) \ gone : list[y] <= list[x]})]
With(list, h) ==
    IF list[h] # 0 THEN list ELSE [list EXCEPT ![h] = Cardinality(Listed(list)) + 1]

\* _klDistance below the threshold: zeros are close to everything, a full
\* profile only to a full one.
Close(n, m) == n < Full \/ m >= Full

\* The first stable member stands for the cohort, if there is one.
Matches(s, h, list) ==
    LET stable == {x \in Listed(list) : s.samples[x] >= Stable}
    IN  \E r \in stable : /\ \A x \in stable : list[r] <= list[x]
                         /\ Close(s.samples[h], s.samples[r])

\* The record's previous cohort is left after the new one was noted.
Move_Late(s, h, c) ==
    [s EXCEPT !.cohort[h] = c, !.members[c] = Without(With(@, h), {h})]
\* The record moves to a cohort that matches, and leaves another.
Move(s, h, c) ==
    [s EXCEPT !.cohort[h] = c,
              !.members = [d \in DOMAIN @ |-> IF d = c THEN With(@[d], h)
                                              ELSE IF d = s.cohort[h] THEN Without(@[d], {h})
                                              ELSE @[d]]]

\* A record that matches no cohort opens one, and stays listed in its last.
Open(s, h) ==
    [s EXCEPT !.cohort[h] = Len(s.members) + 1, !.members = Append(@, With(Nobody, h))]

\* _assignCohort
Assign(s, h) ==
    LET c == SelectInSeq(s.members, LAMBDA list : Matches(s, h, list))
    IN  IF s.samples[h] < Stable THEN s ELSE IF c # 0 THEN Move(s, h, c) ELSE Open(s, h)

\* _evictOld, for the records gone
Evict(s, gone) ==
    [samples |-> [h \in Hashes |-> IF h \in gone THEN 0 ELSE s.samples[h]],
     cohort  |-> [h \in Hashes |-> IF h \in gone THEN 0 ELSE s.cohort[h]],
     members |-> [c \in DOMAIN s.members |->
                    Without(s.members[c], {x \in gone : s.cohort[x] = c})],
     flagged |-> s.flagged \ gone]

Aged_Any == Records
\* Records not seen for 24 hours may be of an earlier day, never of today.
Aged == {h \in Records : h[2] < day}

CapAt(n, top) == IF n > top THEN top ELSE n

\* ingest: n intervals enter the profile; a full map is swept first.
Ingest(s, h, n, gone) ==
    LET swept == IF Cardinality(Records) >= MaxRecords THEN Evict(s, gone) ELSE s
    IN  Assign([swept EXCEPT !.samples[h] = CapAt(@ + n, Full)], h)

Flag_RecordOnly(s, h) ==
    IF s.samples[h] = 0 THEN s ELSE [s EXCEPT !.flagged = @ \cup {h}]
\* flag: the record and whatever is listed in its cohort
Flag(s, h) ==
    LET listed == IF s.cohort[h] = 0 THEN {} ELSE Listed(s.members[s.cohort[h]])
    IN  IF s.samples[h] = 0 THEN s
        ELSE [s EXCEPT !.flagged = @ \cup {h} \cup {x \in listed : s.samples[x] > 0}]

\* The records of today that are in the cohort of h, by what they say themselves
Fellows(s, h) ==
    {g \in Hashes : g[2] = day /\ s.cohort[h] # 0 /\ s.cohort[g] = s.cohort[h]}
-------------------------------------------------------------------------------
\* sniperFilter for a request that is not dropped at once; puppet: the headers
\* score 100 or more; synthetic: scoreBotRequest blocks the intervals.
Request(ip, puppet, synthetic, gone) ==
    LET kept   == CapAt(log[ip] + 1, MaxLog)
        scored == ~puppet /\ armed /\ kept >= MinLog
        fed    == Ingest(sybil, HashIp(ip), kept - 1, gone)
        caught == scored /\ synthetic
    IN  /\ ~Dropped(ip)
        /\ log' = IF ~puppet /\ armed THEN [log EXCEPT ![ip] = kept] ELSE log
        /\ sybil' = IF caught THEN Flag(fed, HashIp(ip)) ELSE IF scored THEN fed ELSE sybil
        /\ banned' = IF puppet \/ caught THEN banned \cup {ip} ELSE banned
        /\ culprits' = IF caught THEN culprits \cup {HashIp(ip)} ELSE culprits
        /\ felled' = IF caught THEN felled \cup Fellows(fed, HashIp(ip)) ELSE felled
        /\ UNCHANGED <<armed, day>>

\* POST /api/sybil/ingest and /api/sybil/flag, from the same host
Report(ip, n, gone) ==
    /\ sybil' = Ingest(sybil, HashIp(ip), n, gone)
    /\ UNCHANGED <<armed, banned, day, log, culprits, felled>>

Denounce(ip) ==
    /\ sybil' = Flag(sybil, HashIp(ip))
    /\ culprits' = IF HashIp(ip) \in Records THEN culprits \cup {HashIp(ip)} ELSE culprits
    /\ felled' = felled \cup Fellows(sybil, HashIp(ip))
    /\ UNCHANGED <<armed, banned, day, log>>

\* POST /api/admin/reset-bans
Reset ==
    /\ banned' = {} /\ log' = [ip \in Ips |-> 0] /\ sybil' = EmptyCluster
    /\ culprits' = {} /\ felled' = {}
    /\ UNCHANGED <<armed, day>>

\* The jitter worker reports SNIPER mode.
Arm == armed' = TRUE /\ UNCHANGED <<banned, day, log, sybil, culprits, felled>>

BanEnds(ip) ==
    banned' = banned \ {ip} /\ UNCHANGED <<armed, day, log, sybil, culprits, felled>>

\* Bans are on disk; clusters and timestamps are not.
Restart ==
    /\ armed' = FALSE /\ log' = [ip \in Ips |-> 0] /\ sybil' = EmptyCluster
    /\ culprits' = {} /\ felled' = {}
    /\ UNCHANGED <<banned, day>>

Midnight ==
    /\ day < MaxDay /\ day' = day + 1
    /\ UNCHANGED <<armed, banned, log, sybil, culprits, felled>>

Bounded == Len(sybil'.members) <= MaxCohorts

Next ==
    \/ \E ip \in Ips, puppet, synthetic \in BOOLEAN, gone \in SUBSET Aged :
           Request(ip, puppet, synthetic, gone) /\ Bounded
    \/ \E ip \in Ips, n \in {1, Full}, gone \in SUBSET Aged : Report(ip, n, gone) /\ Bounded
    \/ \E ip \in Ips : Denounce(ip)
    \/ Reset
    \/ Arm
    \/ \E ip \in banned : BanEnds(ip)
    \/ Restart
    \/ Midnight

Spec == Init /\ [][Next]_vars
-------------------------------------------------------------------------------
\* flag() reaches a whole cohort through its list, so no sequence of joins,
\* moves, sweeps and midnights may leave a record with a cohort that does not
\* list it, leave a cohort or a flag to a hash that was swept, or disturb the
\* order of a list, by which its first stable member stands for the cohort.
CohortListsItsMembers ==
    /\ \A h \in Hashes : sybil.cohort[h] # 0 =>
           /\ h \in Records /\ sybil.cohort[h] \in DOMAIN sybil.members
           /\ h \in Listed(sybil.members[sybil.cohort[h]])
    /\ \A c \in DOMAIN sybil.members : \A x, y \in Listed(sybil.members[c]) :
           sybil.members[c][x] = sybil.members[c][y] => x = y
    /\ sybil.flagged \subseteq Records

\* A rhythm caught once today keeps its address out although the ban lasts an
\* hour only, however full the map gets meanwhile.
CaughtStaysOut == \A h \in culprits : h[2] = day => h \in sybil.flagged

\* "Flag an IP's entire cohort as malicious" (sybilCluster.ts:75): whoever is
\* in the cohort of a record at the moment its rhythm is caught, or it is
\* denounced, is turned away until midnight as well, whatever cohort it joins or
\* leaves and whoever is swept meanwhile.  Bans for anything else flag nobody;
\* that is BanFlagsCohort.
CohortStaysOut == \A h \in felled : h[2] = day => h \in sybil.flagged

\* "When one cohort member is banned, the entire cohort is flagged"
\* (sybilCluster.ts:4), whatever it is banned for.
BanFlagsCohort ==
    [][\A ip \in banned' \ banned, g \in Hashes :
          sybil'.cohort[HashIp(ip)] # 0 /\ sybil'.cohort[g] = sybil'.cohort[HashIp(ip)]
              => g = HashIp(ip) \/ g \in sybil'.flagged]_vars
===============================================================================
