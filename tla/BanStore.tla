------------------------------- MODULE BanStore -------------------------------
(***************************************************************************)
(* The ban list of the Silicon DNA server: the LRU cache bannedIPs that    *)
(* every request is checked against (src/gateway/server.ts) and its copy   *)
(* in data/bans.json (src/gateway/src/db/persist.ts), across bans, the     *)
(* admin reset, the passing of time, crashes in the middle of a write,     *)
(* failed writes and restarts.                                             *)
(*                                                                         *)
(* A deadline is kept as the time left until it, 0 once it has passed.     *)
(***************************************************************************)
EXTENDS Integers, FiniteSets

CONSTANTS
    Ips,
    Hour,     \* ttl of the cache and of persistBan, in clock steps
    MaxBans   \* max of the cache

ASSUME BanAssumption == Hour \in Nat \ {0} /\ MaxBans \in Nat \ {0}

VARIABLES
    up,        \* the server process is running
    lru,       \* keys of bannedIPs, those whose ttl has passed included
    lruLeft,   \* time left of each key, 0 for a stale or absent one
    memLeft,   \* _bans: time left until expires, 0 for none
    fileLeft,  \* the same in bans.json
    file,      \* bans.json: "current", "stale" (a save could not open it) or
               \* "torn" (no complete JSON document)
    since,     \* time since an IP's last offence that no reset pardoned
    lost       \* how entries went missing since the last reset

vars == <<up, lru, lruLeft, memLeft, fileLeft, file, since, lost>>

Never == 2 * Hour  \* since saturates here: long ago, pardoned or never
Nobody == [ip \in Ips |-> 0]

Init ==
    /\ up = TRUE
    /\ lru = {} /\ lruLeft = Nobody
    /\ memLeft = Nobody
    /\ fileLeft = Nobody /\ file = "current"
    /\ since = [ip \in Ips |-> Never]
    /\ lost = {}

\* bannedIPs.has
Banned(ip) == ip \in lru /\ lruLeft[ip] > 0

-------------------------------------------------------------------------------
\* Entries a full cache can drop: the least recently set ones have the least
\* time left.  The order among entries set in the same clock step is not kept.
Victims(keys) == {v \in keys : \A w \in keys : lruLeft[v] <= lruLeft[w]}

\* bannedIPs.set: ip gets the full ttl; a full cache drops its oldest entry.
CacheSet(ip) ==
    LET grown == lru \cup {ip}
    IN  \/ /\ Cardinality(grown) <= MaxBans
           /\ lru' = grown
           /\ lruLeft' = [lruLeft EXCEPT ![ip] = Hour]
           /\ lost' = lost
        \/ /\ Cardinality(grown) > MaxBans
           /\ \E v \in Victims(lru \ {ip}) :
                /\ lru' = grown \ {v}
                /\ lruLeft' = [lruLeft EXCEPT ![v] = 0, ![ip] = Hour]
                /\ lost' = IF lruLeft[v] > 0 THEN lost \cup {"evicted"} ELSE lost

\* What every detector does when it bans, up to the rewrite of the file.
RecordBan(ip) ==
    /\ up
    /\ CacheSet(ip)
    /\ memLeft' = [memLeft EXCEPT ![ip] = Hour]
    /\ since' = [since EXCEPT ![ip] = 0]
    /\ UNCHANGED up

Saved == fileLeft' = memLeft' /\ file' = "current"
\* writeFileSync opens, truncates and writes: a save that fails, or is cut
\* short, leaves the old file or a torn one.
Tears == fileLeft' = Nobody /\ file' = "torn"
SaveFails ==
    \/ Tears
    \/ fileLeft' = fileLeft /\ file' = IF file = "current" THEN "stale" ELSE file

Ban_NotSaved(ip) == RecordBan(ip) /\ UNCHANGED <<fileLeft, file>>
\* bannedIPs.set, then persistBan, which rewrites the whole file.
Ban(ip) == RecordBan(ip) /\ Saved

\* The error of a save is the request's, not the process's.
BanSaveFails(ip) == RecordBan(ip) /\ SaveFails

\* A dead process keeps neither cache nor _bans.
Dead == up' = FALSE /\ lru' = {} /\ lruLeft' = Nobody /\ memLeft' = Nobody

Crash ==
    /\ up /\ Dead
    /\ UNCHANGED <<fileLeft, file, since, lost>>

\* The process dies before persistBan is done, ...
BanCrash(ip) ==
    /\ up /\ Dead /\ SaveFails
    /\ since' = [since EXCEPT ![ip] = 0]
    /\ UNCHANGED lost

\* ... or while a reset or the start rewrites the file.
SaveCrash == Dead /\ Tears /\ UNCHANGED <<since, lost>>

Restart_RenewsDeadlines ==
    LET renewed == [ip \in Ips |-> IF fileLeft[ip] > 0 THEN Hour ELSE 0]
    IN  /\ ~up /\ up' = TRUE
        /\ memLeft' = renewed /\ fileLeft' = renewed /\ file' = "current"
        /\ lru' = {ip \in Ips : fileLeft[ip] > 0} /\ lruLeft' = renewed
        /\ lost' = lost \cup ({file} \ {"current"})
        /\ UNCHANGED since
\* Start-up: an unreadable file is a fresh start, expired bans are dropped, the
\* file is rewritten, and the cache is warmed with every active ban for a full
\* ttl, whatever time the ban has left.
Restart ==
    LET active == {ip \in Ips : fileLeft[ip] > 0}
    IN  /\ ~up /\ up' = TRUE
        /\ memLeft' = fileLeft
        /\ file' = "current"
        /\ \E kept \in SUBSET active :
             /\ IF Cardinality(active) <= MaxBans
                THEN kept = active ELSE Cardinality(kept) = MaxBans
             /\ lru' = kept
             /\ lruLeft' = [ip \in Ips |-> IF ip \in kept THEN Hour ELSE 0]
             /\ lost' = lost \cup ({file} \ {"current"})
                             \cup (IF kept = active THEN {} ELSE {"evicted"})
        /\ UNCHANGED <<fileLeft, since>>

\* POST /api/admin/reset-bans: bannedIPs.clear() and clearBans().
Cleared == up /\ lru' = {} /\ lruLeft' = Nobody /\ memLeft' = Nobody /\ UNCHANGED up
Reset ==
    /\ Cleared /\ Saved
    /\ since' = [ip \in Ips |-> Never]
    /\ lost' = {}

\* The save of the reset fails: the admin gets an error and no pardon, what
\* the file kept comes back with the next start.
ResetFails == Cleared /\ SaveFails /\ lost' = lost \cup {"reset"} /\ UNCHANGED since

Less(left) == [ip \in Ips |-> IF left[ip] = 0 THEN 0 ELSE left[ip] - 1]

Tick ==
    /\ lruLeft' = Less(lruLeft)
    /\ memLeft' = Less(memLeft)
    /\ fileLeft' = Less(fileLeft)
    /\ since' = [ip \in Ips |-> IF since[ip] = Never THEN Never ELSE since[ip] + 1]
    /\ UNCHANGED <<up, lru, file, lost>>

Next ==
    \/ \E ip \in Ips : Ban(ip)
    \/ \E ip \in Ips : BanSaveFails(ip)
    \/ \E ip \in Ips : BanCrash(ip)
    \/ Crash \/ SaveCrash
    \/ Restart
    \/ Reset \/ ResetFails
    \/ Tick

\* Only time is sure to pass.
Spec == Init /\ [][Next]_vars /\ WF_vars(Tick)
-------------------------------------------------------------------------------
TypeOK ==
    /\ up \in BOOLEAN /\ file \in {"current", "stale", "torn"}
    /\ lru \in SUBSET Ips
    /\ lruLeft \in [Ips -> 0..Hour]
    /\ memLeft \in [Ips -> 0..Hour]
    /\ fileLeft \in [Ips -> 0..Hour]
    /\ since \in [Ips -> 0..Never]
    /\ lost \in SUBSET {"stale", "torn", "evicted", "reset"}

\* An offender of the last hour is refused by a running server, through any
\* number of crashes, failed writes and restarts, unless a restart found a torn
\* or a stale file, a reset failed half-way or the cache was too small.
OffendersHeld ==
    (up /\ lost = {}) => \A ip \in Ips : since[ip] < Hour => Banned(ip)

\* Nobody is refused two hours after the last offence, nor after a reset that
\* was saved: no chain of restarts warms the same ban again and again, and no
\* later save brings back what a reset removed.
DetentionBounded == \A ip \in Ips : Banned(ip) => since[ip] < Never

\* The inductive invariant behind the two.  A save never leaves the file behind
\* memory unless it failed.
FileCurrent == (up /\ file = "current") => fileLeft = memLeft

\* A deadline kept anywhere was set by the last offence: the time left and the
\* time since add up to at most the ttl, in the cache to at most twice the ttl,
\* because a restart warms the cache with a full one.
Deadlines ==
    \A ip \in Ips :
        /\ memLeft[ip] > 0 => since[ip] + memLeft[ip] <= Hour
        /\ fileLeft[ip] > 0 => since[ip] + fileLeft[ip] <= Hour
        /\ lruLeft[ip] > 0 => since[ip] + lruLeft[ip] <= Never

\* While nothing is lost, memory (or the file of a dead process) holds every
\* unexpired deadline in full, and the cache holds at least as much.
Held ==
    lost = {} => \A ip \in Ips : since[ip] < Hour =>
        /\ up => /\ memLeft[ip] = Hour - since[ip]
                 /\ ip \in lru /\ lruLeft[ip] >= Hour - since[ip]
        /\ (~up /\ file = "current") => fileLeft[ip] = Hour - since[ip]

\* bans.json and _bans agree with each other and with the last offences after
\* every mixture of saves, failed saves, crashes, restarts and resets: there is
\* one owner of the list, which persist.ts found missing twice.
IInv == TypeOK /\ FileCurrent /\ Deadlines /\ Held

\* An IP that stops offending is in the end refused no more for good, however
\* often the server restarts and warms its cache with the ban.
BansEnd == \A ip \in Ips : <>[](since[ip] # 0) => <>[](~Banned(ip))
===============================================================================
