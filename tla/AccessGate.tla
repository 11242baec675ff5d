------------------------------ MODULE AccessGate ------------------------------
(***************************************************************************)
(* The API keys of the WebSocket feed.  The distributor's AccessGate       *)
(* (src/gateway/access_gate.py) syncs its keys from Supabase every minute  *)
(* and mirrors them to authorized_keys.json, from which it loads them when *)
(* Supabase fails.  The x402 gateway, another process, reads, extends and  *)
(* rewrites the same file when an agent first pays.  Neither locks it.     *)
(***************************************************************************)
EXTENDS Integers, FiniteSets

CONSTANTS
    Keys,      \* API keys the database may hold
    Agents,    \* paying addresses, kept under their hash like a key
    Ips,       \* client addresses
    MaxFails,  \* MAX_FAILS (5)
    NoDoc      \* stands in a file that is empty or no JSON document

ASSUME GateAssumption ==
    /\ Keys \cap Agents = {} /\ MaxFails \in Nat \ {0}
    /\ NoDoc \notin Keys \cup Agents

VARIABLES
    db, dbUp,      \* the database's active keys, and whether it answers
    expired,       \* keys past their expiry
    keys,          \* AccessGate.keys
    file,          \* authorized_keys.json
    pc, sb,        \* _load_keys: "boot", "idle", "open", "write"; what it saves
    xpc, xkeys,    \* _save_agent_fingerprint: "idle", "open", "write"; the same
    fails, block,  \* fail_count; blacklist: "none", "active" or "over"
    synced,        \* the last keys Supabase gave: no code state
    strikes,       \* deserved refusals since an admission or the end of a
                   \* block, up to MaxFails: no code state
    damaged        \* how the file went wrong: no code state

dbVars    == <<db, dbUp, expired>>
x402Vars  == <<xpc, xkeys>>
blockVars == <<fails, block, strikes>>
gateVars  == <<dbVars, keys, file, pc, sb, x402Vars, blockVars, synced, damaged>>

Torn == {NoDoc}
AnyKey == Keys \cup Agents
CrossedIf(b) == IF b THEN {"crossed"} ELSE {}
Damage == {"unsaved", "interrupted", "crossed"}

Init ==
    /\ db \in SUBSET Keys /\ dbUp = TRUE /\ expired = {}
    /\ keys = db /\ file = db /\ synced = db
    /\ pc = "idle" /\ sb = {}
    /\ xpc = "idle" /\ xkeys = {}
    /\ fails = [ip \in Ips |-> 0] /\ block = [ip \in Ips |-> "none"]
    /\ strikes = [ip \in Ips |-> 0]
    /\ damaged = {}

-------------------------------------------------------------------------------
\* The administrator issues and revokes keys; keys expire; Supabase comes and
\* goes.
Administer ==
    /\ \/ /\ \E k \in Keys \ expired : db' = (db \cup {k}) \/ db' = db \ {k}
          /\ UNCHANGED <<dbUp, expired>>
       \/ /\ \E k \in AnyKey : expired' = expired \cup {k} /\ db' = db \ {k}
          /\ UNCHANGED dbUp
       \/ dbUp' = ~dbUp /\ UNCHANGED <<db, expired>>
    /\ UNCHANGED <<keys, file, pc, sb, x402Vars, blockVars, synced, damaged>>

\* One turn of _reload_loop, or the load at start-up: Supabase answers.  The
\* keys are replaced under the lock, the mirror is written after it.
SyncOk_SavesOnly ==
    /\ pc \in {"boot", "idle"} /\ dbUp
    /\ sb' = db /\ synced' = db /\ pc' = "open"
    /\ UNCHANGED <<dbVars, keys, file, x402Vars, blockVars, damaged>>
SyncOk ==
    /\ pc \in {"boot", "idle"} /\ dbUp
    /\ keys' = db /\ sb' = db /\ synced' = db /\ pc' = "open"
    /\ UNCHANGED <<dbVars, file, x402Vars, blockVars, damaged>>

Fallback_EmptyOnError ==
    /\ pc \in {"boot", "idle"} /\ ~dbUp
    /\ keys' = IF file = Torn THEN {} ELSE file
    /\ pc' = "idle"
    /\ damaged' = damaged \cup CrossedIf(pc = "boot" /\ file = Torn)
    /\ UNCHANGED <<dbVars, file, sb, x402Vars, blockVars, synced>>
\* Supabase does not answer: the mirror is loaded, or the keys stay.
Fallback ==
    /\ pc \in {"boot", "idle"} /\ ~dbUp
    /\ keys' = IF file = Torn THEN keys ELSE file
    /\ pc' = "idle"
    /\ damaged' = damaged \cup CrossedIf(pc = "boot" /\ file = Torn)
    /\ UNCHANGED <<dbVars, file, sb, x402Vars, blockVars, synced>>

\* open(path, 'w') empties the file, or fails.
SaveOpen ==
    /\ pc = "open"
    /\ \/ /\ pc' = "write" /\ file' = Torn
          /\ damaged' = damaged \cup CrossedIf(xpc # "idle")
       \/ /\ pc' = "idle" /\ UNCHANGED file
          /\ damaged' = damaged \cup {"unsaved"}
    /\ UNCHANGED <<dbVars, keys, sb, x402Vars, blockVars, synced>>

\* A writer that emptied the file writes its document at offset 0.  If the
\* other process wrote in between, what is longer there stays behind it.
Contents(doc) == IF file = Torn THEN {doc} ELSE {doc, Torn}

\* The buffer is written out when the file is closed, or the disk is full.
SaveWrite ==
    /\ pc = "write" /\ pc' = "idle"
    /\ \/ /\ file' \in Contents(sb)
          /\ damaged' = damaged \cup CrossedIf(xpc # "idle")
       \/ file' = Torn /\ damaged' = damaged \cup {"unsaved"}
    /\ UNCHANGED <<dbVars, keys, sb, x402Vars, blockVars, synced>>

\* The distributor process restarts: what the gate held in memory is gone.
GateRestart ==
    /\ pc' = "boot" /\ keys' = {}
    /\ fails' = [ip \in Ips |-> 0] /\ block' = [ip \in Ips |-> "none"]
    /\ strikes' = [ip \in Ips |-> 0]
    /\ damaged' = damaged \cup (IF pc \in {"open", "write"} THEN {"interrupted"} ELSE {})
    /\ UNCHANGED <<dbVars, file, sb, x402Vars, synced>>

\* _save_agent_fingerprint reads the file; an unreadable one counts as empty.
AgentPays(a) ==
    LET known == IF file = Torn THEN {} ELSE file
    IN  /\ xpc = "idle" /\ a \notin known
        /\ xkeys' = known \cup {a} /\ xpc' = "open"
        /\ damaged' = damaged \cup CrossedIf(file = Torn)
        /\ UNCHANGED <<dbVars, keys, file, pc, sb, blockVars, synced>>

AgentOpen ==
    /\ xpc = "open" /\ xpc' = "write" /\ file' = Torn
    /\ damaged' = damaged \cup CrossedIf(pc = "write")
    /\ UNCHANGED <<dbVars, keys, pc, sb, xkeys, blockVars, synced>>

AgentWrite ==
    /\ xpc = "write" /\ xpc' = "idle"
    /\ file' \in Contents(xkeys)
    /\ damaged' = damaged \cup CrossedIf(pc = "write")
    /\ UNCHANGED <<dbVars, keys, pc, sb, xkeys, blockVars, synced>>

\* The x402 process dies, or the exception of a full disk is swallowed.
AgentFails ==
    /\ xpc # "idle" /\ xpc' = "idle"
    /\ damaged' = damaged \cup (IF xpc = "write" THEN {"interrupted"} ELSE {})
    /\ UNCHANGED <<dbVars, keys, file, pc, sb, xkeys, blockVars, synced>>

Capped(n) == IF n > MaxFails THEN MaxFails ELSE n

Attempt_KeepsCount(ip, k) ==
    LET was == IF block[ip] = "over" THEN 0 ELSE fails[ip]
    IN  /\ pc # "boot" /\ block[ip] # "active"
        /\ \/ /\ k \in keys \ expired
              /\ fails' = [fails EXCEPT ![ip] = was]
              /\ block' = [block EXCEPT ![ip] = "none"]
              /\ strikes' = [strikes EXCEPT ![ip] = 0]
           \/ /\ k \notin keys \ expired
              /\ fails' = [fails EXCEPT ![ip] = was + 1]
              /\ block' = [block EXCEPT ![ip] = IF was + 1 >= MaxFails THEN "active" ELSE "none"]
              /\ strikes' = [strikes EXCEPT ![ip] =
                    IF k \in synced \ expired THEN @ ELSE Capped(@ + 1)]
        /\ UNCHANGED <<dbVars, keys, file, pc, sb, x402Vars, synced, damaged>>
\* is_authorized.  A blocked address is refused before its key is looked at,
\* which changes nothing; the first call after a block forgets its failures.
Attempt(ip, k) ==
    LET was == IF block[ip] = "over" THEN 0 ELSE fails[ip]
    IN  /\ pc # "boot" /\ block[ip] # "active"
        /\ \/ /\ k \in keys \ expired
              /\ fails' = [fails EXCEPT ![ip] = 0]
              /\ block' = [block EXCEPT ![ip] = "none"]
              /\ strikes' = [strikes EXCEPT ![ip] = 0]
           \/ /\ k \notin keys \ expired
              /\ fails' = [fails EXCEPT ![ip] = was + 1]
              /\ block' = [block EXCEPT ![ip] = IF was + 1 >= MaxFails THEN "active" ELSE "none"]
              /\ strikes' = [strikes EXCEPT ![ip] =
                    IF k \in synced \ expired THEN @ ELSE Capped(@ + 1)]
        /\ UNCHANGED <<dbVars, keys, file, pc, sb, x402Vars, synced, damaged>>

\* BLOCK_SEC later
BlockEnds(ip) ==
    /\ block[ip] = "active" /\ block' = [block EXCEPT ![ip] = "over"]
    /\ strikes' = [strikes EXCEPT ![ip] = 0]
    /\ UNCHANGED <<dbVars, keys, file, pc, sb, x402Vars, fails, synced, damaged>>

LoadKeys == SyncOk \/ Fallback \/ SaveOpen \/ SaveWrite

Next ==
    \/ Administer
    \/ SyncOk \/ Fallback \/ SaveOpen \/ SaveWrite
    \/ GateRestart
    \/ \E a \in Agents : AgentPays(a)
    \/ AgentOpen \/ AgentWrite \/ AgentFails
    \/ \E ip \in Ips, k \in AnyKey : Attempt(ip, k)
    \/ \E ip \in Ips : BlockEnds(ip)

\* The reload thread catches every exception and turns once a minute.
Spec == Init /\ [][Next]_gateVars /\ WF_gateVars(LoadKeys)
-------------------------------------------------------------------------------
TypeOK ==
    /\ db \in SUBSET Keys /\ dbUp \in BOOLEAN /\ expired \in SUBSET AnyKey
    /\ keys \in SUBSET AnyKey /\ sb \in SUBSET Keys /\ xkeys \in SUBSET AnyKey
    /\ file \in (SUBSET AnyKey) \cup {Torn}
    /\ pc \in {"boot", "idle", "open", "write"} /\ xpc \in {"idle", "open", "write"}
    /\ fails \in [Ips -> 0..MaxFails] /\ strikes \in [Ips -> 0..MaxFails]
    /\ block \in [Ips -> {"none", "active", "over"}]
    /\ synced \in SUBSET Keys
    /\ damaged \in SUBSET Damage

\* What the mirror is for (lines 81-94): through any outage of Supabase and any
\* number of restarts the gate admits exactly the keys it last heard of, and
\* agents at most besides.  A key revoked then does not come back, one issued
\* does not vanish, unless the file was written by half or by both processes
\* at once.
KeysCurrent ==
    (damaged = {} /\ pc # "boot") => keys \ Agents = synced

\* An address is blocked for MaxFails refusals it deserved, with no admission
\* and no end of a block in between (lines 112-135).
BlocksDeserved ==
    damaged = {} => \A ip \in Ips : block[ip] = "active" => strikes[ip] = MaxFails

\* Once Supabase answers for good, every key it keeps is admitted for good in
\* the end, whatever the file went through.
OutageHeals ==
    \A k \in Keys : <>[](dbUp /\ k \in db /\ pc # "boot") => <>[](k \in keys)
===============================================================================
