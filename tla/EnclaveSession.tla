---------------------------- MODULE EnclaveSession ----------------------------
(***************************************************************************)
(* The protected assets of the Silicon DNA server and the dashboard pages  *)
(* that ask for them.  Every dashboard page shares the server session      *)
(* 'default' (src/gateway/server.ts): one key, one packet counter.  A page *)
(* (src/gateway/src/App.tsx) loads, does the ML-KEM handshake, numbers its *)
(* requests itself and seals them with its own copy of the key.            *)
(*                                                                         *)
(* Requests may be delayed, reordered, delivered again and lost, replies   *)
(* lost; pages reload, and a click does not wait for the one before it.    *)
(***************************************************************************)
EXTENDS Integers, FiniteSets

CONSTANTS
    Pages, Ips, IpOf,  \* dashboard pages and the address each is seen with
    SealIds,           \* identities of the requests sent in a behaviour
    Offsets,           \* server clock minus page clock when a seal is made
    Window, Skew,      \* accepted ages of a seal: -Skew .. Window
    SeqTtl, KeyTtl,    \* ttls of packetSequences and sessionKeys
    RatchetAt,         \* packets between two key ratchets (50)
    MaxLoads,          \* bound on page loads
    NoSeal

ASSUME EnclaveAssumption ==
    /\ IpOf \in [Pages -> Ips]
    /\ Offsets \subseteq Int
    /\ Window \in Nat /\ Skew \in Nat
    /\ SeqTtl \in Nat /\ KeyTtl \in Nat \ {0}
    /\ Window + Skew < SeqTtl
    /\ RatchetAt \in Nat \ {0} /\ MaxLoads \in Nat

VARIABLES
    pageKey,   \* pqcKeyRef: handshake number of each page, 0 before the first
    idx,       \* packetIndex of each page
    jobs,      \* calls of testAssetAccess that have not returned
    loads,     \* handshakes begun
    decaps,    \* handshakes whose PQC_RESP the server has not finished
    seal,      \* the requests: page, asset, handshake of the key and number
    age,       \* age of each seal by the server's clock
    place,     \* "none", "wire", "stalled" (behind the filters) or "done"
    uses,      \* how often a seal was accepted: no code state
    resent,    \* a request was delivered again: no code state
    key,       \* sessionKeys['default'].key: handshake and ratchets since
    counter,   \* sessionKeys['default'].counter
    keyLeft,   \* time left of sessionKeys['default']
    lastSeq,   \* packetSequences['default'], 0 for none
    seqLeft,   \* time left of it
    armed,     \* sniperArmed
    verified,  \* addresses with a live verifiedPoW entry
    banned     \* bannedIPs

pageVars   == <<pageKey, idx, loads>>
wireVars   == <<seal, age, uses, resent>>
serverVars == <<key, counter, keyLeft, lastSeq, seqLeft>>
vars == <<pageVars, jobs, decaps, wireVars, place, serverVars, armed, verified, banned>>

Assets == {"enclave", "wallet"}
SealRecord == [page : Pages, asset : Assets, key : Nat, seq : Nat]
Job == [page : Pages, id : SealIds, try : 1..2,
        reply : {"none", "served", "invalid", "pow"}]

Init ==
    /\ pageKey = [p \in Pages |-> 0] /\ idx = [p \in Pages |-> 0]
    /\ jobs = {} /\ loads = 0 /\ decaps = {}
    /\ seal = [i \in SealIds |-> NoSeal]
    /\ age = [i \in SealIds |-> 0]
    /\ place = [i \in SealIds |-> "none"]
    /\ uses = [i \in SealIds |-> 0] /\ resent = FALSE
    /\ key = [hs |-> 0, ratchets |-> 0] /\ counter = 0 /\ keyLeft = 0
    /\ lastSeq = 0 /\ seqLeft = 0
    /\ armed = FALSE /\ verified = {} /\ banned = {}

-------------------------------------------------------------------------------
\* A page that opens its socket encapsulates a new secret for the server.
Handshake(p) ==
    /\ loads < MaxLoads /\ loads' = loads + 1
    /\ pageKey' = [pageKey EXCEPT ![p] = loads']
    /\ decaps' = decaps \cup {loads'}
    /\ UNCHANGED <<wireVars, place, serverVars, armed, verified, banned>>

\* It does when it is (re)loaded, and then counts from 0 again, ...
PageLoad(p) ==
    /\ Handshake(p)
    /\ idx' = [idx EXCEPT ![p] = 0]
    /\ jobs' = {j \in jobs : j.page # p}

\* ... and when the server reports another mode: its number and the calls that
\* run are left as they are.
ModeChange(p) == pageKey[p] # 0 /\ Handshake(p) /\ UNCHANGED <<idx, jobs>>

\* The server finishes a handshake: kem.decap is awaited, so handshakes of two
\* pages may finish in either order.  'default' gets the newest secret; the
\* packet counter is left as it is.
Decap(k) ==
    /\ k \in decaps
    /\ decaps' = decaps \ {k}
    /\ key' = [hs |-> k, ratchets |-> 0] /\ counter' = 0 /\ keyLeft' = KeyTtl
    /\ UNCHANGED <<pageVars, jobs, wireVars, place, lastSeq, seqLeft, armed, verified, banned>>

\* generateSeal and fetch
Send(i, p, asset, seq) ==
    /\ place[i] = "none"
    /\ seal' = [seal EXCEPT ![i] = [page |-> p, asset |-> asset, key |-> pageKey[p], seq |-> seq]]
    /\ \E offset \in Offsets : age' = [age EXCEPT ![i] = offset]
    /\ place' = [place EXCEPT ![i] = "wire"]
    /\ UNCHANGED <<uses, resent>>

\* The Interrogate button: whatever the asset, the request takes the next
\* number, and the button stays enabled while the call runs.
Click(p, asset, i) ==
    /\ pageKey[p] # 0
    /\ Send(i, p, asset, idx[p] + 1)
    /\ jobs' = jobs \cup {[page |-> p, id |-> i, try |-> 1, reply |-> "none"]}
    /\ UNCHANGED <<pageVars, decaps, serverVars, armed, verified, banned>>

\* sniperFilter and microStallMiddleware: a banned address has its socket
\* destroyed, which makes the page's fetch throw; others wait out the stall.
Arrive(i) ==
    /\ place[i] = "wire"
    /\ IF IpOf[seal[i].page] \in banned
       THEN /\ place' = [place EXCEPT ![i] = "done"]
            /\ jobs' = {j \in jobs : j.id # i \/ j.reply # "none"}
       ELSE /\ place' = [place EXCEPT ![i] = "stalled"]
            /\ UNCHANGED jobs
    /\ UNCHANGED <<pageVars, decaps, wireVars, serverVars, armed, verified, banned>>

\* The same request is delivered once more.
Resend(i) ==
    /\ place[i] = "done"
    /\ place' = [place EXCEPT ![i] = "wire"]
    /\ resent' = TRUE
    /\ UNCHANGED <<pageVars, jobs, decaps, seal, age, uses, serverVars, armed, verified, banned>>

\* The handler is done with request i and answers, if the page still waits.
Reply(i, answer) ==
    /\ place' = [place EXCEPT ![i] = "done"]
    /\ jobs' = {IF j.id = i /\ j.reply = "none"
                THEN [page |-> j.page, id |-> j.id, try |-> j.try, reply |-> answer]
                ELSE j : j \in jobs}

\* The PoW gate in front of an asset.  verifyEntropySeal asks for Argon2 every
\* time: it looks up the rhythm trust of 'default', which no rhythm session has.
GateAnswer(i) == IF armed /\ IpOf[seal[i].page] \notin verified THEN "pow" ELSE "served"

Wallet(i) ==
    /\ place[i] = "stalled" /\ seal[i].asset = "wallet"
    /\ Reply(i, GateAnswer(i))
    /\ UNCHANGED <<pageVars, decaps, wireVars, serverVars, armed, verified, banned>>

NoSession(i) ==
    /\ place[i] = "stalled" /\ seal[i].asset = "enclave"
    /\ keyLeft = 0
    /\ Reply(i, "pow")
    /\ UNCHANGED <<pageVars, decaps, wireVars, serverVars, armed, verified, banned>>

Consumed(i) == lastSeq > 0 /\ seal[i].seq <= lastSeq

\* REPLAY_ATTACK: its answer is not ENTROPY_SEAL_INVALID, so a page goes on to
\* the proof of work as for any other refusal.
Replay(i) ==
    /\ place[i] = "stalled" /\ seal[i].asset = "enclave"
    /\ keyLeft > 0 /\ Consumed(i)
    /\ banned' = banned \cup {IpOf[seal[i].page]}
    /\ Reply(i, "pow")
    /\ UNCHANGED <<pageVars, decaps, wireVars, serverVars, armed, verified>>

Fresh_AnyAge(i) == age[i] >= -Skew
Fresh(i) == age[i] >= -Skew /\ age[i] <= Window

NextInLine(i) == seal[i].seq = lastSeq + 1

\* verifyEntropySeal: fresh, next in line, signed with the session's key.
Valid(i) == /\ Fresh(i)
            /\ NextInLine(i)
            /\ key = [hs |-> seal[i].key, ratchets |-> 0]

Consume_AfterGate(i) ==
    IF GateAnswer(i) = "served" THEN lastSeq' = lastSeq + 1 /\ seqLeft' = SeqTtl
    ELSE UNCHANGED <<lastSeq, seqLeft>>
\* The number is consumed before the PoW gate is asked.
Consume(i) == lastSeq' = lastSeq + 1 /\ seqLeft' = SeqTtl

Refuse(i) ==
    /\ place[i] = "stalled" /\ seal[i].asset = "enclave"
    /\ keyLeft > 0 /\ ~Consumed(i) /\ ~Valid(i)
    /\ Reply(i, "invalid")
    /\ UNCHANGED <<pageVars, decaps, wireVars, serverVars, armed, verified, banned>>

\* Every RatchetAt packets the server hashes its key with the noise of the
\* request; that write renews the session's ttl.
Accept(i) ==
    /\ place[i] = "stalled" /\ seal[i].asset = "enclave"
    /\ keyLeft > 0 /\ ~Consumed(i) /\ Valid(i)
    /\ IF counter + 1 >= RatchetAt
       THEN /\ key' = [hs |-> key.hs, ratchets |-> key.ratchets + 1]
            /\ counter' = 0 /\ keyLeft' = KeyTtl
       ELSE /\ counter' = counter + 1
            /\ UNCHANGED <<key, keyLeft>>
    /\ Consume(i)
    /\ uses' = [uses EXCEPT ![i] = uses[i] + 1]
    /\ Reply(i, GateAnswer(i))
    /\ UNCHANGED <<pageVars, decaps, seal, age, resent, armed, verified, banned>>

\* The page takes its answer.  Success advances packetIndex to the number this
\* call used; a seal refused, or any refusal of a retry, ends the call.
Receive(j) ==
    /\ j \in jobs /\ j.reply # "none"
    /\ \/ /\ j.reply = "served"
          /\ idx' = [idx EXCEPT ![j.page] = seal[j.id].seq]
       \/ /\ j.reply = "invalid" \/ (j.reply = "pow" /\ j.try = 2)
          /\ UNCHANGED idx
    /\ jobs' = jobs \ {j}
    /\ UNCHANGED <<pageKey, loads, decaps, wireVars, place, serverVars, armed, verified, banned>>

\* The page solves the challenge, is verified and retries under the number
\* after the one it used.
SolveAndRetry(j, i) ==
    /\ j \in jobs /\ j.reply = "pow" /\ j.try = 1
    /\ verified' = verified \cup {IpOf[j.page]}
    /\ Send(i, j.page, seal[j.id].asset, seal[j.id].seq + 1)
    /\ jobs' = (jobs \ {j}) \cup {[page |-> j.page, id |-> i, try |-> 2, reply |-> "none"]}
    /\ UNCHANGED <<pageVars, decaps, serverVars, armed, banned>>

\* A fetch or the proof of work throws: the catch ends the call.
Abandon(j) ==
    /\ j \in jobs
    /\ jobs' = jobs \ {j}
    /\ UNCHANGED <<pageVars, decaps, wireVars, place, serverVars, armed, verified, banned>>

\* 35 s after the start the server arms itself, for good.
Arm ==
    /\ ~armed /\ armed' = TRUE
    /\ UNCHANGED <<pageVars, jobs, decaps, wireVars, place, serverVars, verified, banned>>

\* verifiedPoW forgets an address after five minutes.
PowLapses(ip) ==
    /\ ip \in verified /\ verified' = verified \ {ip}
    /\ UNCHANGED <<pageVars, jobs, decaps, wireVars, place, serverVars, armed, banned>>

\* Time left of an entry, 0 once it has expired.
Down(left) == IF left = 0 THEN 0 ELSE left - 1

\* One unit of time, on the server's clock.
Tick ==
    /\ age' = [i \in SealIds |->
                 IF place[i] = "none" \/ age[i] > Window THEN age[i] ELSE age[i] + 1]
    /\ keyLeft' = Down(keyLeft)
    /\ seqLeft' = Down(seqLeft)
    /\ lastSeq' = IF seqLeft' = 0 THEN 0 ELSE lastSeq
    /\ UNCHANGED <<pageVars, jobs, decaps, seal, place, uses, resent, key, counter,
                   armed, verified, banned>>

Next ==
    \/ \E p \in Pages : PageLoad(p) \/ ModeChange(p)
    \/ \E k \in decaps : Decap(k)
    \/ \E p \in Pages, asset \in Assets, i \in SealIds : Click(p, asset, i)
    \/ \E i \in SealIds : \/ Arrive(i) \/ Resend(i) \/ Wallet(i)
                          \/ NoSession(i) \/ Replay(i) \/ Refuse(i) \/ Accept(i)
    \/ \E j \in jobs : \/ Receive(j) \/ Abandon(j)
                       \/ \E i \in SealIds : SolveAndRetry(j, i)
    \/ Arm
    \/ \E ip \in Ips : PowLapses(ip)
    \/ Tick

Spec == Init /\ [][Next]_vars
-------------------------------------------------------------------------------
TypeOK ==
    /\ pageKey \in [Pages -> Nat] /\ idx \in [Pages -> Nat]
    /\ loads \in Nat /\ decaps \in SUBSET Nat
    /\ jobs \in SUBSET Job
    /\ \A j \in jobs : place[j.id] # "none"
    /\ seal \in [SealIds -> SealRecord \cup {NoSeal}]
    /\ age \in [SealIds -> Int] /\ uses \in [SealIds -> Nat]
    /\ place \in [SealIds -> {"none", "wire", "stalled", "done"}]
    /\ \A i \in SealIds : place[i] # "none" => seal[i] \in SealRecord
    /\ resent \in BOOLEAN /\ armed \in BOOLEAN
    /\ key \in [hs : Nat, ratchets : Nat] /\ counter \in Nat
    /\ keyLeft \in 0..KeyTtl /\ seqLeft \in 0..SeqTtl /\ lastSeq \in Nat
    /\ verified \in SUBSET Ips /\ banned \in SUBSET Ips

\* Anti-replay (lines 723-770): a seal opens the enclave once, however often,
\* late or out of order it is delivered, across handshakes, ratchets and the
\* expiry of the packet counter, which is why its ttl must exceed the time a
\* seal stays fresh.
SealAcceptedOnce == \A i \in SealIds : uses[i] <= 1

\* Nor do two seals that are still fresh pass under one number.
FreshSeqsDistinct ==
    \A i, j \in SealIds :
        (/\ i # j /\ uses[i] > 0 /\ uses[j] > 0
         /\ age[i] <= Window /\ age[j] <= Window) => seal[i].seq # seal[j].seq

\* What makes both inductive: while an accepted seal is fresh, the counter has
\* not been forgotten since and has not gone back below it.
SeqRemembered ==
    \A i \in SealIds : uses[i] > 0 =>
        /\ place[i] # "none"
        /\ age[i] <= Window => /\ lastSeq >= seal[i].seq
                               /\ seqLeft > 0 /\ seqLeft + age[i] + Skew >= SeqTtl

\* "a legitimate retry at the current seq is never mislabeled": an address is
\* banned only when some request was delivered twice.
HonestNotBanned == banned # {} => resent
===============================================================================
