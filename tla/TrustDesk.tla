------------------------------ MODULE TrustDesk ------------------------------
(***************************************************************************)
(* The trust decisions of src/gateway/server.ts for one caller             *)
(* (/api/classify, /api/trust-assessment, /api/agent/verify) and the state *)
(* they read: its rhythm session, the wallet bindings, and what everyone   *)
(* shares, the server's own metrics, the last rhythm correlation and the   *)
(* last TLS risk.                                                          *)
(***************************************************************************)
EXTENDS TrustPolicy, AgentCredentials

CONSTANTS
    Wallets,
    Hashes,         \* behavioural hashes
    NoHash,
    Moments,        \* metrics of a moment: [rho, variance, entropy]
    OddSets,        \* combinations of header oddities callers show
    Levels,         \* what a rhythm check gives, in tenths
    FreeLimit       \* FREE_RATE_LIMIT

ASSUME TrustAssumption ==
    /\ NoHash \notin Hashes /\ OddSets \subseteq SUBSET Oddities
    /\ Moments \subseteq [rho : RhoBands, variance : VarianceBands, entropy : EntropyBands]
    /\ Levels \subseteq 0..10 /\ FreeLimit \in Nat \ {0}

VARIABLES
    moment,     \* currentMetrics and lastSpearmanRho
    tls,        \* lastTlsRisk in hundredths, 0 for none yet
    keyed,      \* the caller's session id has a key
    proven,     \* and its address a verified proof of work
    rhythm,     \* trust of its rhythm session in tenths, 0 for none, or NaN
    byWallet,   \* the wallet bindings of walletBinder.ts
    byHash,
    free,       \* freeRateCounter
    banned

trustVars == <<moment, tls, keyed, proven, rhythm, byWallet, byHash, free, banned>>

TrustInit ==
    /\ moment \in Moments /\ tls = 0
    /\ keyed = FALSE /\ proven = FALSE /\ rhythm = 0
    /\ byWallet = [w \in Wallets |-> NoHash] /\ byHash = [h \in Hashes |-> {}]
    /\ free = 0 /\ banned = FALSE

NaN == -1

\* getTrustStatus: no session and a NaN read alike.
TrustStatus == IF rhythm = NaN THEN 0 ELSE rhythm

\* A request of the caller: its user agent and header oddities.  A missing
\* fetch mode is odd only for a user agent that says Mozilla.
Requests ==
    {q \in [ua : UaKinds, odd : OddSets] : "noFetchMode" \in q.odd => q.ua # "other"}

Evidence(q) ==
    [rho |-> moment.rho, variance |-> moment.variance, entropy |-> moment.entropy,
     ua |-> q.ua, frank |-> Frankenstein(q.odd), pow |-> proven]

\* Wallets that share the behavioural hash of the one named
SharedWallets(w) ==
    IF w \notin Wallets \/ byWallet[w] = NoHash THEN 0 ELSE Cardinality(byHash[byWallet[w]])

Assessed(q, automated, w) ==
    Decision(keyed, automated, Classify(Evidence(q)), Frankenstein(q.odd), TrustStatus,
             SharedWallets(w))
-------------------------------------------------------------------------------
FreeCall == free' = IF free < FreeLimit THEN free + 1 ELSE free
Allowed == free < FreeLimit

\* POST /api/classify changes nothing but the caller's quota.
ClassifyRequest ==
    FreeCall /\ UNCHANGED <<moment, tls, keyed, proven, rhythm, byWallet, byHash, banned>>

\* POST /api/trust-assessment: DENY bans.
Assess(q, automated, w) ==
    /\ FreeCall
    /\ banned' = (banned \/ (Allowed /\ Assessed(q, automated, w) = "DENY"))
    /\ UNCHANGED <<moment, tls, keyed, proven, rhythm, byWallet, byHash>>

\* GET /api/sync-pulse starts the rhythm session over, fully trusted.
SyncPulse ==
    /\ keyed /\ rhythm' = 10
    /\ UNCHANGED <<moment, tls, keyed, proven, byWallet, byHash, free, banned>>

\* POST /api/verify-rhythm, of level d.  The 0.02 a good check adds is at most
\* one tenth; after thirty seconds the decay takes more than there is.
Rechecked(d, paused) ==
    IF paused THEN {0} ELSE IF rhythm = NaN \/ d <= rhythm THEN {IF d < 3 THEN 0 ELSE d}
    ELSE {rhythm, rhythm + 1}

VerifyRhythm(d, paused) ==
    /\ rhythm # 0 /\ rhythm' \in Rechecked(d, paused)
    /\ UNCHANGED <<moment, tls, keyed, proven, byWallet, byHash, free, banned>>

\* A check without a timing divides by zero; the session stays.
VerifyNoTimings ==
    /\ rhythm # 0 /\ rhythm' = NaN
    /\ UNCHANGED <<moment, tls, keyed, proven, byWallet, byHash, free, banned>>

\* A wallet bound again stays on the list of its old hash.
ListedUnder(h, w) == byHash[h] \cup {w}

\* POST /api/wallet/bind of a wallet whose owner signed: h is the hash of the
\* metrics of the moment.
BindWallet(w, h) ==
    /\ byWallet' = [byWallet EXCEPT ![w] = h]
    /\ byHash' = [byHash EXCEPT ![h] = ListedUnder(h, w)]
    /\ UNCHANGED <<moment, tls, keyed, proven, rhythm, free, banned>>

\* POST /api/admin/clear-wallets
ClearWallets ==
    /\ byWallet' = [w \in Wallets |-> NoHash] /\ byHash' = [h \in Hashes |-> {}]
    /\ UNCHANGED <<moment, tls, keyed, proven, rhythm, free, banned>>
-------------------------------------------------------------------------------
\* Around the caller: a jitter batch or another caller's stalls move the
\* metrics, any request through the front the TLS risk.
NewMoment(mo) ==
    moment' = mo /\ UNCHANGED <<tls, keyed, proven, rhythm, byWallet, byHash, free, banned>>

TlsSeen(ja4, ua) ==
    /\ tls' = TlsRisk(ja4, ua)
    /\ UNCHANGED <<moment, keyed, proven, rhythm, byWallet, byHash, free, banned>>

SetSession == keyed' = ~keyed /\ UNCHANGED <<moment, tls, proven, rhythm, byWallet, byHash, free, banned>>
SetProof == proven' = ~proven /\ UNCHANGED <<moment, tls, keyed, rhythm, byWallet, byHash, free, banned>>

\* The quota's minute passes; a ban expires.
Expire ==
    /\ free' = 0 /\ banned' = FALSE
    /\ UNCHANGED <<moment, tls, keyed, proven, rhythm, byWallet, byHash>>

TrustNext ==
    \/ ClassifyRequest
    \/ \E q \in Requests, automated \in BOOLEAN, w \in Wallets \cup {NoHash} : Assess(q, automated, w)
    \/ SyncPulse
    \/ \E d \in Levels, paused \in BOOLEAN : VerifyRhythm(d, paused)
    \/ VerifyNoTimings
    \/ \E w \in Wallets, h \in Hashes : BindWallet(w, h)
    \/ ClearWallets
    \/ \E mo \in Moments : NewMoment(mo)
    \/ \E ja4 \in {"botStack", "noSni", "common"}, ua \in UaKinds : TlsSeen(ja4, ua)
    \/ SetSession
    \/ SetProof
    \/ Expire

TrustSpec == TrustInit /\ [][TrustNext]_trustVars
-------------------------------------------------------------------------------
Presented == [q : Requests, w : Wallets \cup {NoHash}]

\* The two judges agree on the worst: whom the shadow filter would count as a
\* bot is not allowed by an assessment at that moment, whatever its rhythm, its
\* wallets and its session say for it.
ConfidentBotNotAllowed ==
    \A x \in Presented :
        ConfidentBot(Classify(Evidence(x.q))) => Assessed(x.q, FALSE, x.w) # "ALLOW"

\* The soft signals under three quarters
Weak(q, w) ==
    LET c == Classify(Evidence(q))
        s == SoftSignals(c, Frankenstein(q.odd), TrustStatus, SharedWallets(w))
    IN  {id \in Weighed(s) : 4 * s[id].score < 3 * Scale(c)}

\* No soft signal denies, and so bans, on its own: beside the hard signals it
\* takes two weak ones.
OneWeakSignalNeverBans ==
    [][\A x \in Presented :
         ~banned /\ banned' /\ Assess(x.q, FALSE, x.w) =>
            \/ HardFailed(keyed, FALSE, Frankenstein(x.q.odd))
            \/ Cardinality(Weak(x.q, x.w)) >= 2]_trustVars

\* Whatever TLS risk the last request through the front left behind, an agent
\* whose credential verifies is never treated worse than one whose credential
\* does not; it makes no difference whether that one is expired, altered or signed
\* by another than its issuer; and a higher reputation is never worse than a lower
\* one.  The comparison is at one and the same risk, whoever left it.
CredentialNeverHurts ==
    \A odd \in OddSets, a, b \in Claims :
        LET risk == BehaviorRisk(Frankenstein(odd), tls)
        IN  /\ Decided(a, risk) >= Decided(Unverified, risk)
            /\ ~a.valid => Decided(a, risk) = Decided(Unverified, risk)
            /\ a.valid /\ b.valid /\ a.reputation >= b.reputation
                   => Decided(a, risk) >= Decided(b, risk)
===============================================================================
