------------------------------- MODULE RpcGateway -------------------------------
(***************************************************************************)
(* The two gates in front of paid and proxied calls: /rpc/{chain} of       *)
(* src/gateway/rpc_gateway.py and SiliconDnaGateMiddleware of              *)
(* src/gateway/x402_gateway.py.  Both ask the Silicon DNA server whether   *)
(* the caller is banned, the first also how long ago it measured, and both *)
(* wait for the answer while other requests go on.  One caller is modelled; *)
(* the cache of health is shared by all.                                   *)
(*                                                                         *)
(* Times are whole steps; a caller's answer under way is remembered as it  *)
(* was when the server gave it.                                            *)
(***************************************************************************)
EXTENDS Integers

CONSTANTS
    Calls,          \* requests under way at once
    BanTtl,         \* BAN_CACHE_TTL
    HealthTtl,      \* CACHE_TTL
    LookupTimeout,  \* of each phase of a lookup: connecting, sending, reading;
    HealthTimeout,  \* of the ban list, and of the health
    Stale,          \* the 30 s of _derive_verdict
    Operational     \* the 60 s of getHealthStatus

ASSUME GatewayAssumption ==
    /\ {BanTtl, HealthTtl, LookupTimeout, HealthTimeout, Stale, Operational} \subseteq Nat \ {0}
    /\ LookupTimeout < BanTtl /\ HealthTimeout < HealthTtl /\ Stale < Operational

VARIABLES
    listed,       \* bannedIPs.has(ip), on the server
    settled,      \* time since it last changed
    measured,     \* time since lastJitterTs
    banCache,     \* _ban_cache[ip]: what was answered, and the time it is good for
    healthCache,  \* _health_cache, as the verdict that follows from it
    call          \* of each request: where it is, how long it has waited, what for, ...

gatewayVars == <<listed, settled, measured, banCache, healthCache, call>>

None == "none"
Oldest == Operational + HealthTtl
CapTo(n, top) == IF n > top THEN top ELSE n

\* What a cache holds; an entry past its ttl is as none.
Empty == [answer |-> None, left |-> 0]
Kept(answer, left) == IF left = 0 THEN Empty ELSE [answer |-> answer, left |-> left]

\* stage: idle; ban, dna, health: waiting for the server; body: waiting for the
\* caller; refused, forwarded, failed: answered.  waited: since the lookup began;
\* age: since the server answered it.  blind: the lookup failed.
Idle == [stage |-> "idle", waited |-> 0, age |-> 0, answer |-> None, blind |-> FALSE,
         write |-> FALSE]

GatewayInit ==
    /\ listed = FALSE /\ settled = BanTtl /\ measured = Oldest
    /\ banCache = Empty /\ healthCache = Empty
    /\ call = [c \in Calls |-> Idle]
-------------------------------------------------------------------------------
\* What the gateway makes of an answer, by the age of the measurement in it
RpcVerdict_StaleFirst(age) ==
    IF age > Stale THEN "DEGRADED" ELSE IF age >= Operational THEN "FAIL" ELSE "PASS"
\* getHealthStatus, then _derive_verdict
RpcVerdict(age) ==
    IF age >= Operational THEN "FAIL" ELSE IF age > Stale THEN "DEGRADED" ELSE "PASS"

Good(cache) == cache.left > 0

GoodFor_Arrival(ttl, waited) == ttl
\* A cache entry carries the time its lookup began.
GoodFor(ttl, waited) == IF waited >= ttl THEN 0 ELSE ttl - waited

Entry(ttl, c) == Kept(call[c].answer, GoodFor(ttl, call[c].waited))

\* On to a stage that has waited for nothing yet
Anew(r, stage) == [r EXCEPT !.stage = stage, !.waited = 0, !.age = 0, !.answer = None]
Goes(c, stage) == call' = [call EXCEPT ![c] = Anew(@, stage)]
GoesBlind(c, stage) == call' = [call EXCEPT ![c] = [Anew(@, stage) EXCEPT !.blind = TRUE]]

\* _is_banned, from the cache or by asking
RpcCall(c) ==
    /\ call[c].stage = "idle"
    /\ IF ~Good(banCache) THEN Goes(c, "ban")
       ELSE Goes(c, IF banCache.answer = "yes" THEN "refused" ELSE "body")
    /\ UNCHANGED <<listed, settled, measured, banCache, healthCache>>

\* SiliconDnaGateMiddleware, which keeps nothing
PaidCall(c) ==
    /\ call[c].stage = "idle" /\ Goes(c, "dna")
    /\ UNCHANGED <<listed, settled, measured, banCache, healthCache>>

\* The server answers: /api/check-ip, /api/health.
ServerAnswers(c) ==
    /\ call[c].stage \in {"ban", "dna", "health"} /\ call[c].answer = None
    /\ call' = [call EXCEPT ![c].answer = IF call[c].stage = "health" THEN RpcVerdict(measured)
                                          ELSE IF listed THEN "yes" ELSE "no"]
    /\ UNCHANGED <<listed, settled, measured, banCache, healthCache>>

\* The answer on the ban arrives.
BanKnown(c) ==
    /\ call[c].stage \in {"ban", "dna"} /\ call[c].answer # None
    /\ banCache' = IF call[c].stage = "ban" THEN Entry(BanTtl, c) ELSE banCache
    /\ Goes(c, IF call[c].answer = "yes" THEN "refused"
               ELSE IF call[c].stage = "ban" THEN "body" ELSE "forwarded")
    /\ UNCHANGED <<listed, settled, measured, healthCache>>

\* Or nothing does: an unanswered lookup lets the caller through.
BanUnknown(c) ==
    /\ call[c].stage \in {"ban", "dna"}
    /\ GoesBlind(c, IF call[c].stage = "ban" THEN "body" ELSE "forwarded")
    /\ UNCHANGED <<listed, settled, measured, banCache, healthCache>>

\* Writes are held back on FAIL only.
Onward(write, verdict) == IF write /\ verdict = "FAIL" THEN "refused" ELSE "forwarded"

\* request.json(), whenever the caller has sent it all, then _get_health
BodyArrives(c, write) ==
    /\ call[c].stage = "body"
    /\ call' = [call EXCEPT ![c] = [@ EXCEPT !.write = write,
                    !.stage = IF Good(healthCache)
                              THEN Onward(write, healthCache.answer)
                              ELSE "health"]]
    /\ UNCHANGED <<listed, settled, measured, banCache, healthCache>>

BodyBroken(c) ==
    /\ call[c].stage = "body" /\ Goes(c, "failed")
    /\ UNCHANGED <<listed, settled, measured, banCache, healthCache>>

HealthKnown(c) ==
    /\ call[c].stage = "health" /\ call[c].answer # None
    /\ healthCache' = Entry(HealthTtl, c)
    /\ Goes(c, Onward(call[c].write, call[c].answer))
    /\ UNCHANGED <<listed, settled, measured, banCache>>

\* "unknown" is not operational: writes fail closed.
HealthUnknown(c) ==
    /\ call[c].stage = "health" /\ Goes(c, Onward(call[c].write, "FAIL"))
    /\ UNCHANGED <<listed, settled, measured, banCache, healthCache>>

Answered(c) ==
    /\ call[c].stage \in {"refused", "forwarded", "failed"}
    /\ call' = [call EXCEPT ![c] = Idle]
    /\ UNCHANGED <<listed, settled, measured, banCache, healthCache>>
-------------------------------------------------------------------------------
\* The server bans and pardons, and its jitter worker measures.
ListChanges ==
    /\ listed' = ~listed /\ settled' = 0
    /\ UNCHANGED <<measured, banCache, healthCache, call>>

ServerMeasures ==
    measured' = 0 /\ UNCHANGED <<listed, settled, banCache, healthCache, call>>

GatewayRestart ==
    /\ banCache' = Empty /\ healthCache' = Empty
    /\ call' = [c \in Calls |-> Idle]
    /\ UNCHANGED <<listed, settled, measured>>

Older(cache) == IF Good(cache) THEN Kept(cache.answer, cache.left - 1) ELSE cache
Longest(stage) == IF stage = "health" THEN HealthTimeout ELSE LookupTimeout

\* How long what was asked for is kept: by the middleware, not at all.
Ttl(stage) == CASE stage = "ban" -> BanTtl [] stage = "health" -> HealthTtl [] OTHER -> 0

AgedRequest(r) ==
    IF r.stage \notin {"ban", "dna", "health"} THEN r
    ELSE [r EXCEPT !.waited = CapTo(@ + 1, Ttl(r.stage)),
                   !.age = IF r.answer = None THEN 0 ELSE @ + 1]

\* A step of time.  An answer is read within one timeout of its being given;
\* the phases before it, each with a timeout of its own, may take any time here.
GatewayTick ==
    /\ \A c \in Calls : call[c].stage \in {"ban", "dna", "health"} /\ call[c].answer # None
                            => call[c].age < Longest(call[c].stage)
    /\ settled' = CapTo(settled + 1, BanTtl) /\ measured' = CapTo(measured + 1, Oldest)
    /\ banCache' = Older(banCache) /\ healthCache' = Older(healthCache)
    /\ call' = [c \in Calls |-> AgedRequest(call[c])]
    /\ UNCHANGED listed

GatewayNext ==
    \/ \E c \in Calls : RpcCall(c)
    \/ \E c \in Calls : PaidCall(c)
    \/ \E c \in Calls : ServerAnswers(c)
    \/ \E c \in Calls : BanKnown(c)
    \/ \E c \in Calls : BanUnknown(c)
    \/ \E c \in Calls, write \in BOOLEAN : BodyArrives(c, write)
    \/ \E c \in Calls : BodyBroken(c)
    \/ \E c \in Calls : HealthKnown(c)
    \/ \E c \in Calls : HealthUnknown(c)
    \/ \E c \in Calls : Answered(c)
    \/ ListChanges
    \/ ServerMeasures
    \/ GatewayRestart
    \/ GatewayTick

GatewaySpec == GatewayInit /\ [][GatewayNext]_gatewayVars
-------------------------------------------------------------------------------
Becomes(c, stages) == call[c].stage # call'[c].stage /\ call'[c].stage \in stages

\* Whatever lookups overlap and in whichever order their answers come, a ban or
\* a pardon older than the cache's ttl is what both gates go by, unless the
\* lookup failed.
BansReachGates ==
    [][\A c \in Calls : settled = BanTtl /\ call[c].stage \in {"idle", "ban", "dna"} =>
          /\ Becomes(c, {"body", "forwarded"}) => ~listed \/ call'[c].blind
          /\ Becomes(c, {"refused"}) => listed]_gatewayVars

\* No transaction is forwarded when the server's last measurement stopped being
\* operational longer ago than the health cache keeps an answer.
WritesNeedHealth ==
    [][\A c \in Calls : Becomes(c, {"forwarded"}) /\ call'[c].write => measured < Oldest]_gatewayVars
===============================================================================
