-------------------------------- MODULE Verdict --------------------------------
(***************************************************************************)
(* The decisions the x402 gateway (src/gateway/x402_gateway.py) derives    *)
(* from the feed: four handlers and the price daemon each read the same    *)
(* records and apply thresholds of their own.                              *)
(*                                                                         *)
(* A metric is [p99, stall, age]: p99 in hundredths of a millisecond, age  *)
(* in seconds since its _ts.  A revert report is [base, arbitrum], each an *)
(* integer percentage or None.  None also stands for a missing record.     *)
(***************************************************************************)
EXTENDS Integers, Sequences

CONSTANT None

L1Chains == {"casper"}

StallMs(chain)    == IF chain \in L1Chains THEN 10000 ELSE 5000
HighMs(chain)     == IF chain \in L1Chains THEN 2000 ELSE 500
ElevatedMs(chain) == IF chain \in L1Chains THEN 1000 ELSE 200

\* Defaults of r = metrics.get(chain, {}): a missing record has p99 0, no
\* stall, and no timestamp, so it is never stale.
P99(m)         == IF m = None THEN 0 ELSE m.p99
Stalled(m)     == m # None /\ m.stall # 0
Older(m, secs) == m # None /\ m.age > secs
AtLeast(m, ms)  == P99(m) >= 100 * ms
Above(m, ms)   == P99(m) > 100 * ms

\* The revert ratio a chain is judged by: only Base and Arbitrum have one.
RevertOf(chain, health) ==
    IF health = None THEN None
    ELSE CASE chain = "base"     -> health.base
           [] chain = "arbitrum" -> health.arbitrum
           [] OTHER              -> None

-------------------------------------------------------------------------------
SafeMaxAge_Preflight == 60
\* Seconds after which get_safe and demo_safe call a record stale.
SafeMaxAge == 30

\* The stall test shared by get_safe, demo_safe and _recommendation: any
\* non-zero flag, spike or creep, or a p99 at the stall threshold.
Halted(chain, m) == Stalled(m) \/ AtLeast(m, StallMs(chain))

\* get_safe: the reason of the first early return, "ok" when there is none.
SafeReason(chain, m, health) ==
    LET rev == RevertOf(chain, health)
        revAtLeast(pct) == rev # None /\ rev >= pct
    IN  IF      Older(m, SafeMaxAge)        THEN "data_stale"
        ELSE IF Halted(chain, m)            THEN "sequencer_stall"
        ELSE IF revAtLeast(30)              THEN "high_revert"
        ELSE IF Above(m, HighMs(chain))     THEN "high_latency"
        ELSE IF revAtLeast(10)              THEN "elevated_revert"
        ELSE IF Above(m, ElevatedMs(chain)) THEN "elevated_latency"
        ELSE "ok"

Safe(chain, m, health) == SafeReason(chain, m, health) = "ok"

\* demo_safe: the free answer, without revert ratios and the elevated tier.
DemoSafe(chain, m) ==
    ~Older(m, SafeMaxAge) /\ ~Halted(chain, m) /\ ~Above(m, HighMs(chain))

Preflight_DegradedFirst(chain, m, health) ==
    LET rev == IF RevertOf(chain, health) = None THEN 0 ELSE RevertOf(chain, health)
    IN  IF m # None /\ (Above(m, ElevatedMs(chain)) \/ rev > 10 \/ Older(m, 30))
        THEN "DEGRADED"
        ELSE IF m = None \/ m.stall = 1 THEN "FAIL" ELSE "PASS"
\* _preflight_decision: a missing record counts as 99999 ms old, an unknown
\* revert ratio as 0, and only stall flag 1 is a stall.
Preflight(chain, m, health) ==
    LET rev == IF RevertOf(chain, health) = None THEN 0 ELSE RevertOf(chain, health)
        fail == \/ m = None \/ Older(m, 60)
                \/ m.stall = 1 \/ AtLeast(m, StallMs(chain))
                \/ Above(m, HighMs(chain)) \/ rev > 30
        degraded == Above(m, ElevatedMs(chain)) \/ rev > 10 \/ Older(m, 30)
    IN  IF fail THEN "FAIL" ELSE IF degraded THEN "DEGRADED" ELSE "PASS"

\* One turn of the loop of _recommendation.  rev is what health.get returned:
\* a key that is present with value None makes the comparison raise, unless
\* the latency test before it already decided.
ChainRisk(chain, m, rev) ==
    IF Halted(chain, m)                              THEN "STALL_DETECTED"
    ELSE IF Above(m, HighMs(chain))                  THEN "HIGH_RISK"
    ELSE IF rev = None                               THEN "TypeError"
    ELSE IF rev > 30                                 THEN "HIGH_RISK"
    ELSE IF Above(m, ElevatedMs(chain)) \/ rev > 10  THEN "ELEVATED_RISK"
    ELSE "SAFE_TO_EXECUTE"

\* get_chain passes its chain's ratio on under the key base_revert_ratio, and
\* drops a zero, so that only Base is judged by it.
ChainAdvice(chain, m, health) ==
    LET rev == RevertOf(chain, health)
    IN  ChainRisk(chain, m, IF chain = "base" /\ rev # None THEN rev ELSE 0)

\* get_health: the ratio a chain is judged by in the all-chains answer.
HealthRevert(chain, health) ==
    IF health # None /\ chain \in {"base", "arbitrum"}
    THEN RevertOf(chain, health) ELSE 0

Recommendation_LastWins(order, metrics, health) ==
    LET c == order[Len(order)] IN ChainRisk(c, metrics[c], HealthRevert(c, health))
\* get_health walks the chains in the order of the feed: the first stalled
\* chain or failing comparison ends the loop, otherwise the worst risk wins.
Recommendation(order, metrics, health) ==
    LET risk(i)  == ChainRisk(order[i], metrics[order[i]], HealthRevert(order[i], health))
        ending   == {i \in DOMAIN order : risk(i) \in {"STALL_DETECTED", "TypeError"}}
        risks    == {risk(i) : i \in DOMAIN order}
    IN  IF ending # {}                    THEN risk(CHOOSE i \in ending : \A j \in ending : i <= j)
        ELSE IF "HIGH_RISK" \in risks     THEN "HIGH_RISK"
        ELSE IF "ELEVATED_RISK" \in risks THEN "ELEVATED_RISK"
        ELSE "SAFE_TO_EXECUTE"

\* p99 in ms above which the price triples
SurgeFrom == 200

\* _surge_price: the multiplier from Base's record alone; None stands for
\* the TypeError of comparing a revert ratio that is None.
Surge(m, health) ==
    LET rev == IF health = None THEN 0 ELSE health.base
    IN  IF AtLeast(m, 5000)                        THEN 10
        ELSE IF rev = None                         THEN None
        ELSE IF rev >= 30                          THEN 10
        ELSE IF Above(m, SurgeFrom) \/ rev > 10    THEN 3
        ELSE 1
===============================================================================
