------------------------------ MODULE ChainProbe ------------------------------
(***************************************************************************)
(* One ChainProbe thread of src/probe/multi_chain_probe.py: every          *)
(* PROBE_SEC it polls up to three RPC endpoints of a chain, keeps three    *)
(* latency windows and publishes a PHOENIX_METRIC record.                  *)
(***************************************************************************)
EXTENDS Percentile

CONSTANTS
    Window,        \* polls behind p95 and p99 (60)
    Window1m,      \* polls behind the stall threshold (30)
    Window5m,      \* polls behind the slow-creep baseline (150)
    MinSamples,    \* polls before anything is published (5)
    CreepSamples,  \* polls before slow creep is judged (30)
    Penalty,       \* PENALTY_MS, recorded when no endpoint answers (5000)
    StallMin,      \* floor of the stall threshold (500; mantle 800)
    CreepTenths,   \* CREEP_RATIO in tenths (15; mantle 20)
    CreepMin,      \* CREEP_MIN_MS (200; mantle 350)
    Rtts,          \* latencies an endpoint's answer can take
    NoMetric       \* nothing published yet

ASSUME ProbeAssumption ==
    /\ Window1m \in Nat /\ Window \in Nat /\ Window5m \in Nat
    /\ 0 < Window1m /\ Window1m <= Window /\ Window <= Window5m
    /\ MinSamples \in Nat /\ CreepSamples \in Nat
    /\ Penalty \in Nat /\ StallMin \in Nat
    /\ CreepTenths \in Nat /\ CreepTenths >= 10 /\ CreepMin \in Nat
    /\ Rtts \subseteq Nat
    /\ NoMetric \notin [p99 : Nat, p95 : Nat, p95_1m : Nat, stall : 0..2]

VARIABLES
    rtts, rtts_1m, rtts_5m,  \* the three deques
    metric,                  \* the last record handed to the distributor
    turn                     \* parity of the polls: every record has a new ts

probeVars == <<rtts, rtts_1m, rtts_5m, metric, turn>>

ProbeInit ==
    /\ rtts = <<>> /\ rtts_1m = <<>> /\ rtts_5m = <<>>
    /\ metric = NoMetric /\ turn = 0

\* The consensus latency of a poll: the fastest answer, or the penalty.
PollRtt(samples) ==
    IF samples = {} THEN Penalty ELSE CHOOSE x \in samples : \A y \in samples : x <= y

P95_WithPenalties(window) == Pct(window, DOMAIN window, 95)
\* p95 of the last minute, in hundredths of a millisecond
P95(window) == Pct(window, RealOrAll(window, Penalty), 95)

StallFlag_CreepAnyRatio(rtt, w1m, w5m) ==
    IF 100 * rtt > 2 * P95(w1m) /\ rtt > StallMin THEN 1
    ELSE IF Len(w5m) >= CreepSamples /\ P95(w5m) > 100 * CreepMin THEN 2 ELSE 0
\* The spike test against the last minute, then the creep test of the last
\* minute against the last five.
StallFlag(rtt, w1m, w5m) ==
    LET spike == /\ 100 * rtt > 2 * P95(w1m)
                 /\ rtt > StallMin
        creep == /\ Len(w5m) >= CreepSamples
                 /\ 10 * P95(w1m) > CreepTenths * P95(w5m)
                 /\ P95(w5m) > 100 * CreepMin
    IN  IF spike THEN 1 ELSE IF creep THEN 2 ELSE 0

MetricOf_FlagLatches(rtt, w, w1m, w5m) ==
    [p99 |-> Pct(w, RealOrAll(w, Penalty), 99), p95 |-> P95(w), p95_1m |-> P95(w1m),
     stall |-> IF metric # NoMetric /\ metric.stall # 0 THEN metric.stall
               ELSE StallFlag(rtt, w1m, w5m)]
\* The published record.  Spread, the forecast and the nanosecond copy of the
\* latency are left out: no decision below reads them.
MetricOf(rtt, w, w1m, w5m) ==
    [p99    |-> Pct(w, RealOrAll(w, Penalty), 99),
     p95    |-> P95(w),
     p95_1m |-> P95(w1m),
     stall  |-> StallFlag(rtt, w1m, w5m)]

Poll_DarkKeepsWindow(samples) ==
    LET rtt == PollRtt(samples)
    IN  /\ rtts' = IF samples = {} THEN rtts ELSE Push(rtts, rtt, Window)
        /\ rtts_1m' = Push(rtts_1m, rtt, Window1m)
        /\ rtts_5m' = Push(rtts_5m, rtt, Window5m)
        /\ metric' = IF Len(rtts') >= MinSamples
                     THEN MetricOf(rtt, rtts', rtts_1m', rtts_5m') ELSE metric
        /\ turn' = 1 - turn
\* One turn of _loop: samples are the endpoints that answered in time.
Poll(samples) ==
    LET rtt == PollRtt(samples)
    IN  /\ rtts' = Push(rtts, rtt, Window)
        /\ rtts_1m' = Push(rtts_1m, rtt, Window1m)
        /\ rtts_5m' = Push(rtts_5m, rtt, Window5m)
        /\ metric' = IF Len(rtts') >= MinSamples
                     THEN MetricOf(rtt, rtts', rtts_1m', rtts_5m')
                     ELSE metric
        /\ turn' = 1 - turn

ProbeNext == \E samples \in SUBSET Rtts : Poll(samples)

\* _loop runs until the process ends: the thread keeps polling.  Since turn
\* changes with every poll, that does not mean a chain must answer again.
ProbeSpec == ProbeInit /\ [][ProbeNext]_probeVars /\ WF_probeVars(ProbeNext)
-------------------------------------------------------------------------------
Latest == Last(rtts_1m)

\* a poll answered within the penalty, the only ones the percentiles use
RealIn(window) == {x \in Range(window) : x < Penalty}

Published == metric # NoMetric

\* The poll in which a chain with recent answers goes completely dark is
\* flagged at once: the synthetic penalties of the window do not raise the
\* threshold they are compared with (lines 248-264).
FreshOutageFlagged ==
    (/\ Published /\ Latest = Penalty /\ Penalty > StallMin
     /\ RealIn(rtts_1m) # {}
     /\ \A x \in RealIn(rtts_1m) : 2 * x < Penalty)
    => metric.stall = 1

\* A latency level that has filled the whole five-minute window is the new
\* baseline: no flag, spike or creep, survives it (lines 250-269).
SteadyLevelUnflagged ==
    (Published /\ Len(rtts_5m) = Window5m /\ \E v \in Rtts \cup {Penalty} :
        \A i \in DOMAIN rtts_5m : rtts_5m[i] = v)
    => metric.stall = 0
===============================================================================
