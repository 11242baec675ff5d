--------------------------------- MODULE Feed ---------------------------------
(***************************************************************************)
(* The path of a measurement to an answer: probe threads and the revert    *)
(* thread append records to feed.jsonl through the WSS distributor, and    *)
(* the x402 gateway reads the tail of that file for every answer and, in   *)
(* its surge-pricing daemon, for the price of the answers.                 *)
(***************************************************************************)
EXTENDS Verdict, SequencesExt, FiniteSets

CONSTANTS
    Chains,    \* the chains that are probed and asked about
    Metrics,   \* the [p99, stall] pairs a probe can publish
    Ratios,    \* revert percentages the revert thread can measure
    TailLen,   \* records in the last 256 KB of the feed
    TickSecs,  \* length of a clock step, in seconds
    MaxAge     \* ages saturate here, beyond every threshold

ASSUME FeedAssumption ==
    /\ Metrics \subseteq [p99 : Nat, stall : 0..2]
    /\ Ratios \subseteq 0..100 /\ None \notin Ratios
    /\ TailLen \in Nat \ {0} /\ TickSecs \in Nat \ {0}
    /\ MaxAge \in Nat /\ MaxAge > 60 + TickSecs

VARIABLES
    tail,      \* the newest TailLen records, oldest first: of a metric
               \* [type, chain, p99, stall, age], of health [type, base, arbitrum]
    probing,   \* chains whose probe thread is running
    ratios,    \* RevertRatioThread._ratios: last known ratio or None
    price,     \* multiplier in the x402 payment challenge
    measured   \* seconds since a chain was last measured: no code state,
               \* the truth its answers are held against

feedVars == <<tail, probing, ratios, price, measured>>

FeedInit ==
    /\ tail = <<>>
    /\ probing = Chains
    /\ ratios = [base |-> None, arbitrum |-> None]
    /\ price = 1
    /\ measured = [c \in Chains |-> MaxAge]

-------------------------------------------------------------------------------
\* _read_latest: the last record of each kind among the newest ones.
NewestMetric(c) ==
    LET i == SelectLastInSeq(tail, LAMBDA e : e.type = "metric" /\ e.chain = c)
    IN  IF i = 0 THEN None
        ELSE [p99 |-> tail[i].p99, stall |-> tail[i].stall, age |-> tail[i].age]

NewestHealth ==
    LET i == SelectLastInSeq(tail, LAMBDA e : e.type = "health")
    IN  IF i = 0 THEN None
        ELSE [base |-> tail[i].base, arbitrum |-> tail[i].arbitrum]

\* _log appends; a record that is pushed out of the last 256 KB is not read again.
Log(entry) ==
    LET s == Append(tail, entry)
    IN  tail' = IF Len(s) > TailLen THEN Tail(s) ELSE s

\* A probe thread publishes what it measured.
Publish(c, m) ==
    /\ c \in probing
    /\ Log([type |-> "metric", chain |-> c, p99 |-> m.p99, stall |-> m.stall, age |-> 0])
    /\ measured' = [measured EXCEPT ![c] = 0]
    /\ UNCHANGED <<probing, ratios, price>>

\* One turn of RevertRatioThread._loop: a chain whose RPCs fail keeps its last
\* ratio, and nothing is published while no ratio was ever measured.
PublishHealth(measuredNow) ==
    LET updated == [c \in {"base", "arbitrum"} |->
                      IF measuredNow[c] = None THEN ratios[c] ELSE measuredNow[c]]
    IN  /\ ratios' = updated
        /\ IF \E c \in {"base", "arbitrum"} : updated[c] # None
           THEN Log([type |-> "health", base |-> updated.base, arbitrum |-> updated.arbitrum])
           ELSE UNCHANGED tail
        /\ UNCHANGED <<probing, price, measured>>

\* An exception in ChainProbe._loop, which catches none, ends the thread.
ProbeDies(c) ==
    /\ c \in probing
    /\ probing' = probing \ {c}
    /\ UNCHANGED <<tail, ratios, price, measured>>

\* The distributor process restarts with its probes; the feed file stays.
Restart ==
    /\ probing' = Chains
    /\ ratios' = [base |-> None, arbitrum |-> None]
    /\ UNCHANGED <<tail, price, measured>>

PriceNow == IF "base" \in Chains THEN Surge(NewestMetric("base"), NewestHealth)
            ELSE Surge(None, NewestHealth)

PriceDaemon_NeverLowers ==
    /\ price' = IF PriceNow \in {1, 3, 10} /\ PriceNow > price THEN PriceNow ELSE price
    /\ UNCHANGED <<tail, probing, ratios, measured>>
\* One turn of _surge_price_daemon: an exception leaves the price as it is.
PriceDaemon ==
    /\ price' = IF PriceNow = None THEN price ELSE PriceNow
    /\ UNCHANGED <<tail, probing, ratios, measured>>

Older1(age) == IF age + TickSecs > MaxAge THEN MaxAge ELSE age + TickSecs

Tick ==
    /\ tail' = [i \in DOMAIN tail |->
                  IF tail[i].type = "metric"
                  THEN [tail[i] EXCEPT !.age = Older1(@)] ELSE tail[i]]
    /\ measured' = [c \in Chains |-> Older1(measured[c])]
    /\ UNCHANGED <<probing, ratios, price>>

FeedNext ==
    \/ \E c \in Chains, m \in Metrics : Publish(c, m)
    \/ \E r \in [{"base", "arbitrum"} -> Ratios \cup {None}] : PublishHealth(r)
    \/ \E c \in Chains : ProbeDies(c)
    \/ Restart
    \/ PriceDaemon
    \/ Tick

\* The daemon thread catches every exception and turns every 10 s.
FeedSpec == FeedInit /\ [][FeedNext]_feedVars /\ WF_feedVars(PriceDaemon)
-------------------------------------------------------------------------------

Visible(c) == NewestMetric(c) # None

\* A green light rests on a measurement at most 30 s old: always for
\* /v1/preflight, and for /v1/safe and the demo while a record of the chain is
\* still in the tail they read.
GreenNeedsMeasurement ==
    \A c \in Chains :
        \/ measured[c] <= 30
        \/ /\ Preflight(c, NewestMetric(c), NewestHealth) # "PASS"
           /\ Visible(c) => /\ ~Safe(c, NewestMetric(c), NewestHealth)
                            /\ ~DemoSafe(c, NewestMetric(c))

\* A price level the feed keeps asking for is charged in the end, up or down.
PriceFollowsFeed ==
    \A v \in {1, 3, 10} : <>[](PriceNow = v) => <>[](price = v)
===============================================================================
