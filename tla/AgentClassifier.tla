---------------------------- MODULE AgentClassifier ----------------------------
(***************************************************************************)
(* The three-class classifier of src/gateway/src/services/                 *)
(* agentClassifier.ts and the header check it is given (checkConsistency,  *)
(* src/gateway/server.ts), over the bands their comparisons tell apart.    *)
(***************************************************************************)
EXTENDS Integers

RhoBands      == {"high", "mid", "low"}                     \* > 0.6, >= 0.3, below
VarianceBands == {"natural", "zero", "low", "chaotic"}
EntropyBands  == {"high", "medium", "low"}
UaKinds       == {"malicious", "agent", "browser", "other"}

\* What headers can give away, and what each costs; "puppet" is a puppeteer or
\* selenium header.
Oddities == {"noFetchMode", "platform", "noClientHints", "puppet"}
Cost == [o \in Oddities |-> CASE o = "noFetchMode" -> 40 [] o = "platform" -> 50
                              [] o = "noClientHints" -> 30 [] o = "puppet" -> 100]

Frankenstein(odd) ==
    (IF "noFetchMode" \in odd THEN Cost["noFetchMode"] ELSE 0)
        + (IF "platform" \in odd THEN Cost["platform"] ELSE 0)
        + (IF "noClientHints" \in odd THEN Cost["noClientHints"] ELSE 0)
        + (IF "puppet" \in odd THEN Cost["puppet"] ELSE 0)

When(cond, points) == IF cond THEN points ELSE 0

\* The evidence e: rho, variance, entropy, ua, frank, pow
Human(e) ==
    When(e.rho = "high", 30) + When(e.variance = "natural", 20) + When(e.entropy = "high", 15)
        + When(e.ua = "browser", 15) + When(e.frank = 0, 10) + When(e.pow, 10)

Agent(e) ==
    When(e.rho = "mid", 15) + When(e.variance = "low", 20) + When(e.entropy = "medium", 10)
        + When(e.ua = "agent", 35) + When(e.pow, 10)

Bot(e) ==
    When(e.rho = "low", 25) + When(e.variance = "zero", 30) + When(e.variance = "chaotic", 15)
        + When(e.entropy = "low", 10) + When(e.ua = "malicious", 40)
        + (IF e.frank >= 100 THEN 30 ELSE e.frank \div 10)

\* classifyAgent: the class and its confidence, part out of total
Classify(e) ==
    LET h == Human(e)  a == Agent(e)  b == Bot(e)
        sum   == h + a + b
        total == IF sum = 0 THEN 1 ELSE sum
    IN  [class |-> IF b > h /\ b > a THEN "MALICIOUS_BOT" ELSE IF a > h THEN "LEGIT_AGENT" ELSE "HUMAN",
         part  |-> IF b > h /\ b > a THEN b ELSE IF a > h THEN a ELSE h,
         total |-> total]

\* What the shadow filter counts as a hit: confidence > 0.6
ConfidentBot(c) == c.class = "MALICIOUS_BOT" /\ 10 * c.part > 6 * c.total
===============================================================================
