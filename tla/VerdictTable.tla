----------------------------- MODULE VerdictTable -----------------------------
(***************************************************************************)
(* The decision handlers of the x402 gateway side by side on the same      *)
(* records: every metric and revert report the handlers can read, one      *)
(* after the other.  The handlers keep no state, so a state of this module *)
(* is one reading of the feed.                                             *)
(***************************************************************************)
EXTENDS Verdict

CONSTANTS
    Askable,   \* the chains a client can ask about
    Readings,  \* the metric records a handler can read
    Healths    \* the revert reports

ASSUME TableAssumption ==
    /\ Readings \subseteq [p99 : Nat, stall : 0..2, age : Nat] /\ None \notin Readings
    /\ Healths \subseteq [base : (0..100) \cup {None}, arbitrum : (0..100) \cup {None}]
    /\ None \notin 0..100 \cup Healths

VARIABLES
    asked,    \* the chain a client asks about
    reading,  \* its newest metric record, or None
    report    \* the newest revert report, or None

tableVars == <<asked, reading, report>>

TableInit ==
    /\ asked \in Askable
    /\ reading \in Readings \cup {None}
    /\ report = None

\* the revert thread publishes a report; the chain's record stays
NewReport == report' \in Healths /\ UNCHANGED <<asked, reading>>

\* a client asks about another chain with the same record
AskOther == asked' \in Askable /\ UNCHANGED <<reading, report>>

TableNext == NewReport \/ AskOther

TableSpec == TableInit /\ [][TableNext]_tableVars
-------------------------------------------------------------------------------
\* The three paid answers do not contradict each other: what /v1/safe calls
\* safe on an existing record passes /v1/preflight, and the free check, which
\* knows less, never says unsafe when the paid one says safe.
SafeIsSafeEverywhere ==
    Safe(asked, reading, report) =>
        /\ reading # None => Preflight(asked, reading, report) = "PASS"
        /\ DemoSafe(asked, reading)

Risk(verdict) == CASE verdict = "PASS" -> 0 [] verdict = "DEGRADED" -> 1 [] verdict = "FAIL" -> 2

\* A reading that is worse in every respect: slower, older, flagged when the
\* other is.  Flag 2 (creep) is milder than flag 1 (spike).
WorseThan(x, y) ==
    /\ x.p99 >= y.p99 /\ x.age >= y.age
    /\ \/ x.stall = y.stall \/ y.stall = 0 \/ (x.stall = 1 /\ y.stall = 2)

\* No handler answers a worse reading with a better verdict or a lower price:
\* the early returns are in an order in which none of them hides another.
WorseNeverBetter ==
    reading # None => \A x \in {y \in Readings : WorseThan(y, reading)} :
        /\ Safe(asked, x, report) => Safe(asked, reading, report)
        /\ DemoSafe(asked, x) => DemoSafe(asked, reading)
        /\ Risk(Preflight(asked, x, report)) >= Risk(Preflight(asked, reading, report))
        /\ Surge(reading, report) # None =>
               Surge(x, report) # None /\ Surge(x, report) >= Surge(reading, report)

\* The all-chains recommendation is at least as grave as the advice on any of
\* its chains: what one chain's page calls a stall or high risk cannot be
\* averaged away by a healthy chain before or after it in the feed.
Gravity(advice) ==
    CASE advice = "SAFE_TO_EXECUTE" -> 0 [] advice = "ELEVATED_RISK" -> 1
      [] advice = "HIGH_RISK" -> 2       [] advice = "STALL_DETECTED" -> 3
      [] advice = "TypeError" -> 4
OneChainSpoilsAll ==
    reading # None => \A other \in Askable \ {asked}, x \in Readings :
        LET metrics == [c \in {asked, other} |-> IF c = asked THEN reading ELSE x]
            all     == {Recommendation(<<asked, other>>, metrics, report),
                        Recommendation(<<other, asked>>, metrics, report)}
        IN  \A advice \in all : Gravity(advice) >= Gravity(ChainAdvice(asked, reading, report))

===============================================================================
