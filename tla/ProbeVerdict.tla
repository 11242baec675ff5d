----------------------------- MODULE ProbeVerdict -----------------------------
(***************************************************************************)
(* ChainProbe composed with the gateway's decisions: what an agent that    *)
(* asks about the probed chain right after a poll is told.  The feed       *)
(* between the two, and the age of its records, is the subject of Feed.    *)
(***************************************************************************)
EXTENDS ChainProbe, Verdict

CONSTANT Chain  \* the probed chain, which selects the thresholds

\* The record get_safe finds, as fresh as it can be.
Record == IF metric = NoMetric THEN None
          ELSE [p99 |-> metric.p99, stall |-> metric.stall, age |-> 0]

ToldSafe == Safe(Chain, Record, None)

OutagePoll == rtts # <<>> /\ Latest = Penalty
FastPoll   == rtts # <<>> /\ Latest <= ElevatedMs(Chain) /\ Latest < Penalty

\* A chain none of whose endpoints ever answers again ends up unsafe for good,
\* whatever its windows held before (lines 248-297 and get_safe 724-725).
OutageEndsUnsafe == <>[]OutagePoll => <>[](~ToldSafe)

\* A chain that answers fast from some poll on ends up safe for good: neither
\* flag outlives the windows that raised it.
RecoveryEndsSafe == <>[]FastPoll => <>[]ToldSafe
===============================================================================
