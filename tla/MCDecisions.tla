------------------------------ MODULE MCDecisions ------------------------------
(* The two desks that decide on what they read: the handlers of the x402       *)
(* gateway on one reading of the feed, on both sides of every threshold, and   *)
(* the trust decisions of the Silicon DNA server on one caller.                *)
(* They share no state; a behaviour runs one of them.                          *)
EXTENDS VerdictTable, TrustDesk, TLC

VARIABLE desk

MCChains == {"base", "arbitrum", "optimism", "casper"}
MCMetrics ==
    [p99 : {10000, 20000, 20001, 50000, 50001, 100001, 200001, 500000, 1000000},
     stall : 0..2, age : {0, 30, 31, 60, 61}]
MCRatios == {None, 0, 10, 11, 30, 31}
MCHealths == [base : MCRatios, arbitrum : MCRatios]

\* The server's metrics of a quiet, an ordinary, a busy and a mixed moment
MomentSet == {[rho |-> "low", variance |-> "zero", entropy |-> "low"],
              [rho |-> "mid", variance |-> "low", entropy |-> "medium"],
              [rho |-> "high", variance |-> "natural", entropy |-> "high"],
              [rho |-> "mid", variance |-> "zero", entropy |-> "medium"]}
\* Headers clean, one step off, two off, a puppet
OddSetSet == {{}, {"platform"}, {"noFetchMode", "noClientHints"}, {"puppet"}}
TrustSymmetry == Permutations(Wallets) \cup Permutations(Hashes)

\* The desk that is closed keeps to one state.
MCInit ==
    /\ desk \in {"verdicts", "trust"}
    /\ TableInit /\ TrustInit
    /\ IF desk = "trust" THEN asked = "casper" /\ reading = None
                         ELSE moment.rho = "low"

MCNext ==
    /\ UNCHANGED desk
    /\ \/ desk = "verdicts" /\ TableNext /\ UNCHANGED trustVars
       \/ desk = "trust" /\ TrustNext /\ UNCHANGED tableVars

MCSpec == MCInit /\ [][MCNext]_<<desk, tableVars, trustVars>>
===============================================================================
