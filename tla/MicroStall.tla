------------------------------ MODULE MicroStall ------------------------------
(***************************************************************************)
(* microStallMiddleware of src/gateway/server.ts, for one address: a       *)
(* toxic request is held up for a random time while the filter is armed,   *)
(* and the delays are correlated with the caller's reaction gaps.          *)
(*                                                                         *)
(* A delay is the number of the request held up, a gap the number of the   *)
(* request it reacts to; what the correlation says of them is left open.   *)
(***************************************************************************)
EXTENDS Integers, Sequences

CONSTANTS
    Window,   \* pairs an evaluation takes
    MaxReqs   \* bound: requests in a behaviour

ASSUME StallAssumption == Window \in Nat \ {0} /\ MaxReqs \in Nat \ {0}

VARIABLES
    stallArmed,   \* sniperArmed
    reqs,         \* requests so far
    record,       \* stallHistory: the record of the address
    inFlight,     \* requests that were held up and have not finished
    stallBanned,
    judged,       \* what the last evaluation correlated
    calm          \* the caller never overlapped two requests nor paused

stallVars == <<stallArmed, reqs, record, inFlight, stallBanned, judged, calm>>

NoRecord == [known |-> FALSE, delays |-> <<>>, gaps |-> <<>>, lastReq |-> 0]

StallInit ==
    /\ stallArmed = FALSE /\ reqs = 0 /\ record = NoRecord /\ inFlight = {}
    /\ stallBanned = FALSE /\ judged = [delays |-> <<>>, gaps |-> <<>>] /\ calm = TRUE
-------------------------------------------------------------------------------
\* A gap is kept when there is a delay it can answer and it is neither a pause
\* of thirty seconds nor too short to be measured; "paused" stands for both.
KeepsGap_Always(paused) == record.lastReq # 0 /\ ~paused
KeepsGap(paused) ==
    record.lastReq # 0 /\ ~paused /\ Len(record.delays) > Len(record.gaps)

Seen(paused) ==
    [record EXCEPT !.known = TRUE, !.lastReq = reqs + 1,
                   !.gaps = IF KeepsGap(paused) THEN Append(@, record.lastReq) ELSE @]

Recent(s) == IF Len(s) <= Window THEN s ELSE SubSeq(s, Len(s) - Window + 1, Len(s))

Verdicts == {"none", "static", "grey", "natural"}

\* A request arrives, its gap is noted and the pairs are judged: "static" kills
\* and bans.  Anything else lets it through, and holds it up while the filter is
\* armed if its headers are toxic (sniperFilter) or the verdict is grey.
StalledRequest(paused, toxic, verdict) ==
    LET r    == Seen(paused)
        due  == Len(r.gaps) >= Window
        held == stallArmed /\ verdict # "static" /\ (toxic \/ verdict = "grey")
    IN  /\ ~stallBanned /\ reqs < MaxReqs /\ reqs' = reqs + 1
        /\ calm' = (calm /\ inFlight = {} /\ ~paused)
        /\ due <=> verdict # "none"
        /\ judged' = IF due THEN [delays |-> Recent(r.delays), gaps |-> Recent(r.gaps)] ELSE judged
        /\ stallBanned' = (verdict = "static")
        /\ record' = IF verdict = "static" THEN NoRecord
                     ELSE IF due THEN [r EXCEPT !.delays = <<>>, !.gaps = <<>>] ELSE r
        /\ inFlight' = IF held THEN inFlight \cup {reqs'} ELSE inFlight
        /\ UNCHANGED stallArmed

\* res.once("finish")
Finish(i) ==
    /\ i \in inFlight /\ inFlight' = inFlight \ {i}
    /\ record' = IF record.known THEN [record EXCEPT !.delays = Append(@, i)] ELSE record
    /\ UNCHANGED <<stallArmed, reqs, stallBanned, judged, calm>>

\* The caller hangs up: the response never finishes.
HangUp(i) ==
    /\ i \in inFlight /\ inFlight' = inFlight \ {i}
    /\ UNCHANGED <<stallArmed, reqs, record, stallBanned, judged, calm>>

\* The record expires or is evicted.
ForgetStalls ==
    record' = NoRecord /\ UNCHANGED <<stallArmed, reqs, inFlight, stallBanned, judged, calm>>

StallArms ==
    stallArmed' = ~stallArmed /\ UNCHANGED <<reqs, record, inFlight, stallBanned, judged, calm>>

StallUnban ==
    /\ stallBanned /\ stallBanned' = FALSE
    /\ UNCHANGED <<stallArmed, reqs, record, inFlight, judged, calm>>

StallNext ==
    \/ \E paused, toxic \in BOOLEAN, verdict \in Verdicts : StalledRequest(paused, toxic, verdict)
    \/ \E i \in inFlight : Finish(i)
    \/ \E i \in inFlight : HangUp(i)
    \/ ForgetStalls
    \/ StallArms
    \/ StallUnban

StallSpec == StallInit /\ [][StallNext]_stallVars
-------------------------------------------------------------------------------
\* Whatever arming, hang-ups, evictions and bans come between, a caller that
\* sends one request at a time and never pauses is judged by its own rhythm:
\* every gap is set against the delay it reacted to.
PairsAligned == calm => judged.delays = judged.gaps
===============================================================================
