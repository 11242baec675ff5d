----------------------------- MODULE ShadowFilter -----------------------------
(***************************************************************************)
(* The shadow filter of src/gateway/src/middleware/shadowFilter.ts, for    *)
(* one address: every request is let through at once and classified later, *)
(* and a record with enough malicious verdicts throttles the next ones.    *)
(*                                                                         *)
(* Records are objects: a classification that is still to run keeps the    *)
(* one it was started with, even when the map holds another by then.       *)
(***************************************************************************)
EXTENDS Integers, FiniteSets

CONSTANTS
    ThrottleAfter,   \* THROTTLE_AFTER
    MaxRecords,      \* bound: records made in a behaviour
    MaxSeen          \* bound: requests a record counts

ASSUME ShadowAssumption == {ThrottleAfter, MaxRecords, MaxSeen} \subseteq Nat \ {0}

RecordIds == 1..MaxRecords

VARIABLES
    made,      \* records made so far
    current,   \* the record in shadowRecords, 0 for none
    quiet,     \* lastSeen is more than WINDOW_MS ago
    rec,       \* of each record: requests, botHits, throttled
    waiting    \* classifications of each record that are still to run

shadowVars == <<made, current, quiet, rec, waiting>>

ShadowInit ==
    /\ made = 0 /\ current = 0 /\ quiet = FALSE
    /\ rec = [r \in RecordIds |-> [requests |-> 0, botHits |-> 0, throttled |-> FALSE]]
    /\ waiting = [r \in RecordIds |-> 0]
-------------------------------------------------------------------------------
Renewed == current = 0 \/ quiet

\* A request that is not exempt
ShadowRequest ==
    LET r == IF Renewed THEN made + 1 ELSE current
    IN  /\ r <= MaxRecords /\ rec[r].requests < MaxSeen
        /\ made' = IF Renewed THEN r ELSE made
        /\ current' = r /\ quiet' = FALSE
        /\ rec' = [rec EXCEPT ![r].requests = @ + 1]
        /\ waiting' = IF rec[r].throttled THEN waiting ELSE [waiting EXCEPT ![r] = @ + 1]

HitRecord_Current(r) == current
HitRecord(r) == r

\* setImmediate: the request is classified, by the metrics of now.
Classified(r, hit) ==
    LET t == HitRecord(r)
    IN  /\ waiting[r] > 0 /\ waiting' = [waiting EXCEPT ![r] = @ - 1]
        /\ rec' = IF ~hit \/ t = 0 THEN rec
                  ELSE [rec EXCEPT ![t].botHits = @ + 1,
                                   ![t].throttled = @ \/ rec[t].botHits + 1 >= ThrottleAfter]
        /\ UNCHANGED <<made, current, quiet>>

Silence == quiet' = TRUE /\ UNCHANGED <<made, current, rec, waiting>>

\* POST /api/admin/clear-shadow
ClearShadow == current' = 0 /\ UNCHANGED <<made, quiet, rec, waiting>>

ShadowNext ==
    \/ ShadowRequest
    \/ \E r \in RecordIds, hit \in BOOLEAN : Classified(r, hit)
    \/ Silence
    \/ ClearShadow

ShadowSpec == ShadowInit /\ [][ShadowNext]_shadowVars
-------------------------------------------------------------------------------
\* A caller that came back after a minute of silence or a clearing starts
\* clean: what throttles it are its requests since then, though verdicts on
\* older ones are still arriving.
ThrottledByItsOwn ==
    \A r \in RecordIds :
        /\ rec[r].botHits + waiting[r] <= rec[r].requests
        /\ rec[r].throttled <=> rec[r].botHits >= ThrottleAfter
===============================================================================
