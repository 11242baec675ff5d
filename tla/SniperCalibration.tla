--------------------------- MODULE SniperCalibration ---------------------------
(***************************************************************************)
(* How the sniper filter of src/gateway/server.ts learns its variance      *)
(* cutoff: what it passes is fed to the drift model, whose threshold       *)
(* becomes the cutoff of the next score.                                   *)
(*                                                                         *)
(* Variances are in units of 1/81 ms^2, the model's threshold in halves of *)
(* them, cutoffs in hundredths of a ms^2.                                  *)
(***************************************************************************)
EXTENDS DriftModel, SniperScore

CONSTANTS
    Rhythms,       \* what callers send: sequences of nine intervals
    InitCutoff,    \* liveRules.sigma2 at the start
    Slack,         \* the smallest change that is taken over
    Calibrations   \* what /api/admin/calibrate sets

ASSUME CalibrationAssumption ==
    /\ \A iv \in Rhythms : Len(iv) = 9 /\ Variance(iv) \in Values
    /\ {InitCutoff} \cup Calibrations \subseteq Nat /\ Slack \in Nat \ {0}
    /\ 81 * InitCutoff <= 100 * Ceil
    /\ (100 * Ceil) % 81 = 0   \* the ceiling is whole hundredths

VARIABLES
    sigma2,      \* liveRules.sigma2
    calibrated   \* it is what an operator set

calibVars == <<driftVars, sigma2, calibrated>>

Scored(iv, headers) == Blocked(iv, headers, sigma2)

CalibInit == DriftInit /\ sigma2 = InitCutoff /\ calibrated = FALSE
-------------------------------------------------------------------------------
\* toFixed(2), of halves of 1/81: no threshold is halfway between hundredths.
Hundredths(t) == (100 * t + 81) \div 162

Adapted == Hundredths(Threshold')

\* The cutoff after a sample: a difference of exactly 0.1 is above or below it as
\* the two numbers happen to be in binary.
Learnt ==
    LET far == Size(Adapted - sigma2)
    IN  IF cnt' < Warmup \/ far < Slack THEN {sigma2}
        ELSE IF far = Slack THEN {sigma2, Adapted} ELSE {Adapted}

\* The end of sniperFilter: only what was not blocked is learnt from.
PassRequest(iv) ==
    /\ \E headers \in SUBSET BrowserHeaders : ~Scored(iv, headers)
    /\ Sample(Variance(iv))
    /\ sigma2' \in Learnt
    /\ calibrated' = (calibrated /\ sigma2' = sigma2)

\* POST /api/admin/calibrate
Calibrate(value) == sigma2' = value /\ calibrated' = TRUE /\ UNCHANGED driftVars

CalibNext ==
    \/ \E iv \in Rhythms : PassRequest(iv)
    \/ \E value \in Calibrations : Calibrate(value)

CalibSpec == CalibInit /\ [][CalibNext]_calibVars
-------------------------------------------------------------------------------
\* A crowd's rhythms cannot teach the filter to block a browser: one that sends
\* all its headers and whose variance is four times the ceiling of the cutoff
\* passes in every state the cutoff is learnt in, however periodic it is.
LooseBrowserPasses ==
    ~calibrated => \A iv \in Rhythms :
        Variance(iv) >= 4 * Ceil => ~Scored(iv, BrowserHeaders)
===============================================================================
