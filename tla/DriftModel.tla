------------------------------ MODULE DriftModel ------------------------------
(***************************************************************************)
(* The drift-adaptive cutoff of the timing variance                        *)
(* (src/gateway/src/services/driftModel.ts): the P2 estimator of a         *)
(* quantile with its five markers, and the clamped threshold on top of it. *)
(*                                                                         *)
(* A marker is moved to a height the parabolic formula gives if it lies    *)
(* strictly between the neighbours, and otherwise to one on the line to a  *)
(* neighbour: any height from one neighbour to the other.  Positions are   *)
(* exact; desired ones are in units of 1/(2*Den).                          *)
(***************************************************************************)
EXTENDS Integers

CONSTANTS
    Values,      \* finite samples
    Num, Den,    \* the quantile p = Num / Den
    MaxSamples,  \* bound
    Warmup,
    Floor, Ceil

ASSUME DriftAssumption ==
    /\ Values \subseteq Int /\ Values # {}
    /\ Num \in Nat \ {0} /\ Den \in Nat \ {0} /\ Num < Den
    /\ MaxSamples \in Nat /\ Warmup \in Nat /\ 5 <= Warmup
    /\ Floor \in Int /\ Ceil \in Int /\ Floor <= Ceil

VARIABLES
    cnt,
    first,   \* init, kept sorted, until five samples are there
    m,       \* the markers: heights q and positions n
    status

driftVars == <<cnt, first, m, status>>

DriftInit ==
    /\ cnt = 0 /\ first = [i \in 0..4 |-> 0] /\ status = "warmup"
    /\ m = [q |-> [i \in 0..4 |-> 0], n |-> [i \in 0..4 |-> i + 1]]

\* np[i] after c samples
Desired(i, c) ==
    CASE i = 1 -> 2 * Den + 4 * Num + (c - 5) * Num
      [] i = 2 -> 2 * Den + 8 * Num + (c - 5) * 2 * Num
      [] i = 3 -> 6 * Den + 4 * Num + (c - 5) * (Den + Num)
-------------------------------------------------------------------------------
\* The buffer of the first samples, sorted: x goes in at place k.
Placed(x, k) ==
    [i \in 0..4 |-> IF i < k THEN first[i] ELSE IF i = k THEN x
                    ELSE IF i <= cnt THEN first[i - 1] ELSE first[i]]

Fits(x, k) ==
    /\ \A i \in 0..(k - 1) : first[i] <= x
    /\ \A i \in k..(cnt - 1) : x < first[i]

\* The cell of x, and the extremes moved to it.
CellOf(x, q) ==
    IF x < q[0] THEN 0 ELSE IF x >= q[4] THEN 3
    ELSE CHOOSE k \in 0..3 : q[k] <= x /\ x < q[k + 1]

Located(x) ==
    LET k == CellOf(x, m.q)
    IN  [q |-> [i \in 0..4 |-> IF i = 0 /\ x < m.q[0] THEN x
                               ELSE IF i = 4 /\ x >= m.q[4] THEN x ELSE m.q[i]],
         n |-> [i \in 0..4 |-> IF i > k THEN m.n[i] + 1 ELSE m.n[i]]]

Up(i, s, c) == Desired(i, c) - 2 * Den * s.n[i] >= 2 * Den /\ s.n[i + 1] - s.n[i] > 1
Down_NoGap(i, s, c) == Desired(i, c) - 2 * Den * s.n[i] <= -2 * Den
Down(i, s, c) == Desired(i, c) - 2 * Den * s.n[i] <= -2 * Den /\ s.n[i - 1] - s.n[i] < -1

\* An interior marker that lags or leads moves one place, to height h.
Heights(i, s, c) ==
    IF Up(i, s, c) \/ Down(i, s, c)
    THEN {h \in Values : s.q[i - 1] <= h /\ h <= s.q[i + 1]} ELSE {s.q[i]}

Adjusted(i, s, c, h) ==
    [q |-> [s.q EXCEPT ![i] = h],
     n |-> [s.n EXCEPT ![i] = IF Up(i, s, c) THEN s.n[i] + 1
                              ELSE IF Down(i, s, c) THEN s.n[i] - 1 ELSE s.n[i]]]

\* DriftAdaptiveThreshold.observe, on top of P2Quantile.observe; shift is what
\* the Page-Hinkley test says.
Status(c, shift) == IF c < Warmup THEN "warmup" ELSE IF shift THEN "drift" ELSE "stable"

Collect(x, k, shift) ==
    /\ cnt < 5 /\ k \in 0..cnt /\ Fits(x, k)
    /\ cnt' = cnt + 1 /\ first' = Placed(x, k)
    /\ m' = IF cnt = 4 THEN [m EXCEPT !.q = first'] ELSE m
    /\ status' = Status(cnt', shift)

Observe(x, shift) ==
    LET c  == cnt + 1
        s0 == Located(x)
    IN  /\ cnt >= 5 /\ cnt < MaxSamples
        /\ \E h1 \in Heights(1, s0, c) :
             LET s1 == Adjusted(1, s0, c, h1)
             IN  \E h2 \in Heights(2, s1, c) :
                   LET s2 == Adjusted(2, s1, c, h2)
                   IN  \E h3 \in Heights(3, s2, c) : m' = Adjusted(3, s2, c, h3)
        /\ cnt' = c /\ status' = Status(c, shift)
        /\ UNCHANGED first

Sample(x) ==
    \E shift \in BOOLEAN : Observe(x, shift) \/ \E k \in 0..4 : Collect(x, k, shift)

DriftNext == \E x \in Values : Sample(x)

DriftSpec == DriftInit /\ [][DriftNext]_driftVars

Threshold_NoCeil ==
    IF cnt < Warmup \/ 3 * m.q[2] < 2 * Floor THEN 2 * Floor ELSE 3 * m.q[2]
\* The getter, in halves of a unit for the margin of 1.5
Threshold ==
    LET raw == 3 * m.q[2]
    IN  IF cnt < Warmup \/ raw < 2 * Floor THEN 2 * Floor
        ELSE IF raw > 2 * Ceil THEN 2 * Ceil ELSE raw
-------------------------------------------------------------------------------
\* The divisors of the formulas are differences of positions: through any
\* stream the markers stay apart and in order, from the smallest sample to the
\* largest, and so do their heights.
MarkersInOrder ==
    /\ cnt \in 0..(IF MaxSamples > 5 THEN MaxSamples ELSE 5)
    /\ cnt >= 5 => /\ m.n[0] = 1 /\ m.n[4] = cnt
                   /\ \A i \in 0..3 : m.n[i] < m.n[i + 1] /\ m.q[i] <= m.q[i + 1]
===============================================================================
