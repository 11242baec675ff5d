------------------------------ MODULE SniperScore ------------------------------
(***************************************************************************)
(* The score of a request's rhythm and headers (scoreBotRequest and its    *)
(* statistics, src/gateway/src/sniper.ts), exactly, for the nine whole    *)
(* intervals a request log holds when it is first judged.                  *)
(*                                                                         *)
(* With n intervals of sum S, everything is in units that are whole: the   *)
(* deviations n*x - S, the variance times n*n.  A cutoff is in hundredths  *)
(* of ms^2.                                                                *)
(***************************************************************************)
EXTENDS Integers, Sequences, FiniteSets, FiniteSetsExt

BlockThreshold == 60

SumUpTo(n, f(_)) == FoldSet(LAMBDA i, acc : acc + f(i), 0, 1..n)

Size(n) == IF n < 0 THEN -n ELSE n

\* n times the deviation of each interval from the mean
Dev(iv) ==
    LET sum == SumUpTo(Len(iv), LAMBDA i : iv[i])
    IN  [i \in DOMAIN iv |-> Len(iv) * iv[i] - sum]

\* computeVariance, times n * n
Variance(iv) ==
    IF Len(iv) < 2 THEN 0
    ELSE LET d == Dev(iv) IN SumUpTo(Len(iv), LAMBDA i : d[i] * d[i]) \div Len(iv)

\* intervalEntropy: the bins of the deviations that are not empty.  Nine
\* intervals make four bins, and less than two bits; less than half a bit only
\* when one bin holds them all (eight and one make 0.503).
Bins == 4
FilledBins(iv) ==
    LET d   == Dev(iv)
        top == Max({1} \cup {Size(d[i]) : i \in DOMAIN iv})
    IN  {Min({Bins - 1, (Size(d[i]) * Bins) \div top}) : i \in DOMAIN iv}

EntropyScore(iv) == IF Cardinality(FilledBins(iv)) = 1 THEN 30 ELSE 12

\* computeAutocorrelation above num / 10
CorrelatedAbove(iv, num) ==
    LET d    == Dev(iv)
        sum2 == SumUpTo(Len(iv), LAMBDA i : d[i] * d[i])
        lag  == SumUpTo(Len(iv) - 1, LAMBDA i : d[i] * d[i + 1])
    IN  sum2 = 0 \/ 10 * lag * Len(iv) > num * (Len(iv) - 1) * sum2

\* variance < cutoff, in the same units
Below(iv, cutoff) == 100 * Variance(iv) < Len(iv) * Len(iv) * cutoff

VarianceScore(iv, cutoff) ==
    IF Below(iv, cutoff) THEN 40 ELSE IF Below(iv, 4 * cutoff) THEN 20 ELSE 0

AutocorrScore(iv) ==
    IF CorrelatedAbove(iv, 7) THEN 25 ELSE IF CorrelatedAbove(iv, 4) THEN 12 ELSE 0

\* What a request carries of "browserUA", "acceptLanguage", "secFetchMode" and
\* "secFetchSite"
BrowserHeaders == {"browserUA", "acceptLanguage", "secFetchMode", "secFetchSite"}

HeaderScore(headers) ==
    (IF "browserUA" \in headers THEN 0 ELSE 20) + (IF "acceptLanguage" \in headers THEN 0 ELSE 10)
        + (IF "secFetchMode" \in headers THEN 0 ELSE 15)
        + (IF "secFetchSite" \in headers THEN 0 ELSE 10)

\* scoreBotRequest
Blocked(iv, headers, cutoff) ==
    VarianceScore(iv, cutoff) + EntropyScore(iv) + AutocorrScore(iv) + HeaderScore(headers)
        >= BlockThreshold
===============================================================================
