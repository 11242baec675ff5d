------------------------------ MODULE Percentile ------------------------------
(***************************************************************************)
(* The latency statistics of src/probe/multi_chain_probe.py.               *)
(* Latencies are integers in milliseconds.  A percentile is a rational, so *)
(* Pct returns it in hundredths of a millisecond: with q an integer        *)
(* percentage the interpolation weight is an exact number of hundredths.   *)
(***************************************************************************)
EXTENDS Integers, Sequences, FiniteSets, SequencesExt

\* The k-th smallest of the elements of s at these places, counted from 1:
\* sorted(...)[k - 1].
OrderStat(s, places, k) ==
    CHOOSE v \in {s[i] : i \in places} :
        /\ Cardinality({i \in places : s[i] < v}) < k
        /\ Cardinality({i \in places : s[i] <= v}) >= k

\* _pct: linear interpolation between the two order statistics around index
\* q * (n - 1).  The empty list, for which _pct returns 0, never reaches it.
Pct(s, places, q) ==
    LET n    == Cardinality(places)
        pos  == q * (n - 1)
        low  == OrderStat(s, places, (pos \div 100) + 1)
        high == OrderStat(s, places, IF (pos \div 100) + 2 > n THEN n ELSE (pos \div 100) + 2)
    IN  100 * low + (high - low) * (pos % 100)

Answered(s, penalty) == {i \in DOMAIN s : s[i] < penalty}

\* Percentiles are taken over the answered polls; only a window in which no
\* poll was answered falls back to the synthetic penalty values.
RealOrAll(s, penalty) ==
    IF Answered(s, penalty) = {} THEN DOMAIN s ELSE Answered(s, penalty)

\* append to a collections.deque(maxlen = bound)
Push(dq, x, bound) ==
    LET s == Append(dq, x) IN IF Len(s) > bound THEN Tail(s) ELSE s
===============================================================================
