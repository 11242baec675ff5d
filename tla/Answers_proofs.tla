---------------------------- MODULE Answers_proofs -----------------------------
(***************************************************************************)
(* From the probe to the verdict: the spikes and stalls of a chain, the    *)
(* feed that the gateway reads back, the tables that answer for it, and    *)
(* the trust desk that decides who gets an answer.  For any windows,       *)
(* pauses, readings, wallets and times.                                    *)
(***************************************************************************)
EXTENDS ChainProbe, Feed, VerdictTable, TrustDesk, FiniteSetTheorems, TLAPS

\* A finite set of naturals that is not empty has a greatest element.
LEMMA FiniteMax ==
    ASSUME NEW S \in SUBSET Nat, IsFiniteSet(S), S # {}
    PROVE  \E m \in S : \A x \in S : x <= m
  <1> DEFINE Unbounded == {T \in FiniteSubsetsOf(S) :
                              T # {} /\ ~ \E m \in T : \A x \in T : x <= m}
  <1>1. S \in FiniteSubsetsOf(S)
    BY DEF FiniteSubsetsOf
  <1>2. SUFFICES ASSUME Unbounded # {} PROVE FALSE
    BY <1>1
  <1>3. PICK T \in Unbounded : \A U \in Unbounded : <<U, T>> \notin StrictSubsetOrdering(S)
    <2>1. Unbounded \subseteq FiniteSubsetsOf(S)
      OBVIOUS
    <2> HIDE DEF Unbounded
    <2> QED BY <1>2, <2>1, FS_StrictSubsetOrderingWellFounded, WFMin
  <1>4. PICK x : x \in T
    OBVIOUS
  <1> DEFINE U == T \ {x}
  <1>5. U \in FiniteSubsetsOf(S) /\ <<U, T>> \in StrictSubsetOrdering(S)
    BY <1>4, FS_Subset DEF FiniteSubsetsOf, StrictSubsetOrdering
  <1>6. U # {}
    BY <1>3, <1>4 DEF FiniteSubsetsOf
  <1>7. PICK m \in U : \A y \in U : y <= m
    BY <1>3, <1>5, <1>6
  <1>8. x \in Nat /\ m \in Nat /\ T \subseteq Nat
    BY <1>3, <1>4, <1>7 DEF FiniteSubsetsOf
  <1>9. \E n \in T : \A y \in T : y <= n
    <2>1. CASE x <= m
      BY <1>7, <1>8, <2>1
    <2>2. CASE m < x
      BY <1>4, <1>7, <1>8, <2>2
    <2> QED BY <1>8, <2>1, <2>2
  <1> QED BY <1>3, <1>9

\* A finite set of naturals that is not empty has a least element.
LEMMA FiniteMin ==
    ASSUME NEW S \in SUBSET Nat, IsFiniteSet(S), S # {}
    PROVE  \E m \in S : \A x \in S : m <= x
  <1> DEFINE Unbounded == {T \in FiniteSubsetsOf(S) :
                              T # {} /\ ~ \E m \in T : \A x \in T : m <= x}
  <1>1. S \in FiniteSubsetsOf(S)
    BY DEF FiniteSubsetsOf
  <1>2. SUFFICES ASSUME Unbounded # {} PROVE FALSE
    BY <1>1
  <1>3. PICK T \in Unbounded : \A U \in Unbounded : <<U, T>> \notin StrictSubsetOrdering(S)
    <2>1. Unbounded \subseteq FiniteSubsetsOf(S)
      OBVIOUS
    <2> HIDE DEF Unbounded
    <2> QED BY <1>2, <2>1, FS_StrictSubsetOrderingWellFounded, WFMin
  <1>4. PICK x : x \in T
    OBVIOUS
  <1> DEFINE U == T \ {x}
  <1>5. U \in FiniteSubsetsOf(S) /\ <<U, T>> \in StrictSubsetOrdering(S)
    BY <1>4, FS_Subset DEF FiniteSubsetsOf, StrictSubsetOrdering
  <1>6. U # {}
    BY <1>3, <1>4 DEF FiniteSubsetsOf
  <1>7. PICK m \in U : \A y \in U : m <= y
    BY <1>3, <1>5, <1>6
  <1>8. x \in Nat /\ m \in Nat /\ m \in T /\ \A y \in T : y \in Nat
    BY <1>4, <1>7 DEF FiniteSubsetsOf
  <1>9. \A y \in T : y = x \/ y \in U
    OBVIOUS
  <1>10. CASE x <= m
    BY <1>3, <1>4, <1>7, <1>8, <1>9, <1>10
  <1>11. CASE m <= x
    BY <1>3, <1>4, <1>7, <1>8, <1>9, <1>11
  <1> QED BY <1>8, <1>10, <1>11

\* Any set of naturals that is not empty has a least element.
LEMMA LeastNatural ==
    ASSUME NEW S \in SUBSET Nat, S # {}
    PROVE  \E m \in S : \A x \in S : m <= x
  <1>1. PICK x : x \in S
    OBVIOUS
  <1> DEFINE below == {y \in S : y <= x}
  <1>2. below \subseteq 0..x /\ x \in Nat /\ x \in below
    <2>1. x \in Nat /\ \A y \in S : y \in Nat
      BY <1>1
    <2>2. \A y \in S : y <= x => y \in 0..x
      BY <2>1
    <2>3. x <= x
      BY <2>1
    <2> QED BY <1>1, <2>1, <2>2, <2>3
  <1>3. IsFiniteSet(below)
    <2>1. IsFiniteSet(0..x)
      BY <1>2, FS_Interval
    <2> HIDE DEF below
    <2> QED BY <1>2, <2>1, FS_Subset
  <1>4. PICK m \in below : \A y \in below : m <= y
    <2>1. below \in SUBSET Nat
      OBVIOUS
    <2> HIDE DEF below
    <2> QED BY <1>2, <1>3, <2>1, FiniteMin
  <1>5. m \in S /\ m \in Nat /\ m <= x
    BY <1>4
  <1>6. \A y \in S : m <= y
    BY <1>2, <1>4, <1>5
  <1> QED BY <1>5, <1>6

\* Products of naturals grow with their factors.
LEMMA MulMono ==
    ASSUME NEW a \in Nat, NEW b \in Nat, NEW x \in Nat, NEW y \in Nat, a <= b, x <= y
    PROVE  a * x \in Nat /\ a * x <= b * y
  <1>1. a * x \in Nat /\ a * x <= b * x
    <2>1. \E k \in Nat : b = a + k
      <3>1. b - a \in Nat /\ b = a + (b - a)
        OBVIOUS
      <3> QED BY <3>1
    <2>2. PICK k \in Nat : b = a + k
      BY <2>1
    <2>3. b * x = a * x + k * x /\ k * x \in Nat /\ a * x \in Nat
      BY <2>2
    <2> QED BY <2>3
  <1>2. b * x \in Nat /\ b * x <= b * y
    <2>1. PICK k \in Nat : y = x + k
      <3>1. y - x \in Nat /\ y = x + (y - x)
        OBVIOUS
      <3> QED BY <3>1
    <2>2. b * y = b * x + b * k /\ b * k \in Nat /\ b * x \in Nat
      BY <2>1
    <2> QED BY <2>2
  <1>3. b * y \in Nat
    OBVIOUS
  <1> QED BY <1>1, <1>2, <1>3

-------------------------------------------------------------------------------
\* ---- The latency windows of a chain (multi_chain_probe.py)

\* The k-th smallest exists: the least value that k of the elements do not exceed.
LEMMA OrderStatIs ==
    ASSUME NEW n \in Nat, NEW s \in [1..n -> Nat], NEW places \in SUBSET (1..n),
           NEW k \in 1..Cardinality(places)
    PROVE  OrderStat(s, places, k) \in {s[i] : i \in places}
  <1> DEFINE values == {s[i] : i \in places}
             upTo(v) == {i \in places : s[i] <= v}
             below(v) == {i \in places : s[i] < v}
             enough == {v \in values : Cardinality(upTo(v)) >= k}
  <1>1. /\ IsFiniteSet(places) /\ Cardinality(places) \in Nat
        /\ \A T \in SUBSET places : IsFiniteSet(T) /\ Cardinality(T) \in Nat
                                    /\ Cardinality(T) <= Cardinality(places)
    <2>1. IsFiniteSet(1..n)
      BY FS_Interval
    <2>2. IsFiniteSet(places)
      BY <2>1, FS_Subset
    <2>3. \A T \in SUBSET places : IsFiniteSet(T) /\ Cardinality(T) <= Cardinality(places)
      BY <2>2, FS_Subset
    <2> QED BY <2>2, <2>3, FS_CardinalityType
  <1>2. \A T \in SUBSET places : IsFiniteSet({s[i] : i \in T})
    <2> SUFFICES ASSUME NEW T \in SUBSET places PROVE IsFiniteSet({s[i] : i \in T})
      OBVIOUS
    <2> DEFINE image == {s[i] : i \in T}
               f == [i \in T |-> s[i]]
    <2>1. f \in Surjection(T, image)
      BY DEF Surjection
    <2>2. IsFiniteSet(T)
      BY <1>1
    <2> HIDE DEF image, f
    <2>3. IsFiniteSet(image)
      BY <2>1, <2>2, FS_Surjection
    <2> QED BY <2>3 DEF image
  <1>3. enough # {}
    <2>1. values \in SUBSET Nat /\ values # {}
      <3>1. places # {}
        BY <1>1, FS_EmptySet
      <3> QED BY <3>1
    <2>2. IsFiniteSet(values)
      BY <1>2
    <2>3. PICK v \in values : \A x \in values : x <= v
      <3> HIDE DEF values
      <3> QED BY <2>1, <2>2, FiniteMax
    <2>4. upTo(v) = places
      BY <2>3
    <2>5. Cardinality(upTo(v)) >= k
      <3>1. Cardinality(places) >= k
        BY <1>1
      <3> HIDE DEF upTo
      <3> QED BY <2>4, <3>1
    <2> QED BY <2>3, <2>5
  <1>4. PICK v \in enough : \A x \in enough : v <= x
    <2>1. enough \in SUBSET Nat
      OBVIOUS
    <2> HIDE DEF enough
    <2> QED BY <1>3, <2>1, LeastNatural
  <1>5. v \in values /\ v \in Nat /\ Cardinality(upTo(v)) >= k
    BY <1>4
  <1>6. Cardinality(below(v)) < k
    <2> SUFFICES ASSUME ~(Cardinality(below(v)) < k) PROVE FALSE
      OBVIOUS
    <2>1. below(v) \in SUBSET places
      OBVIOUS
    <2>2. IsFiniteSet(below(v)) /\ Cardinality(below(v)) \in Nat /\ Cardinality(below(v)) >= k
      <3> HIDE DEF below
      <3> QED BY <1>1, <2>1
    <2>3. below(v) # {}
      <3> HIDE DEF below
      <3> QED BY <2>2, FS_EmptySet
    <2> DEFINE lower == {s[i] : i \in below(v)}
    <2>4. lower \in SUBSET Nat /\ lower # {} /\ IsFiniteSet(lower)
      BY <1>2, <2>1, <2>3
    <2>5. PICK u \in lower : \A x \in lower : x <= u
      <3> HIDE DEF lower
      <3> QED BY <2>4, FiniteMax
    <2>6. u \in values /\ u < v /\ below(v) \subseteq upTo(u) /\ upTo(u) \in SUBSET places
      BY <2>5
    <2>7. Cardinality(upTo(u)) \in Nat /\ Cardinality(below(v)) <= Cardinality(upTo(u))
      <3> HIDE DEF upTo, below
      <3> QED BY <1>1, <2>6, FS_Subset
    <2>8. u \in enough
      BY <2>2, <2>6, <2>7
    <2>9. v <= u /\ u \in Nat
      BY <1>4, <2>4, <2>5, <2>8
    <2> QED BY <1>5, <2>6, <2>9
  <1>7. \E x \in values : Cardinality(below(x)) < k /\ Cardinality(upTo(x)) >= k
    BY <1>5, <1>6
  <1>8. OrderStat(s, places, k) = CHOOSE x \in values : Cardinality(below(x)) < k /\ Cardinality(upTo(x)) >= k
    BY DEF OrderStat
  <1> HIDE DEF values, below, upTo
  <1> QED BY <1>7, <1>8 DEF values

\* A percentile lies between the bounds of the elements it is taken over.
LEMMA PctIs ==
    ASSUME NEW n \in Nat, NEW s \in [1..n -> Nat], NEW places \in SUBSET (1..n), places # {},
           NEW q \in 0..100, NEW lo \in Nat, NEW hi \in Nat,
           \A i \in places : lo <= s[i] /\ s[i] <= hi
    PROVE  /\ Pct(s, places, q) \in Nat
           /\ 100 * lo <= Pct(s, places, q) /\ Pct(s, places, q) <= 100 * hi
  <1> DEFINE card == Cardinality(places)
             pos == q * (card - 1)
             j == (pos \div 100) + 1
             k == IF (pos \div 100) + 2 > card THEN card ELSE (pos \div 100) + 2
             low == OrderStat(s, places, j)
             high == OrderStat(s, places, k)
             r == pos % 100
  <1>1. card \in Nat \ {0}
    <2>1. IsFiniteSet(1..n)
      BY FS_Interval
    <2>2. IsFiniteSet(places)
      BY <2>1, FS_Subset
    <2> QED BY <2>2, FS_EmptySet, FS_CardinalityType
  <1>2. pos \in Nat /\ pos <= 100 * (card - 1)
    <2>1. card - 1 \in Nat /\ q \in Nat /\ q <= 100
      BY <1>1
    <2> HIDE DEF card
    <2> QED BY <2>1, MulMono
  <1> HIDE DEF card, pos
  <1>3. j \in 1..card /\ k \in 1..card /\ r \in 0..99
    <2>1. pos \div 100 \in 0..(card - 1)
      BY <1>1, <1>2
    <2> QED BY <1>1, <1>2, <2>1
  <1> HIDE DEF j, k, r
  <1>4. low \in {s[i] : i \in places} /\ high \in {s[i] : i \in places}
    BY <1>3, OrderStatIs DEF card
  <1>5. low \in Nat /\ high \in Nat /\ lo <= low /\ low <= hi /\ lo <= high /\ high <= hi
    BY <1>4
  <1>6. Pct(s, places, q) = 100 * low + (high - low) * r
    BY DEF Pct, card, pos, j, k, r
  <1> HIDE DEF low, high
  <1>7. r \in Nat /\ 100 - r \in Nat
    BY <1>3
  <1>8. 100 * low + (high - low) * r = (100 - r) * low + r * high
    BY <1>5, <1>7
  <1>9. /\ (100 - r) * lo \in Nat /\ (100 - r) * lo <= (100 - r) * low
        /\ (100 - r) * low \in Nat /\ (100 - r) * low <= (100 - r) * hi
    BY <1>5, <1>7, MulMono
  <1>10. r * lo \in Nat /\ r * lo <= r * high /\ r * high \in Nat /\ r * high <= r * hi
    BY <1>5, <1>7, MulMono
  <1>11. (100 - r) * lo + r * lo = 100 * lo /\ (100 - r) * hi + r * hi = 100 * hi
    BY <1>7
  <1>12. (100 - r) * hi \in Nat /\ r * hi \in Nat
    BY <1>7, MulMono
  <1> QED BY <1>6, <1>8, <1>9, <1>10, <1>11, <1>12
-------------------------------------------------------------------------------
\* What a window may hold: round trips, or the penalty
Latencies == Rtts \cup {Penalty}

\* The last minute is the end of the last five, and once a record is out it is
\* of the newest poll.
ProbeInv ==
    /\ rtts \in Seq(Latencies) /\ rtts_1m \in Seq(Latencies) /\ rtts_5m \in Seq(Latencies)
    /\ Len(rtts) <= Window /\ Len(rtts_1m) <= Window1m /\ Len(rtts_5m) <= Window5m
    /\ Len(rtts_1m) <= Len(rtts_5m)
    /\ \A i \in 1..Len(rtts_1m) : rtts_1m[i] = rtts_5m[i + (Len(rtts_5m) - Len(rtts_1m))]
    /\ metric # NoMetric =>
           /\ Len(rtts) >= MinSamples /\ Len(rtts_1m) >= 1
           /\ metric.stall = StallFlag(Last(rtts_1m), rtts_1m, rtts_5m)

LEMMA ProbeFacts ==
    /\ Window1m \in Nat /\ Window \in Nat /\ Window5m \in Nat
    /\ 0 < Window1m /\ Window1m <= Window /\ Window <= Window5m
    /\ MinSamples \in Nat /\ Penalty \in Nat /\ StallMin \in Nat /\ CreepMin \in Nat
    /\ CreepTenths \in Nat /\ CreepTenths >= 10 /\ Latencies \subseteq Nat
  BY ProbeAssumption DEF Latencies

LEMMA ProbeInvInit == ProbeInit => ProbeInv
  <1> SUFFICES ASSUME ProbeInit PROVE ProbeInv
    OBVIOUS
  <1>1. <<>> \in Seq(Latencies) /\ Len(<<>>) = 0
    OBVIOUS
  <1> QED BY <1>1, ProbeFacts DEF ProbeInit, ProbeInv

LEMMA PollRttIs == ASSUME NEW samples \in SUBSET Rtts PROVE PollRtt(samples) \in Latencies
  <1>1. CASE samples = {}
    BY <1>1 DEF PollRtt, Latencies
  <1>2. CASE samples # {}
    <2>1. samples \in SUBSET Nat
      BY ProbeAssumption
    <2>2. \E m \in samples : \A x \in samples : m <= x
      BY <1>2, <2>1, LeastNatural
    <2> QED BY <1>2, <2>2 DEF PollRtt, Latencies
  <1> QED BY <1>1, <1>2

\* A full deque drops its oldest element.
LEMMA PushIs ==
    ASSUME NEW S, NEW dq \in Seq(S), NEW x \in S, NEW bound \in Nat, bound > 0, Len(dq) <= bound
    PROVE  LET p == Push(dq, x, bound)
               cut == IF Len(dq) = bound THEN 1 ELSE 0
           IN  /\ p \in Seq(S) /\ Len(p) = Len(dq) + 1 - cut /\ p[Len(p)] = x
               /\ \A i \in 1..(Len(p) - 1) : p[i] = dq[i + cut]
  <1> DEFINE s == Append(dq, x)
  <1>1. s \in Seq(S) /\ Len(s) = Len(dq) + 1 /\ s[Len(dq) + 1] = x /\ \A i \in 1..Len(dq) : s[i] = dq[i]
    OBVIOUS
  <1>2. Push(dq, x, bound) = IF Len(s) > bound THEN Tail(s) ELSE s
    BY DEF Push
  <1> HIDE DEF s
  <1>3. Tail(s) \in Seq(S) /\ Len(Tail(s)) = Len(dq) /\ \A i \in 1..Len(dq) : Tail(s)[i] = s[i + 1]
    BY <1>1
  <1>4. CASE Len(dq) = bound
    <2>1. Push(dq, x, bound) = Tail(s) /\ Len(dq) \in Nat /\ Len(dq) > 0
      BY <1>1, <1>2, <1>4
    <2>2. Tail(s)[Len(dq)] = x
      BY <1>1, <1>3, <2>1
    <2>3. \A i \in 1..(Len(dq) - 1) : Tail(s)[i] = dq[i + 1]
      <3>1. \A i \in 1..(Len(dq) - 1) : i \in 1..Len(dq) /\ i + 1 \in 1..Len(dq)
        BY <2>1
      <3> QED BY <1>1, <1>3, <3>1
    <2> QED BY <1>3, <1>4, <2>1, <2>2, <2>3
  <1>5. CASE Len(dq) < bound
    <2>1. Push(dq, x, bound) = s /\ Len(dq) \in Nat
      BY <1>1, <1>2, <1>5
    <2>2. \A i \in 1..Len(dq) : s[i] = dq[i + 0]
      BY <1>1, <2>1
    <2> QED BY <1>1, <1>5, <2>1, <2>2
  <1> QED BY <1>4, <1>5

\* A poll pushes one latency into the three windows and judges the newest.
LEMMA PollKeeps == ASSUME ProbeInv, NEW samples \in SUBSET Rtts, Poll(samples) PROVE ProbeInv'
  <1> DEFINE x == PollRtt(samples)
             n1 == Len(rtts_1m)
             n5 == Len(rtts_5m)
             cut1 == IF n1 = Window1m THEN 1 ELSE 0
             cut5 == IF n5 = Window5m THEN 1 ELSE 0
             cut == IF Len(rtts) = Window THEN 1 ELSE 0
  <1>1. x \in Latencies
    BY PollRttIs
  <1>2. /\ rtts' = Push(rtts, x, Window) /\ rtts_1m' = Push(rtts_1m, x, Window1m)
        /\ rtts_5m' = Push(rtts_5m, x, Window5m)
        /\ metric' = IF Len(rtts') >= MinSamples THEN MetricOf(x, rtts', rtts_1m', rtts_5m')
                     ELSE metric
    BY DEF Poll
  <1>3. /\ rtts \in Seq(Latencies) /\ rtts_1m \in Seq(Latencies) /\ rtts_5m \in Seq(Latencies)
        /\ Len(rtts) <= Window /\ n1 <= Window1m /\ n5 <= Window5m /\ n1 <= n5
        /\ Len(rtts) \in Nat /\ n1 \in Nat /\ n5 \in Nat
    BY DEF ProbeInv
  <1> HIDE DEF x
  <1>4. /\ Window \in Nat /\ Window > 0 /\ Window1m \in Nat /\ Window1m > 0
        /\ Window5m \in Nat /\ Window5m > 0 /\ Window1m <= Window5m
    BY ProbeFacts
  <1> DEFINE m1 == Len(rtts_1m')
             m5 == Len(rtts_5m')
             m == Len(rtts')
  <1>5. rtts' \in Seq(Latencies) /\ m = Len(rtts) + 1 - cut
    BY <1>1, <1>2, <1>3, <1>4, PushIs
  <1>6. /\ rtts_1m' \in Seq(Latencies) /\ m1 = n1 + 1 - cut1 /\ rtts_1m'[m1] = x
        /\ \A i \in 1..(m1 - 1) : rtts_1m'[i] = rtts_1m[i + cut1]
    <2>1. LET p == Push(rtts_1m, x, Window1m)
          IN  /\ p \in Seq(Latencies) /\ Len(p) = n1 + 1 - cut1 /\ p[Len(p)] = x
              /\ \A i \in 1..(Len(p) - 1) : p[i] = rtts_1m[i + cut1]
      BY <1>1, <1>3, <1>4, PushIs
    <2> QED BY <1>2, <2>1
  <1>7. /\ rtts_5m' \in Seq(Latencies) /\ m5 = n5 + 1 - cut5 /\ rtts_5m'[m5] = x
        /\ \A i \in 1..(m5 - 1) : rtts_5m'[i] = rtts_5m[i + cut5]
    <2>1. LET p == Push(rtts_5m, x, Window5m)
          IN  /\ p \in Seq(Latencies) /\ Len(p) = n5 + 1 - cut5 /\ p[Len(p)] = x
              /\ \A i \in 1..(Len(p) - 1) : p[i] = rtts_5m[i + cut5]
      BY <1>1, <1>3, <1>4, PushIs
    <2> QED BY <1>2, <2>1
  <1>8. \A i \in 1..n1 : rtts_1m[i] = rtts_5m[i + (n5 - n1)]
    BY DEF ProbeInv
  <1> DEFINE n == Len(rtts)
  <1>10. /\ (n = Window /\ cut = 1) \/ (n < Window /\ cut = 0)
         /\ (n1 = Window1m /\ cut1 = 1) \/ (n1 < Window1m /\ cut1 = 0)
         /\ (n5 = Window5m /\ cut5 = 1) \/ (n5 < Window5m /\ cut5 = 0)
    BY <1>3, <1>4
  <1>11. n \in Nat /\ n1 \in Nat /\ n5 \in Nat /\ n1 <= n5
    BY <1>3
  <1> HIDE DEF n, n1, n5, m, m1, m5, cut, cut1, cut5
  <1>12. /\ m <= Window /\ m >= n /\ m \in Nat /\ m1 <= Window1m /\ m1 >= 1 /\ m1 \in Nat
         /\ m5 <= Window5m /\ m5 \in Nat /\ m1 <= m5
    <2>1. m <= Window /\ m >= n /\ m \in Nat
      BY <1>4, <1>5, <1>10, <1>11 DEF n
    <2>2. m1 <= Window1m /\ m1 >= 1 /\ m1 \in Nat
      BY <1>4, <1>6, <1>10, <1>11
    <2>3. m5 <= Window5m /\ m5 \in Nat /\ m1 <= m5
      BY <1>4, <1>6, <1>7, <1>10, <1>11
    <2> QED BY <2>1, <2>2, <2>3
  <1>13. ASSUME NEW i \in 1..m1 PROVE rtts_1m'[i] = rtts_5m'[i + (m5 - m1)]
    <2>1. CASE i = m1
      <3>1. i + (m5 - m1) = m5
        BY <1>12, <2>1
      <3> QED BY <1>6, <1>7, <2>1, <3>1
    <2>2. CASE i # m1
      <3>1. i \in 1..(m1 - 1) /\ i + cut1 \in 1..n1
        BY <1>6, <1>10, <1>11, <1>12, <2>2
      <3>2. i + (m5 - m1) \in 1..(m5 - 1) /\ (i + (m5 - m1)) + cut5 = (i + cut1) + (n5 - n1)
        <4>1. cut1 \in Int /\ cut5 \in Int /\ i \in Int /\ i >= 1 /\ i <= m1 - 1
          BY <1>10, <1>12, <2>2
        <4>2. m5 + cut5 = n5 + 1 /\ m1 + cut1 = n1 + 1
          BY <1>6, <1>7, <1>11, <4>1
        <4> QED BY <1>11, <1>12, <4>1, <4>2
      <3>3. rtts_1m'[i] = rtts_1m[i + cut1]
        BY <1>6, <3>1
      <3>4. rtts_5m'[i + (m5 - m1)] = rtts_5m[(i + cut1) + (n5 - n1)]
        BY <1>7, <3>2
      <3> QED BY <1>8, <3>1, <3>3, <3>4
    <2> QED BY <2>1, <2>2
  <1>9. ASSUME metric' # NoMetric
        PROVE  /\ Len(rtts') >= MinSamples
               /\ metric'.stall = StallFlag(Last(rtts_1m'), rtts_1m', rtts_5m')
    <2>1. Len(rtts') >= MinSamples
      <3>1. metric # NoMetric => n >= MinSamples
        BY DEF ProbeInv, n
      <3> QED BY <1>2, <1>9, <1>11, <1>12, <3>1, ProbeFacts DEF m
    <2>2. Last(rtts_1m') = x
      BY <1>6 DEF Last, m1
    <2>3. metric' = MetricOf(x, rtts', rtts_1m', rtts_5m')
      BY <1>2, <2>1
    <2> QED BY <2>1, <2>2, <2>3 DEF MetricOf
  <1> QED BY <1>5, <1>6, <1>7, <1>9, <1>12, <1>13 DEF ProbeInv, m, m1, m5

LEMMA ProbeInvHolds == ProbeSpec => []ProbeInv
  <1>1. ProbeInv /\ [ProbeNext]_probeVars => ProbeInv'
    <2>1. ASSUME ProbeInv, UNCHANGED probeVars PROVE ProbeInv'
      BY <2>1 DEF ProbeInv, probeVars, Last
    <2> QED BY <2>1, PollKeeps DEF ProbeNext
  <1> QED BY <1>1, ProbeInvInit, PTL DEF ProbeSpec

\* The elements a percentile of a window is taken over
LEMMA PlacesAre ==
    ASSUME NEW w \in Seq(Latencies), Len(w) >= 1
    PROVE  LET places == RealOrAll(w, Penalty)
           IN  /\ Len(w) \in Nat /\ w \in [1..Len(w) -> Nat]
               /\ places \in SUBSET (1..Len(w)) /\ places # {}
               /\ (\E i \in 1..Len(w) : w[i] < Penalty) => \A i \in places : w[i] < Penalty
  <1>1. Len(w) \in Nat /\ w \in [1..Len(w) -> Nat] /\ DOMAIN w = 1..Len(w) /\ 1 \in 1..Len(w)
    <2>1. Len(w) \in Nat /\ w \in [1..Len(w) -> Latencies] /\ DOMAIN w = 1..Len(w)
      OBVIOUS
    <2>2. w \in [1..Len(w) -> Nat]
      BY <2>1, ProbeFacts
    <2> QED BY <2>1, <2>2
  <1>2. Answered(w, Penalty) \subseteq 1..Len(w)
    BY <1>1 DEF Answered
  <1>3. (\E i \in 1..Len(w) : w[i] < Penalty) => Answered(w, Penalty) # {}
    BY <1>1 DEF Answered
  <1>4. \A i \in Answered(w, Penalty) : w[i] < Penalty
    BY DEF Answered
  <1> QED BY <1>1, <1>2, <1>3, <1>4 DEF RealOrAll

\* Whatever else the windows hold, the poll in which an answering chain goes
\* dark is flagged as a spike while the last minute still has an answer and every
\* answer in it took less than half the penalty: penalties do not raise the
\* threshold they are held against.
THEOREM FreshOutagesAreFlagged == ProbeSpec => []FreshOutageFlagged
  <1>1. ProbeInv => FreshOutageFlagged
    <2> SUFFICES ASSUME ProbeInv, metric # NoMetric, Last(rtts_1m) = Penalty, Penalty > StallMin,
                        RealIn(rtts_1m) # {}, \A x \in RealIn(rtts_1m) : 2 * x < Penalty
                 PROVE  metric.stall = 1
      BY DEF FreshOutageFlagged, Published, Latest
    <2> DEFINE w == rtts_1m
               places == RealOrAll(w, Penalty)
               top == (Penalty - 1) \div 2
    <2>1. w \in Seq(Latencies) /\ Len(w) >= 1 /\ metric.stall = StallFlag(Penalty, w, rtts_5m)
      BY DEF ProbeInv
    <2>2. /\ Len(w) \in Nat /\ w \in [1..Len(w) -> Nat]
          /\ places \in SUBSET (1..Len(w)) /\ places # {}
          /\ (\E i \in 1..Len(w) : w[i] < Penalty) => \A i \in places : w[i] < Penalty
      BY <2>1, PlacesAre
    <2>3. \E i \in 1..Len(w) : w[i] < Penalty
      BY <2>2 DEF RealIn, Range
    <2>4. \A i \in places : w[i] \in RealIn(w)
      BY <2>2, <2>3 DEF RealIn, Range
    <2> HIDE DEF w, places
    <2>5. \A i \in places : w[i] \in Nat /\ 2 * w[i] < Penalty
      BY <2>2, <2>4 DEF w
    <2>6. Penalty \in Nat /\ Penalty > 0
      BY <2>2, <2>5, ProbeFacts
    <2>7. top \in Nat /\ 2 * top < Penalty /\ \A i \in places : 0 <= w[i] /\ w[i] <= top
      BY <2>5, <2>6
    <2> HIDE DEF top
    <2>8. Pct(w, places, 95) \in Nat /\ Pct(w, places, 95) <= 100 * top
      <3> DEFINE n == Len(w)
      <3>1. n \in Nat /\ w \in [1..n -> Nat] /\ places \in SUBSET (1..n) /\ places # {}
        BY <2>2
      <3>2. 95 \in 0..100 /\ 0 \in Nat
        OBVIOUS
      <3> HIDE DEF n
      <3> QED BY <2>7, <3>1, <3>2, PctIs
    <2>9. P95(w) \in Nat /\ 100 * Penalty > 2 * P95(w)
      BY <2>6, <2>7, <2>8 DEF P95, places
    <2> QED BY <2>1, <2>9 DEF StallFlag
  <1> QED BY <1>1, ProbeInvHolds, PTL

\* The percentile of a window of one level is that level, in hundredths.
LEMMA LevelIs ==
    ASSUME NEW w \in Seq(Latencies), Len(w) >= 1, NEW v \in Nat, \A i \in 1..Len(w) : w[i] = v
    PROVE  P95(w) = 100 * v
  <1> DEFINE places == RealOrAll(w, Penalty)
  <1>1. /\ Len(w) \in Nat /\ w \in [1..Len(w) -> Nat]
        /\ places \in SUBSET (1..Len(w)) /\ places # {}
    BY PlacesAre
  <1> HIDE DEF places
  <1>2. \A i \in places : v <= w[i] /\ w[i] <= v
    BY <1>1
  <1>3. Pct(w, places, 95) \in Nat /\ 100 * v <= Pct(w, places, 95) /\ Pct(w, places, 95) <= 100 * v
    <2> DEFINE n == Len(w)
    <2>1. n \in Nat /\ w \in [1..n -> Nat] /\ places \in SUBSET (1..n) /\ places # {}
      BY <1>1
    <2>2. 95 \in 0..100
      OBVIOUS
    <2> HIDE DEF n
    <2> QED BY <1>2, <2>1, <2>2, PctIs
  <1> QED BY <1>3 DEF P95, places

\* No flag survives a latency that has held for the whole five minutes.
THEOREM SteadyLevelsAreUnflagged == ProbeSpec => []SteadyLevelUnflagged
  <1>1. ProbeInv => SteadyLevelUnflagged
    <2> SUFFICES ASSUME ProbeInv, metric # NoMetric, Len(rtts_5m) = Window5m, NEW v \in Latencies,
                        \A i \in DOMAIN rtts_5m : rtts_5m[i] = v
                 PROVE  metric.stall = 0
      BY DEF SteadyLevelUnflagged, Published, Latencies
    <2>1. /\ rtts_1m \in Seq(Latencies) /\ rtts_5m \in Seq(Latencies)
          /\ Len(rtts_1m) >= 1 /\ Len(rtts_1m) <= Len(rtts_5m)
          /\ metric.stall = StallFlag(Last(rtts_1m), rtts_1m, rtts_5m)
          /\ \A i \in 1..Len(rtts_1m) : rtts_1m[i] = rtts_5m[i + (Len(rtts_5m) - Len(rtts_1m))]
      BY DEF ProbeInv
    <2>2. \A i \in 1..Len(rtts_5m) : rtts_5m[i] = v
      BY <2>1
    <2>3. \A i \in 1..Len(rtts_1m) : rtts_1m[i] = v
      <3>1. \A i \in 1..Len(rtts_1m) : i + (Len(rtts_5m) - Len(rtts_1m)) \in 1..Len(rtts_5m)
        BY <2>1
      <3> QED BY <2>1, <2>2, <3>1
    <2>4. v \in Nat /\ Len(rtts_5m) >= 1
      BY <2>1, ProbeFacts
    <2>5. P95(rtts_1m) = 100 * v /\ P95(rtts_5m) = 100 * v
      BY <2>1, <2>2, <2>3, <2>4, LevelIs
    <2>6. Last(rtts_1m) = v
      BY <2>1, <2>3 DEF Last
    <2>7. ~(100 * v > 2 * (100 * v))
      BY <2>4
    <2>8. 10 * (100 * v) <= CreepTenths * (100 * v)
      BY <2>4, ProbeFacts, MulMono
    <2>9. 10 * (100 * v) \in Nat /\ CreepTenths * (100 * v) \in Nat
      BY <2>4, ProbeFacts
    <2> QED BY <2>1, <2>5, <2>6, <2>7, <2>8, <2>9 DEF StallFlag
  <1> QED BY <1>1, ProbeInvHolds, PTL

-------------------------------------------------------------------------------
\* ---- The feed file (multi_chain_probe.py, x402_gateway.py)

MetricRecords == [type : {"metric"}, chain : Chains, p99 : Nat, stall : 0..2, age : 0..MaxAge]
HealthRecords == [type : {"health"}, base : Ratios \cup {None}, arbitrum : Ratios \cup {None}]

\* Every record of a chain is at least as old as its last measurement.
FeedInv ==
    /\ tail \in Seq(MetricRecords \cup HealthRecords)
    /\ measured \in [Chains -> 0..MaxAge]
    /\ ratios \in [{"base", "arbitrum"} -> Ratios \cup {None}]
    /\ \A i \in DOMAIN tail :
           tail[i].type = "metric" => measured[tail[i].chain] <= tail[i].age

LEMMA FeedFacts ==
    /\ TailLen \in Nat \ {0} /\ TickSecs \in Nat \ {0} /\ MaxAge \in Nat /\ MaxAge > 60
    /\ Metrics \subseteq [p99 : Nat, stall : 0..2]
  BY FeedAssumption

LEMMA FeedInvInit == FeedInit => FeedInv
  <1> SUFFICES ASSUME FeedInit PROVE FeedInv
    OBVIOUS
  <1>1. tail \in Seq(MetricRecords \cup HealthRecords) /\ DOMAIN tail = {}
    BY DEF FeedInit
  <1>2. measured \in [Chains -> 0..MaxAge]
    BY FeedFacts DEF FeedInit
  <1>3. ratios \in [{"base", "arbitrum"} -> Ratios \cup {None}]
    BY DEF FeedInit
  <1> QED BY <1>1, <1>2, <1>3 DEF FeedInv

\* What is read back is what was in the file, the oldest record aside.
LEMMA LogIs ==
    ASSUME FeedInv, NEW entry \in MetricRecords \cup HealthRecords, Log(entry)
    PROVE  /\ tail' \in Seq(MetricRecords \cup HealthRecords)
           /\ \A i \in DOMAIN tail' :
                tail'[i] = entry \/ \E j \in DOMAIN tail : tail'[i] = tail[j]
  <1> DEFINE s == Append(tail, entry)
  <1>1. tail \in Seq(MetricRecords \cup HealthRecords)
    BY DEF FeedInv
  <1>2. s \in Seq(MetricRecords \cup HealthRecords) /\ Len(s) = Len(tail) + 1
    BY <1>1
  <1>3. \A i \in 1..Len(s) : s[i] = entry \/ \E j \in 1..Len(tail) : s[i] = tail[j]
    BY <1>1
  <1>4. tail' = IF Len(s) > TailLen THEN Tail(s) ELSE s
    BY DEF Log
  <1> HIDE DEF s
  <1>5. Tail(s) \in Seq(MetricRecords \cup HealthRecords) /\ Len(Tail(s)) = Len(tail)
        /\ \A i \in 1..Len(tail) : Tail(s)[i] = s[i + 1]
    BY <1>1, <1>2
  <1>6. CASE tail' = Tail(s)
    <2>1. \A i \in 1..Len(tail) : i + 1 \in 1..Len(s)
      BY <1>1, <1>2
    <2> QED BY <1>1, <1>3, <1>5, <1>6, <2>1
  <1>7. CASE tail' = s
    BY <1>1, <1>2, <1>3, <1>7
  <1> QED BY <1>4, <1>6, <1>7

\* A new record is as old as its measurement: zero.
LEMMA PublishKeeps == ASSUME FeedInv, NEW c \in Chains, NEW m \in Metrics, Publish(c, m) PROVE FeedInv'
  <1> DEFINE e == [type |-> "metric", chain |-> c, p99 |-> m.p99, stall |-> m.stall, age |-> 0]
  <1>1. e \in MetricRecords /\ e.chain = c /\ e.age = 0
    BY FeedFacts DEF MetricRecords
  <1>2. Log(e) /\ measured' = [measured EXCEPT ![c] = 0] /\ ratios' = ratios
    BY DEF Publish
  <1> HIDE DEF e
  <1>3. /\ tail' \in Seq(MetricRecords \cup HealthRecords)
        /\ \A i \in DOMAIN tail' : tail'[i] = e \/ \E j \in DOMAIN tail : tail'[i] = tail[j]
    BY <1>1, <1>2, LogIs
  <1>4. measured' \in [Chains -> 0..MaxAge]
    BY <1>2, FeedFacts DEF FeedInv
  <1>5. ASSUME NEW i \in DOMAIN tail', tail'[i].type = "metric"
        PROVE  measured'[tail'[i].chain] <= tail'[i].age
    <2>1. CASE tail'[i] = e
      BY <1>1, <1>2, <2>1 DEF FeedInv
    <2>2. ASSUME NEW j \in DOMAIN tail, tail'[i] = tail[j] PROVE measured'[tail'[i].chain] <= tail'[i].age
      <3>1. tail[j] \in MetricRecords /\ measured[tail[j].chain] <= tail[j].age
        BY <1>5, <2>2 DEF FeedInv, HealthRecords
      <3>2. tail[j].chain \in Chains /\ tail[j].age \in Nat
        BY <3>1, FeedFacts DEF MetricRecords
      <3> QED BY <1>2, <2>2, <3>1, <3>2 DEF FeedInv
    <2> QED BY <1>3, <2>1, <2>2
  <1> QED BY <1>2, <1>3, <1>4, <1>5 DEF FeedInv

LEMMA HealthKeeps ==
    ASSUME FeedInv, NEW r \in [{"base", "arbitrum"} -> Ratios \cup {None}], PublishHealth(r)
    PROVE  FeedInv'
  <1> DEFINE updated == [c \in {"base", "arbitrum"} |-> IF r[c] = None THEN ratios[c] ELSE r[c]]
             e == [type |-> "health", base |-> updated.base, arbitrum |-> updated.arbitrum]
  <1>1. updated \in [{"base", "arbitrum"} -> Ratios \cup {None}]
    BY DEF FeedInv
  <1>2. ratios' = updated /\ measured' = measured /\ (Log(e) \/ tail' = tail)
    BY DEF PublishHealth
  <1>3. e \in HealthRecords
    BY <1>1 DEF HealthRecords
  <1>4. e.type = "health"
    OBVIOUS
  <1> HIDE DEF updated, e
  <1>5. CASE tail' = tail
    BY <1>1, <1>2, <1>5 DEF FeedInv
  <1>6. CASE Log(e)
    <2>1. /\ tail' \in Seq(MetricRecords \cup HealthRecords)
          /\ \A i \in DOMAIN tail' : tail'[i] = e \/ \E j \in DOMAIN tail : tail'[i] = tail[j]
      BY <1>3, <1>6, LogIs
    <2> QED BY <1>1, <1>2, <1>4, <2>1 DEF FeedInv
  <1> QED BY <1>2, <1>5, <1>6

LEMMA TickKeeps == ASSUME FeedInv, Tick PROVE FeedInv'
  <1>1. \A a, b \in 0..MaxAge : a <= b => /\ Older1(a) <= Older1(b)
                                          /\ Older1(a) \in 0..MaxAge /\ Older1(b) \in 0..MaxAge
    BY FeedFacts DEF Older1
  <1>2. tail \in Seq(MetricRecords \cup HealthRecords) /\ measured \in [Chains -> 0..MaxAge]
    BY DEF FeedInv
  <1>3. \A c \in Chains : measured'[c] = Older1(measured[c])
    BY DEF Tick
  <1>4. measured' \in [Chains -> 0..MaxAge]
    BY <1>1, <1>2 DEF Tick
  <1>5. /\ tail' = [i \in 1..Len(tail) |-> tail'[i]]
        /\ \A i \in 1..Len(tail) :
              tail'[i] = IF tail[i].type = "metric" THEN [tail[i] EXCEPT !.age = Older1(@)] ELSE tail[i]
    <2> DEFINE aged(i) == IF tail[i].type = "metric" THEN [tail[i] EXCEPT !.age = Older1(@)]
                          ELSE tail[i]
    <2>1. DOMAIN tail = 1..Len(tail) /\ tail' = [i \in DOMAIN tail |-> aged(i)]
      BY <1>2 DEF Tick
    <2> SUFFICES /\ tail' = [i \in 1..Len(tail) |-> tail'[i]]
                 /\ \A i \in 1..Len(tail) : tail'[i] = aged(i)
      OBVIOUS
    <2> HIDE DEF aged
    <2> QED BY <2>1
  <1>6. ASSUME NEW i \in 1..Len(tail)
        PROVE  /\ tail'[i] \in MetricRecords \cup HealthRecords
               /\ tail'[i].type = "metric" => measured'[tail'[i].chain] <= tail'[i].age
    <2>1. tail[i] \in MetricRecords \cup HealthRecords
      BY <1>2
    <2>2. CASE tail[i].type = "metric"
      <3>1. tail[i] \in MetricRecords
        BY <2>1, <2>2 DEF HealthRecords
      <3>2. measured[tail[i].chain] <= tail[i].age
        BY <1>2, <2>2 DEF FeedInv
      <3>3. tail[i].chain \in Chains /\ tail[i].age \in 0..MaxAge
        BY <3>1 DEF MetricRecords
      <3> DEFINE a == Older1(tail[i].age)
      <3>4. tail'[i] = [tail[i] EXCEPT !.age = a]
        BY <1>5, <2>2
      <3>5. a \in 0..MaxAge /\ Older1(measured[tail[i].chain]) <= a
        BY <1>1, <1>2, <3>2, <3>3
      <3> HIDE DEF a
      <3>6. tail'[i] \in MetricRecords /\ tail'[i].age = a /\ tail'[i].chain = tail[i].chain
        BY <3>1, <3>4, <3>5 DEF MetricRecords
      <3> QED BY <1>3, <3>3, <3>5, <3>6
    <2>3. CASE tail[i].type # "metric"
      BY <1>5, <2>1, <2>3
    <2> QED BY <2>2, <2>3
  <1>7. tail' \in Seq(MetricRecords \cup HealthRecords) /\ DOMAIN tail' = 1..Len(tail)
    <2>1. Len(tail) \in Nat /\ tail' \in [1..Len(tail) -> MetricRecords \cup HealthRecords]
      BY <1>2, <1>5, <1>6
    <2> QED BY <2>1
  <1> QED BY <1>4, <1>6, <1>7 DEF FeedInv, Tick

LEMMA FeedInvNext == FeedInv /\ [FeedNext]_feedVars => FeedInv'
  <1> SUFFICES ASSUME FeedInv, [FeedNext]_feedVars PROVE FeedInv'
    OBVIOUS
  <1>1. ASSUME NEW c \in Chains, NEW m \in Metrics, Publish(c, m) PROVE FeedInv'
    BY <1>1, PublishKeeps
  <1>2. ASSUME NEW r \in [{"base", "arbitrum"} -> Ratios \cup {None}], PublishHealth(r) PROVE FeedInv'
    BY <1>2, HealthKeeps
  <1>3. ASSUME NEW c \in Chains, ProbeDies(c) PROVE FeedInv'
    BY <1>3 DEF ProbeDies, FeedInv
  <1>4. CASE Restart
    <2>1. ratios' \in [{"base", "arbitrum"} -> Ratios \cup {None}]
      BY <1>4 DEF Restart
    <2> QED BY <1>4, <2>1 DEF Restart, FeedInv
  <1>5. CASE PriceDaemon
    BY <1>5 DEF PriceDaemon, FeedInv
  <1>6. CASE Tick
    BY <1>6, TickKeeps
  <1>7. CASE UNCHANGED feedVars
    BY <1>7 DEF feedVars, FeedInv
  <1> QED BY <1>1, <1>2, <1>3, <1>4, <1>5, <1>6, <1>7 DEF FeedNext

\* The place _read_latest finds a chain's record at, 0 for none
NewestAt(c) == SelectLastInSeq(tail, LAMBDA e : e.type = "metric" /\ e.chain = c)

LEMMA NewestAtIs ==
    ASSUME FeedInv, NEW c \in Chains
    PROVE  /\ NewestAt(c) \in 0..Len(tail)
           /\ NewestAt(c) # 0 => tail[NewestAt(c)].type = "metric" /\ tail[NewestAt(c)].chain = c
  <1> DEFINE n == Len(tail)
             found == {i \in 1..n : tail[i].type = "metric" /\ tail[i].chain = c}
  <1>1. NewestAt(c) = IF found # {} THEN Max(found) ELSE 0
    BY DEF SelectLastInSeq, NewestAt
  <1>2. n \in Nat /\ found \in SUBSET Nat /\ found \subseteq 1..n
    BY DEF FeedInv
  <1>3. IsFiniteSet(found)
    <2>1. IsFiniteSet(1..n)
      BY <1>2, FS_Interval
    <2> HIDE DEF found
    <2> QED BY <1>2, <2>1, FS_Subset
  <1>4. CASE found = {}
    BY <1>1, <1>2, <1>4
  <1>5. CASE found # {}
    <2>1. \E m \in found : \A x \in found : x <= m
      <3> HIDE DEF found
      <3> QED BY <1>2, <1>3, <1>5, FiniteMax
    <2>2. Max(found) \in found
      <3> HIDE DEF found
      <3> QED BY <1>2, <2>1 DEF Max
    <2>3. NewestAt(c) = Max(found)
      BY <1>1, <1>5
    <2>4. Max(found) \in 1..n /\ tail[Max(found)].type = "metric" /\ tail[Max(found)].chain = c
      BY <2>2
    <2> HIDE DEF n, found
    <2> QED BY <1>2, <2>3, <2>4 DEF n
  <1> QED BY <1>4, <1>5

\* What the handlers read is never newer than the truth it stands for.
LEMMA ReadingsAreOld ==
    ASSUME FeedInv, NEW c \in Chains, measured[c] > 30
    PROVE  NewestMetric(c) = None \/ (NewestMetric(c).age \in Nat /\ NewestMetric(c).age > 30)
  <1> DEFINE i == NewestAt(c)
  <1>1. NewestMetric(c) = IF i = 0 THEN None
                          ELSE [p99 |-> tail[i].p99, stall |-> tail[i].stall, age |-> tail[i].age]
    BY DEF NewestMetric, NewestAt
  <1>2. /\ i \in 0..Len(tail)
        /\ i # 0 => tail[i].type = "metric" /\ tail[i].chain = c
    BY NewestAtIs
  <1> HIDE DEF i
  <1>3. ASSUME i # 0 PROVE tail[i].age \in Nat /\ tail[i].age > 30
    <2>1. i \in 1..Len(tail) /\ tail[i] \in MetricRecords \cup HealthRecords
      BY <1>2, <1>3 DEF FeedInv
    <2>2. tail[i] \in MetricRecords
      BY <1>2, <1>3, <2>1 DEF HealthRecords
    <2>3. measured[c] <= tail[i].age /\ measured[c] \in 0..MaxAge
      BY <1>2, <1>3, <2>1 DEF FeedInv
    <2> QED BY <2>2, <2>3, FeedFacts DEF MetricRecords
  <1>4. CASE i = 0
    BY <1>1, <1>4
  <1>5. CASE i # 0
    BY <1>1, <1>3, <1>5
  <1> QED BY <1>4, <1>5

\* No answer is green on a measurement older than thirty seconds, however long
\* a dead probe's last record stays readable (get_safe, demo_safe,
\* _preflight_decision).
THEOREM GreenIsFresh == FeedSpec => []GreenNeedsMeasurement
  <1>1. FeedInv => GreenNeedsMeasurement
    <2> SUFFICES ASSUME FeedInv, NEW c \in Chains, ~(measured[c] <= 30)
                 PROVE  /\ Preflight(c, NewestMetric(c), NewestHealth) # "PASS"
                        /\ Visible(c) => /\ ~Safe(c, NewestMetric(c), NewestHealth)
                                         /\ ~DemoSafe(c, NewestMetric(c))
      BY DEF GreenNeedsMeasurement
    <2> DEFINE m == NewestMetric(c)
    <2>1. measured[c] > 30
      BY FeedFacts DEF FeedInv
    <2>2. m = None \/ (m.age \in Nat /\ m.age > 30)
      BY <2>1, ReadingsAreOld
    <2> HIDE DEF m
    <2>3. Preflight(c, m, NewestHealth) # "PASS"
      BY <2>2 DEF Preflight, Older
    <2>4. m # None => ~Safe(c, m, NewestHealth) /\ ~DemoSafe(c, m)
      BY <2>2 DEF Safe, SafeReason, DemoSafe, Older, SafeMaxAge
    <2> QED BY <2>3, <2>4 DEF m, Visible
  <1> QED BY <1>1, FeedInvInit, FeedInvNext, PTL DEF FeedSpec

-------------------------------------------------------------------------------
\* ---- The verdict tables (x402_gateway.py)

MetricType == [p99 : Nat, stall : 0..2, age : Nat]
Percents == (0..100) \cup {None}

\* Readings and reports are what the handlers may be given.
TableInv ==
    /\ reading = None \/ (reading \in Readings /\ reading # None)
    /\ report = None \/ report \in [base : Percents, arbitrum : Percents]

LEMMA TableFacts ==
    /\ \A x \in Readings : x \in MetricType /\ x # None
    /\ None \notin 0..100
    /\ \A h \in Healths : h \in [base : Percents, arbitrum : Percents] /\ h # None
  BY TableAssumption DEF MetricType, Percents

LEMMA TableInvHolds == TableSpec => []TableInv
  <1>1. TableInit => TableInv
    BY TableFacts DEF TableInit, TableInv
  <1>2. TableInv /\ [TableNext]_tableVars => TableInv'
    BY TableFacts DEF TableInv, TableNext, NewReport, AskOther, tableVars
  <1> QED BY <1>1, <1>2, PTL DEF TableSpec

\* The ratio a handler goes by is a percentage or nothing.
LEMMA RevertIs ==
    ASSUME TableInv, NEW c
    PROVE  RevertOf(c, report) \in Percents /\ HealthRevert(c, report) \in Percents
  BY DEF TableInv, RevertOf, HealthRevert, Percents

\* What the thresholds of a chain are, in the order the handlers try them
LEMMA ThresholdsIs ==
    ASSUME NEW c
    PROVE  /\ StallMs(c) \in Nat /\ HighMs(c) \in Nat /\ ElevatedMs(c) \in Nat
           /\ ElevatedMs(c) < HighMs(c) /\ HighMs(c) < StallMs(c)
  BY DEF StallMs, HighMs, ElevatedMs

\* The paid answers agree on every record, revert report and chain: what
\* /v1/safe calls safe passes /v1/preflight and the free check.
THEOREM SafeAnswersAgree == TableSpec => []SafeIsSafeEverywhere
  <1>1. TableInv => SafeIsSafeEverywhere
    <2> SUFFICES ASSUME TableInv, Safe(asked, reading, report)
                 PROVE  (reading # None => Preflight(asked, reading, report) = "PASS") /\ DemoSafe(asked, reading)
      BY DEF SafeIsSafeEverywhere
    <2> DEFINE rev == RevertOf(asked, report)
    <2>1. rev \in Percents
      BY RevertIs
    <2> HIDE DEF rev
    <2>2. /\ ~Older(reading, 30) /\ ~Halted(asked, reading) /\ ~(rev # None /\ rev >= 30)
          /\ ~Above(reading, HighMs(asked)) /\ ~(rev # None /\ rev >= 10) /\ ~Above(reading, ElevatedMs(asked))
      BY DEF Safe, SafeReason, SafeMaxAge, rev
    <2>3. DemoSafe(asked, reading)
      BY <2>2 DEF DemoSafe, SafeMaxAge
    <2>4. ASSUME reading # None PROVE Preflight(asked, reading, report) = "PASS"
      <3>1. reading \in MetricType
        BY <2>4, TableFacts DEF TableInv
      <3>2. ~Older(reading, 60) /\ reading.stall = 0
        BY <2>2, <2>4, <3>1 DEF Older, Halted, Stalled, MetricType
      <3>3. ~AtLeast(reading, StallMs(asked))
        BY <2>2 DEF Halted
      <3>4. ~((IF rev = None THEN 0 ELSE rev) > 10) /\ ~((IF rev = None THEN 0 ELSE rev) > 30)
        BY <2>1, <2>2 DEF Percents
      <3> QED BY <2>2, <2>4, <3>2, <3>3, <3>4 DEF Preflight, rev
    <2> QED BY <2>3, <2>4
  <1> QED BY <1>1, TableInvHolds, PTL

\* What a worse reading is, number by number
LEMMA WorseIs ==
    ASSUME NEW x \in MetricType, NEW y \in MetricType, x # None, y # None, WorseThan(x, y)
    PROVE  /\ \A secs \in Nat : Older(y, secs) => Older(x, secs)
           /\ \A ms \in Nat : (Above(y, ms) => Above(x, ms)) /\ (AtLeast(y, ms) => AtLeast(x, ms))
           /\ Stalled(y) => Stalled(x)
           /\ y.stall = 1 => x.stall = 1
           /\ \A c : Halted(c, y) => Halted(c, x)
  <1>1. x.p99 >= y.p99 /\ x.age >= y.age /\ x.p99 \in Nat /\ y.p99 \in Nat /\ x.age \in Nat /\ y.age \in Nat
    BY DEF WorseThan, MetricType
  <1>2. (Stalled(y) => Stalled(x)) /\ (y.stall = 1 => x.stall = 1)
    BY DEF WorseThan, Stalled, MetricType
  <1>3. \A secs \in Nat : Older(y, secs) => Older(x, secs)
    BY <1>1 DEF Older
  <1>4. \A ms \in Nat : (Above(y, ms) => Above(x, ms)) /\ (AtLeast(y, ms) => AtLeast(x, ms))
    BY <1>1 DEF Above, AtLeast, P99
  <1>5. \A c : Halted(c, y) => Halted(c, x)
    BY <1>2, <1>4, ThresholdsIs DEF Halted
  <1> QED BY <1>2, <1>3, <1>4, <1>5

\* No handler is kinder to a worse reading, whatever the reading.
THEOREM WorseReadingsNeverHelp == TableSpec => []WorseNeverBetter
  <1>1. TableInv => WorseNeverBetter
    <2> SUFFICES ASSUME TableInv, reading # None, NEW x \in Readings, WorseThan(x, reading)
                 PROVE  /\ Safe(asked, x, report) => Safe(asked, reading, report)
                        /\ DemoSafe(asked, x) => DemoSafe(asked, reading)
                        /\ Risk(Preflight(asked, x, report)) >= Risk(Preflight(asked, reading, report))
                        /\ Surge(reading, report) # None =>
                                Surge(x, report) # None /\ Surge(x, report) >= Surge(reading, report)
      BY DEF WorseNeverBetter
    <2>1. x \in MetricType /\ reading \in MetricType /\ x # None
      BY TableFacts DEF TableInv
    <2>2. /\ \A secs \in Nat : Older(reading, secs) => Older(x, secs)
          /\ \A ms \in Nat : (Above(reading, ms) => Above(x, ms)) /\ (AtLeast(reading, ms) => AtLeast(x, ms))
          /\ reading.stall = 1 => x.stall = 1
          /\ Halted(asked, reading) => Halted(asked, x)
      BY <2>1, WorseIs
    <2>3. StallMs(asked) \in Nat /\ HighMs(asked) \in Nat /\ ElevatedMs(asked) \in Nat
      BY ThresholdsIs
    <2>4. Safe(asked, x, report) => Safe(asked, reading, report)
      BY <2>2, <2>3 DEF Safe, SafeReason, SafeMaxAge
    <2>5. DemoSafe(asked, x) => DemoSafe(asked, reading)
      BY <2>2, <2>3 DEF DemoSafe, SafeMaxAge
    <2>6. Risk(Preflight(asked, x, report)) >= Risk(Preflight(asked, reading, report))
      <3>1. /\ Preflight(asked, reading, report) = "FAIL" => Preflight(asked, x, report) = "FAIL"
            /\ Preflight(asked, reading, report) = "DEGRADED" => Preflight(asked, x, report) # "PASS"
            /\ Preflight(asked, reading, report) \in {"PASS", "DEGRADED", "FAIL"}
            /\ Preflight(asked, x, report) \in {"PASS", "DEGRADED", "FAIL"}
        BY <2>1, <2>2, <2>3 DEF Preflight
      <3> QED BY <3>1 DEF Risk
    <2>7. ASSUME Surge(reading, report) # None
          PROVE  Surge(x, report) # None /\ Surge(x, report) >= Surge(reading, report)
      <3> DEFINE rev == IF report = None THEN 0 ELSE report.base
      <3>1. rev \in Percents /\ SurgeFrom \in Nat /\ None \notin {1, 3, 10}
        BY TableFacts DEF TableInv, Percents, SurgeFrom
      <3>2. (Above(reading, SurgeFrom) => Above(x, SurgeFrom)) /\ (AtLeast(reading, 5000) => AtLeast(x, 5000))
        BY <2>2, <3>1
      <3>3. /\ Surge(reading, report) = IF AtLeast(reading, 5000) THEN 10 ELSE IF rev = None THEN None
                ELSE IF rev >= 30 THEN 10 ELSE IF Above(reading, SurgeFrom) \/ rev > 10 THEN 3 ELSE 1
            /\ Surge(x, report) = IF AtLeast(x, 5000) THEN 10 ELSE IF rev = None THEN None
                ELSE IF rev >= 30 THEN 10 ELSE IF Above(x, SurgeFrom) \/ rev > 10 THEN 3 ELSE 1
        BY DEF Surge
      <3> HIDE DEF rev
      <3>4. CASE AtLeast(reading, 5000)
        BY <3>1, <3>2, <3>3, <3>4
      <3>5. CASE ~AtLeast(reading, 5000)
        <4>1. rev \in 0..100 /\ rev # None
          BY <2>7, <3>1, <3>3, <3>5 DEF Percents
        <4> QED BY <3>1, <3>2, <3>3, <3>5, <4>1
      <3> QED BY <3>4, <3>5
    <2> QED BY <2>4, <2>5, <2>6, <2>7
  <1> QED BY <1>1, TableInvHolds, PTL

Advices == {"SAFE_TO_EXECUTE", "ELEVATED_RISK", "HIGH_RISK", "STALL_DETECTED", "TypeError"}

\* A page that knows less of the reverts is no graver.
LEMMA AdviceMilder ==
    ASSUME TableInv, NEW c, NEW x
    PROVE  LET page == ChainAdvice(c, x, report)
               risk == ChainRisk(c, x, HealthRevert(c, report))
           IN  /\ page \in Advices \ {"TypeError"} /\ risk \in Advices
               /\ Gravity(page) <= Gravity(risk)
  <1> DEFINE rev == RevertOf(c, report)
             known == IF c = "base" /\ rev # None THEN rev ELSE 0
             used == HealthRevert(c, report)
  <1>1. rev \in Percents /\ used \in Percents /\ None \notin 0..100
    BY RevertIs, TableFacts
  <1>2. used = None \/ used >= known
    BY <1>1 DEF HealthRevert, RevertOf, Percents
  <1>3. known \in 0..100
    BY <1>1 DEF Percents
  <1>4. ChainAdvice(c, x, report) = ChainRisk(c, x, known)
    BY DEF ChainAdvice
  <1> HIDE DEF known, used
  <1>5. ChainRisk(c, x, known) \in Advices \ {"TypeError"} /\ ChainRisk(c, x, used) \in Advices
    BY <1>1, <1>3 DEF ChainRisk, Advices
  <1>6. Gravity(ChainRisk(c, x, known)) <= Gravity(ChainRisk(c, x, used))
    BY <1>1, <1>2, <1>3 DEF ChainRisk, Gravity, Percents
  <1> QED BY <1>4, <1>5, <1>6 DEF used

\* The all-chains answer for two chains
LEMMA RecommendationIs ==
    ASSUME NEW a, NEW b, NEW metrics, NEW ra, NEW rb, ra \in Advices, rb \in Advices,
           ra = ChainRisk(a, metrics[a], HealthRevert(a, report)),
           rb = ChainRisk(b, metrics[b], HealthRevert(b, report))
    PROVE  Recommendation(<<a, b>>, metrics, report) =
               IF ra \in {"STALL_DETECTED", "TypeError"} THEN ra
               ELSE IF rb \in {"STALL_DETECTED", "TypeError"} THEN rb
               ELSE IF "HIGH_RISK" \in {ra, rb} THEN "HIGH_RISK"
               ELSE IF "ELEVATED_RISK" \in {ra, rb} THEN "ELEVATED_RISK" ELSE "SAFE_TO_EXECUTE"
  <1> DEFINE order == <<a, b>>
             risk(i) == ChainRisk(order[i], metrics[order[i]], HealthRevert(order[i], report))
             ending == {i \in DOMAIN order : risk(i) \in {"STALL_DETECTED", "TypeError"}}
             risks == {risk(i) : i \in DOMAIN order}
  <1>1. DOMAIN order = {1, 2} /\ risk(1) = ra /\ risk(2) = rb
    OBVIOUS
  <1> HIDE DEF order, risk
  <1>2. risks = {ra, rb}
    BY <1>1
  <1>3. Recommendation(<<a, b>>, metrics, report) =
           IF ending # {} THEN risk(CHOOSE i \in ending : \A j \in ending : i <= j)
           ELSE IF "HIGH_RISK" \in risks THEN "HIGH_RISK"
           ELSE IF "ELEVATED_RISK" \in risks THEN "ELEVATED_RISK" ELSE "SAFE_TO_EXECUTE"
    BY DEF Recommendation, order, risk
  <1>4. CASE ra \in {"STALL_DETECTED", "TypeError"}
    <2>1. 1 \in ending /\ ending \subseteq {1, 2}
      BY <1>1, <1>4
    <2> HIDE DEF ending
    <2>2. \E i \in ending : \A j \in ending : i <= j
      BY <2>1
    <2>3. \A i \in ending : (\A j \in ending : i <= j) => i = 1
      BY <2>1
    <2>4. (CHOOSE i \in ending : \A j \in ending : i <= j) = 1
      BY <2>2, <2>3
    <2> QED BY <1>1, <1>3, <1>4, <2>1, <2>4
  <1>5. CASE ra \notin {"STALL_DETECTED", "TypeError"} /\ rb \in {"STALL_DETECTED", "TypeError"}
    <2>1. ending = {2}
      BY <1>1, <1>5
    <2> HIDE DEF ending
    <2>2. \E i \in ending : \A j \in ending : i <= j
      BY <2>1
    <2>3. \A i \in ending : (\A j \in ending : i <= j) => i = 2
      BY <2>1
    <2>4. (CHOOSE i \in ending : \A j \in ending : i <= j) = 2
      BY <2>2, <2>3
    <2> QED BY <1>1, <1>3, <1>5, <2>1, <2>4
  <1>6. CASE ra \notin {"STALL_DETECTED", "TypeError"} /\ rb \notin {"STALL_DETECTED", "TypeError"}
    <2>1. ending = {}
      BY <1>1, <1>6
    <2> QED BY <1>2, <1>3, <1>6, <2>1
  <1> QED BY <1>4, <1>5, <1>6

\* One stalled or risky chain is not averaged away, on either side of a healthy
\* one, whatever the readings (get_health against get_chain).
THEOREM OneBadChainSpoils == TableSpec => []OneChainSpoilsAll
  <1>1. TableInv => OneChainSpoilsAll
    <2> SUFFICES ASSUME TableInv, reading # None, NEW other \in Askable \ {asked}, NEW x \in Readings
                 PROVE  LET metrics == [c \in {asked, other} |-> IF c = asked THEN reading ELSE x]
                            all     == {Recommendation(<<asked, other>>, metrics, report),
                                        Recommendation(<<other, asked>>, metrics, report)}
                        IN  \A advice \in all : Gravity(advice) >= Gravity(ChainAdvice(asked, reading, report))
      BY DEF OneChainSpoilsAll
    <2> DEFINE metrics == [c \in {asked, other} |-> IF c = asked THEN reading ELSE x]
               mine == ChainRisk(asked, reading, HealthRevert(asked, report))
               theirs == ChainRisk(other, x, HealthRevert(other, report))
               page == ChainAdvice(asked, reading, report)
    <2>1. metrics[asked] = reading /\ metrics[other] = x
      OBVIOUS
    <2>2. /\ page \in Advices \ {"TypeError"} /\ mine \in Advices /\ theirs \in Advices
          /\ Gravity(page) <= Gravity(mine)
      BY AdviceMilder
    <2> HIDE DEF metrics
    <2>3. /\ Recommendation(<<asked, other>>, metrics, report) =
               IF mine \in {"STALL_DETECTED", "TypeError"} THEN mine
               ELSE IF theirs \in {"STALL_DETECTED", "TypeError"} THEN theirs
               ELSE IF "HIGH_RISK" \in {mine, theirs} THEN "HIGH_RISK"
               ELSE IF "ELEVATED_RISK" \in {mine, theirs} THEN "ELEVATED_RISK" ELSE "SAFE_TO_EXECUTE"
          /\ Recommendation(<<other, asked>>, metrics, report) =
               IF theirs \in {"STALL_DETECTED", "TypeError"} THEN theirs
               ELSE IF mine \in {"STALL_DETECTED", "TypeError"} THEN mine
               ELSE IF "HIGH_RISK" \in {theirs, mine} THEN "HIGH_RISK"
               ELSE IF "ELEVATED_RISK" \in {theirs, mine} THEN "ELEVATED_RISK" ELSE "SAFE_TO_EXECUTE"
      BY <2>1, <2>2, RecommendationIs
    <2> HIDE DEF mine, theirs, page
    <2>4. /\ Gravity(Recommendation(<<asked, other>>, metrics, report)) >= Gravity(page)
          /\ Gravity(Recommendation(<<other, asked>>, metrics, report)) >= Gravity(page)
      BY <2>2, <2>3 DEF Gravity, Advices
    <2> QED BY <2>4 DEF metrics, page
  <1> QED BY <1>1, TableInvHolds, PTL

-------------------------------------------------------------------------------
\* ---- The trust desk (trustEngine.ts, server.ts)

Risks == {0, 10, 80, 90}

\* The desk holds what it was told, and counts wallets by fingerprint.
TrustInv ==
    /\ moment \in Moments /\ tls \in Risks
    /\ keyed \in BOOLEAN /\ proven \in BOOLEAN /\ banned \in BOOLEAN
    /\ rhythm \in {NaN} \cup (0..10)
    /\ byWallet \in [Wallets -> Hashes \cup {NoHash}]
    /\ byHash \in [Hashes -> SUBSET Wallets] /\ \A h \in Hashes : IsFiniteSet(byHash[h])

LEMMA TrustInvInit == TrustInit => TrustInv
  <1> SUFFICES ASSUME TrustInit PROVE TrustInv
    OBVIOUS
  <1>1. \A h \in Hashes : IsFiniteSet(byHash[h])
    BY FS_EmptySet DEF TrustInit
  <1>2. byWallet \in [Wallets -> Hashes \cup {NoHash}] /\ byHash \in [Hashes -> SUBSET Wallets]
    BY DEF TrustInit
  <1>3. moment \in Moments /\ keyed \in BOOLEAN /\ proven \in BOOLEAN /\ banned \in BOOLEAN
    BY DEF TrustInit
  <1>4. tls \in Risks /\ rhythm \in {NaN} \cup (0..10)
    BY DEF TrustInit, Risks
  <1> QED BY <1>1, <1>2, <1>3, <1>4 DEF TrustInv

LEMMA TrustInvNext == TrustInv /\ [TrustNext]_trustVars => TrustInv'
  <1> SUFFICES ASSUME TrustInv, [TrustNext]_trustVars PROVE TrustInv'
    OBVIOUS
  <1> USE DEF TrustInv
  <1>1. CASE ClassifyRequest
    BY <1>1 DEF ClassifyRequest
  <1>2. ASSUME NEW q \in Requests, NEW automated \in BOOLEAN, NEW w \in Wallets \cup {NoHash},
               Assess(q, automated, w)
        PROVE  TrustInv'
    BY <1>2 DEF Assess
  <1>3. CASE SyncPulse
    BY <1>3 DEF SyncPulse
  <1>4. ASSUME NEW d \in Levels, NEW paused \in BOOLEAN, VerifyRhythm(d, paused) PROVE TrustInv'
    <2>1. d \in 0..10
      BY TrustAssumption
    <2>2. rhythm' \in {NaN} \cup (0..10)
      BY <1>4, <2>1 DEF VerifyRhythm, Rechecked, NaN
    <2> QED BY <1>4, <2>2 DEF VerifyRhythm
  <1>5. CASE VerifyNoTimings
    BY <1>5 DEF VerifyNoTimings
  <1>6. ASSUME NEW w \in Wallets, NEW h \in Hashes, BindWallet(w, h) PROVE TrustInv'
    <2>1. /\ byHash' = [byHash EXCEPT ![h] = byHash[h] \cup {w}]
          /\ byWallet' = [byWallet EXCEPT ![w] = h]
      BY <1>6 DEF BindWallet, ListedUnder
    <2>2. IsFiniteSet(byHash[h] \cup {w})
      BY FS_AddElement
    <2>3. \A g \in Hashes : IsFiniteSet(byHash'[g])
      BY <2>1, <2>2
    <2> QED BY <1>6, <2>1, <2>3 DEF BindWallet
  <1>7. CASE ClearWallets
    <2>1. \A g \in Hashes : IsFiniteSet(byHash'[g])
      BY <1>7, FS_EmptySet DEF ClearWallets
    <2> QED BY <1>7, <2>1 DEF ClearWallets
  <1>8. ASSUME NEW mo \in Moments, NewMoment(mo) PROVE TrustInv'
    BY <1>8 DEF NewMoment
  <1>9. ASSUME NEW ja4 \in {"botStack", "noSni", "common"}, NEW ua \in UaKinds, TlsSeen(ja4, ua)
        PROVE  TrustInv'
    <2>1. TlsRisk(ja4, ua) \in Risks
      BY DEF TlsRisk, Risks
    <2> QED BY <1>9, <2>1 DEF TlsSeen
  <1>10. CASE SetSession
    BY <1>10 DEF SetSession
  <1>11. CASE SetProof
    BY <1>11 DEF SetProof
  <1>12. CASE Expire
    BY <1>12 DEF Expire
  <1>13. CASE UNCHANGED trustVars
    BY <1>13 DEF trustVars
  <1> QED BY <1>1, <1>2, <1>3, <1>4, <1>5, <1>6, <1>7, <1>8, <1>9, <1>10, <1>11, <1>12, <1>13
          DEF TrustNext
-------------------------------------------------------------------------------
\* The mismatch of the headers is a natural number.
LEMMA FrankensteinIs ==
    ASSUME NEW odd
    PROVE  Frankenstein(odd) \in Nat
  <1>1. Cost["noFetchMode"] = 40 /\ Cost["platform"] = 50 /\ Cost["noClientHints"] = 30
        /\ Cost["puppet"] = 100
    BY DEF Cost, Oddities
  <1> QED BY <1>1 DEF Frankenstein

\* A credential that verifies is decided on the better of two tables, and all that
\* do not verify on the same one (server.ts /api/agent/verify, agentIdentity.ts).
THEOREM CredentialsNeverHurt == TrustSpec => []CredentialNeverHurts
  <1>1. TrustInv => CredentialNeverHurts
    <2> SUFFICES ASSUME TrustInv, NEW odd \in OddSets, NEW a \in Claims, NEW b \in Claims
                 PROVE  LET risk == BehaviorRisk(Frankenstein(odd), tls)
                        IN  /\ Decided(a, risk) >= Decided(Unverified, risk)
                            /\ ~a.valid => Decided(a, risk) = Decided(Unverified, risk)
                            /\ a.valid /\ b.valid /\ a.reputation >= b.reputation
                                   => Decided(a, risk) >= Decided(b, risk)
      BY DEF CredentialNeverHurts
    <2> DEFINE risk == BehaviorRisk(Frankenstein(odd), tls)
    <2>1. risk \in Nat
      BY FrankensteinIs DEF TrustInv, Risks, BehaviorRisk, MaxOf
    <2>2. \A x \in Claims : x.valid \in BOOLEAN /\ x.reputation \in Nat
      <3>1. \A p \in Credentials : ValidCredential(p, {"i1"}) \in BOOLEAN /\ p.reputation \in Nat
        BY DEF Credentials, ValidCredential
      <3> QED BY <3>1 DEF Claims
    <2>3. Rank["DENY"] = 0 /\ Rank["STEP_UP"] = 1 /\ Rank["ALLOW"] = 2
      BY DEF Rank
    <2>4. Unverified.valid = FALSE
      BY DEF Unverified
    <2> HIDE DEF risk
    <2> QED BY <2>1, <2>2, <2>3, <2>4 DEF Decided, AgentDecision, risk
  <1> QED BY <1>1, TrustInvInit, TrustInvNext, PTL DEF TrustSpec
-------------------------------------------------------------------------------
Evident == [rho : RhoBands, variance : VarianceBands, entropy : EntropyBands, ua : UaKinds,
            frank : Nat, pow : BOOLEAN]

\* What a request is judged on
LEMMA EvidenceIs == ASSUME TrustInv, NEW q \in Requests PROVE Evidence(q) \in Evident
  <1>1. moment \in [rho : RhoBands, variance : VarianceBands, entropy : EntropyBands]
    BY TrustAssumption DEF TrustInv
  <1>2. Frankenstein(q.odd) \in Nat
    BY FrankensteinIs
  <1>3. q.ua \in UaKinds
    BY DEF Requests
  <1> QED BY <1>1, <1>2, <1>3 DEF Evidence, Evident, TrustInv

\* The confidence is a fraction of at most one.
LEMMA ClassifyIs ==
    ASSUME NEW e \in Evident
    PROVE  LET c == Classify(e)
           IN  c.total \in Nat \ {0} /\ c.part \in Nat /\ c.part <= c.total
  <1>1. Human(e) \in Nat
    BY DEF Human, When, Evident
  <1>2. Agent(e) \in Nat
    BY DEF Agent, When, Evident
  <1>3. Bot(e) \in Nat
    <2>1. e.frank \in Nat
      BY DEF Evident
    <2>2. e.frank \div 10 \in Nat
      BY <2>1
    <2> QED BY <2>2 DEF Bot, When
  <1> DEFINE h == Human(e)  a == Agent(e)  b == Bot(e)
             total == IF h + a + b = 0 THEN 1 ELSE h + a + b
             part == IF b > h /\ b > a THEN b ELSE IF a > h THEN a ELSE h
  <1>4. Classify(e).total = total /\ Classify(e).part = part
    BY DEF Classify
  <1> HIDE DEF h, a, b
  <1>5. h \in Nat /\ a \in Nat /\ b \in Nat
    BY <1>1, <1>2, <1>3 DEF h, a, b
  <1>6. total \in Nat \ {0} /\ part \in Nat /\ part <= total
    BY <1>5
  <1> QED BY <1>4, <1>6

\* The wallets that share a fingerprint can be counted.
LEMMA SharedIs == ASSUME TrustInv, NEW w PROVE SharedWallets(w) \in Nat
  <1>1. CASE w \notin Wallets \/ byWallet[w] = NoHash
    BY <1>1 DEF SharedWallets
  <1>2. CASE w \in Wallets /\ byWallet[w] # NoHash
    <2>1. byWallet[w] \in Hashes /\ IsFiniteSet(byHash[byWallet[w]])
      BY <1>2 DEF TrustInv
    <2> QED BY <1>2, <2>1, FS_CardinalityType DEF SharedWallets
  <1> QED BY <1>1, <1>2

\* What the code fuses: the signals of a caller who passed the hard ones
Fusable(s, t) ==
    /\ s.frankenstein.score \in 0..(30 * t) /\ s.frankenstein.weight = 2
    /\ s.rhythm.score \in 0..(30 * t) /\ s.rhythm.weight = 4
    /\ s.classifier.score \in 0..(30 * t) /\ s.classifier.weight = 3
    /\ \/ s.wallet.weight = 0 /\ s.wallet.score \in Int
       \/ s.wallet.weight = 2 /\ s.wallet.score \in 0..(30 * t)
    /\ Weighed(s) = {"frankenstein", "rhythm", "classifier"}
                    \cup (IF s.wallet.weight = 0 THEN {} ELSE {"wallet"})

\* What each signal says, in fractions of d = 30 t
LEMMA SignalsAre ==
    ASSUME NEW c, NEW t, t = c.total, t \in Nat \ {0}, c.part \in Nat, c.part <= t,
           NEW f \in 0..99, NEW r \in 0..10, NEW n \in Nat
    PROVE  LET s == SoftSignals(c, f, r, n)
           IN  Fusable(s, t) /\ s.classifier.score = ClassifierScore(c) /\ Scale(c) = 30 * t
  <1> DEFINE d == 30 * t
             s == SoftSignals(c, f, r, n)
  <1>1. d \in Nat /\ Scale(c) = d
    BY DEF Scale
  <1>2. FrankScore(f, d) \in 0..d
    <2>1. 0 * d <= d * f /\ d * f <= d * 99 /\ d * f \in Nat
      BY <1>1, MulMono
    <2> DEFINE p == d * f
    <2>2. p \in Nat /\ p <= 99 * d
      BY <1>1, <2>1
    <2> HIDE DEF p, d
    <2>3. d - (p \div 100) \in 0..d
      BY <1>1, <2>2
    <2> QED BY <2>3 DEF FrankScore, p
  <1>3. RhythmScore(r, d) \in 0..d
    <2> DEFINE p == d * r
    <2>1. p \in Nat /\ p <= 10 * d
      BY <1>1, MulMono
    <2> HIDE DEF p, d
    <2>2. p \div 10 \in 0..d
      BY <1>1, <2>1
    <2> QED BY <2>2 DEF RhythmScore, p
  <1>4. ClassifierScore(c) \in 0..d
    BY DEF ClassifierScore
  <1>5. n \in Nat \ {0} => WalletScore(n, d) \in 0..d
    <2> SUFFICES ASSUME n > 0 PROVE WalletScore(n, d) \in 0..d
      OBVIOUS
    <2>1. CASE n > 3
      BY <1>1, <2>1 DEF WalletScore, SybilThreshold
    <2>2. CASE n <= 3
      <3> DEFINE p == d * (n - 1)
      <3>1. p \in Nat /\ p <= 3 * d
        BY <1>1, <2>2, MulMono
      <3> HIDE DEF p, d
      <3>2. d - (p \div 3) \in 0..d
        BY <1>1, <3>1
      <3> QED BY <2>2, <3>2 DEF WalletScore, SybilThreshold, p
    <2> QED BY <2>1, <2>2
  <1>6. WalletScore(0, d) \in Int
    BY <1>1 DEF WalletScore, SybilThreshold
  <1>7. s = [frankenstein |-> [score |-> FrankScore(f, d), weight |-> 2],
             rhythm       |-> [score |-> RhythmScore(r, d), weight |-> 4],
             classifier   |-> [score |-> ClassifierScore(c), weight |-> 3],
             wallet       |-> [score |-> WalletScore(n, d), weight |-> IF n = 0 THEN 0 ELSE 2]]
    BY <1>1 DEF SoftSignals
  <1> HIDE DEF d, s
  <1>8. Weighed(s) = {"frankenstein", "rhythm", "classifier"}
                        \cup (IF s.wallet.weight = 0 THEN {} ELSE {"wallet"})
    BY <1>7 DEF Weighed
  <1>9. \/ s.wallet.weight = 0 /\ s.wallet.score \in Int
        \/ s.wallet.weight = 2 /\ s.wallet.score \in 0..d
    BY <1>5, <1>6, <1>7
  <1>10. Fusable(s, t)
    BY <1>2, <1>3, <1>4, <1>7, <1>8, <1>9 DEF Fusable, d
  <1> QED BY <1>1, <1>7, <1>10 DEF d, s

\* The weakest signal is one of those that weigh.
LEMMA WeakestIs ==
    ASSUME NEW s, NEW t \in Nat, Fusable(s, t), NEW d
    PROVE  Weakest(s, d) \in 0..(30 * t) /\ Weakest(s, d) <= s.classifier.score
  <1> DEFINE scores == {s[id].score : id \in Weighed(s)}
  <1>1. scores \subseteq 0..(30 * t) /\ s.classifier.score \in scores
    BY DEF Fusable
  <1>2. scores \in SUBSET Nat /\ scores # {}
    BY <1>1
  <1>3. IsFiniteSet(scores)
    <2>1. IsFiniteSet(0..(30 * t))
      BY FS_Interval
    <2> HIDE DEF scores
    <2> QED BY <1>1, <2>1, FS_Subset
  <1>4. Weakest(s, d) = Min(scores)
    BY DEF Weakest
  <1> HIDE DEF scores
  <1>5. \E m \in scores : \A x \in scores : m <= x
    BY <1>2, <1>3, FiniteMin
  <1>6. Min(scores) \in scores /\ \A x \in scores : Min(scores) <= x
    BY <1>2, <1>5 DEF Min
  <1> QED BY <1>1, <1>4, <1>6

\* Three sevenths of the weight cannot outvote a classifier sure of a bot.
LEMMA BotNotFused ==
    ASSUME NEW s, NEW t \in Nat \ {0}, Fusable(s, t), s.classifier.score < 12 * t
    PROVE  ~FusedAtLeast(s, 30 * t, 7)
  <1> DEFINE d == 30 * t
             w == Weakest(s, d)
             total == TotalScore(s)
             weight == TotalWeight(s)
             q == t * t
  <1>1. w \in Nat /\ w < 12 * t
    BY WeakestIs DEF Fusable
  <1>2. d \div 5 = 6 * t
    OBVIOUS
  <1>3. \/ weight = 9 /\ total \in Nat /\ total <= 216 * t
        \/ weight = 11 /\ total \in Nat /\ total <= 276 * t
    <2>1. s.wallet.weight * s.wallet.score \in Nat /\
             \/ s.wallet.weight = 0 /\ s.wallet.weight * s.wallet.score = 0
             \/ s.wallet.weight = 2 /\ s.wallet.weight * s.wallet.score <= 60 * t
      BY DEF Fusable
    <2>2. /\ s.frankenstein.weight * s.frankenstein.score \in 0..(60 * t)
          /\ s.rhythm.weight * s.rhythm.score \in 0..(120 * t)
          /\ s.classifier.weight * s.classifier.score \in 0..(36 * t)
      BY DEF Fusable
    <2>3. s.frankenstein.weight = 2 /\ s.rhythm.weight = 4 /\ s.classifier.weight = 3
      BY DEF Fusable
    <2> QED BY <2>1, <2>2, <2>3 DEF TotalScore, TotalWeight
  <1>4. d + w \in Nat /\ d + w <= 42 * t
    BY <1>1
  <1>5. q \in Nat \ {0}
    OBVIOUS
  <1>6. /\ (216 * t) * (42 * t) = 9072 * q /\ (276 * t) * (42 * t) = 11592 * q
        /\ 7 * 9 * d * (6 * t) = 11340 * q /\ 7 * 11 * d * (6 * t) = 13860 * q
    OBVIOUS
  <1> HIDE DEF w, total, weight, q
  <1>7. CASE weight = 9 /\ total \in Nat /\ total <= 216 * t
    <2>1. total * (d + w) \in Nat /\ total * (d + w) <= (216 * t) * (42 * t)
      BY <1>4, <1>7, MulMono
    <2>2. total * (d + w) < 7 * weight * d * (6 * t)
      BY <1>5, <1>6, <1>7, <2>1
    <2> QED BY <1>2, <1>5, <1>6, <1>7, <2>1, <2>2 DEF FusedAtLeast, w, total, weight
  <1>8. CASE weight = 11 /\ total \in Nat /\ total <= 276 * t
    <2>1. total * (d + w) \in Nat /\ total * (d + w) <= (276 * t) * (42 * t)
      BY <1>4, <1>8, MulMono
    <2>2. total * (d + w) < 7 * weight * d * (6 * t)
      BY <1>5, <1>6, <1>8, <2>1
    <2> QED BY <1>2, <1>5, <1>6, <1>8, <2>1, <2>2 DEF FusedAtLeast, w, total, weight
  <1> QED BY <1>3, <1>7, <1>8

\* What is fused of a caller who passed the hard checks
LEMMA StandingIs ==
    ASSUME TrustInv, NEW q \in Requests, NEW w, ~HardFailed(keyed, FALSE, Frankenstein(q.odd))
    PROVE  LET c == Classify(Evidence(q))
               s == SoftSignals(c, Frankenstein(q.odd), TrustStatus, SharedWallets(w))
           IN  /\ c.total \in Nat \ {0} /\ c.part \in Nat /\ c.part <= c.total
               /\ Scale(c) = 30 * c.total /\ Fusable(s, c.total)
               /\ s.classifier.score = ClassifierScore(c)
               /\ Assessed(q, FALSE, w) = BandFor(s, 30 * c.total)
  <1> DEFINE c == Classify(Evidence(q))
             f == Frankenstein(q.odd)
             r == TrustStatus
             n == SharedWallets(w)
  <1>1. c.total \in Nat \ {0} /\ c.part \in Nat /\ c.part <= c.total
    BY EvidenceIs, ClassifyIs
  <1>2. f \in 0..99
    BY FrankensteinIs DEF HardFailed
  <1>3. r \in 0..10
    BY DEF TrustInv, TrustStatus, NaN
  <1>4. n \in Nat
    BY SharedIs
  <1>5. Assessed(q, FALSE, w) = BandFor(SoftSignals(c, f, r, n), Scale(c))
    BY DEF Assessed, Decision
  <1> HIDE DEF c, f, r, n
  <1>6. LET s == SoftSignals(c, f, r, n)
        IN  Fusable(s, c.total) /\ Scale(c) = 30 * c.total /\ s.classifier.score = ClassifierScore(c)
    BY <1>1, <1>2, <1>3, <1>4, SignalsAre
  <1> QED BY <1>1, <1>5, <1>6 DEF c, f, r, n

\* Whom the shadow filter counts as a bot, the fused assessment does not allow:
\* for every header, rhythm, wallet and moment of the server's metrics.
THEOREM ConfidentBotsNotAllowed == TrustSpec => []ConfidentBotNotAllowed
  <1>1. TrustInv => ConfidentBotNotAllowed
    <2> SUFFICES ASSUME TrustInv, NEW x \in Presented, ConfidentBot(Classify(Evidence(x.q)))
                 PROVE  Assessed(x.q, FALSE, x.w) # "ALLOW"
      BY DEF ConfidentBotNotAllowed
    <2> DEFINE c == Classify(Evidence(x.q))
               s == SoftSignals(c, Frankenstein(x.q.odd), TrustStatus, SharedWallets(x.w))
    <2>1. CASE HardFailed(keyed, FALSE, Frankenstein(x.q.odd))
      BY <2>1 DEF Assessed, Decision
    <2>2. CASE ~HardFailed(keyed, FALSE, Frankenstein(x.q.odd))
      <3>1. x.q \in Requests
        BY DEF Presented
      <3>2. /\ c.total \in Nat \ {0} /\ c.part \in Nat /\ c.part <= c.total
            /\ Fusable(s, c.total) /\ s.classifier.score = ClassifierScore(c)
            /\ Assessed(x.q, FALSE, x.w) = BandFor(s, 30 * c.total)
        BY <2>2, <3>1, StandingIs
      <3> HIDE DEF s
      <3>3. ClassifierScore(c) < 12 * c.total
        BY <3>2 DEF ClassifierScore, ConfidentBot
      <3> HIDE DEF c
      <3>4. ~FusedAtLeast(s, 30 * c.total, 7)
        BY <3>2, <3>3, BotNotFused
      <3> QED BY <3>2, <3>4 DEF BandFor
    <2> QED BY <2>1, <2>2
  <1> QED BY <1>1, TrustInvInit, TrustInvNext, PTL DEF TrustSpec

\* One signal under three quarters leaves the mean, without any moderation, over
\* twice what denies.
LEMMA OneWeakFused ==
    ASSUME NEW s, NEW t \in Nat \ {0}, Fusable(s, t),
           \A a, b \in {id \in Weighed(s) : 4 * s[id].score < 90 * t} : a = b
    PROVE  FusedAtLeast(s, 30 * t, 2)
  <1> DEFINE d == 30 * t
             w == Weakest(s, d)
             total == TotalScore(s)
             weight == TotalWeight(s)
             q == t * t
             weak == {id \in Weighed(s) : 4 * s[id].score < 90 * t}
  <1>1. w \in Nat
    BY WeakestIs
  <1>2. d \div 5 = 6 * t
    OBVIOUS
  <1>3. /\ s.frankenstein.score \in Nat /\ s.rhythm.score \in Nat /\ s.classifier.score \in Nat
        /\ s.frankenstein.weight = 2 /\ s.rhythm.weight = 4 /\ s.classifier.weight = 3
    BY DEF Fusable
  <1>4. /\ 4 * s.frankenstein.score < 90 * t => "frankenstein" \in weak
        /\ 4 * s.rhythm.score < 90 * t => "rhythm" \in weak
        /\ 4 * s.classifier.score < 90 * t => "classifier" \in weak
    BY DEF Fusable
  <1>5. s.wallet.weight = 2 /\ 4 * s.wallet.score < 90 * t => "wallet" \in weak
    BY DEF Fusable
  <1>6. \A a, b \in weak : a = b
    OBVIOUS
  <1> HIDE DEF weak
  <1>7. /\ 4 * s.frankenstein.score >= 90 * t \/ 4 * s.rhythm.score >= 90 * t
        /\ 4 * s.frankenstein.score >= 90 * t \/ 4 * s.classifier.score >= 90 * t
        /\ 4 * s.rhythm.score >= 90 * t \/ 4 * s.classifier.score >= 90 * t
    BY <1>3, <1>4, <1>6
  <1>8. \/ weight = 9 /\ total \in Nat /\ total >= 108 * t
        \/ weight = 11 /\ total \in Nat /\ total >= 132 * t
    <2>1. CASE s.wallet.weight = 0
      <3>1. s.wallet.weight * s.wallet.score = 0
        BY <2>1 DEF Fusable
      <3>2. 2 * s.frankenstein.score + 4 * s.rhythm.score + 3 * s.classifier.score >= 108 * t
        BY <1>3, <1>7
      <3> QED BY <1>3, <2>1, <3>1, <3>2 DEF TotalScore, TotalWeight
    <2>2. CASE s.wallet.weight = 2
      <3>1. s.wallet.score \in Nat
        BY <2>2 DEF Fusable
      <3>2. 4 * s.wallet.score >= 90 * t \/
               (/\ 4 * s.frankenstein.score >= 90 * t /\ 4 * s.rhythm.score >= 90 * t
                /\ 4 * s.classifier.score >= 90 * t)
        BY <1>3, <1>4, <1>5, <1>6, <2>2, <3>1
      <3>3. 2 * s.frankenstein.score + 4 * s.rhythm.score + 3 * s.classifier.score
               + 2 * s.wallet.score >= 132 * t
        BY <1>3, <1>7, <3>1, <3>2
      <3> QED BY <1>3, <2>2, <3>1, <3>3 DEF TotalScore, TotalWeight
    <2> QED BY <2>1, <2>2 DEF Fusable
  <1>9. d \in Nat /\ d <= d + w /\ d + w \in Nat
    BY <1>1
  <1>10. /\ (108 * t) * d = 3240 * q /\ (132 * t) * d = 3960 * q
         /\ 2 * 9 * d * (6 * t) = 3240 * q /\ 2 * 11 * d * (6 * t) = 3960 * q
    OBVIOUS
  <1> HIDE DEF w, total, weight, q
  <1>11. CASE weight = 9 /\ total \in Nat /\ total >= 108 * t
    <2>1. (108 * t) * d <= total * (d + w)
      BY <1>9, <1>11, MulMono
    <2> QED BY <1>2, <1>10, <1>11, <2>1 DEF FusedAtLeast, w, total, weight
  <1>12. CASE weight = 11 /\ total \in Nat /\ total >= 132 * t
    <2>1. (132 * t) * d <= total * (d + w)
      BY <1>9, <1>12, MulMono
    <2> QED BY <1>2, <1>10, <1>12, <2>1 DEF FusedAtLeast, w, total, weight
  <1> QED BY <1>8, <1>11, <1>12

\* A finite set with two members in it counts at least two.
LEMMA TwoMembers ==
    ASSUME NEW S, IsFiniteSet(S), NEW a \in S, NEW b \in S, a # b
    PROVE  Cardinality(S) >= 2
  <1> DEFINE T == S \ {a}
             U == T \ {b}
  <1>1. IsFiniteSet(T) /\ Cardinality(T) = Cardinality(S) - 1
    BY FS_RemoveElement
  <1>2. b \in T
    OBVIOUS
  <1> HIDE DEF T
  <1>3. IsFiniteSet(U) /\ Cardinality(U) = Cardinality(T) - 1
    BY <1>1, <1>2, FS_RemoveElement
  <1> HIDE DEF U
  <1>4. Cardinality(U) \in Nat /\ Cardinality(T) \in Nat /\ Cardinality(S) \in Nat
    BY <1>1, <1>3, FS_CardinalityType
  <1> QED BY <1>1, <1>3, <1>4

\* A caller is denied, and so banned, by a hard signal or by two weak ones
\* together: no rhythm, header score, classification or wallet does it alone.
THEOREM OneWeakSignalDeniesNobody == TrustSpec => OneWeakSignalNeverBans
  <1>1. ASSUME TrustInv, NEW x \in Presented, ~banned, banned', Assess(x.q, FALSE, x.w)
        PROVE  \/ HardFailed(keyed, FALSE, Frankenstein(x.q.odd))
               \/ Cardinality(Weak(x.q, x.w)) >= 2
    <2> SUFFICES ASSUME ~HardFailed(keyed, FALSE, Frankenstein(x.q.odd))
                 PROVE  Cardinality(Weak(x.q, x.w)) >= 2
      OBVIOUS
    <2> DEFINE c == Classify(Evidence(x.q))
               s == SoftSignals(c, Frankenstein(x.q.odd), TrustStatus, SharedWallets(x.w))
               weak == {id \in Weighed(s) : 4 * s[id].score < 90 * c.total}
    <2>1. x.q \in Requests
      BY DEF Presented
    <2>2. /\ c.total \in Nat \ {0} /\ Scale(c) = 30 * c.total /\ Fusable(s, c.total)
          /\ Assessed(x.q, FALSE, x.w) = BandFor(s, 30 * c.total)
      BY <1>1, <2>1, StandingIs
    <2>3. Assessed(x.q, FALSE, x.w) = "DENY"
      BY <1>1 DEF Assess
    <2>4. Weak(x.q, x.w) = weak
      <3>1. 3 * Scale(c) = 90 * c.total
        BY <2>2
      <3> QED BY <3>1 DEF Weak
    <2> HIDE DEF s, c
    <2>5. ~FusedAtLeast(s, 30 * c.total, 2)
      BY <2>2, <2>3 DEF BandFor
    <2>6. PICK a \in weak, b \in weak : a # b
      BY <2>2, <2>5, OneWeakFused
    <2>7. IsFiniteSet(weak)
      <3>1. weak \subseteq {"frankenstein", "rhythm", "classifier"} \cup {"wallet"}
        BY <2>2 DEF Fusable
      <3>2. IsFiniteSet({"frankenstein", "rhythm", "classifier"} \cup {"wallet"})
        <4>1. IsFiniteSet({"frankenstein"} \cup {"rhythm"})
          BY FS_Singleton, FS_AddElement
        <4>2. IsFiniteSet(({"frankenstein"} \cup {"rhythm"}) \cup {"classifier"})
          BY <4>1, FS_AddElement
        <4>3. IsFiniteSet((({"frankenstein"} \cup {"rhythm"}) \cup {"classifier"}) \cup {"wallet"})
          BY <4>2, FS_AddElement
        <4>4. (({"frankenstein"} \cup {"rhythm"}) \cup {"classifier"}) \cup {"wallet"} =
                 {"frankenstein", "rhythm", "classifier"} \cup {"wallet"}
          OBVIOUS
        <4> QED BY <4>3, <4>4
      <3> HIDE DEF weak
      <3> QED BY <3>1, <3>2, FS_Subset
    <2> HIDE DEF weak
    <2>8. Cardinality(weak) >= 2
      BY <2>6, <2>7, TwoMembers
    <2> QED BY <2>4, <2>8
  <1>2. TrustInv /\ [TrustNext]_trustVars =>
          [\A x \in Presented :
             ~banned /\ banned' /\ Assess(x.q, FALSE, x.w) =>
                \/ HardFailed(keyed, FALSE, Frankenstein(x.q.odd))
                \/ Cardinality(Weak(x.q, x.w)) >= 2]_trustVars
    BY <1>1
  <1> QED BY <1>2, TrustInvInit, TrustInvNext, PTL DEF TrustSpec, OneWeakSignalNeverBans
===============================================================================
