-------------------------- MODULE SniperFilter_proofs --------------------------
(***************************************************************************)
(* The sniper filter: for any quantile and any stream of samples, the      *)
(* markers of its estimator stay apart and in order, and no crowd teaches  *)
(* it to block a loose browser; for any addresses and any order of         *)
(* requests, sweeps and midnights, cohorts list their members and fall as  *)
(* one.                                                                    *)
(***************************************************************************)
EXTENDS DriftModel, SniperCalibration, SybilWatch, FiniteSetTheorems, TLAPS

\* ---- The drift model and the calibration (driftModel.ts, server.ts)

Marks == [q : [0..4 -> Int], n : [0..4 -> Int]]

\* Markers over c samples, in order
Ordered(s, c) ==
    /\ s \in Marks /\ s.n[0] = 1 /\ s.n[4] = c
    /\ \A i \in 0..3 : s.n[i] < s.n[i + 1] /\ s.q[i] <= s.q[i + 1]

\* Before the markers exist the samples are kept sorted.
DriftInv ==
    /\ cnt \in 0..(IF MaxSamples > 5 THEN MaxSamples ELSE 5)
    /\ first \in [0..4 -> Int] /\ m \in Marks
    /\ cnt < 5 => /\ \A i \in 0..4 : m.n[i] = i + 1
                  /\ \A i, j \in 0..4 : i < j /\ j < cnt => first[i] <= first[j]
    /\ cnt >= 5 => Ordered(m, cnt)

LEMMA DriftBounds == Values \subseteq Int /\ MaxSamples \in Nat
  BY DriftAssumption

\* Moving one marker by the rule keeps the order.
LEMMA AdjustedOrdered ==
    ASSUME NEW s, NEW c \in Int, Ordered(s, c), NEW i \in 1..3, NEW h \in Heights(i, s, c)
    PROVE  Ordered(Adjusted(i, s, c, h), c)
  <1> DEFINE t == Adjusted(i, s, c, h)
  <1>1. s.q \in [0..4 -> Int] /\ s.n \in [0..4 -> Int] /\ s = [q |-> s.q, n |-> s.n]
    BY DEF Ordered, Marks
  <1>2. h \in Int /\ s.q[i - 1] <= h /\ h <= s.q[i + 1]
    BY <1>1, DriftBounds DEF Heights, Ordered
  <1>3. t.q = [s.q EXCEPT ![i] = h]
    BY <1>1 DEF Adjusted
  <1>4. t.n = [s.n EXCEPT ![i] = IF Up(i, s, c) THEN s.n[i] + 1
                                  ELSE IF Down(i, s, c) THEN s.n[i] - 1 ELSE s.n[i]]
    BY <1>1 DEF Adjusted
  <1>5. t = [q |-> t.q, n |-> t.n]
    BY <1>1 DEF Adjusted
  <1>6. t.q \in [0..4 -> Int] /\ t.n \in [0..4 -> Int]
    BY <1>1, <1>2, <1>3, <1>4
  <1>7. /\ t.n[i - 1] = s.n[i - 1] /\ t.n[i + 1] = s.n[i + 1]
        /\ s.n[i - 1] < t.n[i] /\ t.n[i] < s.n[i + 1]
    BY <1>1, <1>4 DEF Up, Down, Ordered
  <1>8. \A k \in 0..4 : k # i => t.n[k] = s.n[k] /\ t.q[k] = s.q[k]
    BY <1>1, <1>3, <1>4
  <1>9. t.q[i] = h
    BY <1>1, <1>3
  <1>10. ASSUME NEW k \in 0..3 PROVE t.n[k] < t.n[k + 1] /\ t.q[k] <= t.q[k + 1]
    <2>1. CASE k = i
      BY <2>1, <1>2, <1>7, <1>8, <1>9
    <2>2. CASE k + 1 = i
      BY <2>2, <1>2, <1>7, <1>8, <1>9
    <2>3. CASE k # i /\ k + 1 # i
      BY <2>3, <1>8 DEF Ordered
    <2> QED BY <2>1, <2>2, <2>3
  <1>11. t \in Marks
    BY <1>5, <1>6 DEF Marks
  <1>12. t.n[0] = 1 /\ t.n[4] = c
    BY <1>8 DEF Ordered
  <1> QED BY <1>10, <1>11, <1>12 DEF Ordered

\* The cell of a sample lies between two markers.
LEMMA CellFound ==
    ASSUME NEW x \in Int, NEW c \in Int, Ordered(m, c)
    PROVE  /\ CellOf(x, m.q) \in 0..3
           /\ x < m.q[0] => CellOf(x, m.q) = 0
           /\ x >= m.q[4] => CellOf(x, m.q) = 3
  <1>1. m.q \in [0..4 -> Int] /\ m.q[0] <= m.q[1] /\ m.q[1] <= m.q[2]
        /\ m.q[2] <= m.q[3] /\ m.q[3] <= m.q[4]
    BY DEF Ordered, Marks
  <1>2. CASE x < m.q[0]
    BY <1>1, <1>2 DEF CellOf
  <1>3. CASE ~(x < m.q[0]) /\ x >= m.q[4]
    BY <1>1, <1>3 DEF CellOf
  <1>4. CASE ~(x < m.q[0]) /\ ~(x >= m.q[4])
    <2>1. \E k \in 0..3 : m.q[k] <= x /\ x < m.q[k + 1]
      <3>1. CASE x < m.q[1]
        BY <3>1, <1>1, <1>4
      <3>2. CASE ~(x < m.q[1]) /\ x < m.q[2]
        BY <3>2, <1>1, <1>4
      <3>3. CASE ~(x < m.q[2]) /\ x < m.q[3]
        BY <3>3, <1>1, <1>4
      <3>4. CASE ~(x < m.q[3])
        BY <3>4, <1>1, <1>4
      <3> QED BY <3>1, <3>2, <3>3, <3>4, <1>1
    <2> QED BY <2>1, <1>1, <1>4 DEF CellOf
  <1> QED BY <1>2, <1>3, <1>4

\* Counting a sample keeps the order and adds one to the last position.
LEMMA LocatedOrdered ==
    ASSUME NEW x \in Int, NEW c \in Int, Ordered(m, c)
    PROVE  Ordered(Located(x), c + 1)
  <1> DEFINE k == CellOf(x, m.q)
             t == Located(x)
  <1>1. k \in 0..3
    BY CellFound
  <1>2. m.q \in [0..4 -> Int] /\ m.n \in [0..4 -> Int]
    BY DEF Ordered, Marks
  <1> HIDE DEF k
  <1>3. /\ t.q = [i \in 0..4 |-> IF i = 0 /\ x < m.q[0] THEN x
                                ELSE IF i = 4 /\ x >= m.q[4] THEN x ELSE m.q[i]]
        /\ t.n = [i \in 0..4 |-> IF i > k THEN m.n[i] + 1 ELSE m.n[i]]
        /\ t = [q |-> t.q, n |-> t.n]
    BY DEF Located, k
  <1>4. t \in Marks
    BY <1>1, <1>2, <1>3 DEF Marks
  <1>5. t.n[0] = 1 /\ t.n[4] = c + 1
    BY <1>1, <1>2, <1>3 DEF Ordered
  <1>6. \A i \in 0..3 : t.n[i] < t.n[i + 1]
    BY <1>1, <1>2, <1>3 DEF Ordered
  <1>7. \A i \in 0..3 : t.q[i] <= t.q[i + 1]
    BY <1>2, <1>3 DEF Ordered
  <1> QED BY <1>4, <1>5, <1>6, <1>7 DEF Ordered
-------------------------------------------------------------------------------
\* A sample of the first five goes to its place in the sorted buffer.
LEMMA PlacedSorted ==
    ASSUME DriftInv, cnt < 5, NEW x \in Int, NEW k \in 0..4, k <= cnt, Fits(x, k)
    PROVE  /\ Placed(x, k) \in [0..4 -> Int]
           /\ \A i, j \in 0..4 : i < j /\ j < cnt + 1 => Placed(x, k)[i] <= Placed(x, k)[j]
  <1>1. first \in [0..4 -> Int] /\ cnt \in 0..4
    BY DriftBounds DEF DriftInv
  <1>2. \A i \in 0..4 : Placed(x, k)[i] = IF i < k THEN first[i] ELSE IF i = k THEN x
                                         ELSE IF i <= cnt THEN first[i - 1] ELSE first[i]
    BY DEF Placed
  <1>3. \A i \in 0..4 : Placed(x, k)[i] \in Int
    BY <1>1, <1>2
  <1>4. Placed(x, k) \in [0..4 -> Int]
    BY <1>3 DEF Placed
  <1>5. ASSUME NEW i \in 0..4, NEW j \in 0..4, i < j, j < cnt + 1
        PROVE  Placed(x, k)[i] <= Placed(x, k)[j]
    <2>1. \A a, b \in 0..4 : a < b /\ b < cnt => first[a] <= first[b]
      BY DEF DriftInv
    <2>2. \A a \in 0..4 : (a < k => first[a] <= x) /\ (k <= a /\ a < cnt => x < first[a])
      BY <1>1 DEF Fits
    <2>3. CASE j < k
      BY <2>1, <2>3, <1>1, <1>2, <1>5
    <2>4. CASE j = k
      BY <2>2, <2>4, <1>1, <1>2, <1>5
    <2>5. CASE j > k /\ i < k
      BY <2>1, <2>2, <2>5, <1>1, <1>2, <1>5
    <2>6. CASE j > k /\ i = k
      BY <2>2, <2>6, <1>1, <1>2, <1>5
    <2>7. CASE j > k /\ i > k
      BY <2>1, <2>7, <1>1, <1>2, <1>5
    <2> QED BY <2>3, <2>4, <2>5, <2>6, <2>7
  <1> QED BY <1>4, <1>5

LEMMA CollectKeeps ==
    ASSUME DriftInv, NEW x \in Values, NEW k \in 0..4, NEW shift, Collect(x, k, shift)
    PROVE  DriftInv'
  <1>1. cnt \in 0..4 /\ cnt' = cnt + 1 /\ cnt' \in 1..5 /\ first' = Placed(x, k) /\ k <= cnt
    BY DriftBounds DEF Collect, DriftInv
  <1>2. /\ first' \in [0..4 -> Int]
        /\ \A i, j \in 0..4 : i < j /\ j < cnt' => first'[i] <= first'[j]
    BY <1>1, PlacedSorted, DriftBounds DEF Collect
  <1>3. cnt' \in 0..(IF MaxSamples > 5 THEN MaxSamples ELSE 5)
    BY <1>1, DriftBounds
  <1>4. CASE cnt < 4
    <2>1. m' = m /\ cnt' < 5
      BY <1>1, <1>4 DEF Collect
    <2> QED BY <2>1, <1>1, <1>2, <1>3 DEF DriftInv
  <1>5. CASE cnt = 4
    <2>1. m' = [m EXCEPT !.q = first'] /\ cnt' = 5
      BY <1>1, <1>5 DEF Collect
    <2>2. m' = [q |-> first', n |-> m.n] /\ m.n \in [0..4 -> Int] /\ \A i \in 0..4 : m.n[i] = i + 1
      BY <2>1, <1>1 DEF DriftInv, Marks
    <2>3. m' \in Marks
      BY <2>2, <1>2 DEF Marks
    <2>4. \A i \in 0..3 : m'.n[i] < m'.n[i + 1] /\ m'.q[i] <= m'.q[i + 1]
      BY <2>1, <2>2, <1>2
    <2>5. Ordered(m', cnt')
      BY <2>1, <2>2, <2>3, <2>4 DEF Ordered
    <2> QED BY <2>1, <2>3, <2>5, <1>2, <1>3 DEF DriftInv
  <1> QED BY <1>1, <1>4, <1>5

LEMMA ObserveKeeps ==
    ASSUME DriftInv, NEW x \in Values, NEW shift, Observe(x, shift)
    PROVE  DriftInv'
  <1> DEFINE c  == cnt + 1
             s0 == Located(x)
             s1(h1) == Adjusted(1, s0, c, h1)
             s2(h1, h2) == Adjusted(2, s1(h1), c, h2)
  <1>1. cnt >= 5 /\ cnt < MaxSamples /\ cnt' = c /\ cnt \in Int /\ first' = first
    BY DriftBounds DEF Observe, DriftInv
  <1>2. PICK h1 \in Heights(1, s0, c) : \E h2 \in Heights(2, s1(h1), c) :
          \E h3 \in Heights(3, s2(h1, h2), c) : m' = Adjusted(3, s2(h1, h2), c, h3)
    BY DEF Observe
  <1>3. PICK h2 \in Heights(2, s1(h1), c) :
          \E h3 \in Heights(3, s2(h1, h2), c) : m' = Adjusted(3, s2(h1, h2), c, h3)
    BY <1>2
  <1>4. PICK h3 \in Heights(3, s2(h1, h2), c) : m' = Adjusted(3, s2(h1, h2), c, h3)
    BY <1>3
  <1>5. c \in Int /\ x \in Int /\ Ordered(m, cnt)
    BY <1>1, DriftBounds DEF DriftInv
  <1> HIDE DEF c, s0, s1, s2
  <1>6. Ordered(s0, c)
    BY <1>1, <1>5, LocatedOrdered DEF s0, c
  <1>7. Ordered(s1(h1), c)
    BY <1>2, <1>5, <1>6, AdjustedOrdered DEF s1
  <1>8. Ordered(s2(h1, h2), c)
    BY <1>3, <1>5, <1>7, AdjustedOrdered DEF s2
  <1>9. Ordered(m', c)
    BY <1>4, <1>5, <1>8, AdjustedOrdered
  <1>10. c \in 0..(IF MaxSamples > 5 THEN MaxSamples ELSE 5) /\ c >= 5
    BY <1>1, DriftBounds DEF c, DriftInv
  <1> QED BY <1>1, <1>9, <1>10 DEF DriftInv, Ordered

LEMMA DriftInvInit == DriftInit => DriftInv
  BY DriftBounds DEF DriftInit, DriftInv, Marks

LEMMA DriftInvNext == DriftInv /\ [DriftNext]_driftVars => DriftInv'
  <1> SUFFICES ASSUME DriftInv, [DriftNext]_driftVars PROVE DriftInv'
    OBVIOUS
  <1>1. ASSUME NEW x \in Values, NEW shift \in BOOLEAN, Observe(x, shift) PROVE DriftInv'
    BY <1>1, ObserveKeeps
  <1>2. ASSUME NEW x \in Values, NEW shift \in BOOLEAN, NEW k \in 0..4, Collect(x, k, shift)
        PROVE  DriftInv'
    BY <1>2, CollectKeeps
  <1>3. CASE UNCHANGED driftVars
    BY <1>3 DEF driftVars, DriftInv, Ordered
  <1> QED BY <1>1, <1>2, <1>3 DEF DriftNext, Sample

\* Through any stream of samples the markers of P2Quantile keep their order,
\* from position 1 to the number of samples: the divisors of parabolic and
\* linear are never zero.
THEOREM MarkersStayInOrder == DriftSpec => []MarkersInOrder
  <1>1. DriftInv => MarkersInOrder
    BY DriftBounds DEF DriftInv, MarkersInOrder, Ordered
  <1> QED BY <1>1, DriftInvInit, DriftInvNext, PTL DEF DriftSpec

\* The cutoff is of the model, and below its ceiling, until an operator sets it.
CalibInv == DriftInv /\ (~calibrated => sigma2 \in Int /\ 81 * sigma2 <= 100 * Ceil)

\* Rounding to hundredths does not pass a ceiling of whole hundredths.
LEMMA HundredthsBelow ==
    ASSUME NEW t \in Int, NEW top \in Int, t <= 2 * top, (100 * top) % 81 = 0
    PROVE  Hundredths(t) \in Int /\ 81 * Hundredths(t) <= 100 * top
  BY DEF Hundredths

LEMMA CalibInvInit == CalibInit => CalibInv
  BY DriftInvInit, CalibrationAssumption, DriftAssumption DEF CalibInit, CalibInv

\* Observing keeps the markers in order, and only an operator moves the cutoff.
LEMMA CalibInvNext == CalibInv /\ [CalibNext]_calibVars => CalibInv'
  <1> SUFFICES ASSUME CalibInv, [CalibNext]_calibVars PROVE CalibInv'
    OBVIOUS
  <1>1. ASSUME NEW iv \in Rhythms, PassRequest(iv) PROVE CalibInv'
    <2>1. DriftNext
      BY <1>1, CalibrationAssumption DEF PassRequest, DriftNext
    <2>2. DriftInv'
      BY <2>1, DriftInvNext DEF CalibInv
    <2>3. Threshold' \in Int /\ Threshold' <= 2 * Ceil
      <3>1. m'.q[2] \in Int /\ Floor \in Int /\ Ceil \in Int /\ Floor <= Ceil
        BY <2>2, DriftAssumption DEF DriftInv, Marks
      <3> QED BY <3>1 DEF Threshold
    <2>4. Adapted \in Int /\ 81 * Adapted <= 100 * Ceil
      <3>1. Ceil \in Int /\ (100 * Ceil) % 81 = 0
        BY DriftAssumption, CalibrationAssumption
      <3> QED BY <2>3, <3>1, HundredthsBelow DEF Adapted
    <2>5. sigma2' \in {sigma2, Adapted} /\ (~calibrated' /\ sigma2' = sigma2 => ~calibrated)
      BY <1>1 DEF PassRequest, Learnt
    <2>6. CASE sigma2' = Adapted
      BY <2>2, <2>4, <2>6 DEF CalibInv
    <2>7. CASE sigma2' = sigma2
      BY <2>2, <2>5, <2>7 DEF CalibInv
    <2> QED BY <2>5, <2>6, <2>7
  <1>2. ASSUME NEW value \in Calibrations, Calibrate(value) PROVE CalibInv'
    BY <1>2, DriftInvNext DEF Calibrate, CalibInv
  <1>3. CASE UNCHANGED calibVars
    BY <1>3, DriftInvNext DEF calibVars, CalibInv
  <1> QED BY <1>1, <1>2, <1>3 DEF CalibNext

\* What a browser with all its headers and a loose rhythm scores
LEMMA LooseScore ==
    ASSUME NEW iv \in Rhythms, NEW cutoff \in Int, 81 * cutoff <= 100 * Ceil,
           Variance(iv) >= 4 * Ceil
    PROVE  ~Blocked(iv, BrowserHeaders, cutoff)
  <1>1. Variance(iv) \in Int /\ Ceil \in Int /\ 0 <= Ceil
    <2>1. Variance(iv) \in Int
      BY CalibrationAssumption, DriftAssumption
    <2>2. InitCutoff \in Nat /\ 81 * InitCutoff <= 100 * Ceil /\ Ceil \in Int
      BY CalibrationAssumption, DriftAssumption
    <2>3. 0 <= Ceil
      BY <2>2
    <2> QED BY <2>1, <2>2, <2>3
  <1>2. VarianceScore(iv, cutoff) = 0
    <2>1. Len(iv) = 9
      BY CalibrationAssumption
    <2> QED BY <1>1, <2>1 DEF VarianceScore, Below
  <1>3. EntropyScore(iv) \in {12, 30}
    BY DEF EntropyScore
  <1>4. AutocorrScore(iv) \in {0, 12, 25}
    BY DEF AutocorrScore
  <1>5. HeaderScore(BrowserHeaders) = 0
    BY DEF HeaderScore, BrowserHeaders
  <1> QED BY <1>2, <1>3, <1>4, <1>5 DEF Blocked, BlockThreshold

\* No crowd's rhythms, for any quantile and any stream, teach the filter to block
\* a browser with all its headers whose variance is four times the ceiling
\* (sniperFilter, DriftAdaptiveThreshold).
THEOREM LooseBrowsersPass == CalibSpec => []LooseBrowserPasses
  <1>1. CalibInv => LooseBrowserPasses
    BY LooseScore DEF CalibInv, LooseBrowserPasses, Scored
  <1> QED BY <1>1, CalibInvInit, CalibInvNext, PTL DEF CalibSpec

-------------------------------------------------------------------------------
\* ---- Sybil clusters (sybilCluster.ts, server.ts)

\* A finite set of naturals that is not empty has a least element.
LEMMA FiniteMin ==
    ASSUME NEW S \in SUBSET Nat, IsFiniteSet(S), S # {}
    PROVE  \E k \in S : \A x \in S : k <= x
  <1> DEFINE Unbounded == {T \in FiniteSubsetsOf(S) :
                              T # {} /\ ~ \E k \in T : \A x \in T : k <= x}
  <1>1. S \in FiniteSubsetsOf(S)
    BY DEF FiniteSubsetsOf
  <1>2. SUFFICES ASSUME Unbounded # {} PROVE FALSE
    BY <1>1
  <1>3. PICK T \in Unbounded : \A U \in Unbounded : <<U, T>> \notin StrictSubsetOrdering(S)
    <2>1. Unbounded \subseteq FiniteSubsetsOf(S)
      OBVIOUS
    <2> HIDE DEF Unbounded
    <2> QED BY <1>2, <2>1, FS_StrictSubsetOrderingWellFounded, WFMin
  <1>4. PICK x : x \in T
    OBVIOUS
  <1> DEFINE U == T \ {x}
  <1>5. U \in FiniteSubsetsOf(S) /\ <<U, T>> \in StrictSubsetOrdering(S)
    BY <1>4, FS_Subset DEF FiniteSubsetsOf, StrictSubsetOrdering
  <1>6. U # {}
    BY <1>3, <1>4 DEF FiniteSubsetsOf
  <1>7. PICK k \in U : \A y \in U : k <= y
    BY <1>3, <1>5, <1>6
  <1>8. x \in Nat /\ k \in Nat /\ k \in T /\ \A y \in T : y \in Nat
    BY <1>4, <1>7 DEF FiniteSubsetsOf
  <1>9. \A y \in T : y = x \/ y \in U
    OBVIOUS
  <1>10. CASE x <= k
    BY <1>3, <1>4, <1>7, <1>8, <1>9, <1>10
  <1>11. CASE k <= x
    BY <1>3, <1>4, <1>7, <1>8, <1>9, <1>11
  <1> QED BY <1>8, <1>10, <1>11

\* A list of members: the place each hash has on it, zero if none.  No place is
\* taken twice, and none is beyond the number of members.
InOrder(list) ==
    /\ \A x, y \in Listed(list) : list[x] = list[y] => x = y
    /\ \A x \in Listed(list) : list[x] <= Cardinality(Listed(list))
Places == {list \in [Hashes -> Nat] : InOrder(list)}

\* Addresses and days are finitely many, so every list can be counted.
LEMMA HashesFinite == IsFiniteSet(Hashes)
  <1>1. IsFiniteSet(1..MaxDay)
    BY WatchAssumption, FS_Interval
  <1> QED BY <1>1, WatchAssumption, FS_Product DEF Hashes

LEMMA ListedFinite ==
    ASSUME NEW list, NEW S \in SUBSET Listed(list)
    PROVE  IsFiniteSet(S) /\ Cardinality(S) \in Nat
  <1>1. S \subseteq Hashes
    BY DEF Listed
  <1>2. IsFiniteSet(S)
    BY <1>1, HashesFinite, FS_Subset
  <1> QED BY <1>2, FS_CardinalityType

\* Taking hashes off a list takes off these and no other, and the others close
\* up in their order.
LEMMA WithoutLists ==
    ASSUME NEW list \in Places, NEW gone
    PROVE  Without(list, gone) \in Places /\ Listed(Without(list, gone)) = Listed(list) \ gone
  <1> DEFINE rest == Listed(list) \ gone
             before(x) == {y \in rest : list[y] <= list[x]}
             closed == Without(list, gone)
  <1>1. rest \subseteq Hashes /\ IsFiniteSet(rest) /\ \A x \in rest : list[x] \in Nat
    <2>1. rest \in SUBSET Listed(list)
      OBVIOUS
    <2>2. \A x \in rest : x \in Hashes /\ list[x] \in Nat
      BY DEF Places, Listed
    <2> HIDE DEF rest
    <2> QED BY <2>1, <2>2, ListedFinite
  <1>2. ASSUME NEW x
        PROVE  IsFiniteSet(before(x)) /\ Cardinality(before(x)) \in Nat
                   /\ Cardinality(before(x)) <= Cardinality(rest)
    <2>1. before(x) \subseteq rest
      OBVIOUS
    <2> HIDE DEF before, rest
    <2> QED BY <1>1, <2>1, FS_Subset, FS_CardinalityType
  <1>3. ASSUME NEW x \in rest PROVE Cardinality(before(x)) # 0
    <2>1. x \in before(x)
      BY <1>1
    <2> HIDE DEF before, rest
    <2> QED BY <1>2, <2>1, FS_EmptySet
  <1>4. ASSUME NEW x \in rest, NEW y \in rest, list[x] < list[y]
        PROVE  Cardinality(before(x)) < Cardinality(before(y))
    <2>1. y \in before(y) /\ before(x) \subseteq before(y) \ {y}
      BY <1>1, <1>4
    <2> HIDE DEF before, rest
    <2>2. /\ IsFiniteSet(before(y) \ {y})
          /\ Cardinality(before(y) \ {y}) = Cardinality(before(y)) - 1
      BY <1>2, <2>1, FS_RemoveElement
    <2>3. Cardinality(before(x)) <= Cardinality(before(y) \ {y})
      BY <2>1, <2>2, FS_Subset
    <2> QED BY <1>2, <2>2, <2>3
  <1>5. closed = [x \in Hashes |-> IF x \notin rest THEN 0 ELSE Cardinality(before(x))]
    BY DEF Without
  <1> HIDE DEF before, closed
  <1>6. \A x, y \in rest : list[x] = list[y] => x = y
    BY DEF Places, InOrder
  <1> HIDE DEF rest
  <1>7. Listed(closed) = rest
    BY <1>1, <1>3, <1>5 DEF Listed
  <1>8. \A x \in rest : closed[x] = Cardinality(before(x))
    BY <1>1, <1>5
  <1>9. closed \in [Hashes -> Nat]
    BY <1>2, <1>5
  <1>10. ASSUME NEW x \in rest, NEW y \in rest, closed[x] = closed[y] PROVE x = y
    <2>1. closed[x] \in Nat /\ closed[y] \in Nat
      BY <1>2, <1>8
    <2>2. ~(list[x] < list[y]) /\ ~(list[y] < list[x])
      BY <1>4, <1>8, <1>10, <2>1
    <2> QED BY <1>1, <1>6, <2>2
  <1> QED BY <1>2, <1>7, <1>8, <1>9, <1>10 DEF Places, InOrder, closed, rest

\* Putting a hash on a list puts on that one, at the end, and no other.
LEMMA WithLists ==
    ASSUME NEW list \in Places, NEW h \in Hashes
    PROVE  With(list, h) \in Places /\ Listed(With(list, h)) = Listed(list) \cup {h}
  <1> DEFINE n == Cardinality(Listed(list))
  <1>1. n \in Nat /\ IsFiniteSet(Listed(list)) /\ list \in [Hashes -> Nat]
    BY ListedFinite DEF Places
  <1>2. CASE list[h] # 0
    BY <1>2 DEF With, Listed
  <1>3. CASE list[h] = 0
    <2> DEFINE more == With(list, h)
    <2>1. more = [list EXCEPT ![h] = n + 1]
      BY <1>3 DEF With
    <2> HIDE DEF n, more
    <2>2. \A x \in Hashes : more[x] = IF x = h THEN n + 1 ELSE list[x]
      BY <1>1, <2>1
    <2>3. h \notin Listed(list) /\ Listed(more) = Listed(list) \cup {h}
      BY <1>1, <1>3, <2>2 DEF Listed
    <2>4. Cardinality(Listed(more)) = n + 1
      BY <1>1, <2>3, FS_AddElement DEF n
    <2>5. more \in [Hashes -> Nat]
      BY <1>1, <2>1
    <2>6. \A x \in Listed(list) : x \in Hashes /\ x # h /\ list[x] <= n /\ list[x] \in Nat
      BY <1>1, <2>3 DEF Places, InOrder, n, Listed
    <2>7. \A x, y \in Listed(list) : list[x] = list[y] => x = y
      BY DEF Places, InOrder
    <2>8. \A x \in Listed(more) : more[x] <= n + 1
      BY <1>1, <2>2, <2>3, <2>6
    <2>9. \A x, y \in Listed(more) : more[x] = more[y] => x = y
      BY <1>1, <2>2, <2>3, <2>6, <2>7
    <2> QED BY <2>3, <2>4, <2>5, <2>8, <2>9 DEF Places, InOrder, more
  <1> QED BY <1>2, <1>3

\* A function on an initial segment is a sequence.
LEMMA FunctionIsSeq ==
    ASSUME NEW S, NEW n \in Nat, NEW f \in [1..n -> S]
    PROVE  f \in Seq(S) /\ Len(f) = n
  OBVIOUS

\* The cohort a record is matched to, 0 for none
FirstMatch(s, h) == SelectInSeq(s.members, LAMBDA list : Matches(s, h, list))

LEMMA FirstMatchIs ==
    ASSUME NEW s, NEW h, Len(s.members) \in Nat
    PROVE  FirstMatch(s, h) \in 0..Len(s.members)
  <1> DEFINE found == {i \in 1..Len(s.members) : Matches(s, h, s.members[i])}
  <1>1. FirstMatch(s, h) = IF found # {} THEN Min(found) ELSE 0
    BY DEF SelectInSeq, FirstMatch
  <1>2. found \in SUBSET Nat /\ found \subseteq 1..Len(s.members)
    OBVIOUS
  <1>3. IsFiniteSet(found)
    <2>1. IsFiniteSet(1..Len(s.members))
      BY FS_Interval
    <2> HIDE DEF found
    <2> QED BY <1>2, <2>1, FS_Subset
  <1> HIDE DEF found
  <1>4. ASSUME found # {} PROVE Min(found) \in found
    BY <1>2, <1>3, <1>4, FiniteMin DEF Min
  <1>5. CASE found = {}
    BY <1>1, <1>5
  <1>6. CASE found # {}
    <2> DEFINE n == Len(s.members)
    <2>1. Min(found) \in 1..n /\ n \in Nat
      BY <1>2, <1>4, <1>6
    <2>2. FirstMatch(s, h) = Min(found)
      BY <1>1, <1>6
    <2> HIDE DEF n
    <2>3. Min(found) \in 0..n
      BY <2>1
    <2> QED BY <2>2, <2>3 DEF n
  <1> QED BY <1>5, <1>6

Clusters == [samples: [Hashes -> Nat], cohort: [Hashes -> Nat], members: Seq(Places),
             flagged: SUBSET Hashes]

\* What CohortListsItsMembers says, with the samples it needs to survive a sweep
ListsItsMembers(s) ==
    /\ \A h \in Hashes : s.cohort[h] # 0 =>
           /\ s.samples[h] > 0 /\ s.cohort[h] \in 1..Len(s.members)
           /\ h \in Listed(s.members[s.cohort[h]])
    /\ \A h \in s.flagged : s.samples[h] > 0

ClusterOK(s) == s \in Clusters /\ ListsItsMembers(s)

LEMMA EmptyOK == ClusterOK(EmptyCluster)
  <1>1. <<>> \in Seq(Places) /\ Len(<<>>) = 0
    OBVIOUS
  <1> QED BY <1>1 DEF ClusterOK, EmptyCluster, Clusters, ListsItsMembers

\* A sweep takes records, flags and places together.
LEMMA EvictOK ==
    ASSUME NEW s, ClusterOK(s), NEW gone
    PROVE  ClusterOK(Evict(s, gone))
  <1> DEFINE e == Evict(s, gone)
             off(c) == {x \in gone : s.cohort[x] = c}
  <1>1. s \in Clusters /\ Len(s.members) \in Nat /\ DOMAIN s.members = 1..Len(s.members)
    BY DEF ClusterOK, Clusters
  <1>2. ASSUME NEW c \in 1..Len(s.members)
        PROVE  /\ e.members[c] \in Places
               /\ Listed(e.members[c]) = Listed(s.members[c]) \ off(c)
    <2>1. e.members[c] = Without(s.members[c], off(c)) /\ s.members[c] \in Places
      BY <1>1 DEF Evict, Clusters
    <2> HIDE DEF e, off
    <2> QED BY <2>1, WithoutLists
  <1>3. e.members \in Seq(Places) /\ Len(e.members) = Len(s.members)
    <2>1. e.members = [c \in 1..Len(s.members) |-> e.members[c]]
      BY <1>1 DEF Evict
    <2> HIDE DEF e
    <2>2. e.members \in [1..Len(s.members) -> Places]
      BY <1>2, <2>1
    <2> QED BY <1>1, <2>2, FunctionIsSeq
  <1>4. e \in Clusters
    <2>1. e.samples \in [Hashes -> Nat] /\ e.cohort \in [Hashes -> Nat]
      BY <1>1 DEF Evict, Clusters
    <2>2. e.flagged \in SUBSET Hashes
      BY <1>1 DEF Evict, Clusters
    <2>3. e = [samples |-> e.samples, cohort |-> e.cohort, members |-> e.members,
               flagged |-> e.flagged]
      BY DEF Evict
    <2> HIDE DEF e
    <2> QED BY <1>3, <2>1, <2>2, <2>3 DEF Clusters
  <1>5. ASSUME NEW h \in Hashes, e.cohort[h] # 0
        PROVE  /\ e.samples[h] > 0 /\ e.cohort[h] \in 1..Len(e.members)
               /\ h \in Listed(e.members[e.cohort[h]])
    <2>1. h \notin gone /\ e.cohort[h] = s.cohort[h] /\ e.samples[h] = s.samples[h]
      BY <1>5 DEF Evict
    <2>2. s.samples[h] > 0 /\ s.cohort[h] \in 1..Len(s.members) /\ h \in Listed(s.members[s.cohort[h]])
      BY <1>5, <2>1 DEF ClusterOK, ListsItsMembers
    <2> HIDE DEF e
    <2> QED BY <1>2, <1>3, <2>1, <2>2
  <1>6. \A h \in e.flagged : e.samples[h] > 0
    BY <1>1 DEF Evict, ClusterOK, ListsItsMembers, Clusters
  <1> HIDE DEF e
  <1> QED BY <1>4, <1>5, <1>6 DEF ClusterOK, ListsItsMembers, e

\* A record that moves is taken off its old list.
LEMMA MoveOK ==
    ASSUME NEW s, ClusterOK(s), NEW h \in Hashes, s.samples[h] > 0, NEW c \in 1..Len(s.members)
    PROVE  ClusterOK(Move(s, h, c))
  <1> DEFINE e == Move(s, h, c)
  <1>1. s \in Clusters /\ Len(s.members) \in Nat /\ DOMAIN s.members = 1..Len(s.members)
    BY DEF ClusterOK, Clusters
  <1> DEFINE lists == [d \in 1..Len(s.members) |->
                           IF d = c THEN With(s.members[d], h)
                           ELSE IF d = s.cohort[h] THEN Without(s.members[d], {h})
                           ELSE s.members[d]]
  <1>2. e = [samples |-> s.samples, cohort |-> [s.cohort EXCEPT ![h] = c],
             members |-> lists, flagged |-> s.flagged]
    <2>1. e = [s EXCEPT !.cohort[h] = c, !.members = lists]
      BY <1>1 DEF Move
    <2> HIDE DEF e, lists
    <2> QED BY <1>1, <2>1 DEF Clusters
  <1> HIDE DEF e
  <1>3. ASSUME NEW d \in 1..Len(s.members)
        PROVE  /\ e.members[d] \in Places
               /\ \A g \in Listed(s.members[d]) : g # h => g \in Listed(e.members[d])
               /\ d = c => h \in Listed(e.members[d])
    <2>1. s.members[d] \in Places
      BY <1>1 DEF Clusters
    <2> QED BY <1>2, <2>1, WithLists, WithoutLists
  <1>4. e.members \in Seq(Places) /\ Len(e.members) = Len(s.members)
    <2>1. e.members \in [1..Len(s.members) -> Places]
      BY <1>2, <1>3
    <2> QED BY <1>1, <2>1, FunctionIsSeq
  <1>5. e \in Clusters
    <2>1. e.samples \in [Hashes -> Nat] /\ e.flagged \in SUBSET Hashes
      BY <1>1, <1>2 DEF Clusters
    <2>2. e.cohort \in [Hashes -> Nat]
      BY <1>1, <1>2 DEF Clusters
    <2> QED BY <1>2, <1>4, <2>1, <2>2 DEF Clusters
  <1>6. ASSUME NEW g \in Hashes, e.cohort[g] # 0
        PROVE  /\ e.samples[g] > 0 /\ e.cohort[g] \in 1..Len(e.members)
               /\ g \in Listed(e.members[e.cohort[g]])
    <2>1. CASE g = h
      BY <1>1, <1>2, <1>3, <1>4, <2>1 DEF Clusters
    <2>2. CASE g # h
      <3>1. e.cohort[g] = s.cohort[g]
        BY <1>1, <1>2, <2>2 DEF Clusters
      <3>2. s.samples[g] > 0 /\ s.cohort[g] \in 1..Len(s.members) /\ g \in Listed(s.members[s.cohort[g]])
        BY <1>6, <3>1 DEF ClusterOK, ListsItsMembers
      <3> QED BY <1>2, <1>3, <1>4, <2>2, <3>1, <3>2
    <2> QED BY <2>1, <2>2
  <1>7. \A g \in e.flagged : e.samples[g] > 0
    BY <1>2 DEF ClusterOK, ListsItsMembers
  <1> QED BY <1>5, <1>6, <1>7 DEF ClusterOK, ListsItsMembers, e

\* A record that opens a cohort is alone on its list.
LEMMA OpenOK ==
    ASSUME NEW s, ClusterOK(s), NEW h \in Hashes, s.samples[h] > 0
    PROVE  ClusterOK(Open(s, h))
  <1> DEFINE e == Open(s, h)
             list == With(Nobody, h)
             n == Len(s.members)
             lists == Append(s.members, list)
  <1>1. s \in Clusters /\ n \in Nat /\ s.members \in Seq(Places)
    BY DEF ClusterOK, Clusters
  <1>2. list \in Places /\ h \in Listed(list)
    <2>1. Nobody \in Places
      BY DEF Nobody, Places, InOrder, Listed
    <2> QED BY <2>1, WithLists
  <1> HIDE DEF list
  <1>3. /\ lists \in Seq(Places) /\ Len(lists) = n + 1 /\ lists[n + 1] = list
        /\ \A c \in 1..n : lists[c] = s.members[c]
    BY <1>1, <1>2
  <1> HIDE DEF n
  <1>4. e = [samples |-> s.samples, cohort |-> [s.cohort EXCEPT ![h] = n + 1],
             members |-> lists, flagged |-> s.flagged]
    <2>1. e = [s EXCEPT !.cohort[h] = n + 1, !.members = lists]
      BY DEF Open, list, n
    <2> HIDE DEF e, lists
    <2> QED BY <1>1, <2>1 DEF Clusters
  <1> HIDE DEF e, lists
  <1>5. e \in Clusters
    <2>1. e.samples \in [Hashes -> Nat] /\ e.flagged \in SUBSET Hashes
      BY <1>1, <1>4 DEF Clusters
    <2>2. e.cohort \in [Hashes -> Nat]
      BY <1>1, <1>4 DEF Clusters
    <2> QED BY <1>3, <1>4, <2>1, <2>2 DEF Clusters
  <1>6. ASSUME NEW g \in Hashes, e.cohort[g] # 0
        PROVE  /\ e.samples[g] > 0 /\ e.cohort[g] \in 1..Len(e.members)
               /\ g \in Listed(e.members[e.cohort[g]])
    <2>1. CASE g = h
      BY <1>1, <1>2, <1>3, <1>4, <2>1 DEF Clusters
    <2>2. CASE g # h
      <3>1. e.cohort[g] = s.cohort[g]
        BY <1>1, <1>4, <2>2 DEF Clusters
      <3>2. s.samples[g] > 0 /\ s.cohort[g] \in 1..n /\ g \in Listed(s.members[s.cohort[g]])
        BY <1>6, <3>1 DEF ClusterOK, ListsItsMembers, n
      <3> QED BY <1>1, <1>3, <1>4, <3>1, <3>2
    <2> QED BY <2>1, <2>2
  <1>7. \A g \in e.flagged : e.samples[g] > 0
    BY <1>4 DEF ClusterOK, ListsItsMembers
  <1> QED BY <1>5, <1>6, <1>7 DEF ClusterOK, ListsItsMembers, e

LEMMA AssignOK ==
    ASSUME NEW s, ClusterOK(s), NEW h \in Hashes
    PROVE  /\ ClusterOK(Assign(s, h))
           /\ Assign(s, h).samples = s.samples /\ Assign(s, h).flagged = s.flagged
  <1> DEFINE c == FirstMatch(s, h)
  <1>1. s \in Clusters /\ Len(s.members) \in Nat /\ s.samples[h] \in Nat /\ Stable \in Nat \ {0}
    BY WatchAssumption DEF ClusterOK, Clusters
  <1>2. c \in 0..Len(s.members)
    BY <1>1, FirstMatchIs
  <1>3. Assign(s, h) = IF s.samples[h] < Stable THEN s
                       ELSE IF c # 0 THEN Move(s, h, c) ELSE Open(s, h)
    BY DEF Assign, FirstMatch
  <1> HIDE DEF c
  <1>4. s.samples[h] < Stable \/ s.samples[h] > 0
    BY <1>1
  <1>5. ClusterOK(Assign(s, h))
    BY <1>1, <1>2, <1>3, <1>4, MoveOK, OpenOK
  <1>6. /\ Move(s, h, c).samples = s.samples /\ Move(s, h, c).flagged = s.flagged
        /\ Open(s, h).samples = s.samples /\ Open(s, h).flagged = s.flagged
    BY <1>1 DEF Move, Open, Clusters
  <1> QED BY <1>3, <1>5, <1>6

\* A profile that grows disturbs neither lists nor flags.
LEMMA GrowOK ==
    ASSUME NEW s, ClusterOK(s), NEW h \in Hashes, NEW k \in Nat, s.samples[h] > 0 => k > 0
    PROVE  ClusterOK([s EXCEPT !.samples[h] = k])
  <1> DEFINE e == [s EXCEPT !.samples[h] = k]
  <1>1. s \in Clusters
    BY DEF ClusterOK
  <1>2. e = [samples |-> [s.samples EXCEPT ![h] = k], cohort |-> s.cohort,
             members |-> s.members, flagged |-> s.flagged]
    <2>1. s = [samples |-> s.samples, cohort |-> s.cohort, members |-> s.members,
               flagged |-> s.flagged]
      BY <1>1 DEF Clusters
    <2> DEFINE grown == [s.samples EXCEPT ![h] = k]
    <2>2. e = [s EXCEPT !.samples = grown]
      OBVIOUS
    <2> HIDE DEF e, grown
    <2> QED BY <1>1, <2>1, <2>2 DEF Clusters, grown
  <1> HIDE DEF e
  <1>3. e.samples \in [Hashes -> Nat] /\ \A g \in Hashes : s.samples[g] > 0 => e.samples[g] > 0
    BY <1>1, <1>2 DEF Clusters
  <1>4. e \in Clusters
    BY <1>1, <1>2, <1>3 DEF Clusters
  <1>5. ListsItsMembers(e)
    BY <1>1, <1>2, <1>3 DEF ClusterOK, ListsItsMembers, Clusters
  <1> QED BY <1>4, <1>5 DEF ClusterOK, e

LEMMA IngestOK ==
    ASSUME NEW s, ClusterOK(s), NEW h \in Hashes, NEW n \in Nat, NEW gone
    PROVE  /\ ClusterOK(Ingest(s, h, n, gone))
           /\ n > 0 => Ingest(s, h, n, gone).samples[h] > 0
           /\ s.flagged \ gone \subseteq Ingest(s, h, n, gone).flagged
  <1> DEFINE swept == IF Cardinality(Records) >= MaxRecords THEN Evict(s, gone) ELSE s
             k == CapAt(swept.samples[h] + n, Full)
             grown == [swept EXCEPT !.samples[h] = CapAt(@ + n, Full)]
  <1>1. ClusterOK(swept) /\ s.flagged \ gone \subseteq swept.flagged
    <2>1. s.flagged \ gone \subseteq Evict(s, gone).flagged
      BY DEF Evict
    <2> QED BY <2>1, EvictOK
  <1>2. Ingest(s, h, n, gone) = Assign(grown, h)
    BY DEF Ingest
  <1> HIDE DEF swept
  <1>3. swept.samples[h] \in Nat /\ Full \in Nat \ {0} /\ swept \in Clusters
    BY <1>1, WatchAssumption DEF ClusterOK, Clusters
  <1>4. k \in Nat /\ (swept.samples[h] > 0 => k > 0) /\ (n > 0 => k > 0)
    BY <1>3 DEF CapAt
  <1>5. grown = [swept EXCEPT !.samples[h] = k]
    OBVIOUS
  <1> HIDE DEF k
  <1>6. grown.samples[h] = k /\ grown.flagged = swept.flagged
    BY <1>3, <1>5 DEF Clusters
  <1> HIDE DEF grown
  <1>7. ClusterOK(grown)
    BY <1>1, <1>4, <1>5, GrowOK
  <1> QED BY <1>1, <1>2, <1>4, <1>6, <1>7, AssignOK

\* flag() reaches the record and, by the lists, whatever has its cohort.
LEMMA FlagOK ==
    ASSUME NEW s, ClusterOK(s), NEW h \in Hashes
    PROVE  /\ ClusterOK(Flag(s, h))
           /\ s.flagged \subseteq Flag(s, h).flagged
           /\ s.samples[h] > 0 => h \in Flag(s, h).flagged
           /\ \A g \in Hashes :
                s.samples[h] > 0 /\ Flag(s, h).cohort[h] # 0
                    /\ Flag(s, h).cohort[g] = Flag(s, h).cohort[h] => g \in Flag(s, h).flagged
  <1> DEFINE listed == IF s.cohort[h] = 0 THEN {} ELSE Listed(s.members[s.cohort[h]])
             e == Flag(s, h)
  <1>1. s \in Clusters /\ ListsItsMembers(s)
    BY DEF ClusterOK
  <1>2. CASE s.samples[h] = 0
    BY <1>1, <1>2 DEF Flag
  <1>3. CASE s.samples[h] # 0
    <2>1. e = [s EXCEPT !.flagged = @ \cup {h} \cup {x \in listed : s.samples[x] > 0}]
      BY <1>3 DEF Flag
    <2>2. listed \subseteq Hashes
      BY DEF Listed
    <2> HIDE DEF e, listed
    <2>3. e = [samples |-> s.samples, cohort |-> s.cohort, members |-> s.members,
               flagged |-> s.flagged \cup {h} \cup {x \in listed : s.samples[x] > 0}]
      BY <1>1, <2>1 DEF Clusters
    <2>4. s.samples[h] > 0
      BY <1>1, <1>3 DEF Clusters
    <2>5. e \in Clusters
      BY <1>1, <2>2, <2>3 DEF Clusters
    <2>6. ListsItsMembers(e)
      BY <1>1, <2>3, <2>4 DEF ListsItsMembers
    <2>7. ASSUME NEW g \in Hashes, e.cohort[h] # 0, e.cohort[g] = e.cohort[h]
          PROVE  g \in e.flagged
      <3>1. s.samples[g] > 0 /\ g \in Listed(s.members[s.cohort[h]])
        BY <1>1, <2>3, <2>7 DEF ListsItsMembers
      <3>2. g \in listed
        BY <2>3, <2>7, <3>1 DEF listed
      <3> QED BY <2>3, <3>1, <3>2
    <2>8. ClusterOK(e) /\ s.flagged \subseteq e.flagged /\ h \in e.flagged
      BY <2>3, <2>5, <2>6 DEF ClusterOK
    <2> QED BY <2>7, <2>8 DEF e
  <1> QED BY <1>2, <1>3
-------------------------------------------------------------------------------
\* The lists are right, and whoever was caught or fell with another today is
\* flagged.
WatchInv ==
    /\ day \in 1..MaxDay /\ log \in [Ips -> Nat]
    /\ ClusterOK(sybil)
    /\ culprits \subseteq Ips \X (1..day) /\ felled \subseteq Ips \X (1..day)
    /\ CaughtStaysOut /\ CohortStaysOut

LEMMA WatchInit == Init => WatchInv
  <1>1. MaxDay \in Nat \ {0}
    BY WatchAssumption
  <1> QED BY <1>1, EmptyOK DEF Init, WatchInv, CaughtStaysOut, CohortStaysOut

LEMMA HashIpIs ==
    ASSUME WatchInv, NEW ip \in Ips
    PROVE  HashIp(ip) \in Hashes /\ HashIp(ip)[2] = day /\ HashIp(ip) \in Ips \X (1..day)
  BY DEF WatchInv, HashIp, Hashes

\* What the sweep takes is not of today, so today's flags outlive it.
LEMMA TodayKept ==
    ASSUME WatchInv, NEW gone \in SUBSET Aged, NEW g \in culprits \cup felled, g[2] = day
    PROVE  g \in sybil.flagged \ gone
  BY DEF WatchInv, CaughtStaysOut, CohortStaysOut, Aged, Records, Hashes

\* Fellows are of today, and the flag reaches them all.
LEMMA FellowsOfToday ==
    ASSUME WatchInv, NEW s, NEW h
    PROVE  \A g \in Fellows(s, h) : g[2] = day /\ g \in Ips \X (1..day)
  BY DEF Fellows, Hashes, WatchInv

LEMMA FellowsFall ==
    ASSUME NEW s, ClusterOK(s), NEW h \in Hashes, s.samples[h] > 0
    PROVE  Fellows(s, h) \subseteq Flag(s, h).flagged
  <1>1. \A g \in Hashes : Flag(s, h).cohort[h] # 0 /\ Flag(s, h).cohort[g] = Flag(s, h).cohort[h]
                             => g \in Flag(s, h).flagged
    BY FlagOK
  <1>2. Flag(s, h).cohort = s.cohort
    BY DEF Flag, ClusterOK, Clusters
  <1> QED BY <1>1, <1>2 DEF Fellows

\* A request counts, joins and may be caught, after the sweep it may start.
LEMMA RequestKeeps ==
    ASSUME WatchInv, NEW ip \in Ips, NEW puppet \in BOOLEAN, NEW synthetic \in BOOLEAN,
           NEW gone \in SUBSET Aged, Request(ip, puppet, synthetic, gone)
    PROVE  WatchInv'
  <1> DEFINE h == HashIp(ip)
             kept == CapAt(log[ip] + 1, MaxLog)
             scored == ~puppet /\ armed /\ kept >= MinLog
             fed == Ingest(sybil, h, kept - 1, gone)
             caught == scored /\ synthetic
  <1>1. h \in Hashes /\ h[2] = day /\ h \in Ips \X (1..day)
    BY HashIpIs
  <1>2. kept \in Nat /\ kept > 0 /\ (scored => kept - 1 > 0)
    BY WatchAssumption DEF WatchInv, CapAt
  <1>3. /\ log' = IF ~puppet /\ armed THEN [log EXCEPT ![ip] = kept] ELSE log
        /\ sybil' = IF caught THEN Flag(fed, h) ELSE IF scored THEN fed ELSE sybil
        /\ culprits' = IF caught THEN culprits \cup {h} ELSE culprits
        /\ felled' = IF caught THEN felled \cup Fellows(fed, h) ELSE felled
        /\ day' = day
    BY DEF Request
  <1>4. caught => scored
    OBVIOUS
  <1> HIDE DEF h, kept, scored, caught
  <1>5. ClusterOK(fed) /\ (scored => fed.samples[h] > 0) /\ sybil.flagged \ gone \subseteq fed.flagged
    <2>1. ClusterOK(sybil) /\ kept - 1 \in Nat
      BY <1>2 DEF WatchInv
    <2> QED BY <1>1, <1>2, <2>1, IngestOK
  <1> HIDE DEF fed
  <1>6. /\ ClusterOK(Flag(fed, h)) /\ fed.flagged \subseteq Flag(fed, h).flagged
        /\ scored => h \in Flag(fed, h).flagged
        /\ scored => Fellows(fed, h) \subseteq Flag(fed, h).flagged
    BY <1>1, <1>5, FlagOK, FellowsFall
  <1>7. ClusterOK(sybil')
    BY <1>3, <1>5, <1>6 DEF WatchInv
  <1>8. log' \in [Ips -> Nat]
    BY <1>2, <1>3 DEF WatchInv
  <1>9. culprits' \subseteq Ips \X (1..day') /\ felled' \subseteq Ips \X (1..day')
    BY <1>1, <1>3, FellowsOfToday DEF WatchInv
  <1>10. CaughtStaysOut'
    <2>1. sybil.flagged \ gone \subseteq sybil'.flagged
      BY <1>3, <1>5, <1>6
    <2>2. \A g \in culprits : g[2] = day => g \in sybil'.flagged
      BY <2>1, TodayKept
    <2>3. caught => h \in sybil'.flagged
      BY <1>3, <1>4, <1>6
    <2> QED BY <1>3, <2>2, <2>3 DEF CaughtStaysOut
  <1>11. CohortStaysOut'
    <2>1. sybil.flagged \ gone \subseteq sybil'.flagged
      BY <1>3, <1>5, <1>6
    <2>2. \A g \in felled : g[2] = day => g \in sybil'.flagged
      BY <2>1, TodayKept
    <2>3. caught => Fellows(fed, h) \subseteq sybil'.flagged
      BY <1>3, <1>4, <1>6
    <2> QED BY <1>3, <2>2, <2>3 DEF CohortStaysOut
  <1> QED BY <1>3, <1>7, <1>8, <1>9, <1>10, <1>11 DEF WatchInv

LEMMA ReportKeeps ==
    ASSUME WatchInv, NEW ip \in Ips, NEW n \in Nat, NEW gone \in SUBSET Aged, Report(ip, n, gone)
    PROVE  WatchInv'
  <1>1. HashIp(ip) \in Hashes
    BY HashIpIs
  <1>2. ClusterOK(sybil') /\ sybil.flagged \ gone \subseteq sybil'.flagged
    BY <1>1, IngestOK DEF WatchInv, Report
  <1>3. CaughtStaysOut'
    <2>1. \A g \in culprits : g[2] = day => g \in sybil'.flagged
      BY <1>2, TodayKept
    <2> QED BY <2>1 DEF CaughtStaysOut, Report
  <1>4. CohortStaysOut'
    <2>1. \A g \in felled : g[2] = day => g \in sybil'.flagged
      BY <1>2, TodayKept
    <2> QED BY <2>1 DEF CohortStaysOut, Report
  <1> QED BY <1>2, <1>3, <1>4 DEF WatchInv, Report

LEMMA DenounceKeeps ==
    ASSUME WatchInv, NEW ip \in Ips, Denounce(ip)
    PROVE  WatchInv'
  <1> DEFINE h == HashIp(ip)
  <1>1. h \in Hashes /\ h[2] = day /\ h \in Ips \X (1..day)
    BY HashIpIs
  <1>2. /\ sybil' = Flag(sybil, h) /\ day' = day /\ log' = log
        /\ culprits' = IF h \in Records THEN culprits \cup {h} ELSE culprits
        /\ felled' = felled \cup Fellows(sybil, h)
    BY DEF Denounce
  <1>3. h \in Records => sybil.samples[h] > 0
    BY DEF Records
  <1> HIDE DEF h
  <1>4. /\ ClusterOK(sybil') /\ sybil.flagged \subseteq sybil'.flagged
        /\ h \in Records => h \in sybil'.flagged
    BY <1>1, <1>2, <1>3, FlagOK DEF WatchInv
  <1>5. Fellows(sybil, h) \subseteq sybil'.flagged
    <2>1. CASE h \in Records
      BY <1>1, <1>2, <1>3, <2>1, FellowsFall DEF WatchInv
    <2>2. CASE h \notin Records
      BY <1>1, <2>2 DEF WatchInv, ClusterOK, ListsItsMembers, Records, Fellows
    <2> QED BY <2>1, <2>2
  <1>6. culprits' \subseteq Ips \X (1..day') /\ felled' \subseteq Ips \X (1..day')
    BY <1>1, <1>2, FellowsOfToday DEF WatchInv
  <1>7. CaughtStaysOut'
    BY <1>2, <1>4 DEF WatchInv, CaughtStaysOut
  <1>8. CohortStaysOut'
    BY <1>2, <1>4, <1>5 DEF WatchInv, CohortStaysOut
  <1> QED BY <1>2, <1>4, <1>6, <1>7, <1>8 DEF WatchInv

LEMMA WatchNext ==
    ASSUME WatchInv, [Next]_vars
    PROVE  WatchInv'
  <1>1. ASSUME NEW ip \in Ips, NEW puppet \in BOOLEAN, NEW synthetic \in BOOLEAN,
               NEW gone \in SUBSET Aged, Request(ip, puppet, synthetic, gone)
        PROVE  WatchInv'
    BY <1>1, RequestKeeps
  <1>2. ASSUME NEW ip \in Ips, NEW n \in {1, Full}, NEW gone \in SUBSET Aged, Report(ip, n, gone)
        PROVE  WatchInv'
    <2>1. n \in Nat
      BY WatchAssumption
    <2> QED BY <1>2, <2>1, ReportKeeps
  <1>3. ASSUME NEW ip \in Ips, Denounce(ip)
        PROVE  WatchInv'
    BY <1>3, DenounceKeeps
  <1>4. CASE Reset
    BY <1>4, EmptyOK DEF Reset, WatchInv, CaughtStaysOut, CohortStaysOut
  <1>5. CASE Arm
    BY <1>5 DEF Arm, WatchInv, CaughtStaysOut, CohortStaysOut
  <1>6. ASSUME NEW ip \in banned, BanEnds(ip) PROVE WatchInv'
    BY <1>6 DEF BanEnds, WatchInv, CaughtStaysOut, CohortStaysOut
  <1>7. CASE Restart
    BY <1>7, EmptyOK DEF Restart, WatchInv, CaughtStaysOut, CohortStaysOut
  <1>8. CASE Midnight
    <2>1. day' = day + 1 /\ day \in Nat /\ day' \in 1..MaxDay /\ UNCHANGED <<log, sybil, culprits, felled>>
      BY <1>8, WatchAssumption DEF Midnight, WatchInv
    <2>2. culprits' \subseteq Ips \X (1..day') /\ felled' \subseteq Ips \X (1..day')
      BY <2>1 DEF WatchInv
    <2>3. \A h \in culprits' \cup felled' : h[2] # day'
      BY <2>1 DEF WatchInv
    <2> QED BY <2>1, <2>2, <2>3 DEF WatchInv, CaughtStaysOut, CohortStaysOut
  <1>9. CASE UNCHANGED vars
    BY <1>9 DEF vars, WatchInv, CaughtStaysOut, CohortStaysOut
  <1> QED BY <1>1, <1>2, <1>3, <1>4, <1>5, <1>6, <1>7, <1>8, <1>9
          DEF Next, Reset, Arm, Restart, Midnight, vars

\* Every record with a cohort is on its cohort's list, however records join,
\* move, open cohorts, are swept or midnight passes (sybilCluster.ts).
THEOREM CohortsAreListed == Spec => []CohortListsItsMembers
  <1>1. WatchInv => CohortListsItsMembers
    <2> SUFFICES ASSUME WatchInv PROVE CohortListsItsMembers
      OBVIOUS
    <2>1. sybil \in Clusters /\ ListsItsMembers(sybil)
      BY DEF WatchInv, ClusterOK
    <2>2. \A c \in DOMAIN sybil.members : InOrder(sybil.members[c])
      BY <2>1 DEF Clusters, Places
    <2> QED BY <2>1, <2>2 DEF Clusters, ListsItsMembers, CohortListsItsMembers, Records, InOrder
  <1> QED BY <1>1, WatchInit, WatchNext, PTL DEF Spec

\* Whoever was caught today stays flagged until the day ends, also when the map
\* is swept for room (server.ts sniperFilter, sybilCluster.ts _evictOld).
THEOREM CaughtAddressStaysOut == Spec => []CaughtStaysOut
  <1>1. WatchInv => CaughtStaysOut
    BY DEF WatchInv
  <1> QED BY <1>1, WatchInit, WatchNext, PTL DEF Spec

\* Whoever was in the cohort of a record when that was caught or denounced stays
\* flagged until the day ends, whatever it joins or leaves (sybilCluster.ts flag).
THEOREM CohortsStayOut == Spec => []CohortStaysOut
  <1>1. WatchInv => CohortStaysOut
    BY DEF WatchInv
  <1> QED BY <1>1, WatchInit, WatchNext, PTL DEF Spec
===============================================================================
