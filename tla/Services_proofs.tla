---------------------------- MODULE Services_proofs ----------------------------
(***************************************************************************)
(* Five services of the Silicon DNA server and of the gateways before it,  *)
(* for any number of tokens, proofs, requests, records and calls: tokens   *)
(* and layer proofs are redeemed once, gaps are set against the delays     *)
(* they answer, a caller is throttled by its own requests, and the gates   *)
(* go by answers no older than their caches.                               *)
(***************************************************************************)
EXTENDS AccessTokens, ZkProofs, MicroStall, ShadowFilter, RpcGateway, FiniteSetTheorems, TLAPS

\* A finite set of naturals that is not empty has a greatest element.
LEMMA FiniteMax ==
    ASSUME NEW S \in SUBSET Nat, IsFiniteSet(S), S # {}
    PROVE  \E m \in S : \A x \in S : x <= m
  <1> DEFINE Unbounded == {T \in FiniteSubsetsOf(S) :
                              T # {} /\ ~ \E m \in T : \A x \in T : x <= m}
  <1>1. S \in FiniteSubsetsOf(S)
    BY DEF FiniteSubsetsOf
  <1>2. SUFFICES ASSUME Unbounded # {} PROVE FALSE
    BY <1>1
  <1>3. PICK T \in Unbounded : \A U \in Unbounded : <<U, T>> \notin StrictSubsetOrdering(S)
    <2>1. Unbounded \subseteq FiniteSubsetsOf(S)
      OBVIOUS
    <2> HIDE DEF Unbounded
    <2> QED BY <1>2, <2>1, FS_StrictSubsetOrderingWellFounded, WFMin
  <1>4. PICK x : x \in T
    OBVIOUS
  <1> DEFINE U == T \ {x}
  <1>5. U \in FiniteSubsetsOf(S) /\ <<U, T>> \in StrictSubsetOrdering(S)
    BY <1>4, FS_Subset DEF FiniteSubsetsOf, StrictSubsetOrdering
  <1>6. U # {}
    BY <1>3, <1>4 DEF FiniteSubsetsOf
  <1>7. PICK m \in U : \A y \in U : y <= m
    BY <1>3, <1>5, <1>6
  <1>8. x \in Nat /\ m \in Nat /\ T \subseteq Nat
    BY <1>3, <1>4, <1>7 DEF FiniteSubsetsOf
  <1>9. \E n \in T : \A y \in T : y <= n
    <2>1. CASE x <= m
      BY <1>7, <1>8, <2>1
    <2>2. CASE m < x
      BY <1>4, <1>7, <1>8, <2>2
    <2> QED BY <1>8, <2>1, <2>2
  <1> QED BY <1>3, <1>9

-------------------------------------------------------------------------------
\* ---- Access tokens (privacyPass.ts)

\* The image of a finite set is finite and no larger.
LEMMA ImageBound ==
    ASSUME NEW S, IsFiniteSet(S), NEW T, NEW f \in [S -> T], T = {f[x] : x \in S}
    PROVE  IsFiniteSet(T) /\ Cardinality(T) <= Cardinality(S)
  <1>1. f \in Surjection(S, T)
    BY DEF Surjection
  <1> QED BY <1>1, FS_Surjection

Entries == [token : Tokens, left : 0..SpentTtl, since : Nat]

LEMMA TokensBounds ==
    /\ MaxBatch \in Nat \ {0} /\ SpentTtl \in Nat \ {0} /\ PruneEvery \in Nat \ {0}
    /\ MaxSpent \in Nat \ {0} /\ MaxBoots \in Nat \ {0}
  BY TokensAssumption

\* The spent map: its entries are distinct, in the order of insertion and of age.
MapOK(map) ==
    /\ map \subseteq Entries /\ IsFiniteSet(map)
    /\ \A e, f \in map : e # f => e.token # f.token /\ e.since # f.since
    /\ \A e, f \in map : e.since > f.since => e.left <= f.left

\* What is remembered of a token redeemed by this process: it is in the map as
\* long as neither the ttl nor MaxSpent other redemptions have passed.
Remembered(t) ==
    uses[t].count > 0 /\ uses[t].boot = boot /\ uses[t].age < SpentTtl /\ uses[t].others < MaxSpent
        => \E e \in spent : /\ e.token = t /\ e.since = uses[t].others
                            /\ e.left = SpentTtl - uses[t].age

\* The map is in order, and whoever could be taken twice is still in it.
TokensInv ==
    /\ boot \in 1..MaxBoots /\ evaluated \in [Tokens -> 0..boot] /\ pruneAge \in 0..PruneEvery
    /\ MapOK(spent) /\ Cardinality(spent) <= MaxSpent
    /\ uses \in [Tokens -> [count : 0..2, boot : 0..boot, age : 0..SpentTtl, others : 0..MaxSpent]]
    /\ \A t \in Tokens : Remembered(t)

LEMMA TokensInvInit == TokensInit => TokensInv
  <1> SUFFICES ASSUME TokensInit PROVE TokensInv
    OBVIOUS
  <1>1. MapOK(spent) /\ Cardinality(spent) <= MaxSpent
    BY FS_EmptySet, TokensBounds DEF TokensInit, MapOK
  <1>2. /\ boot \in 1..MaxBoots /\ evaluated \in [Tokens -> 0..boot]
        /\ pruneAge \in 0..PruneEvery
    BY TokensBounds DEF TokensInit
  <1>3. uses \in [Tokens -> [count : 0..2, boot : 0..boot, age : 0..SpentTtl, others : 0..MaxSpent]]
    BY TokensBounds DEF TokensInit
  <1>4. \A t \in Tokens : Remembered(t)
    BY DEF TokensInit, Remembered
  <1> QED BY <1>1, <1>2, <1>3, <1>4 DEF TokensInv

\* A part of a map in order is in order, and no larger.
LEMMA SubMap ==
    ASSUME NEW map, MapOK(map), NEW sub \in SUBSET map
    PROVE  MapOK(sub) /\ Cardinality(sub) <= Cardinality(map)
  BY FS_Subset DEF MapOK

\* Pruning keeps what has time left.
LEMMA PrunedOK ==
    ASSUME TokensInv
    PROVE  /\ Pruned \in SUBSET spent /\ MapOK(Pruned) /\ Cardinality(Pruned) <= MaxSpent
           /\ Cardinality(Pruned) \in Nat
           /\ \A e \in spent : e.left > 0 => e \in Pruned
  <1>1. Pruned \in SUBSET spent /\ \A e \in spent : e.left > 0 => e \in Pruned
    BY DEF Pruned, Lapsed
  <1>2. MapOK(Pruned) /\ Cardinality(Pruned) <= Cardinality(spent)
    BY <1>1, SubMap DEF TokensInv
  <1>3. Cardinality(Pruned) \in Nat /\ Cardinality(spent) \in Nat
    BY <1>2, FS_CardinalityType DEF MapOK, TokensInv
  <1> QED BY <1>1, <1>2, <1>3, TokensBounds DEF TokensInv

\* The oldest of a full map came before all the others in it.
LEMMA OldestOfFull ==
    ASSUME TokensInv, Cardinality(Pruned) >= MaxSpent
    PROVE  /\ \E e \in Pruned : InsertedFirst(e)
           /\ \A e \in Pruned : InsertedFirst(e) => e.since + 1 >= MaxSpent
  <1>1. MapOK(Pruned) /\ Cardinality(Pruned) \in Nat
    BY PrunedOK
  <1> DEFINE since == [e \in Pruned |-> e.since]
             ages == {since[e] : e \in Pruned}
  <1>2. ages \in SUBSET Nat /\ since \in [Pruned -> ages]
    BY <1>1 DEF MapOK, Entries
  <1>3. IsFiniteSet(ages)
    BY <1>1, <1>2, ImageBound DEF MapOK
  <1>4. Pruned # {}
    BY TokensBounds, FS_EmptySet
  <1>5. PICK m \in ages : \A n \in ages : n <= m
    <2>1. ages # {}
      BY <1>4
    <2> HIDE DEF ages
    <2> QED BY <1>2, <1>3, <2>1, FiniteMax
  <1>6. \E e \in Pruned : InsertedFirst(e)
    BY <1>5 DEF InsertedFirst
  <1>7. ASSUME NEW e \in Pruned, InsertedFirst(e) PROVE e.since + 1 >= MaxSpent
    <2>1. e.since \in Nat /\ \A f \in Pruned : f.since \in Nat /\ f.since <= e.since
      BY <1>1, <1>7 DEF MapOK, Entries, InsertedFirst
    <2>2. since \in Injection(Pruned, 0..e.since)
      BY <1>1, <2>1 DEF Injection, MapOK, IsInjective
    <2>3. Cardinality(Pruned) <= Cardinality(0..e.since)
      BY <2>1, <2>2, FS_Injection, FS_Interval
    <2>4. Cardinality(0..e.since) = e.since + 1
      BY <2>1, FS_Interval
    <2> QED BY <1>1, <2>1, <2>3, <2>4, TokensBounds
  <1> QED BY <1>6, <1>7
\* What a redemption puts in the map, and what of it leaves
Later(e) == [e EXCEPT !.since = @ + 1]
New(t) == [token |-> t, left |-> SpentTtl, since |-> 0]

LEMMA LaterIs ==
    ASSUME NEW e \in Entries
    PROVE  /\ Later(e) \in Entries /\ Later(e).token = e.token /\ Later(e).left = e.left
           /\ Later(e).since = e.since + 1
  BY DEF Later, Entries

\* An entry put into a map with room leaves it in order.
LEMMA MarkedOK ==
    ASSUME NEW t \in Tokens, NEW kept, MapOK(kept), \A e \in kept : e.token # t
    PROVE  MapOK(Marked(t, kept)) /\ Cardinality(Marked(t, kept)) <= Cardinality(kept) + 1
  <1> DEFINE older == {Later(e) : e \in kept}
             f == [e \in kept |-> Later(e)]
  <1>1. Marked(t, kept) = older \cup {New(t)}
    BY DEF Marked, Later, New
  <1>2. IsFiniteSet(older) /\ Cardinality(older) <= Cardinality(kept)
    <2>1. f \in [kept -> older] /\ older = {f[e] : e \in kept}
      OBVIOUS
    <2> HIDE DEF f, older
    <2> QED BY <2>1, ImageBound DEF MapOK
  <1>3. /\ IsFiniteSet(Marked(t, kept))
        /\ Cardinality(Marked(t, kept)) <= Cardinality(kept) + 1
    <2>1. Cardinality(kept) \in Nat /\ Cardinality(older) \in Nat
      BY <1>2, FS_CardinalityType DEF MapOK
    <2> HIDE DEF older
    <2> QED BY <1>1, <1>2, <2>1, FS_AddElement
  <1>4. New(t) \in Entries /\ New(t).token = t /\ New(t).left = SpentTtl /\ New(t).since = 0
    BY TokensBounds DEF New, Entries
  <1>5. \A e \in kept : /\ e \in Entries /\ Later(e) \in Entries /\ Later(e).token = e.token
                        /\ Later(e).left = e.left /\ Later(e).since = e.since + 1
                        /\ e.since \in Nat /\ e.left \in 0..SpentTtl
    BY LaterIs DEF MapOK, Entries
  <1>6. Marked(t, kept) \subseteq Entries
    BY <1>1, <1>4, <1>5
  <1>7. ASSUME NEW a \in Marked(t, kept), NEW b \in Marked(t, kept)
        PROVE  /\ a # b => a.token # b.token /\ a.since # b.since
               /\ a.since > b.since => a.left <= b.left
    <2>1. CASE a = New(t) /\ b = New(t)
      BY <1>4, <2>1
    <2>2. ASSUME NEW e \in kept, a = Later(e), b = New(t)
          PROVE  a.token # b.token /\ a.since # b.since /\ a.left <= b.left
      BY <1>4, <1>5, <2>2, TokensBounds
    <2>3. ASSUME NEW e \in kept, b = Later(e), a = New(t)
          PROVE  a.token # b.token /\ a.since # b.since /\ ~(a.since > b.since)
      BY <1>4, <1>5, <2>3, TokensBounds
    <2>4. ASSUME NEW e \in kept, NEW g \in kept, a = Later(e), b = Later(g)
          PROVE  /\ a # b => a.token # b.token /\ a.since # b.since
                 /\ a.since > b.since => a.left <= b.left
      <3>1. e # g => e.token # g.token /\ e.since # g.since
        BY DEF MapOK
      <3>2. e.since > g.since => e.left <= g.left
        BY DEF MapOK
      <3> QED BY <1>5, <2>4, <3>1, <3>2
    <2> QED BY <1>1, <2>1, <2>2, <2>3, <2>4
  <1> QED BY <1>3, <1>6, <1>7 DEF MapOK

\* A redeemed token enters the map, and all that stay in it are one older.
LEMMA MarkSpentOK ==
    ASSUME TokensInv, NEW t \in Tokens, ~InSpent(t)
    PROVE  /\ MapOK(MarkSpent(t)) /\ Cardinality(MarkSpent(t)) <= MaxSpent
           /\ New(t) \in MarkSpent(t)
           /\ \A e \in spent : e.left > 0 /\ e.since + 1 < MaxSpent => Later(e) \in MarkSpent(t)
  <1> DEFINE kept == IF Cardinality(Pruned) >= MaxSpent THEN {e \in Pruned : ~InsertedFirst(e)}
                     ELSE Pruned
  <1>1. MarkSpent(t) = Marked(t, kept)
    BY DEF MarkSpent
  <1>2. MapOK(kept) /\ kept \in SUBSET Pruned /\ \A e \in kept : e.token # t
    BY PrunedOK, SubMap DEF InSpent
  <1>3. Cardinality(kept) < MaxSpent /\ Cardinality(kept) \in Nat
    <2>1. CASE Cardinality(Pruned) >= MaxSpent
      <3>1. kept # Pruned
        BY <2>1, OldestOfFull
      <3>2. Cardinality(kept) # Cardinality(Pruned) /\ Cardinality(kept) <= Cardinality(Pruned)
        BY <1>2, <3>1, PrunedOK, FS_Subset DEF MapOK
      <3> HIDE DEF kept
      <3>3. Cardinality(kept) \in Nat
        BY <1>2, FS_CardinalityType DEF MapOK
      <3> QED BY <3>2, <3>3, PrunedOK, TokensBounds
    <2>2. CASE ~(Cardinality(Pruned) >= MaxSpent)
      BY <2>2, PrunedOK, TokensBounds
    <2> QED BY <2>1, <2>2
  <1> HIDE DEF kept
  <1>4. MapOK(Marked(t, kept)) /\ Cardinality(Marked(t, kept)) <= Cardinality(kept) + 1
    BY <1>2, MarkedOK
  <1>5. Cardinality(Marked(t, kept)) \in Nat
    BY <1>4, FS_CardinalityType DEF MapOK
  <1>6. New(t) \in Marked(t, kept) /\ \A e \in kept : Later(e) \in Marked(t, kept)
    BY DEF Marked, New, Later
  <1>7. ASSUME NEW e \in spent, e.left > 0, e.since + 1 < MaxSpent PROVE e \in kept
    <2>1. e \in Pruned /\ e.since \in Nat
      BY <1>7, PrunedOK DEF TokensInv, MapOK, Entries
    <2>2. Cardinality(Pruned) >= MaxSpent => ~InsertedFirst(e)
      BY <1>7, <2>1, OldestOfFull, TokensBounds
    <2> QED BY <2>1, <2>2 DEF kept
  <1> QED BY <1>1, <1>3, <1>4, <1>5, <1>6, <1>7, TokensBounds

LEMMA RedeemKeeps == ASSUME TokensInv, NEW t \in Tokens, Redeem(t) PROVE TokensInv'
  <1> DEFINE valid == ~InSpent(t) /\ OutputHolds(t)
             taken == [count |-> CapAt(uses[t].count + 1, 2), boot |-> boot, age |-> 0,
                          others |-> 0]
             passed(u) == [uses[u] EXCEPT !.others = CapAt(@ + 1, MaxSpent)]
             UseRecords == [count : 0..2, boot : 0..boot, age : 0..SpentTtl, others : 0..MaxSpent]
  <1>1. /\ boot' = boot /\ evaluated' = evaluated
        /\ pruneAge' = IF Due THEN 0 ELSE pruneAge
        /\ spent' = IF valid THEN MarkSpent(t) ELSE Pruned
        /\ uses' = IF ~valid THEN uses
                   ELSE [u \in Tokens |-> IF u = t THEN taken ELSE passed(u)]
    BY DEF Redeem
  <1>2. /\ boot' \in 1..MaxBoots /\ evaluated' \in [Tokens -> 0..boot']
        /\ pruneAge' \in 0..PruneEvery
    BY <1>1, TokensBounds DEF TokensInv
  <1>3. MapOK(spent') /\ Cardinality(spent') <= MaxSpent
    BY <1>1, PrunedOK, MarkSpentOK
  <1>4. /\ taken \in UseRecords
        /\ \A u \in Tokens : /\ passed(u) \in UseRecords /\ passed(u).count = uses[u].count
                             /\ passed(u).boot = uses[u].boot /\ passed(u).age = uses[u].age
                             /\ passed(u).others = CapAt(uses[u].others + 1, MaxSpent)
                             /\ passed(u).others \in 1..MaxSpent
    BY TokensBounds DEF TokensInv, CapAt
  <1> HIDE DEF passed
  <1>5. uses' \in [Tokens -> UseRecords]
    BY <1>1, <1>4 DEF TokensInv
  <1>6. ASSUME NEW u \in Tokens, uses'[u].count > 0, uses'[u].boot = boot,
               uses'[u].age < SpentTtl, uses'[u].others < MaxSpent
        PROVE  \E e \in spent' : /\ e.token = u /\ e.since = uses'[u].others
                                 /\ e.left = SpentTtl - uses'[u].age
    <2>1. CASE ~valid
      <3>1. uses' = uses /\ spent' = Pruned
        BY <1>1, <2>1
      <3>2. PICK e \in spent : /\ e.token = u /\ e.since = uses[u].others
                               /\ e.left = SpentTtl - uses[u].age
        BY <1>6, <3>1 DEF TokensInv, Remembered
      <3>3. e.left > 0
        BY <1>6, <3>1, <3>2, TokensBounds DEF TokensInv
      <3> QED BY <3>1, <3>2, <3>3, PrunedOK
    <2>2. CASE valid /\ u = t
      <3>1. uses'[u] = taken /\ New(t) \in spent'
        BY <1>1, <2>2, MarkSpentOK
      <3>2. New(t).token = t /\ New(t).since = 0 /\ New(t).left = SpentTtl - 0
        BY TokensBounds DEF New
      <3> QED BY <2>2, <3>1, <3>2
    <2>3. CASE valid /\ u # t
      <3>1. uses'[u] = passed(u)
        BY <1>1, <2>3
      <3>2. /\ uses[u].count > 0 /\ uses[u].boot = boot /\ uses[u].age < SpentTtl
            /\ uses[u].others + 1 < MaxSpent /\ uses'[u].others = uses[u].others + 1
            /\ uses'[u].age = uses[u].age /\ uses[u].others \in Nat /\ uses[u].age \in Nat
        BY <1>4, <1>6, <3>1, TokensBounds DEF TokensInv, CapAt
      <3>3. PICK e \in spent : /\ e.token = u /\ e.since = uses[u].others
                               /\ e.left = SpentTtl - uses[u].age
        BY <3>2, TokensBounds DEF TokensInv, Remembered
      <3>4. e.left > 0 /\ e.since + 1 < MaxSpent
        BY <3>2, <3>3, TokensBounds
      <3>5. Later(e) \in spent'
        BY <1>1, <2>3, <3>4, MarkSpentOK
      <3>6. e \in Entries
        BY DEF TokensInv, MapOK
      <3> QED BY <3>2, <3>3, <3>5, <3>6, LaterIs
    <2> QED BY <2>1, <2>2, <2>3
  <1> QED BY <1>1, <1>2, <1>3, <1>5, <1>6 DEF TokensInv, Remembered

LEMMA TokensRestartKeeps == ASSUME TokensInv, TokensRestart PROVE TokensInv'
  <1>1. /\ boot' = boot + 1 /\ boot' \in 1..MaxBoots /\ evaluated' = evaluated /\ uses' = uses
        /\ pruneAge' \in 0..PruneEvery /\ spent' = {}
    BY TokensBounds DEF TokensRestart, TokensInv
  <1>2. MapOK(spent') /\ Cardinality(spent') <= MaxSpent
    BY <1>1, FS_EmptySet, TokensBounds DEF MapOK
  <1>3. evaluated' \in [Tokens -> 0..boot']
    BY <1>1, TokensBounds DEF TokensInv
  <1>4. uses' \in [Tokens -> [count : 0..2, boot : 0..boot', age : 0..SpentTtl, others : 0..MaxSpent]]
    <2>1. 0..boot \subseteq 0..boot'
      BY <1>1, TokensBounds DEF TokensInv
    <2> QED BY <1>1, <2>1 DEF TokensInv
  <1>5. \A t \in Tokens : uses'[t].boot # boot'
    BY <1>1, TokensBounds DEF TokensInv
  <1> QED BY <1>1, <1>2, <1>3, <1>4, <1>5 DEF TokensInv, Remembered

\* An entry loses time as its token's last use gains age.
Aged(e) == [e EXCEPT !.left = IF @ = 0 THEN 0 ELSE @ - 1]

LEMMA TokensTickKeeps == ASSUME TokensInv, TokensTick PROVE TokensInv'
  <1>1. /\ boot' = boot /\ evaluated' = evaluated /\ pruneAge' = CapAt(pruneAge + 1, PruneEvery)
        /\ spent' = {Aged(e) : e \in spent}
        /\ uses' = [t \in Tokens |-> [uses[t] EXCEPT !.age = CapAt(@ + 1, SpentTtl)]]
    BY DEF TokensTick, Aged
  <1>2. pruneAge' \in 0..PruneEvery
    BY <1>1, TokensBounds DEF TokensInv, CapAt
  <1>3. \A e \in spent : /\ e \in Entries /\ Aged(e) \in Entries /\ Aged(e).token = e.token
                         /\ Aged(e).since = e.since
                         /\ Aged(e).left = IF e.left = 0 THEN 0 ELSE e.left - 1
                         /\ e.left \in 0..SpentTtl /\ e.since \in Nat
    BY TokensBounds DEF TokensInv, MapOK, Entries, Aged
  <1>4. Cardinality(spent') <= MaxSpent /\ IsFiniteSet(spent')
    <2> DEFINE f == [e \in spent |-> Aged(e)]
    <2>1. f \in [spent -> spent'] /\ spent' = {f[e] : e \in spent}
      BY <1>1
    <2> HIDE DEF f
    <2>2. IsFiniteSet(spent') /\ Cardinality(spent') <= Cardinality(spent)
      BY <2>1, ImageBound DEF TokensInv, MapOK
    <2>3. Cardinality(spent') \in Nat /\ Cardinality(spent) \in Nat
      BY <2>2, FS_CardinalityType DEF TokensInv, MapOK
    <2> QED BY <2>2, <2>3, TokensBounds DEF TokensInv
  <1>5. MapOK(spent')
    <2>1. ASSUME NEW a \in spent', NEW b \in spent'
          PROVE  /\ a # b => a.token # b.token /\ a.since # b.since
                 /\ a.since > b.since => a.left <= b.left
      <3>1. PICK e \in spent, g \in spent : a = Aged(e) /\ b = Aged(g)
        BY <1>1
      <3>2. /\ e # g => e.token # g.token /\ e.since # g.since
            /\ e.since > g.since => e.left <= g.left
        BY DEF TokensInv, MapOK
      <3> QED BY <1>3, <3>1, <3>2
    <2> QED BY <1>1, <1>3, <1>4, <2>1 DEF MapOK
  <1>6. \A t \in Tokens :
            /\ uses'[t] \in [count : 0..2, boot : 0..boot, age : 0..SpentTtl, others : 0..MaxSpent]
            /\ uses'[t].count = uses[t].count /\ uses'[t].boot = uses[t].boot
            /\ uses'[t].others = uses[t].others /\ uses'[t].age = CapAt(uses[t].age + 1, SpentTtl)
            /\ uses[t].age \in 0..SpentTtl
    BY <1>1, TokensBounds DEF TokensInv, CapAt
  <1>7. uses' \in [Tokens -> [count : 0..2, boot : 0..boot', age : 0..SpentTtl, others : 0..MaxSpent]]
    BY <1>1, <1>6
  <1>8. ASSUME NEW t \in Tokens PROVE Remembered(t)'
    <2> SUFFICES ASSUME uses'[t].count > 0, uses'[t].boot = boot', uses'[t].age < SpentTtl,
                        uses'[t].others < MaxSpent
                 PROVE  \E e \in spent' : /\ e.token = t /\ e.since = uses'[t].others
                                          /\ e.left = SpentTtl - uses'[t].age
      BY DEF Remembered
    <2>1. uses[t].age + 1 < SpentTtl /\ uses'[t].age = uses[t].age + 1
      BY <1>6, TokensBounds DEF CapAt
    <2>2. PICK e \in spent : /\ e.token = t /\ e.since = uses[t].others
                             /\ e.left = SpentTtl - uses[t].age
      <3>1. uses[t].count > 0 /\ uses[t].boot = boot /\ uses[t].others < MaxSpent
        BY <1>1, <1>6
      <3>2. uses[t].age < SpentTtl
        BY <1>6, <2>1, TokensBounds
      <3> QED BY <3>1, <3>2 DEF TokensInv, Remembered
    <2>3. Aged(e) \in spent' /\ Aged(e).left = e.left - 1
      BY <1>1, <1>3, <1>6, <2>1, <2>2, TokensBounds
    <2> QED BY <1>3, <1>6, <2>1, <2>2, <2>3, TokensBounds
  <1> QED BY <1>1, <1>2, <1>4, <1>5, <1>7, <1>8 DEF TokensInv

LEMMA TokensInvNext == TokensInv /\ [TokensNext]_tokenVars => TokensInv'
  <1> SUFFICES ASSUME TokensInv, [TokensNext]_tokenVars PROVE TokensInv'
    OBVIOUS
  <1>1. ASSUME NEW batch \in SUBSET Tokens, Issue(batch) PROVE TokensInv'
    <2>1. boot' = boot /\ spent' = spent /\ pruneAge' = pruneAge /\ uses' = uses
      BY <1>1 DEF Issue
    <2>2. evaluated' \in [Tokens -> 0..boot]
      BY <1>1, TokensBounds DEF Issue, Evaluated, Key, TokensInv
    <2> QED BY <2>1, <2>2 DEF TokensInv, Remembered
  <1>2. ASSUME NEW t \in Tokens, Redeem(t) PROVE TokensInv'
    BY <1>2, RedeemKeeps
  <1>3. CASE ArmTokens \/ SetPow \/ UNCHANGED tokenVars
    <2>1. UNCHANGED <<boot, evaluated, spent, pruneAge, uses>>
      BY <1>3 DEF ArmTokens, SetPow, tokenVars
    <2> QED BY <2>1 DEF TokensInv, Remembered
  <1>4. CASE TokensRestart
    BY <1>4, TokensRestartKeeps
  <1>5. CASE TokensTick
    BY <1>5, TokensTickKeeps
  <1> QED BY <1>1, <1>2, <1>3, <1>4, <1>5 DEF TokensNext

\* The spent map of the desk stays within its size, and keeps the order in which
\* its entries lapse, for any number of tokens (PrivacyPassIssuer).
THEOREM SpentMapTyped == TokensSpec => []TokensTypeOK
  <1>1. TokensInv => TokensTypeOK
    BY DEF TokensInv, TokensTypeOK, MapOK, Entries
  <1> QED BY <1>1, TokensInvInit, TokensInvNext, PTL DEF TokensSpec

\* A token that is taken again was forgotten for one of the three reasons.
LEMMA TokenOnceStep ==
    ASSUME TokensInv, [TokensNext]_tokenVars, NEW t \in Tokens,
           uses'[t] # uses[t], uses'[t].age = 0, uses'[t].others = 0
    PROVE  \/ uses[t].count = 0
           \/ uses[t].boot # boot /\ (keyFromEnv \/ evaluated[t] = boot)
           \/ uses[t].age = SpentTtl
           \/ uses[t].others = MaxSpent
  <1>1. uses[t] \in [count : 0..2, boot : 0..boot, age : 0..SpentTtl, others : 0..MaxSpent]
    BY DEF TokensInv
  <1>2. Redeem(t)
    <2>1. ASSUME NEW u \in Tokens, Redeem(u), u # t PROVE FALSE
      <3>1. uses'[t] = [uses[t] EXCEPT !.others = CapAt(@ + 1, MaxSpent)]
        BY <2>1 DEF Redeem
      <3>2. uses'[t].others = CapAt(uses[t].others + 1, MaxSpent)
        BY <1>1, <3>1
      <3> QED BY <1>1, <3>2, TokensBounds DEF CapAt
    <2>2. CASE TokensTick
      <3>1. uses'[t] = [uses[t] EXCEPT !.age = CapAt(@ + 1, SpentTtl)]
        BY <2>2 DEF TokensTick
      <3>2. uses'[t].age = CapAt(uses[t].age + 1, SpentTtl)
        BY <1>1, <3>1
      <3> QED BY <1>1, <3>2, TokensBounds DEF CapAt
    <2> QED BY <2>1, <2>2 DEF TokensNext, Issue, ArmTokens, SetPow, TokensRestart, tokenVars
  <1>3. ~InSpent(t) /\ OutputHolds(t)
    BY <1>2 DEF Redeem
  <1>4. evaluated[t] = IF keyFromEnv THEN 1 ELSE boot
    BY <1>3 DEF OutputHolds, Key
  <1>5. SUFFICES ASSUME uses[t].count # 0, uses[t].age # SpentTtl, uses[t].others # MaxSpent,
                        uses[t].boot = boot
                 PROVE  FALSE
    BY <1>4
  <1>6. /\ uses[t].count > 0 /\ uses[t].age < SpentTtl /\ uses[t].others < MaxSpent
        /\ uses[t].age \in Nat
    BY <1>1, <1>5, TokensBounds
  <1>7. PICK e \in spent : e.token = t /\ e.left = SpentTtl - uses[t].age
    BY <1>5, <1>6 DEF TokensInv, Remembered
  <1>8. e \in Pruned
    BY <1>6, <1>7, PrunedOK, TokensBounds
  <1> QED BY <1>3, <1>7, <1>8 DEF InSpent

\* A token is accepted once: whatever is issued, redeemed, pruned and evicted in
\* between, it is taken again only after the ttl, after MaxSpent other
\* redemptions, or by a new process that has the key and not the map (redeem).
THEOREM TokensRedeemedOnce == TokensSpec => TokenOnce
  <1> DEFINE Once(t) ==
          uses'[t] # uses[t] /\ uses'[t].age = 0 /\ uses'[t].others = 0 =>
              \/ uses[t].count = 0
              \/ uses[t].boot # boot /\ (keyFromEnv \/ evaluated[t] = boot)
              \/ uses[t].age = SpentTtl
              \/ uses[t].others = MaxSpent
  <1>1. TokensInv /\ [TokensNext]_tokenVars => [\A t \in Tokens : Once(t)]_tokenVars
    BY TokenOnceStep
  <1>2. TokensSpec => []TokensInv
    BY TokensInvInit, TokensInvNext, PTL DEF TokensSpec
  <1> QED BY <1>1, <1>2, PTL DEF TokensSpec, TokenOnce

-------------------------------------------------------------------------------
\* ---- Layer proofs (zkProof.ts)

\* What the registry and the redemptions keep between them: only proofs that
\* were issued are in it, and none that was redeemed.
ProofsInv ==
    /\ drawn \in 0..MaxProofs /\ issued \subseteq 1..drawn
    /\ redeemed \in [ProofIds -> Nat]
    /\ left \in [ProofIds -> Nat]
    /\ \A p \in ProofIds : redeemed[p] > 0 => p <= drawn /\ p \notin issued

LEMMA ProofBounds == MaxProofs \in Nat \ {0} /\ ProofTtl \in Nat \ {0}
  BY ProofsAssumption

LEMMA ProofsInvInit == ProofsInit => ProofsInv
  <1> SUFFICES ASSUME ProofsInit PROVE ProofsInv
    OBVIOUS
  <1>1. drawn \in 0..MaxProofs /\ issued \subseteq 1..drawn
    BY ProofBounds DEF ProofsInit
  <1>2. redeemed \in [ProofIds -> Nat] /\ left \in [ProofIds -> Nat]
    BY DEF ProofsInit
  <1>3. \A p \in ProofIds : ~(redeemed[p] > 0)
    BY DEF ProofsInit
  <1> QED BY <1>1, <1>2, <1>3 DEF ProofsInv

LEMMA IssueKeeps ==
    ASSUME ProofsInv, NEW STATE secret, IssueProof(secret) PROVE ProofsInv'
  <1>1. drawn' = drawn + 1 /\ drawn' \in ProofIds
    BY ProofBounds DEF IssueProof, ProofIds, ProofsInv
  <1>2. drawn' \in 0..MaxProofs /\ issued' \subseteq 1..drawn'
    <2>1. drawn' \in 0..MaxProofs /\ drawn \in Nat
      BY <1>1, ProofBounds DEF ProofsInv, ProofIds
    <2>2. issued' \subseteq issued \cup {drawn'}
      BY DEF IssueProof
    <2>3. issued \subseteq 1..drawn
      BY DEF ProofsInv
    <2>4. \A p \in issued' : p \in 1..drawn'
      BY <1>1, <2>1, <2>2, <2>3
    <2> QED BY <2>1, <2>4
  <1>3. redeemed' \in [ProofIds -> Nat] /\ left' \in [ProofIds -> Nat]
    BY ProofBounds DEF IssueProof, ProofsInv
  <1>4. \A p \in ProofIds : redeemed'[p] > 0 => p <= drawn' /\ p \notin issued'
    BY <1>1 DEF IssueProof, ProofsInv, ProofIds
  <1> QED BY <1>2, <1>3, <1>4 DEF ProofsInv

LEMMA VerifyKeeps ==
    ASSUME ProofsInv, NEW p \in issued, NEW sid, NEW altered, ZkVerify(p, sid, altered)
    PROVE  ProofsInv'
  <1>1. p \in ProofIds
    BY ProofBounds DEF ProofsInv, ProofIds
  <1>2. redeemed' \in [ProofIds -> Nat] /\ left' \in [ProofIds -> Nat]
    BY <1>1 DEF ZkVerify, ProofsInv
  <1>3. drawn' \in 0..MaxProofs /\ issued' \subseteq 1..drawn'
    BY DEF ZkVerify, ProofsInv, Remaining
  <1>4. \A q \in ProofIds : redeemed'[q] > 0 => q <= drawn' /\ q \notin issued'
    BY <1>1, ProofBounds DEF ZkVerify, ProofsInv, Remaining, ProofIds
  <1> QED BY <1>2, <1>3, <1>4 DEF ProofsInv

LEMMA ProofsInvNext == ProofsInv /\ [ProofsNext]_proofVars => ProofsInv'
  <1> SUFFICES ASSUME ProofsInv, [ProofsNext]_proofVars PROVE ProofsInv'
    OBVIOUS
  <1>1. CASE HealthProof
    BY <1>1, IssueKeeps DEF HealthProof
  <1>2. ASSUME NEW sid \in Sids, ZkIssue(sid) PROVE ProofsInv'
    BY <1>2, IssueKeeps DEF ZkIssue
  <1>3. ASSUME NEW p \in issued, NEW sid \in Sids, NEW altered \in BOOLEAN,
               ZkVerify(p, sid, altered)
        PROVE  ProofsInv'
    BY <1>3, VerifyKeeps
  <1>4. CASE ClearProofs
    BY <1>4 DEF ClearProofs, ProofsInv
  <1>5. ASSUME NEW sid \in Sids, Handshake(sid) \/ Ratchet(sid) \/ SessionLapses(sid)
        PROVE  ProofsInv'
    BY <1>5 DEF Handshake, Ratchet, SessionLapses, ProofsInv
  <1>6. CASE ProofsRestart
    BY <1>6 DEF ProofsRestart, ProofsInv
  <1>7. CASE ProofsTick
    <2>1. left' \in [ProofIds -> Nat]
      BY <1>7 DEF ProofsTick, ProofsInv
    <2> QED BY <1>7, <2>1 DEF ProofsTick, ProofsInv
  <1>8. CASE UNCHANGED proofVars
    BY <1>8 DEF proofVars, ProofsInv
  <1> QED
    BY <1>1, <1>2, <1>3, <1>4, <1>5, <1>6, <1>7, <1>8 DEF ProofsNext
-------------------------------------------------------------------------------
\* Whatever sessions come and go, the registry never holds a proof that was
\* redeemed (issueProof and redeemProof of zkProof.ts).
THEOREM ProofsInvariant == ProofsSpec => []ProofsInv
  BY ProofsInvInit, ProofsInvNext, PTL DEF ProofsSpec

Stutters == UNCHANGED <<ProofTicket, redeemed>>

\* A registered proof is an open ticket.
LEMMA RegisteredOpen == ProofsInv => \A p \in issued : p \in Proofs!Open
  BY ProofBounds DEF Proofs!Open, ProofTicket, ProofsInv, ProofIds

\* Every step of the desk that neither issues nor redeems drops tickets.
LEMMA DropStep ==
    ASSUME ProofsInv, drawn' = drawn, redeemed' = redeemed, issued' \subseteq issued
    PROVE  \E gone \in SUBSET Proofs!Open : Proofs!Drop(gone)
  <1> DEFINE gone == issued \ issued'
  <1>1. gone \in SUBSET Proofs!Open
    BY RegisteredOpen
  <1>2. ProofTicket' = [t \in ProofIds |-> IF t \in gone THEN "dropped" ELSE ProofTicket[t]]
    BY ProofBounds DEF ProofTicket, ProofsInv, ProofIds
  <1>3. Proofs!Drop(gone)
    BY <1>2 DEF Proofs!Drop
  <1> QED BY <1>1, <1>3

LEMMA IssueStep ==
    ASSUME ProofsInv, NEW STATE secret, IssueProof(secret)
    PROVE  \E t \in ProofIds, replaced \in SUBSET Proofs!Open : Proofs!Issue(t, replaced)
  <1> DEFINE replaced == issued \ issued'
  <1>1. drawn' = drawn + 1 /\ drawn' \in ProofIds /\ drawn' \notin issued
    BY ProofBounds DEF IssueProof, ProofIds, ProofsInv
  <1>2. replaced \in SUBSET Proofs!Open
    BY RegisteredOpen
  <1>3. redeemed[drawn'] = 0 /\ redeemed' = redeemed
    BY <1>1 DEF IssueProof, ProofsInv
  <1>4. ProofTicket[drawn'] = "fresh"
    BY <1>1, <1>3 DEF ProofTicket, ProofsInv
  <1>5. ProofTicket' = [t \in ProofIds |-> IF t = drawn' THEN "open"
                          ELSE IF t \in replaced THEN "dropped" ELSE ProofTicket[t]]
    BY <1>1, <1>3, ProofBounds DEF ProofTicket, ProofsInv, IssueProof, ProofIds
  <1>6. Proofs!Issue(drawn', replaced)
    BY <1>3, <1>4, <1>5 DEF Proofs!Issue
  <1> QED BY <1>1, <1>2, <1>6

LEMMA RedeemStep ==
    ASSUME ProofsInv, NEW p \in issued, NEW sid, NEW altered, ZkVerify(p, sid, altered)
    PROVE  \E t \in ProofIds : Proofs!Redeem(t)
  <1>1. p \in ProofIds /\ redeemed[p] = 0 /\ p <= drawn
    BY ProofBounds DEF ProofsInv, ProofIds
  <1>2. ProofTicket[p] = "open"
    BY <1>1 DEF ProofTicket, ProofsInv
  <1>3. redeemed' = [redeemed EXCEPT ![p] = @ + 1]
    BY DEF ZkVerify
  <1>4. drawn' = drawn /\ issued' = issued \ {p} /\ redeemed'[p] > 0
    BY <1>1 DEF ZkVerify, Remaining, ProofsInv
  <1>5. \A q \in ProofIds : q # p => redeemed'[q] = redeemed[q]
    BY <1>1, <1>3 DEF ProofsInv
  <1>6. \A q \in ProofIds :
           ProofTicket'[q] = IF q = p THEN "redeemed" ELSE ProofTicket[q]
    BY <1>1, <1>4, <1>5 DEF ProofTicket
  <1>7. ProofTicket' = [ProofTicket EXCEPT ![p] = "redeemed"]
    BY <1>6 DEF ProofTicket
  <1> QED BY <1>1, <1>2, <1>3, <1>7 DEF Proofs!Redeem

LEMMA ProofsStep == ProofsInv /\ [ProofsNext]_proofVars => [Proofs!Next]_<<ProofTicket, redeemed>>
  <1> SUFFICES ASSUME ProofsInv, [ProofsNext]_proofVars
               PROVE  [Proofs!Next]_<<ProofTicket, redeemed>>
    OBVIOUS
  <1>1. CASE HealthProof
    BY <1>1, IssueStep DEF HealthProof, Proofs!Next
  <1>2. ASSUME NEW sid \in Sids, ZkIssue(sid) PROVE Proofs!Next
    BY <1>2, IssueStep DEF ZkIssue, Proofs!Next
  <1>3. ASSUME NEW p \in issued, NEW sid \in Sids, NEW altered \in BOOLEAN,
               ZkVerify(p, sid, altered)
        PROVE  Proofs!Next
    BY <1>3, RedeemStep DEF Proofs!Next
  <1>4. CASE ClearProofs \/ ProofsRestart
    BY <1>4, DropStep DEF ClearProofs, ProofsRestart, Proofs!Next
  <1>5. ASSUME NEW sid \in Sids, Handshake(sid) \/ Ratchet(sid) \/ SessionLapses(sid)
        PROVE  Stutters
    BY <1>5 DEF Handshake, Ratchet, SessionLapses, Stutters, ProofTicket
  <1>6. CASE ProofsTick \/ UNCHANGED proofVars
    BY <1>6 DEF ProofsTick, proofVars, ProofTicket
  <1> QED
    BY <1>1, <1>2, <1>3, <1>4, <1>5, <1>6 DEF ProofsNext, Stutters

LEMMA ProofsStart == ProofsInit => Proofs!Init
  BY ProofBounds DEF ProofsInit, Proofs!Init, ProofTicket, ProofIds

\* A proof of passed layers is a one-time ticket: redeemed at most once, while
\* it is registered, and never again, whatever sessions, keys, clearings and
\* restarts do in between (POST /api/zk/verify).
THEOREM ProofsAreTickets == ProofsSpec => ProofsOneTime
  <1>1. ProofsSpec => []ProofsInv
    BY ProofsInvariant
  <1> QED BY <1>1, ProofsStart, ProofsStep, PTL DEF ProofsSpec, ProofsOneTime, Proofs!Spec

-------------------------------------------------------------------------------
\* ---- Micro-stalls (server.ts, microStallMiddleware)

StallRecords == [known : BOOLEAN, delays : Seq(Nat), gaps : Seq(Nat), lastReq : Nat]

\* A record with its sequences or its time replaced is a record.
LEMMA RecordKept ==
    ASSUME NEW S, NEW T, NEW r \in [known : BOOLEAN, delays : S, gaps : S, lastReq : T],
           NEW s \in S, NEW t \in T
    PROVE  /\ [r EXCEPT !.delays = s, !.gaps = s] \in [known : BOOLEAN, delays : S, gaps : S, lastReq : T]
           /\ [r EXCEPT !.known = TRUE, !.lastReq = t, !.gaps = s]
                \in [known : BOOLEAN, delays : S, gaps : S, lastReq : T]
  OBVIOUS

StallTypeOK ==
    /\ reqs \in Nat /\ inFlight \subseteq Nat
    /\ record \in StallRecords

\* The last request of a calm caller: it is the only one that can be in flight,
\* and the only one whose delay may still wait for the gap it answers.
LastOnly ==
    /\ inFlight \subseteq {reqs}
    /\ record.known => record.lastReq = reqs /\ reqs > 0
    /\ \/ record.delays = record.gaps
       \/ /\ record.known /\ inFlight = {}
          /\ record.delays = Append(record.gaps, reqs)

\* While the caller stays calm its pairs are in step, and stay paired after.
StallInv == StallTypeOK /\ (calm => LastOnly) /\ PairsAligned

LEMMA StallInvInit == StallInit => StallInv
  <1> SUFFICES ASSUME StallInit PROVE StallInv
    OBVIOUS
  <1>1. /\ reqs = 0 /\ inFlight = {} /\ judged.delays = judged.gaps
        /\ record = NoRecord
    BY DEF StallInit
  <1>2. /\ ~record.known /\ record.delays = record.gaps
        /\ record \in StallRecords
    BY <1>1 DEF NoRecord, StallRecords, StallRecords
  <1> QED BY <1>1, <1>2 DEF StallInv, StallTypeOK, LastOnly, PairsAligned

\* A gap is noted beside the delay of the request it reacted to.
LEMMA SeenPairs ==
    ASSUME StallInv, NEW paused \in BOOLEAN
    PROVE  LET r == Seen(paused)
           IN  /\ r \in StallRecords
               /\ r.known /\ r.lastReq = reqs + 1
               /\ calm /\ inFlight = {} /\ ~paused => r.delays = r.gaps
  <1> DEFINE kept == IF KeepsGap(paused) THEN Append(record.gaps, record.lastReq)
                     ELSE record.gaps
             r == Seen(paused)
  <1>1. /\ record.delays \in Seq(Nat) /\ record.gaps \in Seq(Nat) /\ record.lastReq \in Nat
        /\ reqs \in Nat
    BY DEF StallInv, StallTypeOK, StallRecords
  <1>2. kept \in Seq(Nat)
    BY <1>1
  <1>3. r = [record EXCEPT !.known = TRUE, !.lastReq = reqs + 1, !.gaps = kept]
    BY DEF Seen
  <1> HIDE DEF kept
  <1>4. /\ r.known = TRUE /\ r.lastReq = reqs + 1 /\ r.delays = record.delays /\ r.gaps = kept
        /\ r \in StallRecords
    <2>1. record \in StallRecords
      BY DEF StallInv, StallTypeOK
    <2> HIDE DEF r
    <2>2. r.known = TRUE /\ r.lastReq = reqs + 1 /\ r.delays = record.delays /\ r.gaps = kept
      BY <1>3, <2>1 DEF StallRecords
    <2>3. reqs + 1 \in Nat
      BY <1>1
    <2>4. r \in StallRecords
      BY <1>2, <1>3, <2>1, <2>3, RecordKept DEF StallRecords
    <2> QED BY <2>2, <2>4
  <1>5. ASSUME calm, inFlight = {}, ~paused PROVE record.delays = kept
    <2>1. CASE record.delays = record.gaps
      <3>1. ~(Len(record.delays) > Len(record.gaps))
        BY <1>1, <2>1
      <3> QED BY <2>1, <3>1 DEF kept, KeepsGap
    <2>2. CASE record.known /\ record.delays = Append(record.gaps, reqs)
      <3>1. record.lastReq = reqs /\ record.lastReq # 0
        BY <1>1, <1>5, <2>2 DEF StallInv, LastOnly
      <3>2. Len(record.delays) > Len(record.gaps)
        BY <1>1, <2>2
      <3> QED BY <1>5, <2>2, <3>1, <3>2 DEF kept, KeepsGap
    <2> QED BY <1>5, <2>1, <2>2 DEF StallInv, LastOnly
  <1> HIDE DEF r
  <1>6. r \in StallRecords
    BY <1>4
  <1>7. calm /\ inFlight = {} /\ ~paused => r.delays = r.gaps
    BY <1>4, <1>5
  <1> QED BY <1>4, <1>6, <1>7 DEF r

LEMMA StalledKeeps ==
    ASSUME StallInv, NEW paused \in BOOLEAN, NEW toxic \in BOOLEAN, NEW verdict \in Verdicts,
           StalledRequest(paused, toxic, verdict)
    PROVE  StallInv'
  <1> DEFINE r == Seen(paused)
             due == Len(r.gaps) >= Window
  <1>1. /\ r \in StallRecords
        /\ r.known /\ r.lastReq = reqs + 1
        /\ calm /\ inFlight = {} /\ ~paused => r.delays = r.gaps
    BY SeenPairs
  <1>2. /\ reqs' = reqs + 1 /\ calm' = (calm /\ inFlight = {} /\ ~paused)
        /\ judged' = IF due THEN [delays |-> Recent(r.delays), gaps |-> Recent(r.gaps)] ELSE judged
        /\ record' = IF verdict = "static" THEN NoRecord
                     ELSE IF due THEN [r EXCEPT !.delays = <<>>, !.gaps = <<>>] ELSE r
        /\ inFlight' \subseteq inFlight \cup {reqs'}
    BY DEF StalledRequest
  <1> HIDE DEF r, due
  <1>3. reqs' \in Nat /\ reqs' > 0 /\ inFlight' \subseteq Nat
    BY <1>2 DEF StallInv, StallTypeOK
  <1>4. /\ record' \in StallRecords
        /\ record'.known => record'.lastReq = reqs'
        /\ calm' => record'.delays = record'.gaps
    <2>1. CASE record' = NoRecord
      BY <2>1 DEF NoRecord, StallRecords
    <2>2. CASE record' = [r EXCEPT !.delays = <<>>, !.gaps = <<>>]
      <3>1. /\ record'.known /\ record'.lastReq = reqs' /\ record'.delays = <<>>
            /\ record'.gaps = <<>>
        BY <1>1, <1>2, <2>2 DEF StallRecords
      <3>2. <<>> \in Seq(Nat)
        OBVIOUS
      <3>3. record' \in StallRecords
        BY <1>1, <2>2, <3>2, RecordKept DEF StallRecords
      <3> QED BY <3>1, <3>3
    <2>3. CASE record' = r
      <3>1. record' \in StallRecords
        BY <1>1, <2>3
      <3> QED BY <1>1, <1>2, <2>3, <3>1
    <2> QED BY <1>2, <2>1, <2>2, <2>3
  <1>5. calm' => judged'.delays = judged'.gaps
    BY <1>1, <1>2 DEF StallInv, PairsAligned
  <1> QED BY <1>2, <1>3, <1>4, <1>5 DEF StallInv, StallTypeOK, LastOnly, PairsAligned

LEMMA FinishKeeps == ASSUME StallInv, NEW i \in inFlight, Finish(i) PROVE StallInv'
  <1>1. /\ inFlight' = inFlight \ {i} /\ reqs' = reqs /\ judged' = judged /\ calm' = calm
        /\ record' = IF record.known THEN [record EXCEPT !.delays = Append(@, i)] ELSE record
    BY DEF Finish
  <1>2. record \in StallRecords
    BY DEF StallInv, StallTypeOK
  <1>3. Append(record.delays, i) \in Seq(Nat)
    BY <1>2 DEF StallRecords, StallInv, StallTypeOK
  <1>4. CASE record.known
    <2>1. /\ record' \in StallRecords
          /\ record'.known /\ record'.delays = Append(record.delays, i)
          /\ record'.gaps = record.gaps /\ record'.lastReq = record.lastReq
      BY <1>1, <1>2, <1>3, <1>4 DEF StallRecords
    <2>2. ASSUME calm PROVE LastOnly'
      <3>1. i = reqs /\ record.delays = record.gaps /\ inFlight' = {}
        BY <1>1, <2>2 DEF StallInv, LastOnly
      <3> QED BY <1>1, <1>4, <2>1, <2>2, <3>1 DEF StallInv, LastOnly
    <2> QED BY <1>1, <2>1, <2>2 DEF StallInv, StallTypeOK, PairsAligned
  <1>5. CASE ~record.known
    BY <1>1, <1>5 DEF StallInv, StallTypeOK, LastOnly, PairsAligned
  <1> QED BY <1>4, <1>5

LEMMA ForgetKeeps == ASSUME StallInv, ForgetStalls PROVE StallInv'
  <1>1. /\ record' = NoRecord /\ reqs' = reqs /\ inFlight' = inFlight /\ judged' = judged
        /\ calm' = calm
    BY DEF ForgetStalls
  <1>2. /\ record' \in StallRecords
        /\ ~record'.known /\ record'.delays = record'.gaps
    BY <1>1 DEF NoRecord, StallRecords
  <1> QED BY <1>1, <1>2 DEF StallInv, StallTypeOK, LastOnly, PairsAligned

LEMMA StallInvNext == StallInv /\ [StallNext]_stallVars => StallInv'
  <1> SUFFICES ASSUME StallInv, [StallNext]_stallVars PROVE StallInv'
    OBVIOUS
  <1>1. ASSUME NEW paused \in BOOLEAN, NEW toxic \in BOOLEAN, NEW verdict \in Verdicts,
               StalledRequest(paused, toxic, verdict)
        PROVE  StallInv'
    BY <1>1, StalledKeeps
  <1>2. ASSUME NEW i \in inFlight, Finish(i) PROVE StallInv'
    BY <1>2, FinishKeeps
  <1>3. ASSUME NEW i \in inFlight, HangUp(i) PROVE StallInv'
    BY <1>3 DEF HangUp, StallInv, StallTypeOK, LastOnly, PairsAligned
  <1>4. CASE ForgetStalls
    BY <1>4, ForgetKeeps
  <1>5. CASE StallArms \/ StallUnban \/ UNCHANGED stallVars
    <2>1. UNCHANGED <<reqs, record, inFlight, judged, calm>>
      BY <1>5 DEF StallArms, StallUnban, stallVars
    <2> QED BY <2>1 DEF StallInv, StallTypeOK, LastOnly, PairsAligned
  <1> QED BY <1>1, <1>2, <1>3, <1>4, <1>5 DEF StallNext

\* A caller that sends one request at a time and never pauses is judged by its
\* own rhythm, whatever the window and however many requests it sends:
\* every gap is set against the delay it reacted to (microStallMiddleware).
THEOREM CalmCallersPaired == StallSpec => []PairsAligned
  <1>1. StallInv => PairsAligned
    BY DEF StallInv
  <1> QED BY <1>1, StallInvInit, StallInvNext, PTL DEF StallSpec

-------------------------------------------------------------------------------
\* ---- The shadow filter (shadowFilter.ts)

\* The counters of the records, made or not, and the record in the map
Counted ==
    /\ made \in 0..MaxRecords /\ current \in 0..made
    /\ rec \in [RecordIds -> [requests : Nat, botHits : Nat, throttled : BOOLEAN]]
    /\ waiting \in [RecordIds -> Nat]

ShadowInv == Counted /\ ThrottledByItsOwn

LEMMA ShadowBounds == ThrottleAfter \in Nat \ {0} /\ MaxRecords \in Nat \ {0}
  BY ShadowAssumption

LEMMA ShadowInvInit == ShadowInit => ShadowInv
  BY ShadowBounds DEF ShadowInit, ShadowInv, Counted, ThrottledByItsOwn, RecordIds

\* A request counts itself in the record it finds or makes, and leaves at most
\* one verdict to come.
LEMMA RequestKeeps == ASSUME ShadowInv, ShadowRequest PROVE ShadowInv'
  <1> DEFINE r == IF Renewed THEN made + 1 ELSE current
  <1>1. /\ r \in RecordIds /\ made' \in 0..MaxRecords /\ current' \in 0..made'
        /\ current' = r
    BY ShadowBounds DEF ShadowRequest, ShadowInv, Counted, RecordIds, Renewed
  <1>2. /\ rec' = [rec EXCEPT ![r].requests = @ + 1]
        /\ \/ waiting' = waiting
           \/ waiting' = [waiting EXCEPT ![r] = @ + 1]
    BY DEF ShadowRequest
  <1> HIDE DEF r
  <1>3. Counted'
    BY <1>1, <1>2 DEF ShadowInv, Counted
  <1>4. ASSUME NEW q \in RecordIds
        PROVE  /\ rec'[q].botHits + waiting'[q] <= rec'[q].requests
               /\ rec'[q].throttled <=> rec'[q].botHits >= ThrottleAfter
    <2>1. /\ rec'[q].botHits = rec[q].botHits
          /\ rec'[q].requests = rec[q].requests + (IF q = r THEN 1 ELSE 0)
          /\ waiting'[q] <= waiting[q] + (IF q = r THEN 1 ELSE 0)
      BY <1>1, <1>2 DEF ShadowInv, Counted
    <2>2. rec'[q].throttled = rec[q].throttled
      BY <1>2 DEF ShadowInv, Counted
    <2>3. rec'[q].botHits + waiting'[q] <= rec'[q].requests
      BY <1>3, <2>1 DEF ShadowInv, Counted, ThrottledByItsOwn
    <2> QED BY <2>1, <2>2, <2>3 DEF ShadowInv, ThrottledByItsOwn
  <1> QED BY <1>3, <1>4 DEF ShadowInv, ThrottledByItsOwn

\* A verdict is charged to the record its request was counted in.
LEMMA VerdictKeeps ==
    ASSUME ShadowInv, NEW r \in RecordIds, NEW hit \in BOOLEAN, Classified(r, hit)
    PROVE  ShadowInv'
  <1>1. /\ waiting[r] > 0 /\ waiting' = [waiting EXCEPT ![r] = @ - 1]
        /\ made' = made /\ current' = current
    BY DEF Classified
  <1>2. \/ rec' = rec
        \/ rec' = [rec EXCEPT ![r].botHits = @ + 1,
                              ![r].throttled = @ \/ rec[r].botHits + 1 >= ThrottleAfter]
    BY DEF Classified, HitRecord
  <1>3. \A q \in RecordIds :
            /\ rec'[q].botHits \in {rec[q].botHits, rec[q].botHits + (IF q = r THEN 1 ELSE 0)}
            /\ rec'[q].requests = rec[q].requests
    BY <1>2 DEF ShadowInv, Counted
  <1>4. rec' \in [RecordIds -> [requests : Nat, botHits : Nat, throttled : BOOLEAN]]
    BY <1>2 DEF ShadowInv, Counted
  <1>5. Counted'
    <2>1. waiting' \in [RecordIds -> Nat]
      BY <1>1 DEF ShadowInv, Counted
    <2>2. made' \in 0..MaxRecords /\ current' \in 0..made'
      BY <1>1 DEF ShadowInv, Counted
    <2> QED BY <1>4, <2>1, <2>2 DEF Counted
  <1>6. \A q \in RecordIds : rec'[q].botHits + waiting'[q] <= rec'[q].requests
    BY <1>1, <1>3 DEF ShadowInv, Counted, ThrottledByItsOwn
  <1>7. \A q \in RecordIds : rec'[q].throttled <=> rec'[q].botHits >= ThrottleAfter
    <2>1. CASE rec' = rec
      BY <2>1 DEF ShadowInv, ThrottledByItsOwn
    <2>2. CASE rec' = [rec EXCEPT ![r].botHits = @ + 1,
                                  ![r].throttled = @ \/ rec[r].botHits + 1 >= ThrottleAfter]
      <3>1. rec'[r].botHits = rec[r].botHits + 1 /\ rec[r].botHits \in Nat
        BY <2>2 DEF ShadowInv, Counted
      <3>2. rec'[r].throttled <=> rec[r].throttled \/ rec[r].botHits + 1 >= ThrottleAfter
        BY <2>2, Zenon DEF ShadowInv, Counted
      <3>3. rec[r].throttled => rec[r].botHits + 1 >= ThrottleAfter
        BY <3>1, ShadowBounds DEF ShadowInv, ThrottledByItsOwn
      <3>4. \A q \in RecordIds : q # r => rec'[q] = rec[q]
        BY <2>2 DEF ShadowInv, Counted
      <3> QED BY <3>1, <3>2, <3>3, <3>4 DEF ShadowInv, ThrottledByItsOwn
    <2> QED BY <1>2, <2>1, <2>2
  <1> QED BY <1>5, <1>6, <1>7 DEF ShadowInv, ThrottledByItsOwn

LEMMA ShadowInvNext == ShadowInv /\ [ShadowNext]_shadowVars => ShadowInv'
  <1> SUFFICES ASSUME ShadowInv, [ShadowNext]_shadowVars PROVE ShadowInv'
    OBVIOUS
  <1>1. CASE ShadowRequest
    BY <1>1, RequestKeeps
  <1>2. ASSUME NEW r \in RecordIds, NEW hit \in BOOLEAN, Classified(r, hit) PROVE ShadowInv'
    BY <1>2, VerdictKeeps
  <1>3. CASE Silence \/ ClearShadow \/ UNCHANGED shadowVars
    <2>1. /\ made' = made /\ rec' = rec /\ waiting' = waiting /\ current' \in {current, 0}
      BY <1>3 DEF Silence, ClearShadow, shadowVars
    <2> QED BY <2>1 DEF ShadowInv, Counted, ThrottledByItsOwn
  <1> QED BY <1>1, <1>2, <1>3 DEF ShadowNext

\* Whatever classifications of older records are still to run, a record is
\* throttled by as many malicious verdicts on its own requests as the threshold
\* says (shadowFilterMiddleware).
THEOREM ThrottledByOwnRequests == ShadowSpec => []ThrottledByItsOwn
  <1>1. ShadowInv => ThrottledByItsOwn
    BY DEF ShadowInv
  <1> QED BY <1>1, ShadowInvInit, ShadowInvNext, PTL DEF ShadowSpec

-------------------------------------------------------------------------------
\* ---- The RPC gateway and the gate middleware (rpc_gateway.py, x402_gateway.py)

Lookup == {"ban", "dna"}
Asking == {"ban", "dna", "health"}
BanAnswers == {None, "yes", "no"}
HealthAnswers == {None, "PASS", "DEGRADED", "FAIL"}
Stages == Asking \cup {"idle", "body", "refused", "forwarded", "failed"}
Requests == [stage : Stages, waited : Nat, age : Nat, answer : BanAnswers \cup HealthAnswers,
             blind : BOOLEAN, write : BOOLEAN]

\* An answer on a ban that is no longer the truth
Outdated(answer) == answer \notin {None, IF listed THEN "yes" ELSE "no"}
Healthy(answer) == answer \notin {None, "FAIL"}

\* A lookup is answered by what it asked for, and read within its time: on a ban as
\* it stood when the answer was given, and on a measurement that was operational
\* then, if the answer is healthy.  A request that asks nothing holds no answer,
\* and only a parsed body makes it a write.
CallInOrder(r) ==
    /\ r \in Requests
    /\ r.stage \in Lookup => r.answer \in BanAnswers /\ r.age <= LookupTimeout
    /\ r.stage = "health" => r.answer \in HealthAnswers /\ r.age <= HealthTimeout
    /\ r.stage \in {"ban", "health"} => r.age <= r.waited
    /\ r.stage \notin Asking => r.answer = None /\ r.waited = 0
    /\ r.answer = None => r.age = 0
    /\ r.stage \in Lookup \cup {"idle", "body"} => ~r.write
    /\ r.stage \in Lookup /\ Outdated(r.answer) => settled <= r.age
    /\ r.stage = "health" /\ Healthy(r.answer) => measured < Operational + r.age

\* An entry is as old as the time it has lost: it is outdated by a later change
\* only, and healthy for a measurement that was operational then.
CachesFresh ==
    /\ banCache \in [answer : BanAnswers, left : 0..BanTtl]
    /\ healthCache \in [answer : HealthAnswers, left : 0..HealthTtl]
    /\ Good(banCache) => banCache.answer # None
    /\ Good(healthCache) => healthCache.answer # None
    /\ banCache.left > 0 /\ Outdated(banCache.answer) => settled + banCache.left <= BanTtl
    /\ healthCache.left > 0 /\ Healthy(healthCache.answer) => measured + healthCache.left < Oldest

ServerOK == listed \in BOOLEAN /\ settled \in 0..BanTtl /\ measured \in 0..Oldest

\* What requests and caches hold is as fresh as its age says.
GatewayInv ==
    /\ ServerOK /\ CachesFresh
    /\ call \in [Calls -> Requests] /\ \A c \in Calls : CallInOrder(call[c])

LEMMA GatewayBounds ==
    /\ BanTtl \in Nat \ {0} /\ HealthTtl \in Nat \ {0} /\ LookupTimeout \in Nat \ {0}
    /\ HealthTimeout \in Nat \ {0} /\ Stale \in Nat \ {0} /\ Operational \in Nat \ {0}
    /\ LookupTimeout < BanTtl /\ HealthTimeout < HealthTtl
    /\ Oldest = Operational + HealthTtl
  BY GatewayAssumption DEF Oldest

LEMMA IdleInOrder == Idle \in Requests /\ CallInOrder(Idle)
  BY GatewayBounds
  DEF Idle, Requests, CallInOrder, Stages, Asking, Lookup, BanAnswers, HealthAnswers, None,
      Outdated, Healthy

LEMMA GatewayInvInit == GatewayInit => GatewayInv
  <1> SUFFICES ASSUME GatewayInit PROVE GatewayInv
    OBVIOUS
  <1>1. ServerOK
    <2>1. settled \in 0..BanTtl /\ measured \in 0..Oldest
      BY GatewayBounds DEF GatewayInit
    <2> QED BY <2>1 DEF GatewayInit, ServerOK
  <1>2. CachesFresh
    BY GatewayBounds DEF GatewayInit, CachesFresh, BanAnswers, HealthAnswers, None, Empty, Good
  <1> QED BY <1>1, <1>2, IdleInOrder DEF GatewayInit, GatewayInv

\* A request answered, or asking anew, is in order.
LEMMA Restaged ==
    ASSUME NEW r \in Requests, NEW stage \in Stages, NEW blind \in BOOLEAN,
           stage \in Lookup \cup {"idle", "body"} => ~r.write
    PROVE  LET moved == [Anew(r, stage) EXCEPT !.blind = blind]
           IN  moved \in Requests /\ CallInOrder(moved)
  <1> DEFINE moved == [Anew(r, stage) EXCEPT !.blind = blind]
  <1>1. moved \in Requests
    BY DEF Requests, BanAnswers, Anew
  <1>2. /\ moved.stage = stage /\ moved.waited = 0 /\ moved.age = 0 /\ moved.answer = None
        /\ moved.write = r.write
    BY DEF Requests, Anew
  <1> HIDE DEF moved
  <1>3. CallInOrder(moved)
    BY <1>1, <1>2, GatewayBounds
    DEF CallInOrder, BanAnswers, HealthAnswers, Outdated, Healthy, Lookup, Asking
  <1> QED BY <1>1, <1>3 DEF moved

\* The server stays as it was.
ServerStays == UNCHANGED <<listed, settled, measured>>

\* A step of one request keeps the invariant when it keeps it for itself and
\* for what it leaves in the caches.
LEMMA OneCall ==
    ASSUME GatewayInv, ServerStays, CachesFresh', NEW c \in Calls, NEW r \in Requests,
           CallInOrder(r), call' = [call EXCEPT ![c] = r]
    PROVE  GatewayInv'
  <1>1. ServerOK'
    BY DEF GatewayInv, ServerOK, ServerStays
  <1>2. call' \in [Calls -> Requests]
    BY DEF GatewayInv
  <1>3. ASSUME NEW d \in Calls PROVE CallInOrder(call[d])'
    <2>1. CallInOrder(call'[d])
      BY DEF GatewayInv
    <2> QED BY <2>1 DEF CallInOrder, Outdated, ServerStays
  <1> QED BY <1>1, <1>2, <1>3 DEF GatewayInv

\* A request that stores nothing leaves the caches as they are.
LEMMA CachesStay ==
    ASSUME GatewayInv, ServerStays, UNCHANGED <<banCache, healthCache>> PROVE CachesFresh'
  BY DEF GatewayInv, ServerStays, CachesFresh, Outdated, Good

\* A request goes on to a stage, blind or not.
LEMMA GoesOn ==
    ASSUME GatewayInv, ServerStays, CachesFresh', NEW c \in Calls, NEW stage \in Stages,
           stage \in Lookup \cup {"idle", "body"} => ~call[c].write,
           Goes(c, stage) \/ GoesBlind(c, stage)
    PROVE  GatewayInv'
  <1>1. call[c] \in Requests
    BY DEF GatewayInv
  <1>2. PICK blind \in BOOLEAN :
            call' = [call EXCEPT ![c] = [Anew(call[c], stage) EXCEPT !.blind = blind]]
    <2>1. CASE Goes(c, stage)
      <3>1. Anew(call[c], stage) = [Anew(call[c], stage) EXCEPT !.blind = call[c].blind]
        BY <1>1 DEF Requests, Anew
      <3>2. call[c].blind \in BOOLEAN
        BY <1>1 DEF Requests
      <3> QED BY <2>1, <3>1, <3>2 DEF Goes
    <2>2. CASE GoesBlind(c, stage)
      BY <2>2 DEF GoesBlind
    <2> QED BY <2>1, <2>2
  <1> DEFINE moved == [Anew(call[c], stage) EXCEPT !.blind = blind]
  <1>3. moved \in Requests /\ CallInOrder(moved)
    BY <1>1, <1>2, Restaged
  <1> HIDE DEF moved
  <1> QED BY <1>2, <1>3, OneCall DEF moved

\* An answer good enough to be used is not outdated beyond the ttl.
LEMMA EntryFresh ==
    ASSUME GatewayInv, NEW c \in Calls, call[c].stage = "ban", call[c].answer # None
    PROVE  LET e == Entry(BanTtl, c)
           IN  /\ e \in [answer : BanAnswers, left : 0..BanTtl]
               /\ Good(e) => e.answer # None
               /\ e.left > 0 /\ Outdated(e.answer) => settled + e.left <= BanTtl
  <1>1. /\ call[c].waited \in Nat /\ call[c].age \in Nat /\ call[c].answer \in BanAnswers
        /\ call[c].stage = "ban" => call[c].age <= call[c].waited
        /\ Outdated(call[c].answer) => settled <= call[c].age
    BY DEF GatewayInv, CallInOrder, Requests, Lookup
  <1>2. settled \in Nat
    BY DEF GatewayInv, ServerOK
  <1>3. None \in BanAnswers
    BY DEF BanAnswers
  <1> QED BY <1>1, <1>2, <1>3, GatewayBounds DEF Entry, GoodFor, Kept, Empty, Good

\* The same of an answer on the health
LEMMA HealthEntryFresh ==
    ASSUME GatewayInv, NEW c \in Calls, call[c].stage = "health", call[c].answer # None
    PROVE  LET e == Entry(HealthTtl, c)
           IN  /\ e \in [answer : HealthAnswers, left : 0..HealthTtl]
               /\ Good(e) => e.answer # None
               /\ e.left > 0 /\ Healthy(e.answer) => measured + e.left < Oldest
  <1>1. /\ call[c].waited \in Nat /\ call[c].age \in Nat /\ call[c].age <= call[c].waited
        /\ call[c].answer \in HealthAnswers
        /\ Healthy(call[c].answer) => measured < Operational + call[c].age
    BY DEF GatewayInv, CallInOrder, Requests
  <1>2. measured \in Nat
    BY GatewayBounds DEF GatewayInv, ServerOK
  <1>3. None \in HealthAnswers
    BY DEF HealthAnswers
  <1> QED BY <1>1, <1>2, <1>3, GatewayBounds DEF Entry, GoodFor, Kept, Empty, Good

LEMMA RpcCallKeeps == ASSUME GatewayInv, NEW c \in Calls, RpcCall(c) PROVE GatewayInv'
  <1>1. ServerStays /\ CachesFresh'
    BY CachesStay DEF RpcCall, ServerStays
  <1>2. PICK stage \in {"ban", "refused", "body"} : Goes(c, stage)
    BY DEF RpcCall
  <1>3. ~call[c].write
    BY DEF RpcCall, GatewayInv, CallInOrder
  <1> QED BY <1>1, <1>2, <1>3, GoesOn DEF Stages, Asking

LEMMA PaidCallKeeps == ASSUME GatewayInv, NEW c \in Calls, PaidCall(c) PROVE GatewayInv'
  <1>1. ServerStays /\ CachesFresh'
    BY CachesStay DEF PaidCall, ServerStays
  <1>2. ~call[c].write /\ Goes(c, "dna")
    BY DEF PaidCall, GatewayInv, CallInOrder
  <1> QED BY <1>1, <1>2, GoesOn DEF Stages, Asking

LEMMA ServerAnswersKeeps ==
    ASSUME GatewayInv, NEW c \in Calls, ServerAnswers(c) PROVE GatewayInv'
  <1>1. ServerStays /\ CachesFresh'
    BY CachesStay DEF ServerAnswers, ServerStays
  <1> DEFINE given == IF call[c].stage = "health" THEN RpcVerdict(measured)
                      ELSE IF listed THEN "yes" ELSE "no"
             answered == [call[c] EXCEPT !.answer = given]
  <1>2. call[c] \in Requests /\ CallInOrder(call[c])
    BY DEF GatewayInv
  <1>3. /\ call[c].stage = "health"
              => given \in HealthAnswers /\ (Healthy(given) => measured < Operational)
        /\ call[c].stage # "health" => given \in BanAnswers /\ ~Outdated(given)
    <2>1. measured \in Nat
      BY GatewayBounds DEF GatewayInv, ServerOK
    <2> QED BY <2>1, GatewayBounds
         DEF RpcVerdict, HealthAnswers, BanAnswers, Healthy, Outdated
  <1>4. call[c].stage \in Asking
    BY DEF ServerAnswers, Asking
  <1>5. call' = [call EXCEPT ![c] = answered]
    BY DEF ServerAnswers, GatewayInv
  <1> HIDE DEF given
  <1>6. /\ answered \in Requests /\ answered.stage = call[c].stage /\ answered.answer = given
        /\ answered.waited = call[c].waited /\ answered.age = call[c].age
        /\ answered.write = call[c].write
    BY <1>2, <1>3, <1>4 DEF Requests, Asking
  <1> HIDE DEF answered
  <1>7. CallInOrder(answered)
    <2>1. measured \in Nat /\ call[c].answer = None
      BY GatewayBounds DEF ServerAnswers, GatewayInv, ServerOK
    <2>2. answered.age = 0 /\ answered.waited \in Nat
      BY <1>2, <1>6, <2>1 DEF CallInOrder, Requests
    <2> QED BY <1>2, <1>3, <1>4, <1>6, <2>1, <2>2, GatewayBounds DEF CallInOrder, Lookup, Asking
  <1> QED BY <1>1, <1>5, <1>6, <1>7, OneCall

LEMMA BanKnownKeeps == ASSUME GatewayInv, NEW c \in Calls, BanKnown(c) PROVE GatewayInv'
  <1>1. ServerStays
    BY DEF BanKnown, ServerStays
  <1>2. CachesFresh'
    <2>1. banCache' = banCache \/ (call[c].stage = "ban" /\ banCache' = Entry(BanTtl, c))
      BY DEF BanKnown
    <2>2. /\ banCache' \in [answer : BanAnswers, left : 0..BanTtl]
          /\ Good(banCache') => banCache'.answer # None
          /\ banCache'.left > 0 /\ Outdated(banCache'.answer)
                => settled + banCache'.left <= BanTtl
      BY <2>1, EntryFresh DEF BanKnown, GatewayInv, CachesFresh
    <2> QED BY <1>1, <2>2 DEF BanKnown, GatewayInv, CachesFresh, ServerStays, Outdated, Good
  <1>3. PICK stage \in {"refused", "body", "forwarded"} : Goes(c, stage)
    BY DEF BanKnown
  <1>4. ~call[c].write
    BY DEF BanKnown, GatewayInv, CallInOrder, Lookup
  <1> QED BY <1>1, <1>2, <1>3, <1>4, GoesOn DEF Stages, Asking

LEMMA BanUnknownKeeps == ASSUME GatewayInv, NEW c \in Calls, BanUnknown(c) PROVE GatewayInv'
  <1>1. ServerStays /\ CachesFresh'
    BY CachesStay DEF BanUnknown, ServerStays
  <1>2. PICK stage \in {"body", "forwarded"} : GoesBlind(c, stage)
    BY DEF BanUnknown
  <1>3. ~call[c].write
    BY DEF BanUnknown, GatewayInv, CallInOrder, Lookup
  <1> QED BY <1>1, <1>2, <1>3, GoesOn DEF Stages, Asking

LEMMA BodyArrivesKeeps ==
    ASSUME GatewayInv, NEW c \in Calls, NEW write \in BOOLEAN, BodyArrives(c, write)
    PROVE  GatewayInv'
  <1>1. ServerStays /\ CachesFresh'
    BY CachesStay DEF BodyArrives, ServerStays
  <1>2. PICK stage \in {"refused", "forwarded", "health"} :
            call' = [call EXCEPT ![c] = [call[c] EXCEPT !.write = write, !.stage = stage]]
    BY DEF BodyArrives, Onward
  <1> DEFINE moved == [call[c] EXCEPT !.write = write, !.stage = stage]
  <1>3. /\ call[c] \in Requests /\ call[c].stage = "body" /\ call[c].answer = None
        /\ call[c].waited = 0 /\ call[c].age = 0
    BY DEF BodyArrives, GatewayInv, CallInOrder, Asking
  <1>4. /\ moved \in Requests /\ moved.stage = stage /\ moved.answer = None
        /\ moved.waited = 0 /\ moved.age = 0
    BY <1>3 DEF Requests, Stages, Asking
  <1>5. call' = [call EXCEPT ![c] = moved]
    BY <1>2
  <1> HIDE DEF moved
  <1>6. CallInOrder(moved)
    BY <1>4, GatewayBounds DEF CallInOrder, HealthAnswers, Healthy, Lookup, Asking
  <1> QED BY <1>1, <1>4, <1>5, <1>6, OneCall

LEMMA BodyBrokenKeeps == ASSUME GatewayInv, NEW c \in Calls, BodyBroken(c) PROVE GatewayInv'
  <1>1. ServerStays /\ CachesFresh'
    BY CachesStay DEF BodyBroken, ServerStays
  <1> QED BY <1>1, GoesOn DEF BodyBroken, Stages, Lookup

LEMMA HealthKnownKeeps == ASSUME GatewayInv, NEW c \in Calls, HealthKnown(c) PROVE GatewayInv'
  <1>1. ServerStays
    BY DEF HealthKnown, ServerStays
  <1>2. CachesFresh'
    <2>1. healthCache' = Entry(HealthTtl, c)
      BY DEF HealthKnown
    <2>2. /\ healthCache' \in [answer : HealthAnswers, left : 0..HealthTtl]
          /\ Good(healthCache') => healthCache'.answer # None
          /\ healthCache'.left > 0 /\ Healthy(healthCache'.answer)
                => measured + healthCache'.left < Oldest
      BY <2>1, HealthEntryFresh DEF HealthKnown
    <2> QED BY <1>1, <2>2 DEF HealthKnown, GatewayInv, CachesFresh, ServerStays, Outdated, Good
  <1>3. PICK stage \in {"refused", "forwarded"} : Goes(c, stage)
    BY DEF HealthKnown, Onward
  <1> QED BY <1>1, <1>2, <1>3, GoesOn DEF Stages, Lookup

LEMMA HealthUnknownKeeps ==
    ASSUME GatewayInv, NEW c \in Calls, HealthUnknown(c) PROVE GatewayInv'
  <1>1. ServerStays /\ CachesFresh'
    BY CachesStay DEF HealthUnknown, ServerStays
  <1>2. PICK stage \in {"refused", "forwarded"} : Goes(c, stage)
    BY DEF HealthUnknown, Onward
  <1> QED BY <1>1, <1>2, GoesOn DEF Stages, Lookup

LEMMA AnsweredKeeps == ASSUME GatewayInv, NEW c \in Calls, Answered(c) PROVE GatewayInv'
  <1>1. ServerStays /\ CachesFresh'
    BY CachesStay DEF Answered, ServerStays
  <1> QED BY <1>1, IdleInOrder, OneCall DEF Answered

\* A change of the list makes every answer outdated, and young.
LEMMA ListChangesKeeps == ASSUME GatewayInv, ListChanges PROVE GatewayInv'
  <1>1. /\ settled' = 0 /\ measured' = measured /\ banCache' = banCache
        /\ healthCache' = healthCache /\ call' = call /\ listed' = ~listed
    BY DEF ListChanges
  <1>2. ServerOK'
    <2>1. settled' \in 0..BanTtl /\ measured' \in 0..Oldest
      BY <1>1, GatewayBounds DEF GatewayInv, ServerOK
    <2> QED BY <1>1, <2>1 DEF GatewayInv, ServerOK
  <1>3. CachesFresh'
    BY <1>1, GatewayBounds DEF GatewayInv, CachesFresh, Outdated
  <1>4. ASSUME NEW c \in Calls PROVE CallInOrder(call[c])'
    <2>1. CallInOrder(call[c]) /\ call[c].age \in Nat
      BY DEF GatewayInv, CallInOrder, Requests
    <2> QED BY <1>1, <2>1 DEF CallInOrder
  <1> QED BY <1>1, <1>2, <1>3, <1>4 DEF GatewayInv

LEMMA ServerMeasuresKeeps == ASSUME GatewayInv, ServerMeasures PROVE GatewayInv'
  <1>1. /\ settled' = settled /\ measured' = 0 /\ banCache' = banCache
        /\ healthCache' = healthCache /\ call' = call /\ listed' = listed
    BY DEF ServerMeasures
  <1>2. ServerOK'
    <2>1. settled' \in 0..BanTtl /\ measured' \in 0..Oldest
      BY <1>1, GatewayBounds DEF GatewayInv, ServerOK
    <2> QED BY <1>1, <2>1 DEF GatewayInv, ServerOK
  <1>3. CachesFresh'
    BY <1>1, GatewayBounds DEF GatewayInv, CachesFresh, Outdated
  <1>4. ASSUME NEW c \in Calls PROVE CallInOrder(call[c])'
    <2>1. CallInOrder(call[c]) /\ call[c].age \in Nat
      BY DEF GatewayInv, CallInOrder, Requests
    <2> QED BY <1>1, <2>1, GatewayBounds DEF CallInOrder, Outdated
  <1> QED BY <1>1, <1>2, <1>3, <1>4 DEF GatewayInv

LEMMA GatewayRestartKeeps == ASSUME GatewayInv, GatewayRestart PROVE GatewayInv'
  <1>1. ServerOK'
    BY DEF GatewayRestart, GatewayInv, ServerOK
  <1>2. CachesFresh'
    BY GatewayBounds DEF GatewayRestart, CachesFresh, BanAnswers, HealthAnswers, None, Empty, Good
  <1>3. ASSUME NEW c \in Calls PROVE CallInOrder(call[c])'
    <2>1. CallInOrder(call'[c])
      BY IdleInOrder DEF GatewayRestart
    <2> QED BY <2>1 DEF CallInOrder, Outdated, GatewayRestart
  <1> QED BY <1>1, <1>2, <1>3, IdleInOrder DEF GatewayInv, GatewayRestart

\* An entry that is still good has lost a step of its time and nothing else.
LEMMA OlderEntry ==
    ASSUME NEW Answers, None \in Answers, NEW ttl \in Nat,
           NEW e \in [answer : Answers, left : 0..ttl]
    PROVE  /\ Older(e) \in [answer : Answers, left : 0..ttl]
           /\ Older(e).left > 0 => Older(e).answer = e.answer /\ e.left = Older(e).left + 1
  BY DEF Older, Kept, Empty, Good

\* Time moves no request.
LEMMA AgedCall == ASSUME NEW r \in Requests PROVE AgedRequest(r).stage = r.stage
  BY DEF AgedRequest, Requests

\* What an answer gains in age it loses in the time it is good for.
LEMMA GatewayTickKeeps == ASSUME GatewayInv, GatewayTick PROVE GatewayInv'
  <1>1. /\ settled' \in 0..BanTtl /\ settled' <= settled + 1 /\ settled \in Nat
        /\ measured' \in 0..Oldest /\ measured' <= measured + 1 /\ measured \in Nat
        /\ listed' = listed
    BY GatewayBounds DEF GatewayTick, GatewayInv, ServerOK, CapTo
  <1>2. ServerOK'
    BY <1>1 DEF GatewayInv, ServerOK
  <1>3. CachesFresh'
    <2>1. /\ banCache.left \in 0..BanTtl /\ banCache.answer \in BanAnswers
          /\ healthCache.left \in 0..HealthTtl /\ healthCache.answer \in HealthAnswers
      BY DEF GatewayInv, CachesFresh
    <2>2. /\ banCache'.left > 0 => /\ banCache'.answer = banCache.answer
                                   /\ banCache.left = banCache'.left + 1
                                   /\ banCache.answer # None
          /\ banCache' \in [answer : BanAnswers, left : 0..BanTtl]
      <3>1. banCache \in [answer : BanAnswers, left : 0..BanTtl] /\ None \in BanAnswers
            /\ (Good(banCache) => banCache.answer # None) /\ BanTtl \in Nat
        BY GatewayBounds DEF GatewayInv, CachesFresh, BanAnswers
      <3>2. banCache' = Older(banCache)
        BY DEF GatewayTick
      <3>3. /\ Older(banCache) \in [answer : BanAnswers, left : 0..BanTtl]
            /\ Older(banCache).left > 0 => /\ Older(banCache).answer = banCache.answer
                                          /\ banCache.left = Older(banCache).left + 1
        BY <3>1, OlderEntry
      <3> QED BY <2>1, <3>1, <3>2, <3>3 DEF Good
    <2>3. /\ healthCache'.left > 0 => /\ healthCache'.answer = healthCache.answer
                                      /\ healthCache.left = healthCache'.left + 1
                                      /\ healthCache.answer # None
          /\ healthCache' \in [answer : HealthAnswers, left : 0..HealthTtl]
      <3>1. healthCache \in [answer : HealthAnswers, left : 0..HealthTtl]
            /\ (Good(healthCache) => healthCache.answer # None)
            /\ None \in HealthAnswers /\ HealthTtl \in Nat
        BY GatewayBounds DEF GatewayInv, CachesFresh, HealthAnswers
      <3>2. healthCache' = Older(healthCache)
        BY DEF GatewayTick
      <3>3. /\ Older(healthCache) \in [answer : HealthAnswers, left : 0..HealthTtl]
            /\ Older(healthCache).left > 0
                  => /\ Older(healthCache).answer = healthCache.answer
                     /\ healthCache.left = Older(healthCache).left + 1
        BY <3>1, OlderEntry
      <3> QED BY <2>1, <3>1, <3>2, <3>3 DEF Good
    <2>4. banCache'.left > 0 /\ Outdated(banCache.answer)'
              => settled' + banCache'.left <= BanTtl
      <3> SUFFICES ASSUME banCache'.left > 0, Outdated(banCache.answer)'
                   PROVE  settled' + banCache'.left <= BanTtl
        OBVIOUS
      <3>1. banCache.left > 0 /\ banCache.left = banCache'.left + 1
        BY <2>1, <2>2
      <3>2. Outdated(banCache.answer)
        BY <1>1, <2>2 DEF Outdated
      <3>3. settled + banCache.left <= BanTtl
        BY <3>1, <3>2 DEF GatewayInv, CachesFresh
      <3> QED BY <1>1, <2>1, <2>2, <3>1, <3>3, GatewayBounds
    <2>5. healthCache'.left > 0 /\ Healthy(healthCache'.answer)
              => measured' + healthCache'.left < Oldest
      <3> SUFFICES ASSUME healthCache'.left > 0, Healthy(healthCache'.answer)
                   PROVE  measured' + healthCache'.left < Oldest
        OBVIOUS
      <3>1. healthCache.left > 0 /\ Healthy(healthCache.answer)
            /\ healthCache.left = healthCache'.left + 1
        BY <2>1, <2>3
      <3>2. measured + healthCache.left < Oldest
        BY <3>1 DEF GatewayInv, CachesFresh
      <3> QED BY <1>1, <2>1, <2>3, <3>1, <3>2, GatewayBounds
    <2> QED BY <2>2, <2>3, <2>4, <2>5 DEF CachesFresh, Good
  <1>4. ASSUME NEW c \in Calls
        PROVE  call'[c] \in Requests /\ CallInOrder(call[c])'
    <2>1. call[c] \in Requests /\ CallInOrder(call[c])
      BY DEF GatewayInv
    <2>2. CASE call[c].stage \notin Asking
      <3>1. call'[c] = call[c]
        <4>1. call'[c] = AgedRequest(call[c])
          BY DEF GatewayTick
        <4> QED BY <2>2, <4>1 DEF AgedRequest, Asking
      <3> QED BY <2>1, <2>2, <3>1 DEF CallInOrder, Lookup, Asking
    <2>3. CASE call[c].stage \in Asking
      <3> DEFINE next == IF call[c].answer = None THEN 0 ELSE call[c].age + 1
                 seen == CapTo(call[c].waited + 1, Ttl(call[c].stage))
      <3>1. call'[c] = [call[c] EXCEPT !.waited = seen, !.age = next]
        <4>1. call'[c] = AgedRequest(call[c])
          BY DEF GatewayTick
        <4> QED BY <2>3, <4>1 DEF AgedRequest, Asking
      <3>2. /\ call[c].waited \in Nat /\ call[c].age \in Nat /\ seen \in Nat /\ next \in Nat
            /\ next <= call[c].age + 1
            /\ call[c].stage = "ban" => seen = CapTo(call[c].waited + 1, BanTtl)
            /\ call[c].stage = "health" => seen = CapTo(call[c].waited + 1, HealthTtl)
        BY <2>1, <2>3, GatewayBounds DEF Requests, CapTo, Ttl, Asking
      <3>3. call[c].answer # None => call[c].age < Longest(call[c].stage)
        BY <2>3 DEF GatewayTick, Asking
      <3>4. call[c].stage \in Lookup => next <= LookupTimeout
        BY <3>2, <3>3, GatewayBounds DEF Longest, Lookup
      <3>5. call[c].stage = "health" => next <= HealthTimeout
        BY <3>2, <3>3, GatewayBounds DEF Longest
      <3>6. call[c].stage \in {"ban", "health"} => next <= seen
        BY <2>1, <3>2, <3>4, <3>5, GatewayBounds DEF CallInOrder, CapTo, Lookup
      <3>7. call[c].answer = None => next = 0
        OBVIOUS
      <3>8. call[c].answer # None => next = call[c].age + 1
        OBVIOUS
      <3> HIDE DEF next, seen
      <3>9. /\ call'[c] \in Requests /\ call'[c].stage = call[c].stage
            /\ call'[c].answer = call[c].answer /\ call'[c].write = call[c].write
            /\ call'[c].waited = seen /\ call'[c].age = next
        BY <2>1, <3>1, <3>2 DEF Requests
      <3>10. call[c].stage \in Lookup /\ Outdated(call[c].answer) => settled' <= next
        BY <1>1, <2>1, <3>2, <3>8 DEF CallInOrder, Outdated
      <3>11. call[c].stage = "health" /\ Healthy(call[c].answer) => measured' < Operational + next
        BY <1>1, <2>1, <3>2, <3>8, GatewayBounds DEF CallInOrder, Healthy
      <3>12. Outdated(call[c].answer)' <=> Outdated(call'[c].answer) /\ listed' = listed
        BY <1>1 DEF Outdated
      <3> QED BY <1>1, <2>1, <2>3, <3>4, <3>5, <3>6, <3>7, <3>9, <3>10, <3>11
           DEF CallInOrder, Asking, Outdated
    <2> QED BY <2>2, <2>3
  <1>5. call' \in [Calls -> Requests]
    BY <1>4 DEF GatewayTick
  <1> QED BY <1>2, <1>3, <1>4, <1>5 DEF GatewayInv

LEMMA GatewayInvNext == GatewayInv /\ [GatewayNext]_gatewayVars => GatewayInv'
  <1> SUFFICES ASSUME GatewayInv, [GatewayNext]_gatewayVars PROVE GatewayInv'
    OBVIOUS
  <1>1. ASSUME NEW c \in Calls,
               RpcCall(c) \/ PaidCall(c) \/ ServerAnswers(c) \/ BanKnown(c) \/ BanUnknown(c)
        PROVE  GatewayInv'
    BY <1>1, RpcCallKeeps, PaidCallKeeps, ServerAnswersKeeps, BanKnownKeeps, BanUnknownKeeps
  <1>2. ASSUME NEW c \in Calls, NEW write \in BOOLEAN, BodyArrives(c, write)
        PROVE  GatewayInv'
    BY <1>2, BodyArrivesKeeps
  <1>3. ASSUME NEW c \in Calls,
               BodyBroken(c) \/ HealthKnown(c) \/ HealthUnknown(c) \/ Answered(c)
        PROVE  GatewayInv'
    BY <1>3, BodyBrokenKeeps, HealthKnownKeeps, HealthUnknownKeeps, AnsweredKeeps
  <1>4. CASE ListChanges \/ ServerMeasures \/ GatewayRestart \/ GatewayTick
    BY <1>4, ListChangesKeeps, ServerMeasuresKeeps, GatewayRestartKeeps, GatewayTickKeeps
  <1>5. CASE UNCHANGED gatewayVars
    BY <1>5 DEF gatewayVars, GatewayInv, ServerOK, CachesFresh, CallInOrder, Outdated
  <1> QED BY <1>1, <1>2, <1>3, <1>4, <1>5 DEF GatewayNext

\* Every answer the two gates hold or keep is as fresh as it claims.
THEOREM AnswersFresh == GatewaySpec => []GatewayInv
  BY GatewayInvInit, GatewayInvNext, PTL DEF GatewaySpec
\* A settled list is what each answer on a ban repeats.
LEMMA SettledAnswers ==
    ASSUME GatewayInv, settled = BanTtl
    PROVE  /\ Good(banCache) => ~Outdated(banCache.answer)
           /\ \A c \in Calls : call[c].stage \in Lookup => ~Outdated(call[c].answer)
  <1>1. banCache.left \in Nat
    BY GatewayBounds DEF GatewayInv, CachesFresh
  <1>2. Good(banCache) => ~Outdated(banCache.answer)
    BY <1>1, GatewayBounds DEF GatewayInv, CachesFresh, Good
  <1>3. ASSUME NEW c \in Calls, call[c].stage \in Lookup PROVE ~Outdated(call[c].answer)
    <2>1. call[c].age \in Nat
      BY DEF GatewayInv, Requests
    <2> QED BY <1>3, <2>1, GatewayBounds DEF GatewayInv, CallInOrder
  <1> QED BY <1>2, <1>3

\* Where a request may have gone in a step
LEMMA GoesWhere ==
    ASSUME NEW c \in Calls, NEW d \in Calls, NEW stage, GatewayInv, Goes(d, stage)
    PROVE  /\ c # d => call'[c] = call[c]
           /\ c = d => /\ call'[c].stage = stage /\ call'[c].blind = call[c].blind
                       /\ call'[c].write = call[c].write
  <1>1. call \in [Calls -> Requests]
    BY DEF GatewayInv
  <1>2. call' = [call EXCEPT ![d] = Anew(call[d], stage)]
    BY DEF Goes
  <1> QED BY <1>1, <1>2 DEF Requests, Anew

LEMMA GoesBlindWhere ==
    ASSUME NEW c \in Calls, NEW d \in Calls, NEW stage, GatewayInv, GoesBlind(d, stage)
    PROVE  /\ c # d => call'[c] = call[c]
           /\ c = d => call'[c].stage = stage /\ call'[c].blind /\ call'[c].write = call[c].write
  <1>1. call \in [Calls -> Requests]
    BY DEF GatewayInv
  <1>2. call' = [call EXCEPT ![d] = [Anew(call[d], stage) EXCEPT !.blind = TRUE]]
    BY DEF GoesBlind
  <1> QED BY <1>1, <1>2 DEF Requests, Anew

\* A step that takes one request to a stage
BansReach(c) ==
    settled = BanTtl /\ call[c].stage \in {"idle", "ban", "dna"} =>
        /\ Becomes(c, {"body", "forwarded"}) => ~listed \/ call'[c].blind
        /\ Becomes(c, {"refused"}) => listed

\* No step takes a request past a gate against a settled list.
LEMMA BansReachStep ==
    ASSUME GatewayInv, [GatewayNext]_gatewayVars, NEW c \in Calls
    PROVE  BansReach(c)
  <1> SUFFICES ASSUME settled = BanTtl, call[c].stage \in {"idle", "ban", "dna"},
                      call'[c].stage \in {"body", "forwarded", "refused"},
                      call'[c].stage # call[c].stage
               PROVE  /\ call'[c].stage \in {"body", "forwarded"} => ~listed \/ call'[c].blind
                      /\ call'[c].stage = "refused" => listed
    BY DEF BansReach, Becomes
  <1>1. ASSUME NEW d \in Calls, RpcCall(d)
        PROVE  /\ call'[c].stage \in {"body", "forwarded"} => ~listed
               /\ call'[c].stage = "refused" => listed
    <2>1. CASE Good(banCache)
      <3>1. Goes(d, IF banCache.answer = "yes" THEN "refused" ELSE "body")
        BY <1>1, <2>1 DEF RpcCall
      <3>2. c = d /\ call'[c].stage = IF banCache.answer = "yes" THEN "refused" ELSE "body"
        BY <3>1, GoesWhere
      <3>3. banCache.answer = IF listed THEN "yes" ELSE "no"
        BY <2>1, SettledAnswers DEF Outdated, GatewayInv, CachesFresh
      <3> QED BY <3>2, <3>3
    <2>2. CASE ~Good(banCache)
      BY <1>1, <2>2, GoesWhere DEF RpcCall
    <2> QED BY <2>1, <2>2
  <1>2. ASSUME NEW d \in Calls, BanKnown(d)
        PROVE  /\ call'[c].stage \in {"body", "forwarded"} => ~listed
               /\ call'[c].stage = "refused" => listed
    <2>1. Goes(d, IF call[d].answer = "yes" THEN "refused"
                  ELSE IF call[d].stage = "ban" THEN "body" ELSE "forwarded")
      BY <1>2 DEF BanKnown
    <2>2. /\ c = d
          /\ call'[c].stage = IF call[d].answer = "yes" THEN "refused"
                              ELSE IF call[d].stage = "ban" THEN "body" ELSE "forwarded"
      BY <2>1, GoesWhere
    <2>3. call[d].answer = IF listed THEN "yes" ELSE "no"
      BY <1>2, SettledAnswers DEF BanKnown, Lookup, Outdated
    <2> QED BY <2>2, <2>3
  <1>3. ASSUME NEW d \in Calls, BanUnknown(d)
        PROVE  call'[c].blind /\ call'[c].stage # "refused"
    BY <1>3, GoesBlindWhere DEF BanUnknown
  <1>4. ASSUME NEW d \in Calls, PaidCall(d) \/ BodyBroken(d) PROVE FALSE
    BY <1>4, GoesWhere DEF PaidCall, BodyBroken
  <1>5. ASSUME NEW d \in Calls, HealthKnown(d) \/ HealthUnknown(d) PROVE FALSE
    <2>1. call[d].stage = "health" /\ \E stage \in {"refused", "forwarded"} : Goes(d, stage)
      BY <1>5 DEF HealthKnown, HealthUnknown, Onward
    <2> QED BY <2>1, GoesWhere
  <1>6. ASSUME NEW d \in Calls, NEW write \in BOOLEAN, BodyArrives(d, write) PROVE FALSE
    <2>1. call[d].stage = "body" /\ (c # d => call'[c] = call[c])
      BY <1>6 DEF BodyArrives, GatewayInv
    <2> QED BY <2>1
  <1>7. ASSUME NEW d \in Calls, ServerAnswers(d) PROVE FALSE
    <2>1. call'[c].stage = call[c].stage
      BY <1>7 DEF ServerAnswers, GatewayInv, Requests
    <2> QED BY <2>1
  <1>8. ASSUME NEW d \in Calls, Answered(d) PROVE FALSE
    BY <1>8 DEF Answered, Idle, GatewayInv
  <1>9. CASE ListChanges \/ ServerMeasures \/ UNCHANGED gatewayVars
    BY <1>9 DEF ListChanges, ServerMeasures, gatewayVars
  <1>10. CASE GatewayRestart
    BY <1>10 DEF GatewayRestart, Idle
  <1>11. CASE GatewayTick
    <2>1. call'[c].stage = call[c].stage
      BY <1>11, AgedCall DEF GatewayTick, GatewayInv
    <2> QED BY <2>1
  <1> QED BY <1>1, <1>2, <1>3, <1>4, <1>5, <1>6, <1>7, <1>8, <1>9, <1>10, <1>11 DEF GatewayNext

\* Whatever lookups overlap, and in whichever order their answers arrive, a ban
\* or a pardon as old as the cache's ttl is what both gates go by, unless the
\* lookup failed (_is_banned, SiliconDnaGateMiddleware).
THEOREM BansReachTheGates == GatewaySpec => BansReachGates
  <1>1. GatewayInv /\ [GatewayNext]_gatewayVars => [\A c \in Calls : BansReach(c)]_gatewayVars
    BY BansReachStep
  <1> QED BY <1>1, AnswersFresh, PTL DEF GatewaySpec, BansReachGates, BansReach

\* A write goes on by an answer that was healthy within the ttl.
LEMMA WritesHealthyStep ==
    ASSUME GatewayInv, [GatewayNext]_gatewayVars, NEW c \in Calls,
           Becomes(c, {"forwarded"}), call'[c].write
    PROVE  measured < Oldest
  <1>1. measured \in Nat
    BY GatewayBounds DEF GatewayInv, ServerOK
  <1>2. ASSUME NEW d \in Calls, RpcCall(d) \/ PaidCall(d) \/ BanKnown(d) \/ BodyBroken(d) PROVE FALSE
    <2>1. /\ call[d].stage \in {"idle", "ban", "dna", "body"}
          /\ \E stage \in Stages : Goes(d, stage)
      BY <1>2 DEF RpcCall, PaidCall, BanKnown, BodyBroken, Stages, Asking
    <2>2. ~call[d].write
      BY <2>1 DEF GatewayInv, CallInOrder, Lookup
    <2> QED BY <2>1, <2>2, GoesWhere DEF Becomes
  <1>3. ASSUME NEW d \in Calls, BanUnknown(d) PROVE FALSE
    <2>1. ~call[d].write
      BY <1>3 DEF GatewayInv, CallInOrder, Lookup, BanUnknown
    <2> QED BY <1>3, <2>1, GoesBlindWhere DEF Becomes, BanUnknown
  <1>4. ASSUME NEW d \in Calls, NEW write \in BOOLEAN, BodyArrives(d, write)
        PROVE  measured < Oldest
    <2>1. call[d].stage = "body" /\ c = d
      BY <1>4 DEF BodyArrives, GatewayInv, Becomes
    <2>2. /\ Good(healthCache) /\ Onward(write, healthCache.answer) = "forwarded"
          /\ write
      BY <1>4, <2>1 DEF BodyArrives, GatewayInv, Becomes, Requests
    <2>3. Healthy(healthCache.answer) /\ healthCache.left > 0 /\ healthCache.left \in Nat
      BY <2>2, GatewayBounds DEF Good, Onward, Healthy, GatewayInv, CachesFresh
    <2> QED BY <1>1, <2>3, GatewayBounds DEF GatewayInv, CachesFresh
  <1>5. ASSUME NEW d \in Calls, HealthKnown(d) PROVE measured < Oldest
    <2>1. Goes(d, Onward(call[d].write, call[d].answer)) /\ call[d].stage = "health"
          /\ call[d].answer # None
      BY <1>5 DEF HealthKnown
    <2>2. /\ c = d /\ call[c].write
          /\ Onward(call[c].write, call[c].answer) = "forwarded"
      BY <2>1, GoesWhere DEF Becomes
    <2>3. Healthy(call[c].answer)
      BY <2>1, <2>2 DEF Onward, Healthy
    <2>4. /\ measured < Operational + call[c].age /\ call[c].age <= HealthTimeout
          /\ call[c].age \in Nat
      BY <2>1, <2>2, <2>3 DEF GatewayInv, CallInOrder, Requests
    <2> QED BY <1>1, <2>4, GatewayBounds
  <1>6. ASSUME NEW d \in Calls, HealthUnknown(d) PROVE FALSE
    BY <1>6, GoesWhere DEF HealthUnknown, Onward, Becomes
  <1>7. ASSUME NEW d \in Calls, ServerAnswers(d) PROVE FALSE
    <2>1. call'[c].stage = call[c].stage
      BY <1>7 DEF ServerAnswers, GatewayInv, Requests
    <2> QED BY <2>1 DEF Becomes
  <1>8. ASSUME NEW d \in Calls, Answered(d) PROVE FALSE
    BY <1>8 DEF Answered, Idle, GatewayInv, Becomes
  <1>9. CASE ListChanges \/ ServerMeasures \/ UNCHANGED gatewayVars
    BY <1>9 DEF ListChanges, ServerMeasures, gatewayVars, Becomes
  <1>10. CASE GatewayRestart
    BY <1>10 DEF GatewayRestart, Idle, Becomes
  <1>11. CASE GatewayTick
    <2>1. call'[c].stage = call[c].stage
      BY <1>11, AgedCall DEF GatewayTick, GatewayInv
    <2> QED BY <2>1 DEF Becomes
  <1> QED BY <1>2, <1>3, <1>4, <1>5, <1>6, <1>7, <1>8, <1>9, <1>10, <1>11 DEF GatewayNext

\* Whatever the cache of health holds and however long the body takes to come,
\* no transaction is forwarded once the server's last measurement has not been
\* operational for as long as the cache keeps an answer (rpc_proxy).
THEOREM WritesAreBacked == GatewaySpec => WritesNeedHealth
  <1>1. GatewayInv /\ [GatewayNext]_gatewayVars
            => [\A c \in Calls : Becomes(c, {"forwarded"}) /\ call'[c].write
                                    => measured < Oldest]_gatewayVars
    BY WritesHealthyStep
  <1> QED BY <1>1, AnswersFresh, PTL DEF GatewaySpec, WritesNeedHealth
===============================================================================
