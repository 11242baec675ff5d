------------------------- MODULE EnclaveSession_proofs -------------------------
(***************************************************************************)
(* For any number of pages, addresses and requests, any clocks and any     *)
(* ratchet interval: a seal opens the enclave once, as long as a packet    *)
(* counter lives longer than a seal stays fresh.                           *)
(***************************************************************************)
EXTENDS EnclaveSession, TLAPS

\* The ttls and windows as arithmetic facts.
LEMMA Bounds ==
    /\ Window \in Nat /\ Skew \in Nat /\ SeqTtl \in Nat /\ KeyTtl \in Nat
    /\ Window + Skew < SeqTtl /\ IpOf \in [Pages -> Ips] /\ Offsets \subseteq Int
BY EnclaveAssumption

\* Sending keeps the types of the request it numbers.
LEMMA SendType ==
    ASSUME TypeOK, NEW i \in SealIds, NEW p \in Pages, NEW asset \in Assets,
           NEW seq \in Nat, Send(i, p, asset, seq)
    PROVE  /\ seal' \in [SealIds -> SealRecord \cup {NoSeal}]
           /\ age' \in [SealIds -> Int] /\ uses' \in [SealIds -> Nat]
           /\ place' \in [SealIds -> {"none", "wire", "stalled", "done"}]
           /\ \A x \in SealIds : place'[x] # "none" => seal'[x] \in SealRecord
           /\ resent' = resent
<1>1. PICK offset \in Offsets : age' = [age EXCEPT ![i] = offset]
  BY DEF Send
<1>2. age' \in [SealIds -> Int]
  BY <1>1, Bounds DEF TypeOK
<1>3. [page |-> p, asset |-> asset, key |-> pageKey[p], seq |-> seq] \in SealRecord
  BY DEF SealRecord, TypeOK
<1> QED
  BY <1>2, <1>3 DEF Send, TypeOK

\* An answer changes only the request's place and the waiting job.
LEMMA ReplyType ==
    ASSUME TypeOK, NEW i \in SealIds, place[i] = "stalled",
           NEW answer \in {"served", "invalid", "pow"}, Reply(i, answer)
    PROVE  /\ place' \in [SealIds -> {"none", "wire", "stalled", "done"}]
           /\ \A x \in SealIds : place'[x] # "none" <=> place[x] # "none"
           /\ jobs' \in SUBSET Job
           /\ \A j \in jobs' : place'[j.id] # "none"
<1>1. place' = [place EXCEPT ![i] = "done"]
  BY DEF Reply
<1>2. /\ place' \in [SealIds -> {"none", "wire", "stalled", "done"}]
      /\ \A x \in SealIds : place'[x] # "none" <=> place[x] # "none"
  BY <1>1 DEF TypeOK
<1>3. ASSUME NEW k \in jobs' PROVE k \in Job /\ place'[k.id] # "none"
  <2>1. PICK j \in jobs : k = IF j.id = i /\ j.reply = "none"
                THEN [page |-> j.page, id |-> j.id, try |-> j.try, reply |-> answer]
                ELSE j
    BY <1>3 DEF Reply
  <2>2. j \in Job /\ place[j.id] # "none"
    BY <2>1 DEF TypeOK
  <2>3. k \in Job /\ k.id = j.id
    BY <2>1, <2>2 DEF Job
  <2> QED
    BY <1>2, <2>2, <2>3 DEF Job
<1> QED
  BY <1>2, <1>3

\* The answers of the server that only reply keep every type.
LEMMA AnswerType ==
    ASSUME TypeOK, NEW i \in SealIds, NEW answer \in {"served", "invalid", "pow"},
           Reply(i, answer), place[i] = "stalled", banned' \in SUBSET Ips,
           UNCHANGED <<pageVars, decaps, wireVars, serverVars, armed, verified>>
    PROVE  TypeOK'
BY ReplyType DEF TypeOK, pageVars, wireVars, serverVars

LEMMA GateAnswerType == \A i \in SealIds : GateAnswer(i) \in {"served", "invalid", "pow"}
BY DEF GateAnswer

\* Only Send and the delivery actions move a request, and none un-sends it.
LEMMA TypeStep == TypeOK /\ [Next]_vars => TypeOK'
<1> SUFFICES ASSUME TypeOK, [Next]_vars PROVE TypeOK'
  OBVIOUS
<1> USE Bounds
<1>1. ASSUME NEW p \in Pages, PageLoad(p) \/ ModeChange(p) PROVE TypeOK'
  <2>1. Handshake(p)
    BY <1>1 DEF PageLoad, ModeChange
  <2>2. loads' \in Nat /\ pageKey' \in [Pages -> Nat] /\ decaps' \in SUBSET Nat
    BY <2>1 DEF Handshake, TypeOK
  <2>3. idx' \in [Pages -> Nat] /\ jobs' \subseteq jobs
    <3>1. CASE PageLoad(p)
      BY <3>1 DEF PageLoad, TypeOK
    <3>2. CASE ModeChange(p)
      BY <3>2 DEF ModeChange, TypeOK
    <3> QED
      BY <1>1, <3>1, <3>2
  <2>4. jobs' \in SUBSET Job /\ \A j \in jobs' : place[j.id] # "none"
    BY <2>3 DEF TypeOK
  <2> QED
    BY <2>1, <2>2, <2>3, <2>4 DEF Handshake, TypeOK, wireVars, serverVars
<1>2. ASSUME NEW k \in decaps, Decap(k) PROVE TypeOK'
  BY <1>2 DEF Decap, TypeOK, pageVars, wireVars
<1>3. ASSUME NEW p \in Pages, NEW asset \in Assets, NEW i \in SealIds, Click(p, asset, i)
      PROVE  TypeOK'
  <2>1. idx[p] + 1 \in Nat /\ Send(i, p, asset, idx[p] + 1)
    BY <1>3 DEF TypeOK, Click
  <2>2. /\ seal' \in [SealIds -> SealRecord \cup {NoSeal}]
        /\ age' \in [SealIds -> Int] /\ uses' \in [SealIds -> Nat]
        /\ place' \in [SealIds -> {"none", "wire", "stalled", "done"}]
        /\ \A x \in SealIds : place'[x] # "none" => seal'[x] \in SealRecord
        /\ resent' = resent
    BY <2>1, SendType
  <2>3. jobs' \in SUBSET Job /\ \A j \in jobs' : place'[j.id] # "none"
    BY <1>3 DEF Click, Send, Job, TypeOK
  <2> QED
    BY <1>3, <2>2, <2>3 DEF Click, TypeOK, pageVars, serverVars
<1>4. ASSUME NEW i \in SealIds, Arrive(i) PROVE TypeOK'
  <2>1. place' \in [SealIds -> {"none", "wire", "stalled", "done"}]
    BY <1>4 DEF Arrive, TypeOK
  <2>2. \A x \in SealIds : place'[x] # "none" <=> place[x] # "none"
    BY <1>4 DEF Arrive, TypeOK
  <2>3. jobs' \subseteq jobs
    BY <1>4 DEF Arrive
  <2>4. jobs' \in SUBSET Job /\ \A j \in jobs' : place'[j.id] # "none"
    BY <2>2, <2>3 DEF TypeOK, Job
  <2> QED
    BY <1>4, <2>1, <2>2, <2>4 DEF Arrive, TypeOK, pageVars, wireVars, serverVars
<1>5. ASSUME NEW i \in SealIds, Resend(i) PROVE TypeOK'
  <2>1. place' \in [SealIds -> {"none", "wire", "stalled", "done"}]
    BY <1>5 DEF Resend, TypeOK
  <2>2. \A x \in SealIds : place'[x] # "none" <=> place[x] # "none"
    BY <1>5 DEF Resend, TypeOK
  <2>3. \A j \in jobs' : place'[j.id] # "none"
    BY <1>5, <2>2 DEF Resend, TypeOK, Job
  <2> QED
    BY <1>5, <2>1, <2>2, <2>3 DEF Resend, TypeOK, pageVars, serverVars
<1>6. ASSUME NEW i \in SealIds, Wallet(i) PROVE TypeOK'
  BY <1>6, AnswerType, GateAnswerType DEF Wallet, TypeOK
<1>7. ASSUME NEW i \in SealIds, NoSession(i) PROVE TypeOK'
  BY <1>7, AnswerType DEF NoSession, TypeOK
<1>8. ASSUME NEW i \in SealIds, Refuse(i) PROVE TypeOK'
  BY <1>8, AnswerType DEF Refuse, TypeOK
<1>9. ASSUME NEW i \in SealIds, Replay(i) PROVE TypeOK'
  <2>1. banned' \in SUBSET Ips
    BY <1>9 DEF Replay, TypeOK, SealRecord
  <2> QED
    BY <1>9, <2>1, AnswerType DEF Replay
<1>10. ASSUME NEW i \in SealIds, Accept(i) PROVE TypeOK'
  <2>1. /\ place' \in [SealIds -> {"none", "wire", "stalled", "done"}]
        /\ \A x \in SealIds : place'[x] # "none" <=> place[x] # "none"
        /\ jobs' \in SUBSET Job /\ \A j \in jobs' : place'[j.id] # "none"
    BY <1>10, ReplyType, GateAnswerType DEF Accept
  <2>2. key' \in [hs : Nat, ratchets : Nat] /\ counter' \in Nat /\ keyLeft' \in 0..KeyTtl
    BY <1>10 DEF Accept, Consume, TypeOK
  <2>3. lastSeq' \in Nat /\ seqLeft' \in 0..SeqTtl /\ uses' \in [SealIds -> Nat]
    BY <1>10 DEF Accept, Consume, TypeOK
  <2> QED
    BY <1>10, <2>1, <2>2, <2>3 DEF Accept, TypeOK, pageVars
<1>11. ASSUME NEW j \in jobs, Receive(j) PROVE TypeOK'
  <2>1. j.id \in SealIds /\ seal[j.id] \in SealRecord
    BY DEF TypeOK, Job
  <2>2. seal[j.id].seq \in Nat
    BY <2>1 DEF SealRecord
  <2>3. idx' \in [Pages -> Nat]
    BY <1>11, <2>2 DEF Receive, TypeOK
  <2> QED
    BY <1>11, <2>3 DEF Receive, TypeOK, wireVars, serverVars
<1>12. ASSUME NEW j \in jobs, Abandon(j) PROVE TypeOK'
  BY <1>12 DEF Abandon, TypeOK, pageVars, wireVars, serverVars
<1>13. ASSUME NEW j \in jobs, NEW i \in SealIds, SolveAndRetry(j, i) PROVE TypeOK'
  <2>1. j.id \in SealIds /\ j.page \in Pages /\ seal[j.id] \in SealRecord
    BY DEF TypeOK, Job
  <2>2. seal[j.id].seq + 1 \in Nat /\ seal[j.id].asset \in Assets
    BY <2>1 DEF SealRecord
  <2>3. Send(i, j.page, seal[j.id].asset, seal[j.id].seq + 1)
    BY <1>13 DEF SolveAndRetry
  <2>4. /\ seal' \in [SealIds -> SealRecord \cup {NoSeal}]
        /\ age' \in [SealIds -> Int] /\ uses' \in [SealIds -> Nat]
        /\ place' \in [SealIds -> {"none", "wire", "stalled", "done"}]
        /\ \A x \in SealIds : place'[x] # "none" => seal'[x] \in SealRecord
        /\ resent' = resent
    BY <2>1, <2>2, <2>3, SendType
  <2>5. jobs' \in SUBSET Job /\ \A k \in jobs' : place'[k.id] # "none"
    BY <1>13, <2>1 DEF SolveAndRetry, Send, Job, TypeOK
  <2>6. verified' \in SUBSET Ips
    BY <1>13, <2>1 DEF SolveAndRetry, TypeOK
  <2> QED
    BY <1>13, <2>4, <2>5, <2>6 DEF SolveAndRetry, TypeOK, pageVars, serverVars
<1>14. CASE Arm
  BY <1>14 DEF Arm, TypeOK, pageVars, wireVars, serverVars
<1>15. ASSUME NEW ip \in Ips, PowLapses(ip) PROVE TypeOK'
  BY <1>15 DEF PowLapses, TypeOK, pageVars, wireVars, serverVars
<1>16. CASE Tick
  <2>1. age' \in [SealIds -> Int]
    BY <1>16 DEF Tick, TypeOK
  <2>2. keyLeft' \in 0..KeyTtl /\ seqLeft' \in 0..SeqTtl /\ lastSeq' \in Nat
    BY <1>16 DEF Tick, Down, TypeOK
  <2> QED
    BY <1>16, <2>1, <2>2 DEF Tick, TypeOK, pageVars
<1>17. CASE UNCHANGED vars
  BY <1>17 DEF vars, TypeOK, pageVars, wireVars, serverVars
<1> QED
  BY <1>1, <1>2, <1>3, <1>4, <1>5, <1>6, <1>7, <1>8, <1>9, <1>10, <1>11, <1>12,
     <1>13, <1>14, <1>15, <1>16, <1>17 DEF Next

-------------------------------------------------------------------------------
SealSafety == SealAcceptedOnce /\ FreshSeqsDistinct /\ SeqRemembered
IInv == TypeOK /\ SealSafety

\* A step that leaves the accepted seals and the counter alone and un-sends
\* nothing cannot break the invariant.
LEMMA QuietStep ==
    ASSUME IInv, UNCHANGED <<seal, age, uses, lastSeq, seqLeft>>,
           \A x \in SealIds : place[x] # "none" => place'[x] # "none"
    PROVE  SealSafety'
BY DEF IInv, SealSafety, SealAcceptedOnce, FreshSeqsDistinct, SeqRemembered

\* Nor can sending a request: it was not accepted before it was sent.
LEMMA SendStep ==
    ASSUME IInv, NEW i \in SealIds, NEW p \in Pages, NEW asset \in Assets,
           NEW seq \in Nat, Send(i, p, asset, seq), UNCHANGED <<lastSeq, seqLeft>>
    PROVE  SealSafety'
<1>1. uses[i] = 0 /\ uses' = uses
  BY DEF Send, IInv, SealSafety, SeqRemembered, TypeOK
<1>2. \A x \in SealIds \ {i} : seal'[x] = seal[x] /\ age'[x] = age[x] /\ place'[x] = place[x]
  BY DEF Send, IInv, TypeOK
<1> QED
  BY <1>1, <1>2 DEF IInv, SealSafety, SealAcceptedOnce, FreshSeqsDistinct, SeqRemembered, TypeOK

\* The step that matters: an accepted seal carries a number above every fresh
\* accepted one, so it is none of them.
LEMMA AcceptStep ==
    ASSUME IInv, NEW i \in SealIds, Accept(i)
    PROVE  SealSafety'
<1> USE Bounds
<1>1. /\ age[i] \in Int /\ age[i] >= -Skew /\ age[i] <= Window
      /\ seal[i].seq = lastSeq + 1 /\ lastSeq \in Nat
  BY DEF Accept, Valid, Fresh, NextInLine, IInv, TypeOK
<1>2. uses[i] = 0
  BY <1>1 DEF IInv, SealSafety, SeqRemembered, TypeOK
<1>3. uses' = [uses EXCEPT ![i] = 1] /\ seal' = seal /\ age' = age
  BY <1>2 DEF Accept
<1>4. lastSeq' = lastSeq + 1 /\ seqLeft' = SeqTtl
  BY DEF Accept, Consume
<1>5. \A x \in SealIds : place[x] # "none" => place'[x] # "none"
  BY DEF Accept, Reply, IInv, TypeOK
<1>6. \A x \in SealIds : (uses[x] > 0 /\ age[x] <= Window) =>
         /\ x # i /\ seal[x].seq # seal[i].seq /\ seal[x].seq <= lastSeq
         /\ SeqTtl + age[x] + Skew >= SeqTtl
  <2> SUFFICES ASSUME NEW x \in SealIds, uses[x] > 0, age[x] <= Window
               PROVE  /\ x # i /\ seal[x].seq # seal[i].seq /\ seal[x].seq <= lastSeq
                      /\ SeqTtl + age[x] + Skew >= SeqTtl
    OBVIOUS
  <2>1. seal[x].seq <= lastSeq /\ seqLeft + age[x] + Skew >= SeqTtl /\ place[x] # "none"
    BY DEF IInv, SealSafety, SeqRemembered
  <2>2. seal[x].seq \in Nat /\ age[x] \in Int /\ seqLeft \in 0..SeqTtl
    BY <2>1 DEF IInv, TypeOK, SealRecord
  <2> QED
    BY <1>1, <1>2, <2>1, <2>2
<1>7. SealAcceptedOnce'
  BY <1>3 DEF IInv, SealSafety, SealAcceptedOnce, TypeOK
<1>8. FreshSeqsDistinct'
  BY <1>3, <1>6 DEF IInv, SealSafety, FreshSeqsDistinct, TypeOK
<1>9. SeqRemembered'
  <2> SUFFICES ASSUME NEW x \in SealIds, uses'[x] > 0
               PROVE  /\ place'[x] # "none"
                      /\ age[x] <= Window => /\ lastSeq + 1 >= seal[x].seq
                                             /\ SeqTtl > 0 /\ SeqTtl + age[x] + Skew >= SeqTtl
    BY <1>3, <1>4 DEF SeqRemembered
  <2>1. CASE x = i
    BY <1>1, <1>5, <2>1, Bounds DEF Accept
  <2>2. CASE x # i
    <3>1. uses[x] > 0
      BY <1>3, <2>2 DEF IInv, TypeOK
    <3>2. place'[x] # "none"
      BY <1>5, <3>1 DEF IInv, SealSafety, SeqRemembered
    <3>3. ASSUME age[x] <= Window
          PROVE  lastSeq + 1 >= seal[x].seq /\ SeqTtl + age[x] + Skew >= SeqTtl
      <4>1. seal[x] \in SealRecord
        BY <3>1 DEF IInv, TypeOK, SealSafety, SeqRemembered
      <4> QED
        BY <1>1, <1>6, <3>1, <3>3, <4>1 DEF SealRecord
    <3> QED
      BY <3>2, <3>3
  <2> QED
    BY <2>1, <2>2
<1> QED
  BY <1>7, <1>8, <1>9 DEF SealSafety

\* Time: the counter has SeqTtl to live when a seal is accepted, at an age of
\* -Skew or more, so it outlives the Window + Skew until the seal is stale.
LEMMA TickStep == ASSUME IInv, Tick PROVE SealSafety'
<1> USE Bounds
<1>1. UNCHANGED <<seal, place, uses>>
  BY DEF Tick
<1>2. ASSUME NEW x \in SealIds, uses[x] > 0, age'[x] <= Window
      PROVE  age[x] <= Window /\ age'[x] = age[x] + 1
  BY <1>2 DEF Tick, IInv, TypeOK, SealSafety, SeqRemembered
<1>3. ASSUME NEW x \in SealIds, uses[x] > 0, age'[x] <= Window
      PROVE  /\ lastSeq' >= seal[x].seq
             /\ seqLeft' > 0 /\ seqLeft' + age'[x] + Skew >= SeqTtl
  <2>1. lastSeq >= seal[x].seq /\ seqLeft > 0 /\ seqLeft + age[x] + Skew >= SeqTtl
    BY <1>2, <1>3 DEF IInv, SealSafety, SeqRemembered
  <2>2. age[x] \in Int /\ seqLeft \in Nat /\ age[x] + 1 <= Window
    BY <1>2, <1>3 DEF IInv, TypeOK
  <2>3. seqLeft' = seqLeft - 1 /\ seqLeft' > 0
    BY <2>1, <2>2 DEF Tick, Down
  <2>4. lastSeq' = lastSeq
    BY <2>3 DEF Tick
  <2> QED
    BY <1>2, <1>3, <2>1, <2>2, <2>3, <2>4
<1>4. SeqRemembered'
  BY <1>1, <1>3 DEF IInv, SealSafety, SeqRemembered
<1>5. FreshSeqsDistinct'
  BY <1>1, <1>2 DEF IInv, SealSafety, FreshSeqsDistinct
<1>6. SealAcceptedOnce'
  BY <1>1 DEF IInv, SealSafety, SealAcceptedOnce
<1> QED
  BY <1>4, <1>5, <1>6 DEF SealSafety

LEMMA SafetyStep == IInv /\ [Next]_vars => IInv'
<1> SUFFICES ASSUME IInv, [Next]_vars PROVE IInv'
  OBVIOUS
<1> USE DEF IInv
<1>1. TypeOK'
  BY TypeStep
<1>2. ASSUME NEW p \in Pages, PageLoad(p) \/ ModeChange(p) PROVE SealSafety'
  BY <1>2, QuietStep DEF PageLoad, ModeChange, Handshake, wireVars, serverVars
<1>3. ASSUME NEW k \in decaps, Decap(k) PROVE SealSafety'
  BY <1>3, QuietStep DEF Decap, wireVars
<1>4. ASSUME NEW p \in Pages, NEW asset \in Assets, NEW i \in SealIds, Click(p, asset, i)
      PROVE  SealSafety'
  <2>1. idx[p] + 1 \in Nat
    BY DEF TypeOK
  <2> QED
    BY <1>4, <2>1, SendStep DEF Click, serverVars
<1>5. ASSUME NEW i \in SealIds, Arrive(i) \/ Resend(i) PROVE SealSafety'
  <2>1. \A x \in SealIds : place[x] # "none" => place'[x] # "none"
    BY <1>5 DEF Arrive, Resend, TypeOK
  <2> QED
    BY <1>5, <2>1, QuietStep DEF Arrive, Resend, wireVars, serverVars
<1>6. ASSUME NEW i \in SealIds, Wallet(i) \/ NoSession(i) \/ Replay(i) \/ Refuse(i)
      PROVE  SealSafety'
  <2>1. \A x \in SealIds : place[x] # "none" => place'[x] # "none"
    BY <1>6 DEF Wallet, NoSession, Replay, Refuse, Reply, TypeOK
  <2> QED
    BY <1>6, <2>1, QuietStep DEF Wallet, NoSession, Replay, Refuse, wireVars, serverVars
<1>7. ASSUME NEW i \in SealIds, Accept(i) PROVE SealSafety'
  BY <1>7, AcceptStep
<1>8. ASSUME NEW j \in jobs, Receive(j) \/ Abandon(j) PROVE SealSafety'
  BY <1>8, QuietStep DEF Receive, Abandon, wireVars, serverVars
<1>9. ASSUME NEW j \in jobs, NEW i \in SealIds, SolveAndRetry(j, i) PROVE SealSafety'
  <2>1. j.id \in SealIds /\ j.page \in Pages /\ seal[j.id] \in SealRecord
    BY DEF TypeOK, Job
  <2>2. seal[j.id].seq + 1 \in Nat /\ seal[j.id].asset \in Assets
    BY <2>1 DEF SealRecord
  <2> QED
    BY <1>9, <2>1, <2>2, SendStep DEF SolveAndRetry, serverVars
<1>10. ASSUME Arm PROVE SealSafety'
  BY <1>10, QuietStep DEF Arm, wireVars, serverVars
<1>11. ASSUME NEW ip \in Ips, PowLapses(ip) PROVE SealSafety'
  BY <1>11, QuietStep DEF PowLapses, wireVars, serverVars
<1>12. ASSUME Tick PROVE SealSafety'
  BY <1>12, TickStep
<1>13. ASSUME UNCHANGED vars PROVE SealSafety'
  BY <1>13, QuietStep DEF vars, wireVars, serverVars
<1> QED
  BY <1>1, <1>2, <1>3, <1>4, <1>5, <1>6, <1>7, <1>8, <1>9, <1>10, <1>11, <1>12, <1>13
  DEF Next

LEMMA InitHolds == Init => IInv
<1> SUFFICES ASSUME Init PROVE IInv
  OBVIOUS
<1>1. TypeOK
  <2>1. /\ pageKey \in [Pages -> Nat] /\ idx \in [Pages -> Nat] /\ loads \in Nat
        /\ decaps \in SUBSET Nat /\ jobs = {} /\ lastSeq \in Nat /\ counter \in Nat
        /\ keyLeft \in 0..KeyTtl /\ seqLeft \in 0..SeqTtl
        /\ key \in [hs : Nat, ratchets : Nat]
    BY Bounds DEF Init
  <2>2. /\ seal \in [SealIds -> SealRecord \cup {NoSeal}]
        /\ age \in [SealIds -> Int] /\ uses \in [SealIds -> Nat]
        /\ place \in [SealIds -> {"none", "wire", "stalled", "done"}]
        /\ \A i \in SealIds : place[i] = "none"
    BY DEF Init
  <2>3. resent \in BOOLEAN /\ armed \in BOOLEAN /\ verified \in SUBSET Ips /\ banned \in SUBSET Ips
    BY DEF Init
  <2> QED
    BY <2>1, <2>2, <2>3 DEF TypeOK
<1>2. SealSafety
  BY DEF Init, SealSafety, SealAcceptedOnce, FreshSeqsDistinct, SeqRemembered
<1> QED
  BY <1>1, <1>2 DEF IInv

THEOREM Invariant == Spec => []IInv
BY InitHolds, SafetyStep, PTL DEF Spec

\* The variables of pages, wire and server keep their types (every line the
\* model maps).
THEOREM TypeCorrect == Spec => []TypeOK
<1>1. IInv => TypeOK
  BY DEF IInv
<1> QED
  BY <1>1, Invariant, PTL

\* The replay check, the sequence check and the freshness check of
\* server.ts:723-770 together admit a seal once, however it is delivered.
THEOREM SealsAcceptedOnce == Spec => []SealAcceptedOnce
<1>1. IInv => SealAcceptedOnce
  BY DEF IInv, SealSafety
<1> QED
  BY <1>1, Invariant, PTL

\* And two seals that are still fresh never passed under one number.
THEOREM FreshNumbersDistinct == Spec => []FreshSeqsDistinct
<1>1. IInv => FreshSeqsDistinct
  BY DEF IInv, SealSafety
<1> QED
  BY <1>1, Invariant, PTL
===============================================================================
