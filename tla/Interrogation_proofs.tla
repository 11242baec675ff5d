-------------------------- MODULE Interrogation_proofs --------------------------
(***************************************************************************)
(* A challenge is a one-time ticket, and a caller that solves one at a     *)
(* time is never banned, for any addresses, challenges, limits and ttl.    *)
(***************************************************************************)
EXTENDS Interrogation, TLAPS

\* Who holds a challenge: each drawn one that is not solved is pending for one
\* address, awaits argon2id in one handler, or is held by nobody any more.
Held ==
    /\ drawn \in 0..MaxDrawn /\ solved \in [Targets -> Nat]
    /\ pending \in [Ips -> (1..drawn) \cup {None}]
    /\ \A j \in jobs : j.ip \in Ips /\ j.target \in 1..drawn
    /\ \A t \in Targets : solved[t] > 0 => t <= drawn /\ t \notin InHand
    /\ \A a, b \in Ips : pending[a] = pending[b] /\ pending[a] # None => a = b
    /\ \A a \in Ips, j \in jobs : pending[a] # j.target
    /\ \A j, k \in jobs : j.target = k.target => j = k

\* What an address that is not suspect has on the way: at most one solve, of
\* what is pending for it if anything is, and answers to what was asked.
Honest ==
    /\ banned \subseteq suspect
    /\ \A s \in solving : s.ip \in Ips
    /\ \A s, r \in solving : s.ip = r.ip /\ s.ip \notin suspect => s = r
    /\ \A s \in solving : s.ip \notin suspect => pending[s.ip] \in {s.target, None}
    /\ \A j \in jobs : j.ip \notin suspect => j.answer = j.target

LEMMA Bounds == MaxDrawn \in Nat /\ None \notin Nat
  BY InterrogationAssumption

LEMMA HeldInit == Init => Held
  BY Bounds DEF Init, Held, Targets, InHand

LEMMA HonestInit == Init => Honest
  BY DEF Init, Honest
-------------------------------------------------------------------------------
LEMMA ChallengeHeld == ASSUME Held, NEW ip \in Ips, Challenge(ip) PROVE Held'
  <1>1. /\ drawn' = drawn + 1 /\ drawn' \in Targets /\ drawn \in Nat
        /\ pending' = [pending EXCEPT ![ip] = drawn']
        /\ jobs' = jobs /\ solved' = solved
    BY Bounds DEF Challenge, Held, Targets
  <1>2. drawn' \in 0..MaxDrawn /\ 1..drawn \subseteq 1..drawn' /\ drawn' \notin 1..drawn
    BY <1>1, Bounds DEF Targets
  <1>3. \A a \in Ips : pending'[a] = IF a = ip THEN drawn' ELSE pending[a]
    BY <1>1 DEF Held
  <1>4. pending' \in [Ips -> (1..drawn') \cup {None}]
    BY <1>1, <1>2 DEF Held, Targets
  <1>5. \A j \in jobs' : j.ip \in Ips /\ j.target \in 1..drawn'
    BY <1>1, <1>2 DEF Held
  <1>6. \A t \in Targets : solved'[t] > 0 => t <= drawn' /\ t \notin InHand'
    <2> SUFFICES ASSUME NEW t \in Targets, solved[t] > 0
                 PROVE  t <= drawn' /\ t \notin InHand'
      BY <1>1
    <2>1. t <= drawn /\ t \notin InHand
      BY DEF Held
    <2>2. t # drawn' /\ t <= drawn'
      BY <1>1, <2>1 DEF Targets
    <2> QED BY <1>1, <1>3, <2>1, <2>2 DEF InHand
  <1>7. \A a, b \in Ips : pending'[a] = pending'[b] /\ pending'[a] # None => a = b
    <2>1. \A a \in Ips : pending[a] # drawn'
      BY <1>1, <1>2, Bounds DEF Held, Targets
    <2> QED BY <1>3, <2>1 DEF Held
  <1>8. \A a \in Ips, j \in jobs' : pending'[a] # j.target
    BY <1>1, <1>2, <1>3 DEF Held
  <1>9. \A j, k \in jobs' : j.target = k.target => j = k
    BY <1>1 DEF Held
  <1> QED
    BY <1>1, <1>2, <1>4, <1>5, <1>6, <1>7, <1>8, <1>9 DEF Held

\* The handler up to its await moves a challenge from the address to the job.
Taken(ip) ==
    \/ pending' = pending /\ jobs' = jobs
    \/ /\ pending[ip] # None /\ pending' = [pending EXCEPT ![ip] = None]
       /\ \E j : /\ j.ip = ip /\ j.target = pending[ip] /\ jobs' = jobs \cup {j}

LEMMA VerifyTakes ==
    ASSUME NEW ip \in Ips, NEW answer, NEW m, NEW fp, NEW pace,
           VerifyPow(ip, answer, m, fp, pace)
    PROVE  Taken(ip) /\ drawn' = drawn /\ solved' = solved
  <1> DEFINE detected == "gpu" \in fp \/ Automated(fp) \/ pace \in {"impossible", "overclaimed"}
             accepts  == pending[ip] # None /\ ~detected /\ answer # None
             job      == [ip |-> ip, target |-> pending[ip], answer |-> answer,
                          cost |-> m, pace |-> pace]
  <1>1. CASE accepts
    <2>1. pending' = [pending EXCEPT ![ip] = None] /\ jobs' = jobs \cup {job}
      BY <1>1 DEF VerifyPow, PendingAfter
    <2>2. job.ip = ip /\ job.target = pending[ip]
      OBVIOUS
    <2> QED BY <1>1, <2>1, <2>2 DEF Taken, VerifyPow
  <1>2. CASE ~accepts
    BY <1>2 DEF VerifyPow, Taken
  <1> QED BY <1>1, <1>2

LEMMA TakenHeld ==
    ASSUME Held, NEW ip \in Ips, Taken(ip), drawn' = drawn, solved' = solved
    PROVE  Held' /\ ChallengeTicket' = ChallengeTicket
  <1>1. CASE pending' = pending /\ jobs' = jobs
    BY <1>1 DEF Held, InHand, ChallengeTicket
  <1>2. CASE ~(pending' = pending /\ jobs' = jobs)
    <2>1. PICK j : /\ pending[ip] # None /\ pending' = [pending EXCEPT ![ip] = None]
                   /\ j.ip = ip /\ j.target = pending[ip] /\ jobs' = jobs \cup {j}
      BY <1>2 DEF Taken
    <2>2. \A a \in Ips : pending'[a] = IF a = ip THEN None ELSE pending[a]
      BY <2>1 DEF Held
    <2>3. \A t \in Targets : t \in InHand' <=> t \in InHand
      <3>1. None \notin Targets
        BY Bounds DEF Targets
      <3> QED BY <2>1, <2>2, <3>1 DEF InHand
    <2>4. pending' \in [Ips -> (1..drawn) \cup {None}]
      BY <2>1 DEF Held
    <2>5. \A k \in jobs' : k.ip \in Ips /\ k.target \in 1..drawn
      BY <2>1 DEF Held
    <2>6. \A a, b \in Ips : pending'[a] = pending'[b] /\ pending'[a] # None => a = b
      BY <2>2 DEF Held
    <2>7. \A a \in Ips, k \in jobs' : pending'[a] # k.target
      BY <2>1, <2>2, <2>5, Bounds DEF Held
    <2>8. \A k, l \in jobs' : k.target = l.target => k = l
      BY <2>1 DEF Held
    <2>9. \A t \in Targets : solved'[t] > 0 => t <= drawn' /\ t \notin InHand'
      BY <2>3 DEF Held
    <2>10. ChallengeTicket' = ChallengeTicket
      BY <2>3 DEF ChallengeTicket
    <2> QED BY <2>4, <2>5, <2>6, <2>7, <2>8, <2>9, <2>10 DEF Held
  <1> QED BY <1>1, <1>2
\* A challenge in hand was drawn, is not solved and is an open ticket.
LEMMA InHandDrawn ==
    Held => \A t \in Targets \cap InHand : ~(t > drawn) /\ ~(solved[t] > 0) /\ solved[t] = 0
  <1> SUFFICES ASSUME Held, NEW t \in Targets, t \in InHand
               PROVE  ~(t > drawn) /\ ~(solved[t] > 0) /\ solved[t] = 0
    OBVIOUS
  <1>1. t \in 1..drawn
    BY Bounds DEF Held, InHand, Targets
  <1>2. ~(solved[t] > 0) /\ solved[t] \in Nat
    BY DEF Held
  <1> QED BY <1>1, <1>2, Bounds DEF Held

LEMMA InHandOpen == Held => \A t \in Targets \cap InHand : t \in Tickets!Open
  BY InHandDrawn DEF Tickets!Open, ChallengeTicket

LEMMA FinishStep ==
    ASSUME Held, NEW j \in jobs, Finish(j)
    PROVE  /\ Held'
           /\ \/ Tickets!Redeem(j.target)
              \/ \E gone \in SUBSET Tickets!Open : Tickets!Drop(gone)
  <1> DEFINE proved == ~Argon2Throws(j.cost) /\ j.answer = Judged(j)
  <1>1. /\ jobs' = jobs \ {j} /\ pending' = pending /\ drawn' = drawn
        /\ solved' = IF proved THEN [solved EXCEPT ![j.target] = @ + 1] ELSE solved
    BY DEF Finish
  <1>2. j.target \in Targets /\ j.target \in InHand /\ j.target <= drawn
    BY Bounds DEF Held, InHand, Targets
  <1>3. solved[j.target] = 0
    BY <1>2, InHandDrawn
  <1>4. \A t \in Targets : t \in InHand' <=> t \in InHand /\ t # j.target
    BY <1>1 DEF Held, InHand
  <1>5. solved' \in [Targets -> Nat] /\ \A t \in Targets : t # j.target => solved'[t] = solved[t]
    BY <1>1, <1>2 DEF Held
  <1>6. Held'
    <2>1. \A t \in Targets : solved'[t] > 0 => t <= drawn' /\ t \notin InHand'
      BY <1>1, <1>2, <1>4, <1>5 DEF Held
    <2> QED BY <1>1, <1>5, <2>1 DEF Held
  <1>7. ChallengeTicket[j.target] = "open"
    BY <1>2, InHandOpen DEF Tickets!Open
  <1>8. CASE proved
    <2>1. solved' = [solved EXCEPT ![j.target] = @ + 1] /\ solved'[j.target] > 0
      BY <1>1, <1>2, <1>3, <1>8 DEF Held
    <2>2. \A t \in Targets :
            ChallengeTicket'[t] = IF t = j.target THEN "redeemed" ELSE ChallengeTicket[t]
      BY <1>1, <1>4, <1>5, <2>1 DEF ChallengeTicket
    <2>3. ChallengeTicket' = [ChallengeTicket EXCEPT ![j.target] = "redeemed"]
      BY <2>2 DEF ChallengeTicket
    <2> QED BY <1>6, <1>7, <2>1, <2>3 DEF Tickets!Redeem
  <1>9. CASE ~proved
    <2>1. solved' = solved
      BY <1>1, <1>9
    <2>2. ChallengeTicket' = [t \in Targets |-> IF t \in {j.target} THEN "dropped"
                                                ELSE ChallengeTicket[t]]
      BY <1>1, <1>2, <1>4, <2>1, InHandDrawn DEF ChallengeTicket
    <2>3. Tickets!Drop({j.target})
      BY <2>1, <2>2 DEF Tickets!Drop
    <2>4. {j.target} \in SUBSET Tickets!Open
      BY <1>2, <1>7 DEF Tickets!Open
    <2> QED BY <1>6, <2>3, <2>4
  <1> QED BY <1>8, <1>9

\* Challenges are only lost: pending ones replaced by None, handlers gone.
LEMMA LossStep ==
    ASSUME Held, drawn' = drawn, solved' = solved, jobs' \subseteq jobs,
           NEW kept \in SUBSET Ips,
           pending' = [ip \in Ips |-> IF ip \in kept THEN pending[ip] ELSE None]
    PROVE  Held' /\ \E gone \in SUBSET Tickets!Open : Tickets!Drop(gone)
  <1> DEFINE gone == (Targets \cap InHand) \ InHand'
  <1>1. \A ip \in Ips : pending'[ip] \in {pending[ip], None}
    OBVIOUS
  <1>2. pending' \in [Ips -> (1..drawn) \cup {None}]
    BY DEF Held
  <1>3. \A t \in Targets : t \in InHand' => t \in InHand
    BY <1>1, Bounds DEF InHand, Targets
  <1>4. \A t \in Targets : solved'[t] > 0 => t <= drawn' /\ t \notin InHand'
    BY <1>3 DEF Held
  <1>5. \A a, b \in Ips : pending'[a] = pending'[b] /\ pending'[a] # None => a = b
    BY <1>1 DEF Held
  <1>6. \A a \in Ips, j \in jobs' : pending'[a] # j.target
    BY <1>1, Bounds DEF Held
  <1>7. Held'
    BY <1>2, <1>4, <1>5, <1>6 DEF Held
  <1>8. ChallengeTicket' = [t \in Targets |-> IF t \in gone THEN "dropped" ELSE ChallengeTicket[t]]
    <2>1. \A t \in Targets : t \in gone => ~(t > drawn) /\ ~(solved[t] > 0)
      BY InHandDrawn
    <2> QED BY <1>3, <2>1 DEF ChallengeTicket
  <1>9. gone \in SUBSET Tickets!Open
    BY InHandOpen
  <1>10. Tickets!Drop(gone)
    BY <1>8 DEF Tickets!Drop
  <1> QED BY <1>7, <1>9, <1>10

LEMMA IssueStep ==
    ASSUME Held, NEW ip \in Ips, Challenge(ip)
    PROVE  \E t \in Targets, replaced \in SUBSET Tickets!Open : Tickets!Issue(t, replaced)
  <1> DEFINE replaced == (Targets \cap InHand) \ InHand'
  <1>1. /\ drawn' = drawn + 1 /\ drawn' \in Targets /\ drawn \in Nat
        /\ pending' = [pending EXCEPT ![ip] = drawn']
        /\ jobs' = jobs /\ solved' = solved
    BY Bounds DEF Challenge, Held, Targets
  <1>2. \A a \in Ips : pending'[a] = IF a = ip THEN drawn' ELSE pending[a]
    BY <1>1 DEF Held
  <1>3. \A t \in Targets : t \in InHand' => t \in InHand \/ t = drawn'
    BY <1>1, <1>2 DEF InHand
  <1>4. drawn' \in InHand' /\ drawn' \notin InHand
    BY <1>1, <1>2, Bounds DEF InHand, Held, Targets
  <1>5. solved[drawn'] = 0 /\ ChallengeTicket[drawn'] = "fresh"
    BY <1>1 DEF Held, ChallengeTicket, Targets
  <1>6. ChallengeTicket' = [t \in Targets |-> IF t = drawn' THEN "open"
                              ELSE IF t \in replaced THEN "dropped" ELSE ChallengeTicket[t]]
    <2>1. \A t \in Targets : t \in replaced => ~(t > drawn) /\ ~(solved[t] > 0)
      BY InHandDrawn
    <2>2. \A t \in Targets : t # drawn' => (t > drawn' <=> t > drawn)
      BY <1>1 DEF Targets
    <2>3. ~(drawn' > drawn') /\ ~(solved'[drawn'] > 0)
      BY <1>1, <1>5 DEF Targets
    <2>4. \A t \in Targets : ChallengeTicket'[t] =
             IF t = drawn' THEN "open" ELSE IF t \in replaced THEN "dropped" ELSE ChallengeTicket[t]
      BY <1>1, <1>3, <1>4, <2>1, <2>2, <2>3 DEF ChallengeTicket
    <2> QED BY <2>4 DEF ChallengeTicket
  <1>7. replaced \in SUBSET Tickets!Open
    BY InHandOpen
  <1>8. Tickets!Issue(drawn', replaced)
    BY <1>1, <1>5, <1>6 DEF Tickets!Issue
  <1> QED BY <1>1, <1>7, <1>8
-------------------------------------------------------------------------------
\* What a step does to the tickets
TicketStep ==
    \/ \E t \in Targets, replaced \in SUBSET Tickets!Open : Tickets!Issue(t, replaced)
    \/ \E t \in Targets : Tickets!Redeem(t)
    \/ \E gone \in SUBSET Tickets!Open : Tickets!Drop(gone)
    \/ ChallengeTicket' = ChallengeTicket /\ solved' = solved

LEMMA PostsHeld ==
    ASSUME Held, Honest,
           \/ \E s \in solving, fp \in CleanPrints, pace \in Paces : PagePosts(s, fp, pace)
           \/ \E ip \in Ips : \E answer, m, fp, pace : OtherPosts(ip, answer, m, fp, pace)
    PROVE  Held' /\ TicketStep
  <1>1. ASSUME NEW s \in solving, NEW fp, NEW pace, PagePosts(s, fp, pace)
        PROVE  Held' /\ TicketStep
    <2>1. s.ip \in Ips /\ VerifyPow(s.ip, s.target, s.cost, fp, pace)
      BY <1>1 DEF PagePosts, Honest
    <2>2. Taken(s.ip) /\ drawn' = drawn /\ solved' = solved
      BY <2>1, VerifyTakes
    <2> QED BY <2>1, <2>2, TakenHeld DEF TicketStep
  <1>2. ASSUME NEW ip \in Ips, NEW answer, NEW m, NEW fp, NEW pace,
             OtherPosts(ip, answer, m, fp, pace)
        PROVE  Held' /\ TicketStep
    <2>1. Taken(ip) /\ drawn' = drawn /\ solved' = solved
      BY <1>2, VerifyTakes DEF OtherPosts
    <2> QED BY <2>1, TakenHeld DEF TicketStep
  <1> QED BY <1>1, <1>2

LEMMA RestartHeld == ASSUME Held, Restart PROVE Held' /\ TicketStep
  <1> DEFINE kept == {}
  <1>1. /\ kept \in SUBSET Ips /\ jobs' \subseteq jobs
        /\ pending' = [ip \in Ips |-> IF ip \in kept THEN pending[ip] ELSE None]
        /\ drawn' = drawn /\ solved' = solved
    BY DEF Restart
  <1> HIDE DEF kept
  <1> QED BY <1>1, LossStep DEF TicketStep

LEMMA TickHeld == ASSUME Held, Tick PROVE Held' /\ TicketStep
  <1> DEFINE kept == {ip \in Ips : pendLeft[ip] > 1}
  <1>1. /\ kept \in SUBSET Ips /\ jobs' \subseteq jobs
        /\ pending' = [ip \in Ips |-> IF ip \in kept THEN pending[ip] ELSE None]
        /\ drawn' = drawn /\ solved' = solved
    BY DEF Tick
  <1> HIDE DEF kept
  <1> QED BY <1>1, LossStep DEF TicketStep

LEMMA HeldNext == Held /\ Honest /\ [Next]_vars => Held' /\ TicketStep
  <1> SUFFICES ASSUME Held, Honest, [Next]_vars PROVE Held' /\ TicketStep
    OBVIOUS
  <1>1. ASSUME NEW ip \in Ips, Challenge(ip) PROVE Held' /\ TicketStep
    BY <1>1, ChallengeHeld, IssueStep DEF TicketStep
  <1>2. ASSUME NEW s \in solving, GiveUp(s) PROVE Held' /\ TicketStep
    BY <1>2 DEF GiveUp, caches, costs, Held, TicketStep, ChallengeTicket, InHand
  <1>3. CASE \/ \E s \in solving, fp \in CleanPrints, pace \in Paces : PagePosts(s, fp, pace)
             \/ \E ip \in Ips : \E answer, m, fp, pace : OtherPosts(ip, answer, m, fp, pace)
    BY <1>3, PostsHeld
  <1>4. ASSUME NEW j \in jobs, Finish(j) PROVE Held' /\ TicketStep
    <2>1. j.target \in Targets
      BY Bounds DEF Held, Targets
    <2> QED BY <1>4, <2>1, FinishStep DEF TicketStep
  <1>5. CASE Restart
    BY <1>5, RestartHeld
  <1>6. CASE Tick
    BY <1>6, TickHeld
  <1>7. CASE UNCHANGED vars
    BY <1>7 DEF vars, caches, costs, Held, TicketStep, ChallengeTicket, InHand
  <1> QED BY <1>1, <1>2, <1>3, <1>4, <1>5, <1>6, <1>7 DEF Next
-------------------------------------------------------------------------------
LEMMA ChallengeHonest == ASSUME Held, Honest, NEW ip \in Ips, Challenge(ip) PROVE Honest'
  <1> DEFINE mine == [ip |-> ip, target |-> drawn', cost |-> First(cost[ip], Live)]
  <1>1. /\ pending' = [pending EXCEPT ![ip] = drawn'] /\ solving' = solving \cup {mine}
        /\ suspect' = IF \E s \in solving : s.ip = ip THEN suspect \cup {ip} ELSE suspect
        /\ banned' = banned /\ jobs' = jobs
    BY DEF Challenge
  <1>2. mine.ip = ip /\ mine.target = drawn'
    OBVIOUS
  <1> HIDE DEF mine
  <1>3. \A a \in Ips : pending'[a] = IF a = ip THEN drawn' ELSE pending[a]
    BY <1>1 DEF Held
  <1>4. suspect \subseteq suspect' /\ \A s \in solving : s.ip \notin suspect' => s.ip # ip
    BY <1>1
  <1>5. \A s, r \in solving' : s.ip = r.ip /\ s.ip \notin suspect' => s = r
    BY <1>1, <1>2, <1>4 DEF Honest
  <1>6. \A s \in solving' : s.ip \notin suspect' => pending'[s.ip] \in {s.target, None}
    BY <1>1, <1>2, <1>3, <1>4 DEF Honest
  <1> QED BY <1>1, <1>2, <1>4, <1>5, <1>6 DEF Honest

\* What a page that follows the protocol posts is never found automated.
LEMMA CleanNotDetected ==
    ASSUME NEW fp \in CleanPrints, NEW pace \in Paces
    PROVE  ~("gpu" \in fp) /\ ~Automated(fp) /\ pace \notin {"impossible", "overclaimed"}
  BY DEF CleanPrints, Paces, Automated, Traces

LEMMA PageHonest ==
    ASSUME Held, Honest, NEW s \in solving, NEW fp \in CleanPrints, NEW pace \in Paces,
           PagePosts(s, fp, pace)
    PROVE  Honest'
  <1> DEFINE job == [ip |-> s.ip, target |-> pending[s.ip], answer |-> s.target,
                     cost |-> s.cost, pace |-> pace]
  <1>1. /\ banned' = banned /\ suspect' = suspect /\ solving' = solving \ {s}
        /\ \/ jobs' = jobs /\ pending' = pending
           \/ /\ pending[s.ip] # None /\ jobs' = jobs \cup {job}
              /\ pending' = [pending EXCEPT ![s.ip] = None]
    <2>1. VerifyPow(s.ip, s.target, s.cost, fp, pace)
      BY DEF PagePosts
    <2>2. CASE pending[s.ip] # None /\ s.target # None
      BY <2>1, <2>2, CleanNotDetected DEF VerifyPow, PendingAfter, PagePosts
    <2>3. CASE ~(pending[s.ip] # None /\ s.target # None)
      BY <2>1, <2>3, CleanNotDetected DEF VerifyPow, PendingAfter, PagePosts
    <2> QED BY <2>2, <2>3
  <1>2. job.ip = s.ip /\ job.answer = s.target /\ job.target = pending[s.ip]
    OBVIOUS
  <1> HIDE DEF job
  <1>3. s.ip \in Ips
    BY DEF Honest
  <1>4. \A a \in Ips : pending'[a] \in {pending[a], None}
    BY <1>1, <1>3 DEF Held
  <1>5. \A j \in jobs' : j.ip \notin suspect => j.answer = j.target
    BY <1>1, <1>2 DEF Honest
  <1>6. \A r \in solving' : r.ip \notin suspect => pending'[r.ip] \in {r.target, None}
    BY <1>1, <1>4 DEF Honest
  <1> QED BY <1>1, <1>5, <1>6 DEF Honest

LEMMA OtherHonest ==
    ASSUME Held, Honest, NEW ip \in Ips, NEW answer, NEW m, NEW fp, NEW pace,
           OtherPosts(ip, answer, m, fp, pace)
    PROVE  Honest'
  <1>1. Taken(ip) /\ suspect' = suspect \cup {ip} /\ solving' = solving
    BY VerifyTakes DEF OtherPosts
  <1>2. banned' \subseteq banned \cup {ip}
    BY DEF OtherPosts, VerifyPow
  <1>3. \A a \in Ips : a # ip => pending'[a] = pending[a]
    BY <1>1 DEF Taken, Held
  <1>4. \A j \in jobs' : j \in jobs \/ j.ip = ip
    BY <1>1 DEF Taken
  <1> QED BY <1>1, <1>2, <1>3, <1>4 DEF Honest

LEMMA FinishHonest == ASSUME Held, Honest, NEW j \in jobs, Finish(j) PROVE Honest'
  <1>1. /\ suspect' = suspect /\ solving' = solving /\ pending' = pending /\ jobs' = jobs \ {j}
        /\ banned' = banned \/ (banned' = banned \cup {j.ip} /\ j.answer # j.target)
    BY DEF Finish, Judged
  <1> QED BY <1>1 DEF Honest

LEMMA HonestNext == Held /\ Honest /\ [Next]_vars => Honest'
  <1> SUFFICES ASSUME Held, Honest, [Next]_vars PROVE Honest'
    OBVIOUS
  <1>1. ASSUME NEW ip \in Ips, Challenge(ip) PROVE Honest'
    BY <1>1, ChallengeHonest
  <1>2. ASSUME NEW s \in solving, GiveUp(s) PROVE Honest'
    BY <1>2 DEF GiveUp, caches, Honest
  <1>3. ASSUME NEW s \in solving, NEW fp \in CleanPrints, NEW pace \in Paces,
               PagePosts(s, fp, pace)
        PROVE  Honest'
    BY <1>3, PageHonest
  <1>4. ASSUME NEW ip \in Ips, NEW answer, NEW m, NEW fp, NEW pace,
             OtherPosts(ip, answer, m, fp, pace)
        PROVE  Honest'
    BY <1>4, OtherHonest
  <1>5. ASSUME NEW j \in jobs, Finish(j) PROVE Honest'
    BY <1>5, FinishHonest
  <1>6. CASE Restart \/ Tick
    <2>1. /\ \A a \in Ips : pending'[a] \in {pending[a], None}
          /\ jobs' \subseteq jobs /\ solving' = solving /\ suspect' = suspect /\ banned' = banned
      BY <1>6 DEF Restart, Tick
    <2> QED BY <2>1 DEF Honest
  <1>7. CASE UNCHANGED vars
    BY <1>7 DEF vars, caches, Honest
  <1> QED BY <1>1, <1>2, <1>3, <1>4, <1>5, <1>6, <1>7 DEF Next

LEMMA Invariants == Spec => [](Held /\ Honest)
  BY HeldInit, HonestInit, HeldNext, HonestNext, PTL DEF Spec
-------------------------------------------------------------------------------
\* The governor within its limit, what is left within the ttl, and every memory
\* cost that was learned within the clamps.
Costs == {m \in [n : Nat, d : Nat \ {0}] : LessEq(m, MostCost) /\ AtLeast(m, LeastCost)}
Bounded ==
    /\ suspect \subseteq Ips
    /\ governor \in [count : 0..PowLimit, age : 0..2]
    /\ pendLeft \in [Ips -> 0..PowTtl] /\ verified \in [Ips -> 0..PowTtl]
    /\ cost \in [Ips -> Costs \cup {None}] /\ saved \in [Ips -> Costs \cup {None}]

LEMMA Limits == PowLimit \in Nat \ {0} /\ PowTtl \in Nat \ {0}
  BY InterrogationAssumption

LEMMA BoundedInit == Init => Bounded
  BY Limits DEF Init, Bounded

LEMMA FractionIs == \A n, d : Fraction(n, d).n = n /\ Fraction(n, d).d = d
  BY DEF Fraction

LEMMA FractionType == \A n \in Nat, d \in Nat \ {0} : Fraction(n, d) \in [n : Nat, d : Nat \ {0}]
  BY DEF Fraction

\* No sequence of doublings and divisions leaves the clamps.
LEMMA AdaptBounded ==
    ASSUME NEW m \in Costs, NEW pace PROVE Adapt(m, pace) \in Costs
  <1>1. /\ m.n \in Nat /\ m.d \in Nat \ {0}
        /\ m.n <= 131072 * m.d /\ 8192 * m.d <= m.n
    BY DEF Costs, LessEq, AtLeast, MostCost, LeastCost
  <1>2. Fraction(MostCost, 1) \in Costs /\ Fraction(LeastCost, 1) \in Costs
    BY FractionIs, FractionType DEF Costs, LessEq, AtLeast, MostCost, LeastCost
  <1>3. CASE pace = "quick"
    <2> DEFINE twice == Fraction(2 * m.n, m.d)
    <2>1. twice \in [n : Nat, d : Nat \ {0}] /\ twice.n = 2 * m.n /\ twice.d = m.d
      BY <1>1, FractionIs, FractionType
    <2>2. LessEq(twice, MostCost) => twice \in Costs
      BY <1>1, <2>1 DEF Costs, AtLeast, LeastCost
    <2> HIDE DEF twice
    <2>3. Adapt(m, pace) = MinOf(twice, MostCost)
      BY <1>3 DEF Adapt, twice
    <2> QED BY <1>2, <2>2, <2>3 DEF MinOf
  <1>4. CASE pace = "slow"
    <2> DEFINE third == Fraction(2 * m.n, 3 * m.d)
    <2>1. third \in [n : Nat, d : Nat \ {0}] /\ third.n = 2 * m.n /\ third.d = 3 * m.d
      <3>1. 2 * m.n \in Nat /\ 3 * m.d \in Nat \ {0}
        BY <1>1
      <3> QED BY <3>1, FractionIs, FractionType
    <2>2. ~LessEq(third, LeastCost) => third \in Costs
      BY <1>1, <2>1 DEF Costs, LessEq, AtLeast, LeastCost, MostCost
    <2> HIDE DEF third
    <2>3. Adapt(m, pace) = MaxOf(third, LeastCost)
      BY <1>4 DEF Adapt, third
    <2> QED BY <1>2, <2>2, <2>3 DEF MaxOf
  <1>5. CASE pace # "quick" /\ pace # "slow"
    BY <1>5 DEF Adapt
  <1> QED BY <1>3, <1>4, <1>5

LEMMA LiveCost == Live \in Costs
  BY FractionIs, FractionType DEF Live, Costs, LessEq, AtLeast, MostCost, LeastCost

LEMMA ChallengeBounded == ASSUME Bounded, NEW ip \in Ips, Challenge(ip) PROVE Bounded'
  <1> DEFINE opened == IF governor.age > 1 THEN [count |-> 0, age |-> 0] ELSE governor
  <1>1. /\ opened \in [count : 0..PowLimit, age : 0..2]
        /\ WithinLimit(opened) /\ governor' = [opened EXCEPT !.count = @ + 1]
    BY Limits DEF Bounded, Challenge
  <1> HIDE DEF opened
  <1>2. governor' \in [count : 0..PowLimit, age : 0..2]
    <2>1. governor' = [count |-> opened.count + 1, age |-> opened.age]
      BY <1>1
    <2>2. opened.count + 1 \in 0..PowLimit
      BY <1>1, Limits DEF WithinLimit
    <2> QED BY <1>1, <2>1, <2>2
  <1>3. pendLeft' \in [Ips -> 0..PowTtl] /\ suspect' \subseteq Ips
    BY Limits DEF Bounded, Challenge
  <1>4. verified' = verified /\ cost' = cost /\ saved' = saved
    BY DEF Challenge, costs
  <1> QED BY <1>2, <1>3, <1>4 DEF Bounded

LEMMA VerifyBounded ==
    ASSUME Bounded, NEW ip \in Ips, NEW answer, NEW m, NEW fp, NEW pace,
           VerifyPow(ip, answer, m, fp, pace), suspect' \subseteq Ips
    PROVE  Bounded'
  <1>1. /\ governor' = governor /\ verified' = verified /\ cost' = cost /\ saved' = saved
        /\ pendLeft' = pendLeft \/ pendLeft' = [pendLeft EXCEPT ![ip] = 0]
    BY DEF VerifyPow, costs
  <1>2. pendLeft' \in [Ips -> 0..PowTtl]
    BY <1>1, Limits DEF Bounded
  <1> QED BY <1>1, <1>2 DEF Bounded

LEMMA FinishBounded == ASSUME Held, Bounded, NEW j \in jobs, Finish(j) PROVE Bounded'
  <1> DEFINE before == First(cost[j.ip], First(saved[j.ip], Live))
             after  == Adapt(before, j.pace)
  <1>1. j.ip \in Ips
    BY DEF Held
  <1>2. after \in Costs
    <2>1. before \in Costs
      BY <1>1, LiveCost DEF Bounded, First
    <2> HIDE DEF before
    <2> QED BY <2>1, AdaptBounded
  <1>3. /\ suspect' = suspect /\ governor' = governor /\ pendLeft' = pendLeft
        /\ verified' = verified \/ verified' = [verified EXCEPT ![j.ip] = PowTtl]
        /\ cost' = cost \/ cost' = [cost EXCEPT ![j.ip] = after]
        /\ saved' = saved \/ saved' = [saved EXCEPT ![j.ip] = after]
    BY DEF Finish
  <1> HIDE DEF after
  <1>4. verified' \in [Ips -> 0..PowTtl]
    BY <1>1, <1>3, Limits DEF Bounded
  <1>5. cost' \in [Ips -> Costs \cup {None}] /\ saved' \in [Ips -> Costs \cup {None}]
    BY <1>1, <1>2, <1>3 DEF Bounded
  <1> QED BY <1>3, <1>4, <1>5 DEF Bounded

LEMMA RestartBounded == Bounded /\ Restart => Bounded'
  BY Limits DEF Bounded, Restart

LEMMA TickBounded == ASSUME Bounded, Tick PROVE Bounded'
  <1>1. governor' \in [count : 0..PowLimit, age : 0..2]
    <2>1. governor' = [count |-> governor.count, age |-> IF governor.age = 2 THEN 2 ELSE governor.age + 1]
      BY DEF Bounded, Tick
    <2> QED BY <2>1 DEF Bounded
  <1>2. \A k \in 0..PowTtl : Less(k) \in 0..PowTtl
    BY Limits DEF Less
  <1>3. pendLeft' \in [Ips -> 0..PowTtl] /\ verified' \in [Ips -> 0..PowTtl]
    BY <1>2 DEF Bounded, Tick
  <1>4. suspect' = suspect /\ cost' = cost /\ saved' = saved
    BY DEF Tick, costs
  <1> QED BY <1>1, <1>3, <1>4 DEF Bounded

LEMMA BoundedNext == Held /\ Honest /\ Bounded /\ [Next]_vars => Bounded'
  <1> SUFFICES ASSUME Held, Honest, Bounded, [Next]_vars PROVE Bounded'
    OBVIOUS
  <1>1. ASSUME NEW ip \in Ips, Challenge(ip) PROVE Bounded'
    BY <1>1, ChallengeBounded
  <1>2. ASSUME NEW s \in solving, GiveUp(s) PROVE Bounded'
    BY <1>2 DEF GiveUp, Bounded, caches, costs
  <1>3. ASSUME NEW s \in solving, NEW fp \in CleanPrints, NEW pace \in Paces, PagePosts(s, fp, pace)
        PROVE  Bounded'
    <2>1. /\ s.ip \in Ips /\ suspect' \subseteq Ips
          /\ VerifyPow(s.ip, s.target, s.cost, fp, pace)
      BY <1>3 DEF PagePosts, Honest, Bounded
    <2> QED BY <2>1, VerifyBounded
  <1>4. ASSUME NEW ip \in Ips, NEW answer, NEW m, NEW fp, NEW pace,
             OtherPosts(ip, answer, m, fp, pace)
        PROVE  Bounded'
    <2>1. suspect' \subseteq Ips /\ VerifyPow(ip, answer, m, fp, pace)
      BY <1>4 DEF OtherPosts, Bounded
    <2> QED BY <2>1, VerifyBounded
  <1>5. ASSUME NEW j \in jobs, Finish(j) PROVE Bounded'
    BY <1>5, FinishBounded
  <1>6. CASE Restart \/ Tick
    BY <1>6, RestartBounded, TickBounded
  <1>7. CASE UNCHANGED vars
    BY <1>7 DEF vars, caches, costs, Bounded
  <1> QED BY <1>1, <1>2, <1>3, <1>4, <1>5, <1>6, <1>7 DEF Next

\* The governor never admits more than its limit per window, and the learned
\* cost stays between 8192 and 131072 KiB through any sequence of solves, for
\* any limit and ttl (globalPowGovernor, argonProfiles).
THEOREM CostsStayClamped == Spec => []TypeOK
  <1>1. Held /\ Honest /\ Bounded => TypeOK
    <2> SUFFICES ASSUME Held, Honest, Bounded PROVE TypeOK
      OBVIOUS
    <2>1. banned \subseteq Ips /\ suspect \subseteq Ips
      BY DEF Honest, Bounded
    <2>2. /\ drawn \in 0..MaxDrawn /\ \A t \in Targets : solved[t] \in Nat
          /\ pending \in [Ips -> Targets \cup {None}]
      <3>1. drawn \in 0..MaxDrawn /\ 1..drawn \subseteq Targets
        BY Bounds DEF Held, Targets
      <3> QED BY <3>1 DEF Held
    <2>3. \A ip \in Ips : \A m \in {cost[ip], saved[ip]} \ {None} :
              LessEq(m, MostCost) /\ AtLeast(m, LeastCost)
      <3>1. \A m \in Costs : LessEq(m, MostCost) /\ AtLeast(m, LeastCost)
        BY DEF Costs
      <3> QED BY <3>1 DEF Bounded
    <2> QED BY <2>1, <2>2, <2>3 DEF TypeOK, Bounded
  <1> QED BY <1>1, BoundedInit, BoundedNext, Invariants, PTL DEF Spec

-------------------------------------------------------------------------------
\* The interrogation never bans an address whose pages solve one challenge at a
\* time and post it once (/api/challenge, /api/verify-pow).
THEOREM LoneSolversNotBanned == Spec => []LoneSolverNotBanned
  <1>1. Honest => LoneSolverNotBanned
    BY DEF Honest, LoneSolverNotBanned
  <1> QED BY <1>1, Invariants, PTL

\* A challenge is issued once and redeemed at most once, by whichever handler
\* finishes first, across awaits, replacements, expiry and restarts.
THEOREM ChallengesAreTickets == Spec => ChallengesOneTime
  <1>1. Init => Tickets!Init
    BY Bounds DEF Init, Tickets!Init, ChallengeTicket, Targets, InHand
  <1>2. TicketStep => [Tickets!Next]_<<ChallengeTicket, solved>>
    BY DEF TicketStep, Tickets!Next
  <1> QED BY <1>1, <1>2, Invariants, HeldNext, PTL DEF Spec, ChallengesOneTime, Tickets!Spec
===============================================================================
