--------------------------- MODULE Distributor_proofs ---------------------------
(***************************************************************************)
(* For any number of connections and metrics, any delay and any length of  *)
(* the buffer: what a public client was served is complete and late        *)
(* enough, and broadcast() leaves no real-time client out.                 *)
(***************************************************************************)
EXTENDS Distributor, FiniteSetTheorems, TLAPS

LEMMA DistributorFacts ==
    /\ PublicDelay \in Nat /\ DemoInterval \in Nat /\ LastMetric \in Nat
    /\ Nobody \notin Clients /\ Horizon \in Nat /\ LastMetric < Horizon
BY DistributorAssumption DEF Horizon

Joined == {c \in Clients : conn[c] # "new"}

\* TypeOK without the length of the buffer, which only TypeCorrect needs.
Types ==
    /\ now \in 1..Horizon /\ sent \subseteq Stamps /\ buf \subseteq sent
    /\ clients \subseteq Clients /\ tier \in [Clients -> Tiers]
    /\ lastSent \in [Clients -> 0..LastMetric]
    /\ conn \in [Clients -> {"new", "open", "closed"}]
    /\ got \in [Clients -> SUBSET Stamps] /\ missed \in [Clients -> SUBSET Stamps]
    /\ fan \in [Stamps -> [todo : SUBSET Clients, at : Clients \cup {Nobody}, dead : SUBSET Clients]]
    /\ push \in [pub : SUBSET Clients, at : Clients \cup {Nobody}, todo : SUBSET Stamps,
                 waits : BOOLEAN, cutoff : Int, dead : SUBSET Clients]
    /\ replay \in [Clients -> [todo : SUBSET Stamps, waits : BOOLEAN]]

\* Who is served by whom.  A connection that has not been used is in no list,
\* and broadcast() has no public clients, the pusher no others.
FanLists ==
    /\ clients \subseteq Joined
    /\ \A m \in Stamps : fan[m].todo \subseteq Joined \ Public
    /\ \A m \in Stamps : fan[m].at # Nobody => fan[m].at \in fan[m].todo
    /\ \A m \in Stamps \ sent : fan[m] = IdleFan
PushLists ==
    /\ push.pub \subseteq Joined \cap Public /\ push.todo \subseteq sent
    /\ push.at # Nobody => push.at \in push.pub
    /\ push.at = Nobody => push.waits = FALSE
    /\ \A c \in Clients : replay[c].todo # {} \/ replay[c].waits => c \in Joined \cap Public
    /\ \A c \in Clients : replay[c].todo \subseteq sent
Marks ==
    /\ \A c \in Clients : c \notin Joined => lastSent[c] = 0
    /\ \A m \in sent : m <= now
    /\ \A c \in Clients : lastSent[c] \in sent \cup {0}
Lists == FanLists /\ PushLists /\ Marks

\* A coroutine that serves c the messages S has served him all before them.
Caught(c, S) == \A x \in buf, y \in S : x < y => x \in S \/ x \in got[c]

\* The message a coroutine waits for is on the wire.
OnWire(c, S, waits) == waits => \A m \in S : IsFirst(m, S) => m \in got[c]

\* The public clients: complete up to last_sent, and in every list they are in.
Complete ==
    /\ \A c \in Public, m \in buf : m <= lastSent[c] => m \in got[c]
    /\ push.at # Nobody => /\ Caught(push.at, push.todo)
                           /\ OnWire(push.at, push.todo, push.waits)
    /\ \A c \in Public : /\ Caught(c, replay[c].todo)
                         /\ OnWire(c, replay[c].todo, replay[c].waits)

\* Nothing is in a list for the public before its time.
Late ==
    /\ \A c \in Public, m \in Stamps : m \in got[c] => m <= now - PublicDelay
    /\ push.pub # {} => push.cutoff <= now - PublicDelay
    /\ \A m \in push.todo : m <= push.cutoff
    /\ \A c \in Public : \A m \in replay[c].todo : m <= now - PublicDelay
    /\ \A c \in Clients \ Joined : got[c] = {}

\* broadcast() has not forgotten a real-time client.
Reached ==
    /\ \A c \in clients, m \in sent : (tier[c] = "searcher" /\ m \notin missed[c])
            => m \in got[c] \/ c \in fan[m].todo \/ c \in fan[m].dead
    /\ \A m \in Stamps : fan[m].at # Nobody => m \in got[fan[m].at]
    /\ \A m \in Stamps : fan[m] = IdleFan \/ fan[m].todo # {}

IInv == Types /\ Lists /\ Complete /\ Late /\ Reached

FanType == [todo : SUBSET Clients, at : Clients \cup {Nobody}, dead : SUBSET Clients]
PushType == [pub : SUBSET Clients, at : Clients \cup {Nobody}, todo : SUBSET Stamps,
             waits : BOOLEAN, cutoff : Int, dead : SUBSET Clients]

-------------------------------------------------------------------------------
\* What becomes of the lists when a coroutine is done with a client.
LEMMA FanLeavesFacts ==
    ASSUME Types, NEW m \in Stamps, NEW c \in fan[m].todo, NEW died \in BOOLEAN,
           FanLeaves(m, c, died)
    PROVE  /\ fan' \in [Stamps -> FanType] /\ clients' \subseteq clients
           /\ \A n \in Stamps \ {m} : fan'[n] = fan[n]
           /\ fan'[m].at = Nobody /\ fan'[m].todo = fan[m].todo \ {c}
           /\ fan'[m] = IdleFan \/ fan'[m].todo # {}
           /\ \A x \in clients' : x \in fan[m].dead => x \in fan'[m].dead
           /\ (died /\ c \in clients') => c \in fan'[m].dead
<1> DEFINE todo == fan[m].todo \ {c}
           dead == IF died THEN fan[m].dead \cup {c} ELSE fan[m].dead
           left == [todo |-> todo, at |-> Nobody, dead |-> dead]
<1>1. fan[m] \in FanType /\ dead \in SUBSET Clients /\ todo \in SUBSET Clients
  BY DEF Types, FanType
<1>2. left \in FanType /\ IdleFan \in FanType
  BY <1>1 DEF FanType, IdleFan
<1>3. CASE todo = {} /\ fan' = [fan EXCEPT ![m] = IdleFan] /\ clients' = clients \ dead
  <2>1. fan'[m] = IdleFan /\ \A n \in Stamps \ {m} : fan'[n] = fan[n]
    BY <1>3 DEF Types
  <2> QED
    BY <1>2, <1>3, <2>1 DEF Types, IdleFan, FanType
<1>4. CASE todo # {} /\ fan' = [fan EXCEPT ![m] = left] /\ clients' = clients
  <2>1. fan'[m] = left /\ \A n \in Stamps \ {m} : fan'[n] = fan[n]
    BY <1>4 DEF Types
  <2> QED
    BY <1>2, <1>4, <2>1 DEF Types, FanType
<1> QED
  BY <1>3, <1>4 DEF FanLeaves

LEMMA PushLeavesFacts ==
    ASSUME Types, NEW c \in push.pub, NEW died \in BOOLEAN, PushLeaves(c, died)
    PROVE  /\ push' \in PushType /\ clients' \subseteq clients
           /\ push'.pub \subseteq push.pub /\ push'.at = Nobody /\ push'.todo = {}
           /\ push'.waits = FALSE
           /\ push'.pub # {} => push'.cutoff = push.cutoff
<1> DEFINE dead == IF died THEN push.dead \cup {c} ELSE push.dead
<1>1. push \in PushType /\ dead \in SUBSET Clients
  BY DEF Types, PushType
<1>2. CASE push' = IdlePush /\ clients' = clients \ dead
  BY <1>2 DEF IdlePush, PushType
<1>3. CASE /\ push' = [push EXCEPT !.pub = @ \ {c}, !.at = Nobody, !.todo = {},
                                   !.waits = FALSE, !.dead = dead]
           /\ UNCHANGED clients
  BY <1>1, <1>3 DEF PushType
<1> QED
  BY <1>2, <1>3 DEF PushLeaves

\* A send that returned: the last message or one more to come.
LEMMA PushSentFacts ==
    ASSUME Types, NEW c \in push.pub, NEW m \in push.todo, PushSent(c, m),
           push.at = c
    PROVE  /\ push' \in PushType /\ clients' \subseteq clients
           /\ push'.pub \subseteq push.pub
           /\ push'.pub # {} => push'.cutoff = push.cutoff
           /\ push'.waits = FALSE
           /\ \/ push'.at = Nobody /\ push'.todo = {}
              \/ push'.at = c /\ push'.pub = push.pub /\ push'.todo = push.todo \ {m}
           /\ lastSent' = lastSent \/ lastSent' = [lastSent EXCEPT ![c] = m]
<1>1. CASE PushLeaves(c, TRUE) /\ UNCHANGED lastSent
  BY <1>1, PushLeavesFacts
<1>2. CASE PushLeaves(c, FALSE) /\ lastSent' = [lastSent EXCEPT ![c] = m]
  BY <1>2, PushLeavesFacts
<1>3. CASE /\ push' = [push EXCEPT !.todo = @ \ {m}, !.waits = FALSE]
           /\ UNCHANGED clients /\ lastSent' = [lastSent EXCEPT ![c] = m]
  BY <1>3 DEF Types, PushType
<1> QED
  BY <1>1, <1>2, <1>3 DEF PushSent

\* A write reaches one client, a return marks one.
LEMMA WriteFacts ==
    ASSUME Types, NEW c \in Clients, NEW m \in Stamps, Write(c, m)
    PROVE  /\ got' \in [Clients -> SUBSET Stamps]
           /\ got'[c] = got[c] \cup {m} /\ \A x \in Clients \ {c} : got'[x] = got[x]
<1>1. got \in [Clients -> SUBSET Stamps] /\ got' = [got EXCEPT ![c] = got[c] \cup {m}]
  BY DEF Types, Write
<1>2. got[c] \cup {m} \in SUBSET Stamps
  BY <1>1
<1> QED
  BY <1>1, <1>2

LEMMA MarkFacts ==
    ASSUME Types, NEW c \in Clients, NEW m \in Stamps,
           lastSent' = lastSent \/ lastSent' = [lastSent EXCEPT ![c] = m]
    PROVE  /\ lastSent' \in [Clients -> 0..LastMetric]
           /\ \A x \in Clients \ {c} : lastSent'[x] = lastSent[x]
           /\ lastSent'[c] \in {lastSent[c], m}
<1>1. m \in 0..LastMetric /\ lastSent \in [Clients -> 0..LastMetric]
  BY DistributorFacts DEF Types, Stamps
<1> QED
  BY <1>1

\* A step of a replay: a message goes out, its send returned, or the replay
\* is over.
LEMMA ReplayFacts ==
    ASSUME Types, NEW c \in Clients, NEW m \in Stamps,
           ReplaySend(c, m) \/ ReplayReturns(c, m)
    PROVE  /\ replay' \in [Clients -> [todo : SUBSET Stamps, waits : BOOLEAN]]
           /\ \A x \in Clients \ {c} : replay'[x] = replay[x]
           /\ \/ /\ replay'[c] = [todo |-> replay[c].todo, waits |-> TRUE]
                 /\ Write(c, m) /\ UNCHANGED lastSent
              \/ /\ replay'[c] = [todo |-> replay[c].todo \ {m}, waits |-> FALSE]
                 /\ replay[c].waits /\ UNCHANGED got
                 /\ lastSent' = lastSent \/ lastSent' = [lastSent EXCEPT ![c] = m]
              \/ replay'[c] = IdleReplay /\ UNCHANGED <<lastSent, got>>
<1> DEFINE T == [todo : SUBSET Stamps, waits : BOOLEAN]
           out == [todo |-> replay[c].todo, waits |-> TRUE]
           back == [todo |-> replay[c].todo \ {m}, waits |-> FALSE]
<1>1. replay \in [Clients -> T] /\ replay[c] \in T
  BY DEF Types
<1>2. out \in T /\ back \in T /\ IdleReplay \in T
  BY <1>1 DEF IdleReplay
<1>3. CASE Write(c, m) /\ replay' = [replay EXCEPT ![c] = out] /\ UNCHANGED lastSent
  BY <1>1, <1>2, <1>3
<1>4. CASE replay[c].waits /\ ReplaySent(c, m) /\ UNCHANGED got
  <2>1. replay' = [replay EXCEPT ![c] = back]
    BY <1>4 DEF ReplaySent
  <2> QED
    BY <1>1, <1>2, <1>4, <2>1 DEF ReplaySent
<1>5. CASE ReplayEnds(c) /\ UNCHANGED got
  BY <1>1, <1>2, <1>5 DEF ReplayEnds
<1> QED
  BY <1>3, <1>4, <1>5 DEF ReplaySend, ReplayReturns, wireVars

\* AUTH_OK is through: the replay of a public client gets its list.
LEMMA GreetedFacts ==
    ASSUME Types, Lists, NEW c \in Clients, Greeted(c)
    PROVE  /\ c \in Joined \cap Public /\ Replayed \in SUBSET buf
           /\ replay'[c].todo = Replayed /\ replay'[c].waits = FALSE
           /\ \A x \in Clients \ {c} : replay'[x] = replay[x]
           /\ replay' \in [Clients -> [todo : SUBSET Stamps, waits : BOOLEAN]]
<1>1. replay[c].waits
  BY DEF Greeted, Greeting
<1>2. Replayed \in SUBSET buf /\ Replayed \in SUBSET Stamps
  BY DEF Replayed, Types
<1> HIDE DEF Replayed
<1> QED
  BY <1>1, <1>2 DEF Greeted, Lists, PushLists, Types

\* A session that ends leaves no replay.
LEMMA UnregisterFacts ==
    ASSUME Types, NEW c \in Clients, Unregister(c)
    PROVE  /\ replay'[c].todo = {} /\ replay'[c].waits = FALSE
           /\ \A x \in Clients \ {c} : replay'[x] = replay[x]
           /\ replay' \in [Clients -> [todo : SUBSET Stamps, waits : BOOLEAN]]
BY DEF Unregister, IdleReplay, Types

LEMMA InitHolds == Init => IInv
<1> SUFFICES ASSUME Init PROVE IInv
  OBVIOUS
<1> USE DistributorFacts DEF Init
<1>1. Types
  BY DEF Types, Tiers, IdleFan, IdlePush, IdleReplay
<1>2. \A m \in Stamps : fan[m].todo = {} /\ fan[m].at = Nobody /\ fan[m] = IdleFan
  BY DEF IdleFan
<1>3. push.pub = {} /\ push.at = Nobody /\ push.todo = {} /\ push.waits = FALSE
  BY DEF IdlePush
<1>4. \A c \in Clients : replay[c].todo = {} /\ replay[c].waits = FALSE
  BY DEF IdleReplay
<1>5. FanLists /\ PushLists /\ Marks
  <2>1. FanLists
    BY <1>2 DEF FanLists
  <2>2. PushLists
    BY <1>3, <1>4 DEF PushLists
  <2>3. Marks
    BY DEF Marks
  <2> QED
    BY <2>1, <2>2, <2>3
<1>6. Complete
  BY <1>3, <1>4 DEF Complete, Caught, OnWire, Public
<1>7. Late
  BY <1>3, <1>4 DEF Late, Public
<1>8. Reached
  BY <1>2 DEF Reached
<1> QED
  BY <1>1, <1>5, <1>6, <1>7, <1>8 DEF IInv, Lists

-------------------------------------------------------------------------------
\* The types.
LEMMA TypesStep ==
    ASSUME Types, Lists, [Next]_vars
    PROVE  Types'
<1> USE DistributorFacts DEF logVars, clientVars, wireVars
<1>1. CASE UNCHANGED vars
  BY <1>1 DEF vars, Types
<1>2. CASE Tick
  BY <1>2 DEF Tick, Types
<1>3. CASE Broadcast
  <2>1. Appended(buf, now) \subseteq buf \cup {now}
    BY DEF Appended
  <2>2. fan' \in [Stamps -> FanType]
    BY <1>3 DEF Broadcast, Types, FanType, Public
  <2> QED
    BY <1>3, <2>1, <2>2 DEF Broadcast, Types, FanType
<1>4. ASSUME NEW m \in Stamps, FanReturns(m) PROVE Types'
  <2>1. fan[m].at \in fan[m].todo /\ fan[m].at \in Clients
    BY <1>4 DEF FanReturns, Lists, FanLists, Types
  <2>2. FanLeaves(m, fan[m].at, TRUE) \/ FanLeaves(m, fan[m].at, fan[m].at \notin clients)
    BY <1>4 DEF FanReturns, FanSent
  <2>3. fan' \in [Stamps -> FanType] /\ clients' \subseteq clients
    BY <2>1, <2>2, FanLeavesFacts
  <2>4. lastSent' \in [Clients -> 0..LastMetric]
    BY <1>4, <2>1, MarkFacts DEF FanReturns, FanSent
  <2> QED
    BY <1>4, <2>3, <2>4 DEF FanReturns, Types, FanType
<1>5. ASSUME NEW m \in Stamps, NEW c \in Clients, FanSkip(m, c) PROVE Types'
  <2>1. fan' \in [Stamps -> FanType] /\ clients' \subseteq clients
    BY <1>5, FanLeavesFacts DEF FanSkip
  <2> QED
    BY <1>5, <2>1 DEF FanSkip, Types, FanType
<1>6. ASSUME NEW m \in Stamps, NEW c \in Clients, FanSend(m, c) PROVE Types'
  <2>1. got' \in [Clients -> SUBSET Stamps]
    BY <1>6, WriteFacts DEF FanSend, Types
  <2>2. fan' \in [Stamps -> FanType] /\ clients' \subseteq clients
    <3>1. CASE fan' = [fan EXCEPT ![m].at = c] /\ UNCHANGED clients
      BY <3>1 DEF Types, FanType
    <3>2. CASE FanLeaves(m, c, TRUE)
      BY <1>6, <3>2, FanLeavesFacts DEF FanSend
    <3> QED
      BY <1>6, <3>1, <3>2 DEF FanSend
  <2> QED
    BY <1>6, <2>1, <2>2 DEF FanSend, Types, FanType
<1>7. CASE PushWake
  <2>1. push' \in PushType
    <3>1. now - PublicDelay \in Int /\ clients \cap Public \in SUBSET Clients
      BY DEF Types
    <3> QED
      BY <1>7, <3>1 DEF PushWake, IdlePush, PushType
  <2> QED
    BY <1>7, <2>1 DEF PushWake, Types, PushType
<1>8. ASSUME NEW c \in Clients, PushTurn(c) PROVE Types'
  <2>1. push' \in PushType /\ clients' \subseteq clients
    <3>1. CASE PushLeaves(c, FALSE)
      BY <1>8, <3>1, PushLeavesFacts DEF PushTurn
    <3>2. CASE /\ push' = [push EXCEPT !.at = c,
                              !.todo = {m \in buf : lastSent[c] < m /\ m <= push.cutoff}]
               /\ UNCHANGED clients
      BY <3>2 DEF Types, PushType
    <3> QED
      BY <1>8, <3>1, <3>2 DEF PushTurn
  <2> QED
    BY <1>8, <2>1 DEF PushTurn, Types, PushType
<1>9. ASSUME NEW m \in Stamps, PushSend(m) PROVE Types'
  <2>1. push.at \in push.pub
    BY <1>9 DEF PushSend, Lists, PushLists
  <2>2. got' \in [Clients -> SUBSET Stamps]
    BY <1>9, WriteFacts DEF PushSend, Types
  <2>3. push' \in PushType /\ clients' \subseteq clients
    <3>1. CASE push' = [push EXCEPT !.waits = TRUE] /\ UNCHANGED clients
      BY <3>1 DEF Types, PushType
    <3>2. CASE PushLeaves(push.at, TRUE)
      BY <2>1, <3>2, PushLeavesFacts
    <3> QED
      BY <1>9, <3>1, <3>2 DEF PushSend
  <2> QED
    BY <1>9, <2>2, <2>3 DEF PushSend, Types, PushType
<1>10. ASSUME NEW m \in Stamps, PushReturns(m) PROVE Types'
  <2>1. push.at \in push.pub /\ m \in push.todo
    BY <1>10 DEF PushReturns, Lists, PushLists, IsFirst
  <2>2. CASE PushSent(push.at, m)
    <3>1. push' \in PushType /\ clients' \subseteq clients
      BY <2>1, <2>2, PushSentFacts
    <3>2. lastSent' \in [Clients -> 0..LastMetric]
      BY <2>1, <2>2, PushSentFacts, MarkFacts DEF Types
    <3> QED
      BY <1>10, <3>1, <3>2 DEF PushReturns, Types, PushType
  <2>3. CASE PushLeaves(push.at, TRUE) /\ UNCHANGED lastSent
    <3>1. push' \in PushType /\ clients' \subseteq clients
      BY <2>1, <2>3, PushLeavesFacts
    <3> QED
      BY <1>10, <2>3, <3>1 DEF PushReturns, Types, PushType
  <2> QED
    BY <1>10, <2>2, <2>3 DEF PushReturns
<1>11. ASSUME NEW c \in Clients, NEW t \in Tiers, Register(c, t) PROVE Types'
  BY <1>11 DEF Register, Greeting, Types
<1>12. ASSUME NEW m \in Stamps, NEW c \in Clients, ReplaySend(c, m) \/ ReplayReturns(c, m)
       PROVE  Types'
  <2>1. got' \in [Clients -> SUBSET Stamps]
    BY <1>12, WriteFacts DEF ReplaySend, ReplayReturns, Types
  <2>2. lastSent' \in [Clients -> 0..LastMetric]
    BY <1>12, MarkFacts DEF ReplaySend, ReplayReturns, ReplaySent, ReplayEnds
  <2>3. replay' \in [Clients -> [todo : SUBSET Stamps, waits : BOOLEAN]]
    BY <1>12, ReplayFacts
  <2> QED
    BY <1>12, <2>1, <2>2, <2>3 DEF ReplaySend, ReplayReturns, Types
<1>13. ASSUME NEW c \in Clients, Close(c) PROVE Types'
  BY <1>13 DEF Close, Types
<1>14. ASSUME NEW c \in Clients, Unregister(c) PROVE Types'
  BY <1>14, UnregisterFacts DEF Unregister, Types
<1>15. ASSUME NEW c \in Clients, Greeted(c) PROVE Types'
  BY <1>15, GreetedFacts DEF Greeted, Types
<1> QED
  BY <1>1, <1>2, <1>3, <1>4, <1>5, <1>6, <1>7, <1>8, <1>9, <1>10, <1>11, <1>12, <1>13, <1>14, <1>15
     DEF Next

-------------------------------------------------------------------------------
\* The lists, one list at a time.
LEMMA JoinedGrows ==
    ASSUME Types, [Next]_vars
    PROVE  Joined \subseteq Joined' /\ Joined \cap Public = Joined \cap Public'
<1> USE DEF logVars, clientVars, wireVars
<1>1. CASE conn' = conn /\ tier' = tier
  BY <1>1 DEF Joined, Public
<1>2. ASSUME NEW c \in Clients, NEW t \in Tiers, Register(c, t)
      PROVE  Joined \subseteq Joined' /\ Joined \cap Public = Joined \cap Public'
  BY <1>2 DEF Register, Joined, Public, Types
<1>3. ASSUME NEW c \in Clients, Close(c)
      PROVE  Joined \subseteq Joined' /\ Joined \cap Public = Joined \cap Public'
  BY <1>3 DEF Close, Joined, Public, Types
<1>4. CASE Tick \/ Broadcast \/ PushWake \/ UNCHANGED vars
  BY <1>1, <1>4 DEF Tick, Broadcast, PushWake, vars
<1>5. ASSUME NEW m \in Stamps, FanReturns(m) \/ PushSend(m) \/ PushReturns(m)
      PROVE  conn' = conn /\ tier' = tier
  BY <1>5 DEF FanReturns, PushSend, PushReturns
<1>6. ASSUME NEW m \in Stamps, NEW c \in Clients,
             FanSkip(m, c) \/ FanSend(m, c) \/ ReplaySend(c, m) \/ ReplayReturns(c, m)
      PROVE  conn' = conn /\ tier' = tier
  BY <1>6 DEF FanSkip, FanSend, ReplaySend, ReplayReturns
<1>7. ASSUME NEW c \in Clients, PushTurn(c) \/ Greeted(c) \/ Unregister(c)
      PROVE  conn' = conn /\ tier' = tier
  BY <1>7 DEF PushTurn, Greeted, Unregister
<1> QED
  BY <1>1, <1>2, <1>3, <1>4, <1>5, <1>6, <1>7 DEF Next

LEMMA FanListsStep ==
    ASSUME Types, Lists, [Next]_vars
    PROVE  FanLists'
<1> USE DistributorFacts DEF logVars, clientVars, wireVars
<1>0. Joined \subseteq Joined' /\ Joined \cap Public = Joined \cap Public'
  BY JoinedGrows
<1>1. Joined \ Public \subseteq Joined' \ Public'
  BY <1>0 DEF Joined, Public
<1>2. CASE clients' \subseteq clients /\ UNCHANGED <<fan, sent>>
  BY <1>0, <1>1, <1>2 DEF Lists, FanLists
<1>3. CASE Broadcast
  <2>0. fan[now] = IdleFan
    BY <1>3 DEF Broadcast, Lists, FanLists
  <2>1. fan[now].at = Nobody
    BY <2>0 DEF IdleFan
  <2>2. /\ fan'[now].todo = clients \ Public /\ fan'[now].at = Nobody
        /\ \A m \in Stamps \ {now} : fan'[m] = fan[m]
    BY <1>3, <2>1 DEF Broadcast, Types
  <2> QED
    BY <1>0, <1>1, <1>3, <2>2 DEF Broadcast, Lists, FanLists
<1>4. ASSUME NEW m \in Stamps, NEW c \in fan[m].todo, NEW died \in BOOLEAN,
             FanLeaves(m, c, died), UNCHANGED sent
      PROVE  FanLists'
  <2>1. m \in sent
    BY DEF Lists, FanLists, IdleFan
  <2>2. clients' \subseteq clients /\ fan'[m].at = Nobody /\ fan'[m].todo = fan[m].todo \ {c}
    BY <1>4, FanLeavesFacts
  <2>3. \A n \in Stamps \ {m} : fan'[n] = fan[n]
    BY <1>4, FanLeavesFacts
  <2> QED
    BY <1>0, <1>1, <1>4, <2>1, <2>2, <2>3 DEF Lists, FanLists
<1>5. ASSUME NEW m \in Stamps, FanReturns(m) PROVE FanLists'
  <2>1. fan[m].at \in fan[m].todo
    BY <1>5 DEF FanReturns, Lists, FanLists
  <2> QED
    BY <1>4, <1>5, <2>1 DEF FanReturns, FanSent
<1>6. ASSUME NEW m \in Stamps, NEW c \in Clients, FanSkip(m, c) PROVE FanLists'
  BY <1>4, <1>6 DEF FanSkip
<1>7. ASSUME NEW m \in Stamps, NEW c \in Clients, FanSend(m, c) PROVE FanLists'
  <2>1. CASE fan' = [fan EXCEPT ![m].at = c] /\ UNCHANGED clients
    <3>1. m \in sent
      BY <1>7 DEF FanSend, Lists, FanLists, IdleFan
    <3>2. /\ fan'[m].at = c /\ fan'[m].todo = fan[m].todo /\ c \in fan[m].todo
          /\ \A n \in Stamps \ {m} : fan'[n] = fan[n]
      BY <1>7, <2>1 DEF FanSend, Types
    <3> QED
      BY <1>0, <1>1, <1>7, <2>1, <3>1, <3>2 DEF FanSend, Lists, FanLists
  <2> QED
    BY <1>4, <1>7, <2>1 DEF FanSend
<1>8. ASSUME NEW c \in Clients, NEW t \in Tiers, Register(c, t) PROVE FanLists'
  <2>1. clients' = clients \cup {c} /\ c \in Joined'
    BY <1>8 DEF Register, Joined, Types
  <2> QED
    BY <1>0, <1>1, <1>8, <2>1 DEF Register, Lists, FanLists
<1>9. ASSUME NEW c \in Clients, PushTurn(c) PROVE clients' \subseteq clients
  BY <1>9, PushLeavesFacts DEF PushTurn
<1>10. ASSUME NEW m \in Stamps, PushSend(m) \/ PushReturns(m) PROVE clients' \subseteq clients
  <2>1. push.at \in push.pub /\ m \in push.todo
    BY <1>10 DEF PushSend, PushReturns, Lists, PushLists, IsFirst
  <2> QED
    BY <1>10, <2>1, PushLeavesFacts, PushSentFacts DEF PushSend, PushReturns
<1>11. CASE Tick \/ PushWake \/ UNCHANGED vars
  BY <1>2, <1>11 DEF Tick, PushWake, vars
<1>12. ASSUME NEW c \in Clients, PushTurn(c) \/ Greeted(c) \/ Close(c) \/ Unregister(c)
       PROVE  FanLists'
  <2>1. clients' \subseteq clients /\ UNCHANGED <<fan, sent>>
    BY <1>9, <1>12 DEF PushTurn, Greeted, Close, Unregister
  <2> QED
    BY <1>2, <2>1
<1>13. ASSUME NEW m \in Stamps, PushSend(m) \/ PushReturns(m) PROVE FanLists'
  BY <1>2, <1>10, <1>13 DEF PushSend, PushReturns
<1>14. ASSUME NEW m \in Stamps, NEW c \in Clients, ReplaySend(c, m) \/ ReplayReturns(c, m)
       PROVE  FanLists'
  BY <1>2, <1>14 DEF ReplaySend, ReplayReturns
<1> QED
  BY <1>3, <1>5, <1>6, <1>7, <1>8, <1>11, <1>12, <1>13, <1>14 DEF Next

LEMMA PushListsStep ==
    ASSUME Types, Lists, [Next]_vars
    PROVE  PushLists'
<1> USE DistributorFacts DEF logVars, clientVars, wireVars
<1>0. Joined \subseteq Joined' /\ Joined \cap Public \subseteq Joined' \cap Public'
  BY JoinedGrows
<1>1. CASE sent \subseteq sent' /\ UNCHANGED <<push, replay>>
  BY <1>0, <1>1 DEF Lists, PushLists
<1>2. CASE PushWake
  <2>1. /\ push'.pub = clients \cap Public /\ push'.at = Nobody /\ push'.todo = {}
        /\ push'.waits = FALSE
    BY <1>2 DEF PushWake, IdlePush
  <2> QED
    BY <1>0, <1>2, <2>1 DEF PushWake, Lists, PushLists, FanLists
<1>3. ASSUME push'.pub \subseteq push.pub, push'.at = Nobody, push'.todo = {},
             push'.waits = FALSE,
             UNCHANGED <<replay, sent>>
      PROVE  PushLists'
  BY <1>0, <1>3 DEF Lists, PushLists
<1>4. ASSUME NEW c \in Clients, PushTurn(c) PROVE PushLists'
  <2>1. CASE PushLeaves(c, FALSE)
    BY <1>3, <1>4, <2>1, PushLeavesFacts DEF PushTurn
  <2>2. CASE push' = [push EXCEPT !.at = c,
                          !.todo = {m \in buf : lastSent[c] < m /\ m <= push.cutoff}]
    <3>1. push'.pub = push.pub /\ push'.at = c /\ push'.todo \subseteq sent /\ c # Nobody
      BY <2>2 DEF Types
    <3> QED
      BY <1>0, <1>4, <3>1 DEF PushTurn, Lists, PushLists
  <2> QED
    BY <1>4, <2>1, <2>2 DEF PushTurn
<1>5. ASSUME NEW m \in Stamps, PushSend(m) PROVE PushLists'
  <2>1. CASE PushLeaves(push.at, TRUE)
    BY <1>3, <1>5, <2>1, PushLeavesFacts DEF PushSend, Lists, PushLists
  <2>2. CASE push' = [push EXCEPT !.waits = TRUE]
    <3>1. push'.pub = push.pub /\ push'.at = push.at /\ push'.todo = push.todo
      BY <2>2 DEF Types
    <3> QED
      BY <1>0, <1>5, <3>1 DEF PushSend, Lists, PushLists
  <2> QED
    BY <1>5, <2>1, <2>2 DEF PushSend
<1>6. ASSUME NEW m \in Stamps, PushReturns(m) PROVE PushLists'
  <2>1. push.at \in push.pub /\ m \in push.todo /\ UNCHANGED <<replay, sent>>
    BY <1>6 DEF PushReturns, Lists, PushLists, IsFirst
  <2>2. CASE PushSent(push.at, m)
    <3>1. /\ push'.pub \subseteq push.pub /\ push'.todo \subseteq push.todo
          /\ push'.waits = FALSE
          /\ push'.at = Nobody \/ (push'.at = push.at /\ push'.pub = push.pub)
      BY <2>1, <2>2, PushSentFacts
    <3> QED
      BY <1>0, <2>1, <3>1 DEF Lists, PushLists
  <2>3. CASE PushLeaves(push.at, TRUE)
    BY <1>3, <2>1, <2>3, PushLeavesFacts
  <2> QED
    BY <1>6, <2>2, <2>3 DEF PushReturns
<1>7. ASSUME NEW c \in Clients, NEW t \in Tiers, Register(c, t) PROVE PushLists'
  <2>1. t = "public" => c \in Joined' \cap Public'
    BY <1>7 DEF Register, Joined, Public, Types
  <2>2. \A x \in Clients : replay'[x] = replay[x] \/ (x = c /\ t = "public")
    BY <1>7 DEF Register, Types
  <2>3. \A x \in Clients : replay'[x].todo \subseteq replay[x].todo
    BY <1>7 DEF Register, Greeting, Types
  <2> QED
    BY <1>0, <1>7, <2>1, <2>2, <2>3 DEF Register, Lists, PushLists, Types
<1>8. ASSUME NEW m \in Stamps, NEW c \in Clients, ReplaySend(c, m) \/ ReplayReturns(c, m)
      PROVE  PushLists'
  <2>0. replay'[c].todo \subseteq replay[c].todo
    <3>1. \/ replay'[c] = [todo |-> replay[c].todo, waits |-> TRUE]
          \/ replay'[c] = [todo |-> replay[c].todo \ {m}, waits |-> FALSE]
          \/ replay'[c] = IdleReplay
      BY <1>8, ReplayFacts
    <3> QED
      BY <3>1 DEF IdleReplay
  <2>1. \A x \in Clients : /\ replay'[x].todo \subseteq replay[x].todo
                           /\ x # c => replay'[x] = replay[x]
    BY <1>8, <2>0, ReplayFacts
  <2>2. m \in replay[c].todo
    BY <1>8 DEF ReplaySend, ReplayReturns, IsFirst
  <2> QED
    <3>1. UNCHANGED <<sent, push>>
      BY <1>8 DEF ReplaySend, ReplayReturns
    <3> QED
      BY <1>0, <2>1, <2>2, <3>1 DEF Lists, PushLists
<1>9. CASE Tick \/ Broadcast \/ UNCHANGED vars
  BY <1>1, <1>9 DEF Tick, Broadcast, vars
<1>10. ASSUME NEW c \in Clients, Close(c) PROVE PushLists'
  BY <1>1, <1>10 DEF Close
<1>13. ASSUME NEW c \in Clients, Unregister(c) PROVE PushLists'
  <2>1. /\ UNCHANGED <<sent, push>> /\ replay'[c].todo = {} /\ replay'[c].waits = FALSE
        /\ \A x \in Clients \ {c} : replay'[x] = replay[x]
    BY <1>13, UnregisterFacts DEF Unregister
  <2> QED
    BY <1>0, <2>1 DEF Lists, PushLists
<1>14. ASSUME NEW c \in Clients, Greeted(c) PROVE PushLists'
  <2>1. /\ c \in Joined \cap Public /\ replay'[c].todo = Replayed
        /\ \A x \in Clients \ {c} : replay'[x] = replay[x]
    BY <1>14, GreetedFacts
  <2>3. Replayed \subseteq sent
    BY DEF Replayed, Types
  <2>2. UNCHANGED <<sent, push>>
    BY <1>14 DEF Greeted
  <2> HIDE DEF Replayed
  <2> QED
    BY <1>0, <2>1, <2>2, <2>3 DEF Lists, PushLists
<1>11. ASSUME NEW m \in Stamps, NEW c \in Clients, FanSkip(m, c) \/ FanSend(m, c)
       PROVE  PushLists'
  BY <1>1, <1>11 DEF FanSkip, FanSend
<1>12. ASSUME NEW m \in Stamps, FanReturns(m) PROVE PushLists'
  BY <1>1, <1>12 DEF FanReturns
<1> QED
  BY <1>2, <1>4, <1>5, <1>6, <1>7, <1>8, <1>9, <1>10, <1>11, <1>12, <1>13, <1>14 DEF Next

LEMMA MarksStep ==
    ASSUME Types, Lists, [Next]_vars
    PROVE  Marks'
<1> USE DistributorFacts DEF logVars, clientVars, wireVars
<1>0. Joined \subseteq Joined'
  BY JoinedGrows
<1>1. CASE UNCHANGED <<now, sent, lastSent>>
  BY <1>0, <1>1 DEF Lists, Marks
<1>2. CASE Tick
  BY <1>0, <1>2 DEF Tick, Lists, Marks, Types, Stamps
<1>3. CASE Broadcast
  BY <1>0, <1>3 DEF Broadcast, Lists, Marks, Types
<1>4. ASSUME NEW c \in Joined, NEW m \in sent, UNCHANGED <<now, sent>>,
             lastSent' = lastSent \/ lastSent' = [lastSent EXCEPT ![c] = m]
      PROVE  Marks'
  <2>1. c \in Clients /\ m \in Stamps
    BY DEF Joined, Types
  <2>2. \A x \in Clients \ {c} : lastSent'[x] = lastSent[x]
    BY <1>4, <2>1, MarkFacts
  <2>3. lastSent'[c] \in {lastSent[c], m}
    BY <1>4, <2>1, MarkFacts
  <2> QED
    BY <1>0, <1>4, <2>2, <2>3 DEF Lists, Marks
<1>5. ASSUME NEW m \in Stamps, FanReturns(m) PROVE Marks'
  <2>1. fan[m].at \in Joined /\ m \in sent
    BY <1>5 DEF FanReturns, Lists, FanLists, IdleFan
  <2> QED
    BY <1>4, <1>5, <2>1 DEF FanReturns, FanSent
<1>6. ASSUME NEW m \in Stamps, PushReturns(m) PROVE Marks'
  <2>1. push.at \in push.pub /\ push.at \in Joined /\ m \in push.todo /\ m \in sent
    BY <1>6 DEF PushReturns, Lists, PushLists, IsFirst
  <2> QED
    BY <1>1, <1>4, <1>6, <2>1, PushSentFacts DEF PushReturns
<1>7. ASSUME NEW m \in Stamps, NEW c \in Clients, ReplaySend(c, m) \/ ReplayReturns(c, m)
      PROVE  Marks'
  <2>1. m \in replay[c].todo /\ c \in Joined /\ m \in sent
    BY <1>7 DEF ReplaySend, ReplayReturns, IsFirst, Lists, PushLists
  <2>2. lastSent' = lastSent \/ lastSent' = [lastSent EXCEPT ![c] = m]
    BY <1>7, ReplayFacts
  <2> QED
    BY <1>4, <1>7, <2>1, <2>2 DEF ReplaySend, ReplayReturns
<1>8. CASE PushWake \/ UNCHANGED vars
  BY <1>1, <1>8 DEF PushWake, vars
<1>9. ASSUME NEW m \in Stamps, NEW c \in Clients, FanSkip(m, c) \/ FanSend(m, c) PROVE Marks'
  BY <1>1, <1>9 DEF FanSkip, FanSend
<1>10. ASSUME NEW m \in Stamps, PushSend(m) PROVE Marks'
  BY <1>1, <1>10 DEF PushSend
<1>11. ASSUME NEW c \in Clients, PushTurn(c) \/ Greeted(c) \/ Close(c) \/ Unregister(c)
       PROVE  Marks'
  BY <1>1, <1>11 DEF PushTurn, Greeted, Close, Unregister
<1>12. ASSUME NEW c \in Clients, NEW t \in Tiers, Register(c, t) PROVE Marks'
  BY <1>1, <1>12 DEF Register
<1> QED
  BY <1>2, <1>3, <1>5, <1>6, <1>7, <1>8, <1>9, <1>10, <1>11, <1>12 DEF Next

-------------------------------------------------------------------------------
\* Completeness.  What is served keeps its order as messages are written and
\* appended.
LEMMA FirstUnique ==
    ASSUME NEW S \in SUBSET Stamps, NEW m, NEW n, IsFirst(m, S), IsFirst(n, S)
    PROVE  m = n
BY DistributorFacts DEF IsFirst, Stamps

\* The message that went out may be taken off the list.
LEMMA TakeOff ==
    ASSUME Types, NEW c \in Clients, NEW S \in SUBSET Stamps, NEW m \in Stamps,
           Caught(c, S), OnWire(c, S, TRUE), IsFirst(m, S)
    PROVE  /\ \A x \in buf : x <= m => x \in got[c]
           /\ \A x \in buf, y \in S \ {m} : x < y => x \in S \ {m} \/ x \in got[c]
<1>1. m \in got[c] /\ m \in S
  BY DEF OnWire, IsFirst
<1>2. ASSUME NEW x \in buf, x <= m PROVE x \in got[c]
  <2>1. x \in Int /\ m \in Int
    BY DEF Types, Stamps
  <2>2. CASE x = m
    BY <1>1, <2>2
  <2>3. CASE x < m
    BY <1>1, <2>1, <2>3 DEF Caught, IsFirst
  <2> QED
    BY <1>2, <2>1, <2>2, <2>3
<1>3. \A x \in buf, y \in S \ {m} : x < y => x \in S \ {m} \/ x \in got[c]
  BY <1>1 DEF Caught
<1> QED
  BY <1>2, <1>3

LEMMA CompleteStep ==
    ASSUME Types, Lists, Complete, [Next]_vars
    PROVE  Complete'
<1> USE DistributorFacts DEF logVars, clientVars, wireVars
<1>0. Types' /\ \A x \in Clients : got[x] \in SUBSET Stamps /\ replay[x].todo \in SUBSET Stamps
  BY TypesStep DEF Lists, Types
<1>1. CASE UNCHANGED <<buf, got, lastSent, tier, push, replay>>
  BY <1>1 DEF Complete, Caught, OnWire, Public
<1>2. CASE Broadcast
  <2>1. buf' \subseteq buf \cup {now} /\ UNCHANGED <<got, lastSent, tier, push, replay>>
    BY <1>2 DEF Broadcast, Appended
  <2>2. \A y \in sent : y \in Nat /\ y <= now /\ y # now
    BY <1>2 DEF Broadcast, Lists, Marks, Types, Stamps
  <2>3. now \in Nat /\ now > 0
    BY DEF Types
  <2>4. \A c \in Clients : ~(now <= lastSent[c])
    BY <2>2, <2>3 DEF Lists, Marks
  <2>5. \A y \in sent : ~(now < y)
    BY <2>2, <2>3
  <2> QED
    BY <2>1, <2>4, <2>5 DEF Complete, Caught, OnWire, Public, Lists, PushLists
<1>3. ASSUME NEW m \in Stamps, FanReturns(m) PROVE Complete'
  <2>1. fan[m].at \in Clients \ Public
    BY <1>3 DEF FanReturns, Lists, FanLists, Joined
  <2>2. lastSent' = lastSent \/ lastSent' = [lastSent EXCEPT ![fan[m].at] = m]
    BY <1>3 DEF FanReturns, FanSent
  <2>3. \A c \in Public : lastSent'[c] = lastSent[c]
    BY <2>1, <2>2, MarkFacts DEF Public
  <2> QED
    BY <1>3, <2>3 DEF FanReturns, Complete, Caught, OnWire, Public
<1>4. ASSUME NEW m \in Stamps, NEW c \in Clients, FanSend(m, c) PROVE Complete'
  <2>1. \A x \in Clients : got[x] \subseteq got'[x]
    BY <1>4, WriteFacts DEF FanSend
  <2>2. push.at # Nobody => push.at \in Clients
    BY DEF Types
  <2> QED
    BY <1>4, <2>1, <2>2 DEF FanSend, Complete, Caught, OnWire, Public
<1>5. ASSUME NEW m \in Stamps, NEW c \in Clients, FanSkip(m, c) PROVE Complete'
  BY <1>1, <1>5 DEF FanSkip
<1>6. CASE push'.at = Nobody /\ UNCHANGED <<buf, got, lastSent, tier, replay>>
  BY <1>6 DEF Complete, Caught, OnWire, Public
<1>7. CASE PushWake
  BY <1>6, <1>7 DEF PushWake, IdlePush
<1>8. ASSUME NEW c \in Clients, PushTurn(c) PROVE Complete'
  <2>1. CASE PushLeaves(c, FALSE)
    <3>1. push'.at = Nobody
      BY <1>8, <2>1, PushLeavesFacts DEF PushTurn
    <3> QED
      BY <1>6, <1>8, <3>1 DEF PushTurn
  <2>2. CASE push' = [push EXCEPT !.at = c,
                          !.todo = {m \in buf : lastSent[c] < m /\ m <= push.cutoff}]
    <3> DEFINE due == {m \in buf : lastSent[c] < m /\ m <= push.cutoff}
    <3>1. push'.at = c /\ push'.todo = due /\ push'.waits = push.waits
      BY <2>2 DEF Types
    <3>2. UNCHANGED <<buf, got, lastSent, tier, replay>> /\ c \in Public
      BY <1>8 DEF PushTurn, Lists, PushLists
    <3>3. \A x \in buf : x \in Int /\ lastSent[c] \in Int /\ push.cutoff \in Int
      BY DEF Types, Stamps
    <3>4. \A x \in buf, y \in due : x < y => x \in due \/ x \in got[c]
      BY <3>2, <3>3 DEF Complete, Types, Stamps
    <3>5. ~push.waits
      BY <1>8 DEF PushTurn, Lists, PushLists
    <3> QED
      BY <3>1, <3>2, <3>4, <3>5 DEF Complete, Caught, OnWire, Public
  <2> QED
    BY <1>8, <2>1, <2>2 DEF PushTurn
<1>9. ASSUME NEW m \in Stamps, PushSend(m) PROVE Complete'
  <2>1. CASE PushLeaves(push.at, TRUE) /\ UNCHANGED got
    <3>1. push'.at = Nobody
      BY <1>9, <2>1, PushLeavesFacts DEF PushSend, Lists, PushLists
    <3> QED
      BY <1>6, <1>9, <2>1, <3>1 DEF PushSend
  <2>2. CASE Write(push.at, m) /\ push' = [push EXCEPT !.waits = TRUE]
    <3>1. push.at \in Clients /\ IsFirst(m, push.todo) /\ push.todo \in SUBSET Stamps
      BY <1>9 DEF PushSend, Types
    <3>2. push'.at = push.at /\ push'.todo = push.todo /\ UNCHANGED <<buf, lastSent, tier, replay>>
      BY <1>9, <2>2 DEF PushSend, Types
    <3>3. (\A x \in Clients : got[x] \subseteq got'[x]) /\ m \in got'[push.at]
      BY <2>2, <3>1, WriteFacts
    <3>4. \A n \in push.todo : IsFirst(n, push.todo) => n = m
      BY <3>1, FirstUnique
    <3> QED
      BY <1>9, <3>1, <3>2, <3>3, <3>4 DEF PushSend, Complete, Caught, OnWire, Public
  <2> QED
    BY <1>9, <2>1, <2>2 DEF PushSend
<1>10. ASSUME NEW m \in Stamps, PushReturns(m) PROVE Complete'
  <2>1. /\ push.at \in push.pub /\ push.at \in Clients /\ push.at \in Public
        /\ m \in push.todo /\ IsFirst(m, push.todo) /\ push.todo \in SUBSET Stamps
        /\ UNCHANGED <<buf, got, tier, replay>>
    BY <1>10 DEF PushReturns, Lists, PushLists, IsFirst, Types
  <2>2. CASE PushLeaves(push.at, TRUE) /\ UNCHANGED lastSent
    <3>1. push'.at = Nobody
      BY <2>1, <2>2, PushLeavesFacts
    <3> QED
      BY <1>6, <2>1, <2>2, <3>1
  <2>3. CASE PushSent(push.at, m)
    <3>1. Caught(push.at, push.todo) /\ OnWire(push.at, push.todo, TRUE)
      BY <1>10 DEF PushReturns, Complete, OnWire
    <3>2. /\ \A x \in buf : x <= m => x \in got[push.at]
          /\ \A x \in buf, y \in push.todo \ {m} :
                x < y => x \in push.todo \ {m} \/ x \in got[push.at]
      BY <2>1, <3>1, TakeOff
    <3>3. lastSent' = lastSent \/ lastSent' = [lastSent EXCEPT ![push.at] = m]
      BY <2>1, <2>3, PushSentFacts
    <3>4. /\ \A x \in Clients \ {push.at} : lastSent'[x] = lastSent[x]
          /\ lastSent'[push.at] \in {lastSent[push.at], m}
      BY <2>1, <3>3, MarkFacts
    <3>5. /\ push'.waits = FALSE
          /\ push'.at = Nobody \/ (push'.at = push.at /\ push'.todo = push.todo \ {m})
      BY <2>1, <2>3, PushSentFacts
    <3>6. \A c \in Public', x \in buf' : x <= lastSent'[c] => x \in got'[c]
      BY <2>1, <3>2, <3>4 DEF Complete, Public
    <3>7. push'.at # Nobody => \A x \in buf', y \in push'.todo :
                                  x < y => x \in push'.todo \/ x \in got'[push'.at]
      BY <2>1, <3>2, <3>5
    <3> QED
      BY <2>1, <3>5, <3>6, <3>7 DEF Complete, Caught, OnWire, Public
  <2> QED
    BY <1>10, <2>2, <2>3 DEF PushReturns
<1>11. ASSUME NEW m \in Stamps, NEW c \in Clients, ReplaySend(c, m) \/ ReplayReturns(c, m)
       PROVE  Complete'
  <2>1. /\ c \in Public /\ m \in replay[c].todo /\ IsFirst(m, replay[c].todo)
        /\ UNCHANGED <<buf, tier, push>>
    BY <1>11 DEF ReplaySend, ReplayReturns, Lists, PushLists, IsFirst
  <2>2. \A x \in Clients \ {c} : replay'[x] = replay[x]
    BY <1>11, ReplayFacts
  <2>3. push.at # Nobody => push.at \in Clients
    BY DEF Types
  <2>4. CASE /\ replay'[c] = [todo |-> replay[c].todo, waits |-> TRUE]
             /\ Write(c, m) /\ UNCHANGED lastSent
    <3>1. (\A x \in Clients : got[x] \subseteq got'[x]) /\ m \in got'[c]
      BY <2>4, WriteFacts
    <3>2. \A n \in replay[c].todo : IsFirst(n, replay[c].todo) => n = m
      BY <1>0, <2>1, FirstUnique
    <3> QED
      BY <2>1, <2>2, <2>3, <2>4, <3>1, <3>2 DEF Complete, Caught, OnWire, Public
  <2>5. CASE /\ replay'[c] = [todo |-> replay[c].todo \ {m}, waits |-> FALSE]
             /\ replay[c].waits /\ UNCHANGED got
             /\ lastSent' = lastSent \/ lastSent' = [lastSent EXCEPT ![c] = m]
    <3>1. Caught(c, replay[c].todo) /\ OnWire(c, replay[c].todo, TRUE)
      BY <2>1, <2>5 DEF Complete, OnWire
    <3>2. /\ \A x \in buf : x <= m => x \in got[c]
          /\ \A x \in buf, y \in replay[c].todo \ {m} :
                x < y => x \in replay[c].todo \ {m} \/ x \in got[c]
      <4>1. replay[c].todo \in SUBSET Stamps
        BY <1>0
      <4> QED
        BY <2>1, <3>1, <4>1, TakeOff
    <3>3. /\ \A x \in Clients \ {c} : lastSent'[x] = lastSent[x]
          /\ lastSent'[c] \in {lastSent[c], m}
      BY <2>5, MarkFacts
    <3>4. \A d \in Public', x \in buf' : x <= lastSent'[d] => x \in got'[d]
      BY <2>1, <2>5, <3>2, <3>3 DEF Complete, Public
    <3>5. replay'[c].waits = FALSE /\ \A x \in buf', y \in replay'[c].todo :
                                         x < y => x \in replay'[c].todo \/ x \in got'[c]
      BY <2>1, <2>5, <3>2
    <3> QED
      BY <2>1, <2>2, <2>5, <3>4, <3>5 DEF Complete, Caught, OnWire, Public
  <2>6. CASE replay'[c] = IdleReplay /\ UNCHANGED <<lastSent, got>>
    BY <2>1, <2>2, <2>6 DEF Complete, Caught, OnWire, Public, IdleReplay
  <2> QED
    BY <1>11, <2>4, <2>5, <2>6, ReplayFacts
<1>12. ASSUME NEW c \in Clients, NEW t \in Tiers, Register(c, t) PROVE Complete'
  <2>1. c \notin Joined /\ lastSent[c] = 0 /\ UNCHANGED <<buf, got, lastSent, push>>
    BY <1>12 DEF Register, Joined, Lists, Marks
  <2>2. push.at # c
    BY <2>1, DistributorFacts DEF Lists, PushLists
  <2>3. \A x \in Clients \ {c} : (x \in Public' <=> x \in Public) /\ replay'[x] = replay[x]
    BY <1>12 DEF Register, Public, Types
  <2>4. c \in Public' => replay'[c].todo = {}
    BY <1>12 DEF Register, Greeting, Public, Types
  <2>5. \A x \in buf : x \in Nat /\ x > 0
    BY DEF Types, Stamps
  <2>6. \A m \in buf' : ~(m <= lastSent'[c])
    BY <2>1, <2>5
  <2> QED
    BY <2>1, <2>2, <2>3, <2>4, <2>6 DEF Complete, Caught, OnWire, Public
<1>13. CASE Tick \/ UNCHANGED vars
  BY <1>1, <1>13 DEF Tick, vars
<1>14. ASSUME NEW c \in Clients, Close(c) PROVE Complete'
  BY <1>1, <1>14 DEF Close
<1>15. ASSUME NEW c \in Clients, Unregister(c) PROVE Complete'
  <2>1. /\ UNCHANGED <<buf, got, lastSent, tier, push>>
        /\ replay'[c].todo = {} /\ replay'[c].waits = FALSE
        /\ \A x \in Clients \ {c} : replay'[x] = replay[x]
    BY <1>15, UnregisterFacts DEF Unregister
  <2> QED
    BY <2>1 DEF Complete, Caught, OnWire, Public
<1>16. ASSUME NEW c \in Clients, Greeted(c) PROVE Complete'
  <2>1. /\ UNCHANGED <<buf, got, lastSent, tier, push>>
        /\ replay'[c].todo = Replayed /\ replay'[c].waits = FALSE
        /\ \A x \in Clients \ {c} : replay'[x] = replay[x]
    BY <1>16, GreetedFacts DEF Greeted
  <2>2. \A x \in buf, y \in Replayed : x < y => x \in Replayed
    <3>1. now - PublicDelay \in Int /\ \A x \in buf : x \in Int
      BY DEF Types, Stamps
    <3> QED
      BY <3>1 DEF Replayed
  <2> HIDE DEF Replayed
  <2> QED
    BY <2>1, <2>2 DEF Complete, Caught, OnWire, Public
<1> QED
  BY <1>2, <1>3, <1>4, <1>5, <1>7, <1>8, <1>9, <1>10, <1>11, <1>12, <1>13, <1>14, <1>15, <1>16
     DEF Next

-------------------------------------------------------------------------------
\* The delay.
LEMMA LateStep ==
    ASSUME Types, Lists, Late, [Next]_vars
    PROVE  Late'
<1> USE DistributorFacts DEF logVars, clientVars, wireVars
<1>0. /\ Joined \subseteq Joined' /\ Joined \cap Public = Joined \cap Public'
      /\ now \in Int /\ PublicDelay \in Int /\ push.cutoff \in Int
      /\ \A m \in Stamps : m \in Int
  BY JoinedGrows DEF Types, Stamps
<1>1. CASE now' \in {now, now + 1} /\ UNCHANGED <<got, tier, push, replay>>
  BY <1>0, <1>1 DEF Late, Public, Types
<1>2. CASE Tick \/ Broadcast \/ UNCHANGED vars
  BY <1>1, <1>2 DEF Tick, Broadcast, vars
<1>3. ASSUME NEW m \in Stamps, FanReturns(m) PROVE Late'
  BY <1>1, <1>3 DEF FanReturns
<1>4. ASSUME NEW m \in Stamps, NEW c \in Clients, FanSkip(m, c) PROVE Late'
  BY <1>1, <1>4 DEF FanSkip
<1>5. ASSUME NEW m \in Stamps, NEW c \in Clients, FanSend(m, c) PROVE Late'
  <2>1. c \in Joined \ Public
    BY <1>5 DEF FanSend, Lists, FanLists
  <2>2. \A x \in Clients \ {c} : got'[x] = got[x]
    BY <1>5, WriteFacts DEF FanSend
  <2> QED
    BY <1>0, <1>5, <2>1, <2>2 DEF FanSend, Late, Public
<1>6. ASSUME push'.pub # {} => push'.cutoff = push.cutoff, push'.pub \subseteq push.pub,
             push'.todo \subseteq push.todo, push'.todo # {} => push'.pub # {},
             UNCHANGED <<now, got, tier, replay>>
      PROVE  Late'
  BY <1>0, <1>6 DEF Late, Public
<1>7. CASE PushWake
  <2>1. push'.cutoff = now - PublicDelay /\ push'.todo = {}
    BY <1>7 DEF PushWake, IdlePush
  <2> QED
    BY <1>0, <1>7, <2>1 DEF PushWake, Late, Public
<1>8. ASSUME NEW c \in push.pub, NEW died \in BOOLEAN, PushLeaves(c, died),
             UNCHANGED <<now, got, tier, replay>>
      PROVE  Late'
  BY <1>6, <1>8, PushLeavesFacts
<1>9. ASSUME NEW c \in Clients, PushTurn(c) PROVE Late'
  <2>1. CASE push' = [push EXCEPT !.at = c,
                          !.todo = {m \in buf : lastSent[c] < m /\ m <= push.cutoff}]
    <3>1. /\ push'.pub = push.pub /\ push'.cutoff = push.cutoff
          /\ push'.todo = {m \in buf : lastSent[c] < m /\ m <= push.cutoff}
      BY <2>1 DEF Types
    <3> QED
      BY <1>0, <1>9, <3>1 DEF PushTurn, Late, Public
  <2> QED
    BY <1>8, <1>9, <2>1 DEF PushTurn
<1>10. ASSUME NEW m \in Stamps, PushSend(m) PROVE Late'
  <2>1. push.at \in push.pub /\ push.at \in Joined /\ push.at \in Clients /\ m \in push.todo
    BY <1>10 DEF PushSend, Lists, PushLists, IsFirst, Types
  <2>2. CASE Write(push.at, m) /\ push' = [push EXCEPT !.waits = TRUE]
    <3>1. push'.pub = push.pub /\ push'.cutoff = push.cutoff /\ push'.todo = push.todo
      BY <2>2 DEF Types
    <3>2. got'[push.at] = got[push.at] \cup {m} /\ \A x \in Clients \ {push.at} : got'[x] = got[x]
      BY <2>1, <2>2, WriteFacts
    <3>3. m <= now - PublicDelay
      BY <1>0, <2>1 DEF Late
    <3> QED
      BY <1>0, <1>10, <2>1, <3>1, <3>2, <3>3 DEF PushSend, Late, Public
  <2> QED
    BY <1>8, <1>10, <2>1, <2>2 DEF PushSend
<1>11. ASSUME NEW m \in Stamps, PushReturns(m) PROVE Late'
  <2>1. push.at \in push.pub /\ m \in push.todo /\ UNCHANGED <<now, got, tier, replay>>
    BY <1>11 DEF PushReturns, Lists, PushLists, IsFirst
  <2>2. CASE PushSent(push.at, m)
    BY <1>6, <2>1, <2>2, PushSentFacts
  <2> QED
    BY <1>8, <1>11, <2>1, <2>2 DEF PushReturns
<1>12. ASSUME NEW m \in Stamps, NEW c \in Clients, ReplaySend(c, m) \/ ReplayReturns(c, m)
       PROVE  Late'
  <2>1. /\ c \in Public /\ c \in Joined /\ m \in replay[c].todo /\ UNCHANGED <<now, tier, push>>
    BY <1>12 DEF ReplaySend, ReplayReturns, Lists, PushLists, IsFirst
  <2>2. m <= now - PublicDelay
    BY <2>1 DEF Late
  <2>3. \A x \in Clients : /\ got'[x] \subseteq got[x] \cup {m} /\ (x # c => got'[x] = got[x])
    <3>1. Write(c, m) \/ got' = got
      BY <1>12, ReplayFacts
    <3> QED
      BY <3>1, WriteFacts
  <2>4. \/ replay'[c] = [todo |-> replay[c].todo, waits |-> TRUE]
        \/ replay'[c] = [todo |-> replay[c].todo \ {m}, waits |-> FALSE]
        \/ replay'[c] = IdleReplay
    BY <1>12, ReplayFacts
  <2>5. replay'[c].todo \subseteq replay[c].todo
    BY <2>4 DEF IdleReplay
  <2>6. \A x \in Clients : replay'[x].todo \subseteq replay[x].todo
    BY <1>12, <2>5, ReplayFacts
  <2> QED
    BY <1>0, <2>1, <2>2, <2>3, <2>6 DEF Late, Public
<1>13. ASSUME NEW c \in Clients, NEW t \in Tiers, Register(c, t) PROVE Late'
  <2>1. c \notin Joined /\ got[c] = {} /\ UNCHANGED <<now, got, push, buf>>
    BY <1>13 DEF Register, Joined, Late
  <2>2. \A x \in Clients \ {c} : (x \in Public' <=> x \in Public) /\ replay'[x] = replay[x]
    BY <1>13 DEF Register, Public, Types
  <2>3. c \in Public' => replay'[c].todo = {}
    BY <1>13 DEF Register, Greeting, Public, Types
  <2> QED
    BY <1>0, <2>1, <2>2, <2>3 DEF Late, Public
<1>14. ASSUME NEW c \in Clients, Close(c) PROVE Late'
  BY <1>1, <1>14 DEF Close
<1>15. ASSUME NEW c \in Clients, UNCHANGED <<now, got, tier, push>>,
              \A m \in replay'[c].todo : m <= now - PublicDelay,
              \A x \in Clients \ {c} : replay'[x] = replay[x]
       PROVE  Late'
  BY <1>0, <1>15 DEF Late, Public
<1>16. ASSUME NEW c \in Clients, Greeted(c) PROVE Late'
  <2>1. replay'[c].todo = Replayed
    BY <1>16, GreetedFacts
  <2>2. \A m \in replay'[c].todo : m <= now - PublicDelay
    BY <2>1 DEF Replayed
  <2> QED
    BY <1>15, <1>16, <2>2, GreetedFacts DEF Greeted
<1>17. ASSUME NEW c \in Clients, Unregister(c) PROVE Late'
  BY <1>15, <1>17, UnregisterFacts DEF Unregister
<1> QED
  BY <1>2, <1>3, <1>4, <1>5, <1>7, <1>9, <1>10, <1>11, <1>12, <1>13, <1>14, <1>16, <1>17 DEF Next

-------------------------------------------------------------------------------
\* broadcast() and the real-time clients.
LEMMA ReachedStep ==
    ASSUME Types, Lists, Reached, [Next]_vars
    PROVE  Reached'
<1> USE DistributorFacts DEF logVars, clientVars, wireVars
<1>1. ASSUME clients' \subseteq clients, UNCHANGED <<sent, tier, missed, fan>>,
             \A x \in Clients : got[x] \subseteq got'[x]
      PROVE  Reached'
  <2>1. \A m \in Stamps : fan[m].at # Nobody => fan[m].at \in Clients
    BY DEF Types
  <2> QED
    BY <1>1, <2>1 DEF Reached, Types
<1>2. CASE Broadcast
  <2>1. fan[now] = IdleFan
    BY <1>2 DEF Broadcast, Lists, FanLists
  <2>2. fan[now].at = Nobody
    BY <2>1 DEF IdleFan
  <2>3. /\ fan'[now].todo = clients \ Public /\ fan'[now].at = Nobody
        /\ \A m \in Stamps \ {now} : fan'[m] = fan[m]
    BY <1>2, <2>2 DEF Broadcast, Types
  <2>4. clients \ Public = {} => fan'[now] = IdleFan
    BY <1>2 DEF Broadcast, Types, IdleFan
  <2> QED
    BY <1>2, <2>3, <2>4 DEF Broadcast, Reached, Public, Types
<1>3. ASSUME NEW m \in Stamps, NEW c \in fan[m].todo, NEW died \in BOOLEAN,
             FanLeaves(m, c, died), UNCHANGED <<sent, tier, missed, got>>,
             c \in clients' /\ tier[c] = "searcher" /\ m \notin missed[c]
                => m \in got[c] \/ died
      PROVE  Reached'
  <2>1. /\ clients' \subseteq clients /\ fan'[m].at = Nobody
        /\ fan'[m].todo = fan[m].todo \ {c} /\ (fan'[m] = IdleFan \/ fan'[m].todo # {})
        /\ \A x \in clients' : x \in fan[m].dead => x \in fan'[m].dead
        /\ (died /\ c \in clients') => c \in fan'[m].dead
    BY <1>3, FanLeavesFacts
  <2>2. \A n \in Stamps \ {m} : fan'[n] = fan[n]
    BY <1>3, FanLeavesFacts
  <2> QED
    BY <1>3, <2>1, <2>2 DEF Reached, Types
<1>4. ASSUME NEW m \in Stamps, FanReturns(m) PROVE Reached'
  <2>1. fan[m].at \in fan[m].todo /\ m \in got[fan[m].at]
    BY <1>4 DEF FanReturns, Lists, FanLists, Reached
  <2> QED
    BY <1>3, <1>4, <2>1 DEF FanReturns, FanSent
<1>5. ASSUME NEW m \in Stamps, NEW c \in Clients, FanSkip(m, c) PROVE Reached'
  BY <1>3, <1>5 DEF FanSkip
<1>6. ASSUME NEW m \in Stamps, NEW c \in Clients, FanSend(m, c) PROVE Reached'
  <2>1. CASE Write(c, m) /\ fan' = [fan EXCEPT ![m].at = c] /\ UNCHANGED clients
    <3>1. /\ fan'[m].at = c /\ fan'[m].todo = fan[m].todo /\ fan'[m].dead = fan[m].dead
          /\ fan[m].todo # {} /\ \A n \in Stamps \ {m} : fan'[n] = fan[n]
      BY <1>6, <2>1 DEF FanSend, Types
    <3>2. (\A x \in Clients : got[x] \subseteq got'[x]) /\ m \in got'[c]
      BY <2>1, WriteFacts
    <3>3. \A n \in Stamps : fan[n].at # Nobody => fan[n].at \in Clients
      BY DEF Types
    <3> QED
      BY <1>6, <2>1, <3>1, <3>2, <3>3 DEF FanSend, Reached, Types
  <2> QED
    BY <1>3, <1>6, <2>1 DEF FanSend
<1>7. CASE Tick \/ PushWake \/ UNCHANGED vars
  BY <1>1, <1>7 DEF Tick, PushWake, vars
<1>8. ASSUME NEW c \in Clients, PushTurn(c) PROVE Reached'
  <2>1. clients' \subseteq clients
    BY <1>8, PushLeavesFacts DEF PushTurn
  <2> QED
    BY <1>1, <1>8, <2>1 DEF PushTurn
<1>9. ASSUME NEW m \in Stamps, PushSend(m) \/ PushReturns(m) PROVE Reached'
  <2>1. push.at \in push.pub /\ m \in push.todo /\ push.at \in Clients
    BY <1>9 DEF PushSend, PushReturns, Lists, PushLists, IsFirst, Types
  <2>2. clients' \subseteq clients
    BY <1>9, <2>1, PushLeavesFacts, PushSentFacts DEF PushSend, PushReturns
  <2>3. \A x \in Clients : got[x] \subseteq got'[x]
    BY <1>9, <2>1, WriteFacts DEF PushSend, PushReturns
  <2> QED
    BY <1>1, <1>9, <2>2, <2>3 DEF PushSend, PushReturns
<1>10. ASSUME NEW m \in Stamps, NEW c \in Clients, ReplaySend(c, m) \/ ReplayReturns(c, m)
       PROVE  Reached'
  <2>1. \A x \in Clients : got[x] \subseteq got'[x]
    BY <1>10, ReplayFacts, WriteFacts
  <2> QED
    BY <1>1, <1>10, <2>1 DEF ReplaySend, ReplayReturns
<1>11. ASSUME NEW c \in Clients, NEW t \in Tiers, Register(c, t) PROVE Reached'
  <2>1. \A x \in Clients \ {c} : tier'[x] = tier[x] /\ missed'[x] = missed[x]
    BY <1>11 DEF Register, Types
  <2>2. tier'[c] = t /\ (t # "public" => missed'[c] = sent)
    BY <1>11 DEF Register, Types
  <2> QED
    BY <1>11, <2>1, <2>2 DEF Register, Reached, Types
<1>12. ASSUME NEW c \in Clients, Greeted(c) \/ Close(c) \/ Unregister(c) PROVE Reached'
  BY <1>1, <1>12 DEF Greeted, Close, Unregister
<1> QED
  BY <1>2, <1>4, <1>5, <1>6, <1>7, <1>8, <1>9, <1>10, <1>11, <1>12 DEF Next

-------------------------------------------------------------------------------
\* A finite set of naturals that is not empty has a least element.
LEMMA FiniteMin ==
    ASSUME NEW S \in SUBSET Nat, IsFiniteSet(S), S # {}
    PROVE  \E m \in S : \A x \in S : m <= x
  <1> DEFINE Unbounded == {T \in FiniteSubsetsOf(S) :
                              T # {} /\ ~ \E m \in T : \A x \in T : m <= x}
  <1>1. S \in FiniteSubsetsOf(S)
    BY DEF FiniteSubsetsOf
  <1>2. SUFFICES ASSUME Unbounded # {} PROVE FALSE
    BY <1>1
  <1>3. PICK T \in Unbounded : \A U \in Unbounded : <<U, T>> \notin StrictSubsetOrdering(S)
    <2>1. Unbounded \subseteq FiniteSubsetsOf(S)
      OBVIOUS
    <2> HIDE DEF Unbounded
    <2> QED BY <1>2, <2>1, FS_StrictSubsetOrderingWellFounded, WFMin
  <1>4. PICK x : x \in T
    OBVIOUS
  <1> DEFINE U == T \ {x}
  <1>5. U \in FiniteSubsetsOf(S) /\ <<U, T>> \in StrictSubsetOrdering(S)
    BY <1>4, FS_Subset DEF FiniteSubsetsOf, StrictSubsetOrdering
  <1>6. U # {}
    BY <1>3, <1>4 DEF FiniteSubsetsOf
  <1>7. PICK m \in U : \A y \in U : m <= y
    BY <1>3, <1>5, <1>6
  <1>8. x \in Nat /\ m \in Nat /\ m \in T /\ \A y \in T : y \in Nat
    BY <1>4, <1>7 DEF FiniteSubsetsOf
  <1>9. \A y \in T : y = x \/ y \in U
    OBVIOUS
  <1>10. CASE x <= m
    BY <1>3, <1>4, <1>7, <1>8, <1>9, <1>10
  <1>11. CASE m <= x
    BY <1>3, <1>4, <1>7, <1>8, <1>9, <1>11
  <1> QED BY <1>8, <1>10, <1>11

\* Whatever the deque holds, it is no longer than its maxlen after an append.
LEMMA AppendedFits ==
    ASSUME NEW S, IsFiniteSet(S), S \subseteq Nat, Cardinality(S) <= BufLen, NEW m
    PROVE  Cardinality(Appended(S, m)) <= BufLen
<1> USE DistributorAssumption
<1>1. CASE Cardinality(S) < BufLen
  <2>1. Appended(S, m) = S \cup {m}
    BY <1>1 DEF Appended
  <2>2. Cardinality(S) \in Nat
    BY FS_CardinalityType
  <2>3. Cardinality(S \cup {m}) = IF m \in S THEN Cardinality(S) ELSE Cardinality(S) + 1
    BY FS_AddElement
  <2> QED
    BY <1>1, <2>1, <2>2, <2>3
<1>2. CASE ~(Cardinality(S) < BufLen)
  <2> DEFINE first == {x \in S : IsFirst(x, S)}
             rest  == S \ first
  <2>1. Appended(S, m) = rest \cup {m} /\ Cardinality(S) = BufLen
    <3>1. Cardinality(S) \in Nat
      BY FS_CardinalityType
    <3> QED
      BY <1>2, <3>1 DEF Appended
  <2>2. PICK x \in S : IsFirst(x, S)
    <3>1. S # {}
      BY <2>1, FS_EmptySet
    <3> QED
      BY <3>1, FiniteMin DEF IsFirst
  <2>3. rest \subseteq S \ {x}
    BY <2>2
  <2> HIDE DEF rest
  <2>4. IsFiniteSet(S \ {x}) /\ Cardinality(S \ {x}) = BufLen - 1
    BY <2>1, <2>2, FS_RemoveElement
  <2>5. IsFiniteSet(rest) /\ Cardinality(rest) <= BufLen - 1 /\ Cardinality(rest) \in Nat
    <3>1. IsFiniteSet(rest) /\ Cardinality(rest) <= Cardinality(S \ {x})
      BY <2>3, <2>4, FS_Subset
    <3>2. Cardinality(rest) \in Nat
      BY <3>1, FS_CardinalityType
    <3> QED
      BY <2>4, <3>1, <3>2
  <2>6. Cardinality(rest \cup {m})
            = IF m \in rest THEN Cardinality(rest) ELSE Cardinality(rest) + 1
    BY <2>5, FS_AddElement
  <2>7. Cardinality(rest \cup {m}) \in Nat
    BY <2>5, FS_AddElement, FS_CardinalityType
  <2> QED
    BY <2>1, <2>5, <2>6, <2>7
<1> QED
  BY <1>1, <1>2

\* The buffer is never longer than its maxlen: only broadcast() appends.
LEMMA BufferFits ==
    ASSUME Types, [Next]_vars, Cardinality(buf) <= BufLen
    PROVE  Cardinality(buf)' <= BufLen
<1>1. buf' = buf \/ buf' = Appended(buf, now)
  BY DEF Next, vars, logVars, Tick, Broadcast, FanReturns, FanSkip, FanSend, PushWake, PushTurn,
         PushSend, PushReturns, ReplaySend, ReplayReturns, Register, Greeted, Close, Unregister
<1>2. buf \subseteq Nat /\ IsFiniteSet(buf)
  <2>1. IsFiniteSet(Stamps)
    BY DistributorFacts, FS_Interval DEF Stamps
  <2>2. buf \subseteq Stamps
    BY DEF Types
  <2>3. Stamps \subseteq Nat
    BY DEF Stamps
  <2> QED
    BY <2>1, <2>2, <2>3, FS_Subset
<1> QED
  BY <1>1, <1>2, AppendedFits

LEMMA Inductive == Spec => []IInv
<1>1. IInv /\ [Next]_vars => IInv'
  BY TypesStep, FanListsStep, PushListsStep, MarksStep, CompleteStep, LateStep, ReachedStep
     DEF IInv, Lists
<1> QED
  BY <1>1, InitHolds, PTL DEF Spec

\* The buffer holds messages that were broadcast, and at most its maxlen of
\* them; the lists of the coroutines are those of clients (_delay_buf).
THEOREM TypeCorrect == Spec => []TypeOK
<1> DEFINE Fits == Cardinality(buf) <= BufLen
<1>1. Init => Fits
  BY DistributorAssumption, FS_EmptySet DEF Init
<1>2. IInv /\ Fits /\ [Next]_vars => Fits'
  BY BufferFits DEF IInv
<1>3. IInv /\ Fits => TypeOK
  BY DEF IInv, Types, TypeOK
<1> QED
  BY <1>1, <1>2, <1>3, Inductive, PTL DEF Spec

\* Whatever the replay and the pusher do to a public client at the same time, he
\* misses nothing up to last_sent but what overflowed (wss_distributor.py,
\* _replay_public and _push_public_delayed).
THEOREM PublicIsComplete == Spec => []PublicComplete
<1>1. IInv => PublicComplete
  BY DEF IInv, Complete, PublicComplete
<1> QED
  BY <1>1, Inductive, PTL

\* No message reaches a public client before its delay, for any delay.
THEOREM PublicIsDelayed == Spec => []PublicDelayed
<1>1. IInv => PublicDelayed
  BY DistributorFacts DEF IInv, Late, PublicDelayed, Types, Stamps
<1> QED
  BY <1>1, Inductive, PTL

\* broadcast() leaves no registered real-time client without the message
\* (wss_distributor.py, broadcast).
THEOREM RealtimeIsComplete == Spec => []RealtimeComplete
<1>1. IInv => RealtimeComplete
  BY DEF IInv, Reached, RealtimeComplete, IdleFan, Types
<1> QED
  BY <1>1, Inductive, PTL
===============================================================================
