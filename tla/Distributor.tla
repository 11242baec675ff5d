------------------------------ MODULE Distributor ------------------------------
(***************************************************************************)
(* The WebSocket distributor (src/probe/wss_distributor.py): broadcast()   *)
(* runs once per metric, several at a time; the pusher feeds the public    *)
(* clients out of the delay buffer; a handler per connection replays it.   *)
(* They are coroutines of one loop and interleave wherever one awaits a    *)
(* send, which lasts a second at most.                                     *)
(*                                                                         *)
(* A message is named by its timestamp.  Signing, scores and the text of   *)
(* messages are left out.                                                  *)
(***************************************************************************)
EXTENDS Integers, FiniteSets

CONSTANTS
    Clients,       \* WebSocket connections, each of which is used once
    Access,        \* the tiers each may get for the key it sends
    PublicDelay,   \* PUBLIC_DELAY_S (300)
    DemoInterval,  \* DEMO_INTERVAL_S (30)
    BufLen,        \* maxlen of _delay_buf (2000)
    LastMetric,    \* bound on the instants at which a metric may come
    Nobody

ASSUME DistributorAssumption ==
    /\ PublicDelay \in Nat /\ DemoInterval \in Nat
    /\ BufLen \in Nat \ {0} /\ LastMetric \in Nat
    /\ Nobody \notin Clients
    /\ Access \in [Clients -> SUBSET {"public", "demo", "searcher"}]

\* Any other tier is served like a searcher's.
Tiers == {"public", "demo", "searcher"}
Stamps == 1..LastMetric
Horizon == LastMetric + PublicDelay + 1

VARIABLES
    now,
    sent,      \* messages broadcast: no code state
    buf,       \* _delay_buf
    clients,   \* keys of self.clients
    tier, lastSent,  \* what self.clients holds of each
    conn,      \* the connection: "new", "open" or "closed"
    got,       \* messages written to the connection: no code state
    missed,    \* messages broadcast before it registered, for a client that
               \* broadcast() serves: no code state
    fan,       \* broadcast(): per message, clients to visit, the one whose
               \* send is awaited, and the dead
    push,      \* _push_public_delayed: the same over the public clients, and
               \* the messages for the client it is at
    replay     \* _replay_public: messages to send, and whether one is awaited,
               \* or AUTH_OK before them

clientVars == <<clients, tier, lastSent>>
wireVars   == <<conn, got>>
logVars    == <<sent, buf, missed>>
vars == <<now, logVars, clientVars, wireVars, fan, push, replay>>

IdleFan == [todo |-> {}, at |-> Nobody, dead |-> {}]
IdlePush == [pub |-> {}, at |-> Nobody, todo |-> {}, waits |-> FALSE, cutoff |-> 0, dead |-> {}]
IdleReplay == [todo |-> {}, waits |-> FALSE]
Greeting == [todo |-> {}, waits |-> TRUE]
Public == {c \in Clients : tier[c] = "public"}

IsFirst(m, S) == m \in S /\ \A x \in S : m <= x

Init ==
    /\ now = 1 /\ sent = {} /\ buf = {}
    /\ clients = {} /\ tier = [c \in Clients |-> "public"]
    /\ lastSent = [c \in Clients |-> 0]
    /\ conn = [c \in Clients |-> "new"]
    /\ got = [c \in Clients |-> {}] /\ missed = [c \in Clients |-> {}]
    /\ fan = [m \in Stamps |-> IdleFan]
    /\ push = IdlePush
    /\ replay = [c \in Clients |-> IdleReplay]

Tick ==
    /\ now < Horizon /\ now' = now + 1
    /\ UNCHANGED <<logVars, clientVars, wireVars, fan, push, replay>>

-------------------------------------------------------------------------------
\* Appending to a full deque drops its oldest entry.
Appended_Unbounded(S, m) == S \cup {m}
Appended(S, m) ==
    IF Cardinality(S) < BufLen THEN S \cup {m}
    ELSE (S \ {x \in S : IsFirst(x, S)}) \cup {m}

\* broadcast(), up to its first await.  Public clients are passed over.  A
\* metric of a chain that has no list in the bucket raises in _update_metrics,
\* after it was logged: it takes no step here.
Broadcast ==
    /\ now \in Stamps \ sent /\ sent' = sent \cup {now}
    /\ buf' = Appended(buf, now)
    /\ fan' = [fan EXCEPT ![now] = [todo |-> clients \ Public, at |-> Nobody, dead |-> {}]]
    /\ UNCHANGED <<now, missed, clientVars, wireVars, push, replay>>

\* A send writes the message to an open connection and returns when the peer
\* has room, which may be at once; to a closed one it raises.
Write(c, m) == got' = [got EXCEPT ![c] = @ \cup {m}]

\* broadcast(m) is done with client c; after the last one it removes the dead.
FanLeaves(m, c, died) ==
    LET todo == fan[m].todo \ {c}
        dead == IF died THEN fan[m].dead \cup {c} ELSE fan[m].dead
    IN  IF todo = {}
        THEN /\ fan' = [fan EXCEPT ![m] = IdleFan]
             /\ clients' = clients \ dead
        ELSE /\ fan' = [fan EXCEPT ![m] = [todo |-> todo, at |-> Nobody, dead |-> dead]]
             /\ UNCHANGED clients

\* The message counts for the client if he is still there, or else KeyError.
FanSent(m, c) ==
    /\ lastSent' = IF c \in clients THEN [lastSent EXCEPT ![c] = m] ELSE lastSent
    /\ FanLeaves(m, c, c \notin clients)

FanSkip(m, c) ==
    /\ c \in fan[m].todo /\ fan[m].at = Nobody
    /\ tier[c] = "demo" /\ m - lastSent[c] < DemoInterval
    /\ FanLeaves(m, c, FALSE)
    /\ UNCHANGED <<now, logVars, tier, lastSent, wireVars, push, replay>>

FanSend_SwallowsError(m, c) ==
    /\ c \in fan[m].todo /\ fan[m].at = Nobody
    /\ tier[c] = "demo" => m - lastSent[c] >= DemoInterval
    /\ \/ /\ conn[c] = "open" /\ Write(c, m)
          /\ fan' = [fan EXCEPT ![m].at = c] /\ UNCHANGED clients
       \/ conn[c] = "closed" /\ FanLeaves(m, c, FALSE) /\ UNCHANGED got
    /\ UNCHANGED <<now, logVars, tier, lastSent, conn, push, replay>>
FanSend(m, c) ==
    /\ c \in fan[m].todo /\ fan[m].at = Nobody
    /\ tier[c] = "demo" => m - lastSent[c] >= DemoInterval
    /\ \/ /\ conn[c] = "open" /\ Write(c, m)
          /\ fan' = [fan EXCEPT ![m].at = c] /\ UNCHANGED clients
       \/ conn[c] = "closed" /\ FanLeaves(m, c, TRUE) /\ UNCHANGED got
    /\ UNCHANGED <<now, logVars, tier, lastSent, conn, push, replay>>

\* The awaited send ends, or it times out or the connection closes.
FanReturns(m) ==
    LET c == fan[m].at
    IN  /\ c # Nobody
        /\ \/ conn[c] = "open" /\ FanSent(m, c)
           \/ FanLeaves(m, c, TRUE) /\ UNCHANGED lastSent
        /\ UNCHANGED <<now, logVars, tier, wireVars, push, replay>>

-------------------------------------------------------------------------------
PushWake_SkipsReplayed ==
    /\ push.pub = {} /\ push.at = Nobody
    /\ {c \in clients \cap Public : lastSent[c] > 0} # {}
    /\ push' = [IdlePush EXCEPT !.pub = {c \in clients \cap Public : lastSent[c] > 0},
                                !.cutoff = now - PublicDelay]
    /\ UNCHANGED <<now, logVars, clientVars, wireVars, fan, replay>>
\* The pusher wakes every two seconds and fixes the clients and the cutoff.
PushWake ==
    /\ push.pub = {} /\ push.at = Nobody /\ clients \cap Public # {}
    /\ push' = [IdlePush EXCEPT !.pub = clients \cap Public, !.cutoff = now - PublicDelay]
    /\ UNCHANGED <<now, logVars, clientVars, wireVars, fan, replay>>

\* The pusher is done with a client; after the last one it removes the dead.
PushLeaves(c, died) ==
    LET dead == IF died THEN push.dead \cup {c} ELSE push.dead
    IN  IF push.pub \ {c} = {}
        THEN push' = IdlePush /\ clients' = clients \ dead
        ELSE /\ push' = [push EXCEPT !.pub = @ \ {c}, !.at = Nobody, !.todo = {},
                                     !.waits = FALSE, !.dead = dead]
             /\ UNCHANGED clients

\* What is due to a client is fixed when the pusher comes to him.
PushTurn(c) ==
    LET due == {m \in buf : lastSent[c] < m /\ m <= push.cutoff}
    IN  /\ c \in push.pub /\ push.at = Nobody
        /\ \/ due = {} /\ PushLeaves(c, FALSE)
           \/ /\ due # {} /\ push' = [push EXCEPT !.at = c, !.todo = due]
              /\ UNCHANGED clients
        /\ UNCHANGED <<now, logVars, tier, lastSent, wireVars, fan, replay>>

PushSent(c, m) ==
    IF c \in clients
    THEN /\ lastSent' = [lastSent EXCEPT ![c] = m]
         /\ \/ push.todo = {m} /\ PushLeaves(c, FALSE)
            \/ /\ push.todo # {m}
               /\ push' = [push EXCEPT !.todo = @ \ {m}, !.waits = FALSE]
               /\ UNCHANGED clients
    ELSE PushLeaves(c, TRUE) /\ UNCHANGED lastSent

PushSend(m) ==
    LET c == push.at
    IN  /\ c # Nobody /\ ~push.waits /\ IsFirst(m, push.todo)
        /\ \/ /\ conn[c] = "open" /\ Write(c, m)
              /\ push' = [push EXCEPT !.waits = TRUE] /\ UNCHANGED clients
           \/ conn[c] = "closed" /\ PushLeaves(c, TRUE) /\ UNCHANGED got
        /\ UNCHANGED <<now, logVars, tier, lastSent, conn, fan, replay>>

PushReturns(m) ==
    LET c == push.at
    IN  /\ c # Nobody /\ push.waits /\ IsFirst(m, push.todo)
        /\ \/ conn[c] = "open" /\ PushSent(c, m)
           \/ PushLeaves(c, TRUE) /\ UNCHANGED lastSent
        /\ UNCHANGED <<now, logVars, tier, wireVars, fan, replay>>

-------------------------------------------------------------------------------
\* handle_client admits a connection with the tier its key has and sends
\* AUTH_OK; of that send only a public client's is of consequence.
Register(c, t) ==
    /\ conn[c] = "new" /\ t \in Access[c] /\ conn' = [conn EXCEPT ![c] = "open"]
    /\ clients' = clients \cup {c} /\ tier' = [tier EXCEPT ![c] = t]
    /\ missed' = [missed EXCEPT ![c] = IF t = "public" THEN {} ELSE sent]
    /\ replay' = IF t = "public" THEN [replay EXCEPT ![c] = Greeting] ELSE replay
    /\ UNCHANGED <<now, sent, buf, lastSent, got, fan, push>>

Replayed_All == buf
\* What the replay takes: the buffer up to the cutoff
Replayed == {m \in buf : m <= now - PublicDelay}

\* AUTH_OK is through: only now the replay fixes its cutoff and its list.
Greeted(c) ==
    /\ replay[c] = Greeting /\ conn[c] = "open"
    /\ replay' = [replay EXCEPT ![c] = [todo |-> Replayed, waits |-> FALSE]]
    /\ UNCHANGED <<now, logVars, clientVars, wireVars, fan, push>>

ReplaySent_AllAtOnce(c, m) ==
    /\ replay' = [replay EXCEPT ![c] = [todo |-> @.todo \ {m}, waits |-> FALSE]]
    /\ lastSent' = IF c \in clients
                   THEN [lastSent EXCEPT ![c] = CHOOSE x \in replay[c].todo :
                                                   \A y \in replay[c].todo : y <= x]
                   ELSE lastSent
ReplaySent(c, m) ==
    /\ replay' = [replay EXCEPT ![c] = [todo |-> @.todo \ {m}, waits |-> FALSE]]
    /\ lastSent' = IF c \in clients THEN [lastSent EXCEPT ![c] = m] ELSE lastSent

ReplayEnds(c) ==
    replay' = [replay EXCEPT ![c] = IdleReplay] /\ UNCHANGED lastSent

ReplaySend(c, m) ==
    /\ IsFirst(m, replay[c].todo) /\ ~replay[c].waits
    /\ \/ /\ conn[c] = "open" /\ Write(c, m)
          /\ replay' = [replay EXCEPT ![c] = [todo |-> @.todo, waits |-> TRUE]] /\ UNCHANGED lastSent
       \/ conn[c] = "closed" /\ ReplayEnds(c) /\ UNCHANGED got
    /\ UNCHANGED <<now, logVars, clients, tier, conn, fan, push>>

\* A send that fails ends the replay, but not the session.
ReplayReturns(c, m) ==
    /\ IsFirst(m, replay[c].todo) /\ replay[c].waits
    /\ \/ conn[c] = "open" /\ ReplaySent(c, m)
       \/ ReplayEnds(c)
    /\ UNCHANGED <<now, logVars, clients, tier, wireVars, fan, push>>

\* The peer closes, or the keepalive does.
Close(c) ==
    /\ conn[c] = "open" /\ conn' = [conn EXCEPT ![c] = "closed"]
    /\ UNCHANGED <<now, logVars, clientVars, got, fan, push, replay>>

\* handle_client wakes from wait_closed, after its replay, or from AUTH_OK.
Unregister(c) ==
    /\ conn[c] = "closed" /\ replay[c].todo = {} /\ (c \in clients \/ replay[c] = Greeting)
    /\ clients' = clients \ {c} /\ replay' = [replay EXCEPT ![c] = IdleReplay]
    /\ UNCHANGED <<now, logVars, tier, lastSent, wireVars, fan, push>>

-------------------------------------------------------------------------------
Pusher ==
    \/ PushWake
    \/ \E c \in Clients : PushTurn(c)
    \/ \E m \in Stamps : PushSend(m) \/ PushReturns(m)
Next ==
    \/ Tick \/ Broadcast
    \/ \E m \in Stamps :
        \/ FanReturns(m) \/ PushSend(m) \/ PushReturns(m)
        \/ \E c \in Clients :
            FanSkip(m, c) \/ FanSend(m, c) \/ ReplaySend(c, m) \/ ReplayReturns(c, m)
    \/ PushWake
    \/ \E c \in Clients : PushTurn(c) \/ Greeted(c) \/ Close(c) \/ Unregister(c)
    \/ \E c \in Clients, t \in Tiers : Register(c, t)

\* Time passes, and the loop runs the pusher, whose every send ends within its
\* second.  What the public gets does not hang on the other coroutines.
Spec == Init /\ [][Next]_vars /\ WF_vars(Tick) /\ WF_vars(Pusher)
-------------------------------------------------------------------------------
TypeOK ==
    /\ now \in 1..Horizon /\ sent \subseteq Stamps /\ buf \subseteq sent /\ Cardinality(buf) <= BufLen
    /\ clients \subseteq Clients /\ tier \in [Clients -> Tiers]
    /\ lastSent \in [Clients -> 0..LastMetric]
    /\ conn \in [Clients -> {"new", "open", "closed"}]
    /\ got \in [Clients -> SUBSET Stamps] /\ missed \in [Clients -> SUBSET Stamps]
    /\ fan \in [Stamps -> [todo : SUBSET Clients, at : Clients \cup {Nobody}, dead : SUBSET Clients]]
    /\ push \in [pub : SUBSET Clients, at : Clients \cup {Nobody}, todo : SUBSET Stamps,
                 waits : BOOLEAN, cutoff : Int, dead : SUBSET Clients]
    /\ replay \in [Clients -> [todo : SUBSET Stamps, waits : BOOLEAN]]

\* Up to last_sent a public client has every message that was broadcast and
\* did not overflow out of the buffer, although the replay and the pusher may
\* serve him at once and set last_sent back and forth (lines 386-397, 461-468).
PublicComplete ==
    \A c \in clients \cap Public, m \in sent :
        m <= lastSent[c] => m \in got[c] \/ m \notin buf

\* Nothing reaches a public client before PUBLIC_DELAY_S, by whichever of the
\* three coroutines (lines 388-391, 434, 455-464).
PublicDelayed ==
    \A c \in Public, m \in Stamps : m \in got[c] => now - m >= PublicDelay

\* A real-time client who is still registered when broadcast() is done has the
\* message: only a removed client misses one (lines 439-449).
RealtimeComplete ==
    \A c \in clients, m \in sent :
        (tier[c] = "searcher" /\ m \notin missed[c] /\ fan[m] = IdleFan) => m \in got[c]

\* When the metrics stop, every public client gets what the buffer holds,
\* unless he is removed (lines 451-473).
PublicServed == <>[](\A c \in clients \cap Public : buf \subseteq got[c])
===============================================================================
