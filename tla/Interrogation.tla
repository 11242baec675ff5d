----------------------------- MODULE Interrogation -----------------------------
(***************************************************************************)
(* The interrogation of the Silicon DNA server (src/gateway/server.ts):    *)
(* one-time Argon2id challenges per address, the handler that verifies     *)
(* them and awaits the hash in the middle, the governor and the adaptive   *)
(* memory cost.  Several pages may share an address.                       *)
(*                                                                         *)
(* Times are kept as time left or time since.  A memory cost in KiB is a   *)
(* fraction: dividing by 1.5 need not leave a whole number.                *)
(***************************************************************************)
EXTENDS Integers

CONSTANTS
    Ips,
    MaxDrawn,   \* bound: challenges drawn in a behaviour
    None,
    PowLimit,   \* POW_LIMIT_PER_SEC
    PowTtl      \* ttl of pendingChallenges and verifiedPoW

ASSUME InterrogationAssumption ==
    /\ MaxDrawn \in Nat /\ PowLimit \in Nat \ {0} /\ PowTtl \in Nat \ {0}
    /\ None \notin Nat

Targets == 1..MaxDrawn

VARIABLES
    banned,     \* addresses in bannedIPs
    governor,   \* globalPowGovernor: count, and time since lastReset
    drawn,      \* targets drawn so far, in order
    pending,    \* pendingChallenges: the target of each address or None
    pendLeft,
    solving,    \* pages at work: [ip, target, cost]
    jobs,       \* /api/verify-pow handlers that await argon2id
    verified,   \* verifiedPoW: time left
    cost,       \* argonProfiles: m_cost, or None
    saved,      \* m_cost in the profiles file, or None
    solved,     \* verified proofs of work each target earned
    suspect     \* addresses with overlapping solves or doubtful submissions

caches == <<pending, pendLeft, verified>>
costs  == <<cost, saved>>
vars   == <<banned, suspect, governor, drawn, solving, jobs, solved, caches, costs>>

-------------------------------------------------------------------------------
Fraction(n, d) == [n |-> n, d |-> d]          \* n / d
Live == Fraction(65536, 1)                    \* liveRules.argon2.memory
LeastCost == 8192
MostCost  == 131072
LessEq(m, k) == m.n <= k * m.d                \* m <= k
AtLeast(m, k) == k * m.d <= m.n               \* m >= k
Whole(m) == m.n % m.d = 0

MinOf(m, k) == IF LessEq(m, k) THEN m ELSE Fraction(k, 1)
MaxOf(m, k) == IF LessEq(m, k) THEN Fraction(k, 1) ELSE m

\* calcTime < 150 doubles the cost up to 131072, > 600 divides it by 1.5 down
\* to 8192.
Adapt(m, pace) ==
    CASE pace = "quick" -> MinOf(Fraction(2 * m.n, m.d), MostCost)
      [] pace = "slow"  -> MaxOf(Fraction(2 * m.n, 3 * m.d), LeastCost)
      [] OTHER          -> m

First(m, otherwise) == IF m # None THEN m ELSE otherwise

\* detectAutomation: any artifact, or no plugins together with no languages.
Traces == {"webdriver", "artifact"}
Automated_EitherOf(fp) == fp # {}
Automated(fp) == fp \cap Traces # {} \/ {"noPlugins", "noLanguages"} \subseteq fp

\* argon2id rejects a memory size that is not an integer.
Argon2Throws(m) == ~Whole(m)
-------------------------------------------------------------------------------
Init ==
    /\ banned = {} /\ suspect = {}
    /\ governor = [count |-> 0, age |-> 0]
    /\ drawn = 0 /\ solving = {} /\ jobs = {}
    /\ solved = [t \in Targets |-> 0]
    /\ pending = [ip \in Ips |-> None] /\ pendLeft = [ip \in Ips |-> 0]
    /\ verified = [ip \in Ips |-> 0]
    /\ cost = [ip \in Ips |-> None] /\ saved = [ip \in Ips |-> None]

\* GET /api/challenge: the governor counts within a window of one second; the
\* fresh target at the learned cost replaces the address's pending one.
WithinLimit_OffByOne(g) == g.count <= PowLimit
WithinLimit(g) == g.count < PowLimit

Challenge(ip) ==
    LET window == IF governor.age > 1 THEN [count |-> 0, age |-> 0] ELSE governor
        m      == First(cost[ip], Live)
    IN  /\ drawn < MaxDrawn
        /\ WithinLimit(window)
        /\ governor' = [window EXCEPT !.count = @ + 1]
        /\ drawn' = drawn + 1
        /\ pending' = [pending EXCEPT ![ip] = drawn']
        /\ pendLeft' = [pendLeft EXCEPT ![ip] = PowTtl]
        /\ solving' = solving \cup {[ip |-> ip, target |-> drawn', cost |-> m]}
        /\ suspect' = IF \E s \in solving : s.ip = ip THEN suspect \cup {ip} ELSE suspect
        /\ UNCHANGED <<banned, jobs, verified, solved, costs>>

\* A page drops its solve: it was closed, or ran out of memory.
GiveUp(s) ==
    /\ solving' = solving \ {s}
    /\ UNCHANGED <<banned, suspect, governor, drawn, jobs, solved, caches, costs>>

PendingAfter_Kept(ip) == pending
\* The challenge is consumed before the hash is awaited.
PendingAfter(ip) == [pending EXCEPT ![ip] = None]

\* The handler of POST /api/verify-pow up to its await, for the hash of the
\* target "answer" at memory cost m; None is no hash at all.  Only the
\* structural check leaves the challenge in place without a ban.
VerifyPow(ip, answer, m, fp, pace) ==
    LET detected == "gpu" \in fp \/ Automated(fp) \/ pace \in {"impossible", "overclaimed"}
        accepts  == pending[ip] # None /\ ~detected /\ answer # None
    IN  /\ banned' = IF pending[ip] # None /\ detected THEN banned \cup {ip} ELSE banned
        /\ pending' = IF accepts THEN PendingAfter(ip) ELSE pending
        /\ pendLeft' = IF accepts THEN [pendLeft EXCEPT ![ip] = 0] ELSE pendLeft
        /\ jobs' = IF accepts
                   THEN jobs \cup {[ip |-> ip, target |-> pending[ip], answer |-> answer,
                                    cost |-> m, pace |-> pace]}
                   ELSE jobs
        /\ UNCHANGED <<governor, drawn, verified, solved, costs>>

\* A page that followed the protocol posts its solve.
PagePosts(s, fp, pace) ==
    /\ solving' = solving \ {s}
    /\ VerifyPow(s.ip, s.target, s.cost, fp, pace)
    /\ UNCHANGED suspect

\* Anything else that is posted from an address with a pending challenge; the
\* memory cost is whatever the body says.
OtherPosts(ip, answer, m, fp, pace) ==
    /\ pending[ip] # None
    /\ VerifyPow(ip, answer, m, fp, pace)
    /\ suspect' = suspect \cup {ip}
    /\ UNCHANGED solving

\* the challenge the handler read before its await
Judged(j) == j.target

\* argon2id returns: an error is a 500, a hash of another target a ban, and a
\* match earns the proof of work and moves the cost.
Finish(j) ==
    LET before == First(cost[j.ip], First(saved[j.ip], Live))
        after  == Adapt(before, j.pace)
        failed == Argon2Throws(j.cost)
        forged == ~failed /\ j.answer # Judged(j)
        proved == ~failed /\ ~forged
    IN  /\ jobs' = jobs \ {j}
        /\ banned' = IF forged THEN banned \cup {j.ip} ELSE banned
        /\ verified' = IF proved THEN [verified EXCEPT ![j.ip] = PowTtl] ELSE verified
        /\ cost' = IF proved THEN [cost EXCEPT ![j.ip] = after] ELSE cost
        /\ saved' = IF proved THEN [saved EXCEPT ![j.ip] = after] ELSE saved
        /\ solved' = IF proved THEN [solved EXCEPT ![j.target] = @ + 1] ELSE solved
        /\ UNCHANGED <<suspect, governor, drawn, pending, pendLeft, solving>>
-------------------------------------------------------------------------------
\* A new process: only the profiles and the bans are on disk.
Restart ==
    /\ governor' = [count |-> 0, age |-> 0]
    /\ pending' = [ip \in Ips |-> None] /\ pendLeft' = [ip \in Ips |-> 0]
    /\ verified' = [ip \in Ips |-> 0]
    /\ jobs' = {} /\ cost' = [ip \in Ips |-> None]
    /\ UNCHANGED <<banned, suspect, drawn, solving, solved, saved>>

Less(n) == IF n = 0 THEN 0 ELSE n - 1

Tick ==
    /\ governor' = [governor EXCEPT !.age = IF @ = 2 THEN 2 ELSE @ + 1]
    /\ pendLeft' = [ip \in Ips |-> Less(pendLeft[ip])]
    /\ pending' = [ip \in Ips |-> IF pendLeft[ip] > 1 THEN pending[ip] ELSE None]
    /\ verified' = [ip \in Ips |-> Less(verified[ip])]
    /\ UNCHANGED <<banned, suspect, drawn, solving, jobs, solved, costs>>

CleanPrints == {{}, {"noPlugins"}, {"noLanguages"}}
Paces == {"quick", "even", "slow"}
\* hash and m_cost of a body: argon2id takes the cost or not, and what the hash
\* is matters only if it does.
Bodies == (1..drawn \cup {None}) \X {Live} \cup {<<drawn, Fraction(2 * LeastCost + 1, 2)>>}
\* Fingerprint and calcTime of one: one of them gives it away, or neither does.
Manners ==
    {{}, {"gpu"}, {"webdriver"}, {"noPlugins", "noLanguages"}} \X {"quick"}
    \cup {{}} \X {"impossible", "overclaimed"}

Next ==
    \/ \E ip \in Ips : Challenge(ip)
    \/ \E s \in solving : GiveUp(s)
    \/ \E s \in solving, fp \in CleanPrints, pace \in Paces : PagePosts(s, fp, pace)
    \/ \E ip \in Ips, body \in Bodies, how \in Manners :
        OtherPosts(ip, body[1], body[2], how[1], how[2])
    \/ \E j \in jobs : Finish(j)
    \/ Restart
    \/ Tick

Spec == Init /\ [][Next]_vars
-------------------------------------------------------------------------------
\* The governor never admits more than its limit per window, and the learned
\* cost stays between 8192 and 131072 KiB through any sequence of solves.
TypeOK ==
    /\ banned \subseteq Ips /\ suspect \subseteq Ips
    /\ governor \in [count : 0..PowLimit, age : 0..2]
    /\ drawn \in 0..MaxDrawn /\ \A t \in Targets : solved[t] \in Nat
    /\ pending \in [Ips -> Targets \cup {None}] /\ pendLeft \in [Ips -> 0..PowTtl]
    /\ verified \in [Ips -> 0..PowTtl]
    /\ \A ip \in Ips : \A m \in {cost[ip], saved[ip]} \ {None} :
           LessEq(m, MostCost) /\ AtLeast(m, LeastCost)

\* What the rest of the system may take for granted: a challenge is a one-time
\* ticket.  No interleaving of handlers awaiting argon2id, replaced or expired
\* challenges and restarts redeems one twice or reopens one.
InHand == {pending[ip] : ip \in Ips} \cup {j.target : j \in jobs}
ChallengeTicket ==
    [t \in Targets |->
       IF solved[t] > 0 THEN "redeemed" ELSE IF t > drawn THEN "fresh"
       ELSE IF t \in InHand THEN "open" ELSE "dropped"]
Tickets == INSTANCE OneTimeTicket
    WITH Tickets <- Targets, ticket <- ChallengeTicket, earned <- solved
ChallengesOneTime == Tickets!Spec

\* An address whose pages solve one challenge at a time and post it once is
\* never banned by the interrogation, whatever expires, restarts or is
\* abandoned meanwhile, and although the pending challenge is kept per address.
LoneSolverNotBanned == banned \subseteq suspect
===============================================================================
