------------------------------ MODULE AccessTokens ------------------------------
(***************************************************************************)
(* The Privacy Pass desk (src/gateway/src/services/privacyPass.ts and its  *)
(* handlers in src/gateway/server.ts): blinded tokens are evaluated for    *)
(* whoever verified a proof of work, and each is redeemed in place of one. *)
(*                                                                         *)
(* A token is its nonce; its output can only be had from an evaluation     *)
(* under the issuer's key.                                                 *)
(***************************************************************************)
EXTENDS Integers, FiniteSets

CONSTANTS
    Tokens,
    MaxBatch,
    SpentTtl,    \* spentTtlMs
    PruneEvery,  \* the minute between two prunes
    MaxSpent,
    MaxBoots     \* bound: processes in a behaviour

ASSUME TokensAssumption ==
    {MaxBatch, SpentTtl, PruneEvery, MaxSpent, MaxBoots} \subseteq Nat \ {0}

VARIABLES
    keyFromEnv,  \* PRIVACY_PASS_KEY is set
    boot,
    armed,       \* sniperArmed
    pow,         \* the caller has a verified proof of work
    evaluated,   \* the key each token was last evaluated under, 0 for none
    spent,       \* the spent map: [token, left, since], the last for the order
                 \* of insertion: tokens marked after it
    pruneAge,    \* time since lastPrune
    uses         \* of each token: times accepted, then boot, time and
                 \* redemptions since the last one

tokenVars == <<keyFromEnv, boot, armed, pow, evaluated, spent, pruneAge, uses>>

Key == IF keyFromEnv THEN 1 ELSE boot

TokensInit ==
    /\ keyFromEnv \in BOOLEAN /\ boot = 1 /\ armed = FALSE /\ pow = FALSE
    /\ evaluated = [t \in Tokens |-> 0]
    /\ spent = {} /\ pruneAge = PruneEvery
    /\ uses = [t \in Tokens |-> [count |-> 0, boot |-> 0, age |-> 0, others |-> 0]]
-------------------------------------------------------------------------------
\* issueBatch
Admissible(batch) == batch # {} /\ Cardinality(batch) <= MaxBatch
\* blindEvaluate for each of the batch; the token's output is what finalize
\* makes of it, and is what evaluate recomputes under the same key only.
Evaluated(batch) == [t \in Tokens |-> IF t \in batch THEN Key ELSE evaluated[t]]
OutputHolds(t) == evaluated[t] = Key

\* POST /api/pat/issue
Issue(batch) ==
    /\ ~armed \/ pow
    /\ Admissible(batch) /\ evaluated' = Evaluated(batch)
    /\ UNCHANGED <<keyFromEnv, boot, armed, pow, spent, pruneAge, uses>>

Due == pruneAge >= PruneEvery

Lapsed_Early(e) == e.left < SpentTtl
Lapsed(e) == e.left = 0

\* pruneIfDue
Pruned == IF Due THEN {e \in spent : ~Lapsed(e)} ELSE spent
InSpent(t) == \E e \in Pruned : e.token = t

InsertedFirst(e) == \A f \in Pruned : f.since <= e.since

Marked(t, kept) ==
    {[e EXCEPT !.since = @ + 1] : e \in kept} \cup {[token |-> t, left |-> SpentTtl, since |-> 0]}

MarkSpent_Unbounded(t) == Marked(t, Pruned)
\* markSpent: a full map loses its oldest entry.
MarkSpent(t) ==
    Marked(t, IF Cardinality(Pruned) >= MaxSpent THEN {e \in Pruned : ~InsertedFirst(e)} ELSE Pruned)

CapAt(n, top) == IF n > top THEN top ELSE n

\* tryRedeemToken, on /api/wallet and /api/enclave of a caller that has no
\* proof of work.
Redeem(t) ==
    LET valid == ~InSpent(t) /\ OutputHolds(t)
    IN  /\ armed /\ ~pow
        /\ pruneAge' = IF Due THEN 0 ELSE pruneAge
        /\ spent' = IF valid THEN MarkSpent(t) ELSE Pruned
        /\ uses' = IF ~valid THEN uses
                   ELSE [u \in Tokens |->
                           IF u = t THEN [count |-> CapAt(uses[t].count + 1, 2), boot |-> boot,
                                          age |-> 0, others |-> 0]
                           ELSE [uses[u] EXCEPT !.others = CapAt(@ + 1, MaxSpent)]]
        /\ UNCHANGED <<keyFromEnv, boot, armed, pow, evaluated>>

\* Around the desk: the jitter worker arms the filter, a proof of work is
\* verified and lapses.
ArmTokens == armed' = TRUE /\ UNCHANGED <<keyFromEnv, boot, pow, evaluated, spent, pruneAge, uses>>
SetPow == pow' = ~pow /\ UNCHANGED <<keyFromEnv, boot, armed, evaluated, spent, pruneAge, uses>>

\* The spent map is in memory; the key may not be.
TokensRestart ==
    /\ boot < MaxBoots /\ boot' = boot + 1
    /\ armed' = FALSE /\ pow' = FALSE /\ spent' = {} /\ pruneAge' = PruneEvery
    /\ UNCHANGED <<keyFromEnv, evaluated, uses>>

TokensTick ==
    /\ spent' = {[e EXCEPT !.left = IF @ = 0 THEN 0 ELSE @ - 1] : e \in spent}
    /\ pruneAge' = CapAt(pruneAge + 1, PruneEvery)
    /\ uses' = [t \in Tokens |-> [uses[t] EXCEPT !.age = CapAt(@ + 1, SpentTtl)]]
    /\ UNCHANGED <<keyFromEnv, boot, armed, pow, evaluated>>

TokensNext ==
    \/ \E batch \in SUBSET Tokens : Issue(batch)
    \/ \E t \in Tokens : Redeem(t)
    \/ ArmTokens
    \/ SetPow
    \/ TokensRestart
    \/ TokensTick

TokensSpec == TokensInit /\ [][TokensNext]_tokenVars
-------------------------------------------------------------------------------
TokensTypeOK ==
    /\ boot \in 1..MaxBoots /\ evaluated \in [Tokens -> 0..boot]
    /\ spent \subseteq [token : Tokens, left : 0..SpentTtl, since : Nat]
    /\ Cardinality(spent) <= MaxSpent /\ pruneAge \in 0..PruneEvery
    /\ \A e, f \in spent : e # f => e.token # f.token /\ e.since # f.since
    /\ \A e, f \in spent : e.since > f.since => e.left <= f.left

\* A token is accepted once: again only after the ttl of the spent map, after
\* MaxSpent other redemptions pushed it out, or by a new process that kept the
\* key and forgot the map.
TokenOnce ==
    [][\A t \in Tokens : uses'[t] # uses[t] /\ uses'[t].age = 0 /\ uses'[t].others = 0 =>
          \/ uses[t].count = 0
          \/ uses[t].boot # boot /\ (keyFromEnv \/ evaluated[t] = boot)
          \/ uses[t].age = SpentTtl
          \/ uses[t].others = MaxSpent]_tokenVars
===============================================================================
