------------------------------- MODULE ZkProofs -------------------------------
(***************************************************************************)
(* The proofs of passed layers (src/gateway/src/services/zkProof.ts and    *)
(* /api/health-proof, /api/zk in src/gateway/server.ts): an HMAC under the *)
(* caller's session key, or the server's own, that can be redeemed once.   *)
(*                                                                         *)
(* A key is the number of its handshake or ratchet; 0 is the server's key, *)
(* drawn anew by every process.                                            *)
(***************************************************************************)
EXTENDS Integers

CONSTANTS
    Sids,       \* session ids callers present, "default" among them
    MaxProofs,  \* bound: proofs issued in a behaviour
    MaxKeys,    \* bound: session keys established in a behaviour
    ProofTtl    \* PROOF_TTL_MS

ASSUME ProofsAssumption ==
    "default" \in Sids /\ {MaxProofs, MaxKeys, ProofTtl} \subseteq Nat \ {0}

ProofIds == 1..MaxProofs

VARIABLES
    keys,       \* session keys established so far
    session,    \* sessionKeys: the key of each sid, 0 for none
    drawn,      \* proofs issued so far
    issued,     \* issuedProofs
    proofKey,   \* the key each proof was made with
    left,       \* time left of each proof
    redeemed    \* times each proof was redeemed

proofVars == <<keys, session, drawn, issued, proofKey, left, redeemed>>

ProofsInit ==
    /\ keys = 0 /\ session = [s \in Sids |-> 0] /\ drawn = 0 /\ issued = {}
    /\ proofKey = [p \in ProofIds |-> 0] /\ left = [p \in ProofIds |-> 0]
    /\ redeemed = [p \in ProofIds |-> 0]

\* sessionKeys.get(sid)?.key ?? serverDnaKey
Secret(sid) == session[sid]
-------------------------------------------------------------------------------
\* issueProof: the new proof is noted and expired ones are dropped.
IssueProof(secret) ==
    /\ drawn < MaxProofs /\ drawn' = drawn + 1
    /\ issued' = {p \in issued : left[p] > 0} \cup {drawn'}
    /\ proofKey' = [proofKey EXCEPT ![drawn'] = secret]
    /\ left' = [left EXCEPT ![drawn'] = ProofTtl]
    /\ UNCHANGED <<keys, session, redeemed>>

HealthProof == IssueProof(0)
ZkIssue(sid) == IssueProof(Secret(sid))

\* verifyZkProof, for a proof presented as it was issued or altered
Valid(p, sid, altered) == left[p] > 0 /\ ~altered /\ proofKey[p] = Secret(sid)

Remaining_Kept(p) == issued
Remaining(p) == issued \ {p}

\* POST /api/zk/verify
ZkVerify(p, sid, altered) ==
    /\ p \in issued /\ Valid(p, sid, altered)
    /\ issued' = Remaining(p)
    /\ redeemed' = [redeemed EXCEPT ![p] = @ + 1]
    /\ UNCHANGED <<keys, session, drawn, proofKey, left>>

ClearProofs == issued' = {} /\ UNCHANGED <<keys, session, drawn, proofKey, left, redeemed>>

\* A handshake keys a session of its own and "default"; a ratchet one session.
Handshake(sid) ==
    /\ sid # "default" /\ session[sid] = 0
    /\ keys < MaxKeys /\ keys' = keys + 1
    /\ session' = [session EXCEPT ![sid] = keys', !["default"] = keys']
    /\ UNCHANGED <<drawn, issued, proofKey, left, redeemed>>

Ratchet(sid) ==
    /\ session[sid] # 0 /\ keys < MaxKeys /\ keys' = keys + 1
    /\ session' = [session EXCEPT ![sid] = keys']
    /\ UNCHANGED <<drawn, issued, proofKey, left, redeemed>>

SessionLapses(sid) ==
    /\ session' = [session EXCEPT ![sid] = 0]
    /\ UNCHANGED <<keys, drawn, issued, proofKey, left, redeemed>>

ProofsRestart ==
    /\ session' = [s \in Sids |-> 0] /\ issued' = {}
    /\ UNCHANGED <<keys, drawn, proofKey, left, redeemed>>

ProofsTick ==
    /\ left' = [p \in ProofIds |-> IF left[p] = 0 THEN 0 ELSE left[p] - 1]
    /\ UNCHANGED <<keys, session, drawn, issued, proofKey, redeemed>>

ProofsNext ==
    \/ HealthProof
    \/ \E sid \in Sids : ZkIssue(sid)
    \/ \E p \in issued, sid \in Sids, altered \in BOOLEAN : ZkVerify(p, sid, altered)
    \/ ClearProofs
    \/ \E sid \in Sids : Handshake(sid)
    \/ \E sid \in Sids : Ratchet(sid)
    \/ \E sid \in Sids : SessionLapses(sid)
    \/ ProofsRestart
    \/ ProofsTick

ProofsSpec == ProofsInit /\ [][ProofsNext]_proofVars
-------------------------------------------------------------------------------
ProofTicket ==
    [p \in ProofIds |-> IF redeemed[p] > 0 THEN "redeemed" ELSE IF p > drawn THEN "fresh"
                        ELSE IF p \in issued THEN "open" ELSE "dropped"]

Proofs == INSTANCE OneTimeTicket
    WITH Tickets <- ProofIds, ticket <- ProofTicket, earned <- redeemed

\* Whoever presents it, under whichever session, in whatever order keys are
\* established, ratcheted and lost, a proof is redeemed at most once and never
\* after it expired from the registry, was cleared or was forgotten.
ProofsOneTime == Proofs!Spec
===============================================================================
