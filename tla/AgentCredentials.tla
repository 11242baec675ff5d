--------------------------- MODULE AgentCredentials ---------------------------
(***************************************************************************)
(* Signed agent credentials (src/gateway/src/services/agentIdentity.ts)    *)
(* and the TLS risk (tlsFingerprint.ts) their decision is blended with.    *)
(* Signatures and key fingerprints are ideal: a signature names its signer *)
(* and what it signs.                                                      *)
(***************************************************************************)
EXTENDS Integers

\* A presented credential: who signed which text, the issuer it declares, its
\* reputation in thousands of basis points, whether it is in force, and the
\* public key that comes with it on the post-quantum path.
Credentials ==
    [alg : {"secp256k1", "ml-dsa-65"}, signer : {"i1", "i2"}, key : {"i1", "i2"},
     issuer : {"i1", "i2"}, signedText : {"x", "y"}, text : {"x"},
     reputation : {0, 2, 3, 5, 6, 10}, inForce : BOOLEAN]

SignerOf(p) == IF p.alg = "ml-dsa-65" THEN p.key ELSE p.signer

Genuine(p) == p.signedText = p.text /\ (p.alg = "ml-dsa-65" => p.signer = p.key)

\* verifyAgentCredential and verifyMlDsaCredential; an empty allowlist is none.
ValidCredential(p, allowlist) ==
    /\ p.reputation \in 0..10 /\ p.inForce
    /\ Genuine(p) /\ SignerOf(p) = p.issuer
    /\ allowlist # {} => p.issuer \in allowlist

\* tlsRisk in hundredths; a header that is missing, malformed or not from the
\* trusted front is no fingerprint.
TlsRisk(ja4, ua) ==
    CASE ja4 = "botStack"              -> 90
      [] ja4 = "noSni" /\ ua = "browser" -> 80
      [] OTHER                         -> 10

MaxOf(a, b) == IF a > b THEN a ELSE b
BehaviorRisk(frank, tls) == MaxOf(frank, tls)

\* agentTrustDecision
AgentDecision_Swapped(valid, reputation, risk) ==
    IF valid
    THEN IF risk >= 95 THEN "STEP_UP" ELSE IF reputation >= 6 THEN "ALLOW"
         ELSE IF risk > (IF reputation >= 3 THEN 50 ELSE 70) THEN "STEP_UP" ELSE "ALLOW"
    ELSE IF risk >= 80 THEN "DENY" ELSE IF risk >= 50 THEN "STEP_UP" ELSE "ALLOW"

AgentDecision(valid, reputation, risk) ==
    IF valid
    THEN IF risk >= 95 THEN "STEP_UP" ELSE IF reputation >= 6 THEN "ALLOW"
         ELSE IF risk > (IF reputation >= 3 THEN 70 ELSE 50) THEN "STEP_UP" ELSE "ALLOW"
    ELSE IF risk >= 80 THEN "DENY" ELSE IF risk >= 50 THEN "STEP_UP" ELSE "ALLOW"

\* What the checks make of every credential, with one trusted issuer, and of one
\* that does not verify; and how well the decision treats the agent.  A request
\* without a credential is answered 400 before any decision.
Claims ==
    {[valid |-> ValidCredential(p, {"i1"}), reputation |-> p.reputation] : p \in Credentials}
Unverified == [valid |-> FALSE, reputation |-> 0]

Rank == [d \in {"DENY", "STEP_UP", "ALLOW"} |->
           CASE d = "DENY" -> 0 [] d = "STEP_UP" -> 1 [] OTHER -> 2]
Decided(claim, risk) == Rank[AgentDecision(claim.valid, claim.reputation, risk)]
===============================================================================
