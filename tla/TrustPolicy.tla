------------------------------ MODULE TrustPolicy ------------------------------
(***************************************************************************)
(* The fused trust decision: the adapters of                               *)
(* src/gateway/src/services/trustSignals.ts and the policy of              *)
(* trustEngine.ts, exactly.  Scores are fractions of Scale(c), a multiple  *)
(* of every denominator: the classifier's total, the tenths of the header  *)
(* score and of the rhythm, the thirds of the wallet signal.  Weights are  *)
(* doubled.                                                                *)
(***************************************************************************)
EXTENDS AgentClassifier, FiniteSets, FiniteSetsExt

SybilThreshold == 3

Scale(c) == 30 * c.total

RhythmScore(r, d) == (d * r) \div 10

FrankScore(f, d) == d - (d * f) \div 100

ClassifierScore_Confidence(c) == 30 * c.part
\* A confident call of a bot is a low score.
ClassifierScore(c) ==
    IF c.class = "MALICIOUS_BOT" THEN 30 * (c.total - c.part) ELSE 30 * c.part

WalletScore(shared, d) ==
    IF shared > SybilThreshold THEN 0 ELSE d - (d * (shared - 1)) \div SybilThreshold

\* The soft signals as [score, weight]; shared is 0 when no wallet was named.
SoftSignals(c, frank, rhythm, shared) ==
    LET d == Scale(c)
    IN  [frankenstein |-> [score |-> FrankScore(frank, d), weight |-> 2],
         rhythm       |-> [score |-> RhythmScore(rhythm, d), weight |-> 4],
         classifier   |-> [score |-> ClassifierScore(c), weight |-> 3],
         wallet       |-> [score |-> WalletScore(shared, d), weight |-> IF shared = 0 THEN 0 ELSE 2]]

Weighed(signals) == {id \in DOMAIN signals : signals[id].weight > 0}

Weakest(signals, d) == Min({signals[id].score : id \in Weighed(signals)})

\* The signals weigh in with their weight, which is 0 for one that is not there.
TotalWeight(s) == s.frankenstein.weight + s.rhythm.weight + s.classifier.weight + s.wallet.weight
TotalScore(s) ==
    s.frankenstein.weight * s.frankenstein.score + s.rhythm.weight * s.rhythm.score
        + s.classifier.weight * s.classifier.score + s.wallet.weight * s.wallet.score

FusedAtLeast_NoFloor(signals, d, num) ==
    2 * TotalScore(signals) * Weakest(signals, d) >= num * TotalWeight(signals) * d * (d \div 5)

\* fuseSoftSignals: the weighted mean, moderated by the weakest signal, is at
\* least num / 10.
FusedAtLeast(signals, d, num) ==
    TotalScore(signals) * (d + Weakest(signals, d)) >= num * TotalWeight(signals) * d * (d \div 5)

\* bandFor
BandFor(signals, d) ==
    IF FusedAtLeast(signals, d, 7) THEN "ALLOW" ELSE IF FusedAtLeast(signals, d, 4) THEN "STEP_UP"
    ELSE IF FusedAtLeast(signals, d, 2) THEN "SHADOW_LIMIT" ELSE "DENY"

\* evaluateTrust: a failed hard signal decides alone.
HardFailed(session, automated, frank) == ~session \/ automated \/ frank >= 100

Decision(session, automated, c, frank, rhythm, shared) ==
    IF HardFailed(session, automated, frank) THEN "DENY"
    ELSE BandFor(SoftSignals(c, frank, rhythm, shared), Scale(c))
===============================================================================
