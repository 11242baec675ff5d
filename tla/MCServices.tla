------------------------------- MODULE MCServices -------------------------------
(* Services of the gateway that share no state: the token desk, the proofs of  *)
(* layers, the sniper's calibration, the micro-stalls, the shadow filter and   *)
(* the two gates that ask the server.                                          *)
(* A behaviour runs one of them, so that their states add up, not multiply.    *)
EXTENDS AccessTokens, ZkProofs, SniperCalibration, MicroStall, ShadowFilter,
        RpcGateway, TLC

VARIABLE service

Services == {"tokens", "proofs", "calibration", "stalls", "shadow", "gates"}

\* Nine intervals each: a clock, a clock with a hitch, a human, two speeds
RhythmSet == {<<10, 10, 10, 10, 10, 10, 10, 10, 10>>, <<10, 10, 10, 10, 12, 10, 10, 10, 10>>,
              <<10, 14, 11, 19, 12, 16, 10, 18, 13>>, <<10, 10, 10, 10, 10, 20, 20, 20, 20>>}
VarianceSet == {Variance(iv) : iv \in RhythmSet}

ServicesSymmetry == Permutations(Tokens) \cup Permutations(Calls)

SidSet == {"default", "s1", "s2"}

MCInit ==
    /\ service \in Services
    /\ TokensInit /\ ProofsInit /\ CalibInit /\ StallInit /\ ShadowInit
    /\ GatewayInit
    /\ service # "tokens" => ~keyFromEnv

MCNext ==
    /\ UNCHANGED service
    /\ \/ /\ service = "tokens" /\ TokensNext
          /\ UNCHANGED <<proofVars, calibVars, stallVars, shadowVars, gatewayVars>>
       \/ /\ service = "proofs" /\ ProofsNext
          /\ UNCHANGED <<tokenVars, calibVars, stallVars, shadowVars, gatewayVars>>
       \/ /\ service = "calibration" /\ CalibNext
          /\ UNCHANGED <<tokenVars, proofVars, stallVars, shadowVars, gatewayVars>>
       \/ /\ service = "stalls" /\ StallNext
          /\ UNCHANGED <<tokenVars, proofVars, calibVars, shadowVars, gatewayVars>>
       \/ /\ service = "shadow" /\ ShadowNext
          /\ UNCHANGED <<tokenVars, proofVars, calibVars, stallVars, gatewayVars>>
       \/ /\ service = "gates" /\ GatewayNext
          /\ UNCHANGED <<tokenVars, proofVars, calibVars, stallVars, shadowVars>>

MCSpec ==
    MCInit /\ [][MCNext]_<<service, tokenVars, proofVars, calibVars, stallVars, shadowVars,
                          gatewayVars>>
===============================================================================
