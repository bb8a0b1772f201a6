----------------------------- MODULE MCHubConfig -----------------------------
(* Constants of the runs of module HubConfig.                              *)
EXTENDS HubConfig

CONSTANTS rewards

FreshConfig ==
  {[token_contract_registered |-> FALSE, token_contract |-> None,
    protocol_fee_collector |-> None, rewards_contract |-> rewards]}

(* Within and outside the limits validate_params states.                   *)
AdminParams ==
  [ParamFields -> {1}] \cup
  {[epoch_period |-> 1, unbonding_period |-> period, peg_recovery_fee |-> 5,
    er_threshold |-> threshold, protocol_fee |-> fee] :
     period \in {2, 3}, threshold \in {90, 100}, fee \in {10, 110}}

AdminMsgs ==
  {[f \in ParamFields |-> IF f = field THEN 1 ELSE None] : field \in ParamFields}
=============================================================================
