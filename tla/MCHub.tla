------------------------------- MODULE MCHub -------------------------------
(* Constants of the runs of module Hub.  One and Frac are scaled down from *)
(* 10^18 and 10^9; One = Frac^2 is kept.                                   *)
EXTENDS HubClaims, HubQueries, TLC

CONSTANTS token, collector, rewards, alice, bob

Config(t, c) ==
  [token_contract_registered |-> t # None, token_contract |-> t,
   protocol_fee_collector |-> c, rewards_contract |-> rewards]

Params(epoch, period, fee, threshold, protocol) ==
  [epoch_period |-> epoch, unbonding_period |-> period,
   peg_recovery_fee |-> fee, er_threshold |-> threshold,
   protocol_fee |-> protocol]

DeployedConfig == {Config(token, collector)}

RateParams == {Params(0, 3, 50, 100, 40)}
BatchParams == {Params(0, 3, 0, 100, 0)}   \* coins arrive a block earlier
LateParams == {Params(0, 4, 0, 100, 0)}    \* coins arrive two blocks earlier
EarlyParams == {Params(0, 2, 0, 100, 0)}   \* coins arrive after the release

(* A message that changes one parameter.                                   *)
Change(field, value) == [f \in ParamFields |-> IF f = field THEN value ELSE None]

UserSymmetry == Permutations(Users)
=============================================================================
