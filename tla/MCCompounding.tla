---------------------------- MODULE MCCompounding ----------------------------
(* Constants of the run of module Compounding.                             *)
EXTENDS MCHub, Compounding

CONSTANTS v1, v2, rewards2

(* The fee collector is not set yet.                                       *)
CollectorMissing == {Config(token, None)}

FeeParams == {Params(0, 3, 0, 100, 50)}

(* A fee above the rewards, which nothing forbids.                         *)
FeeMsgs == {Change("protocol_fee", fee) : fee \in {150}}
==============================================================================
