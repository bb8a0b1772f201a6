----------------------------- MODULE HubClaims -----------------------------
(* Hub seen as the abstract ledger Claims.                                 *)
EXTENDS Hub

C == INSTANCE Claims WITH
       Batches <- BatchIds,
       Value <- MulDec,
       asked <- wait_list,
       open <- current_batch.id,
       released <- state.last_processed_batch,
       rates <- [b \in 1..state.last_processed_batch |-> history[b].withdraw_rate],
       coins <- hub_balance

(* Hub keeps the promise: bond, unbond, release, slashing, compounding and *)
(* administrative messages in any order never lose, move, re-rate or pay   *)
(* twice a request, and a withdrawal takes out of the hub what is due to   *)
(* its sender and nothing else.                                            *)
ClaimsImplemented == C!ClaimsSpec
=============================================================================
