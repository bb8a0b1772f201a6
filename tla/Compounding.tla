----------------------------- MODULE Compounding -----------------------------
(***************************************************************************)
(* The hub with its validators and the rewards contract, message by        *)
(* message.  Hub keeps one number for the stake and compounds in one step; *)
(* here the stake is split over whitelisted validators, and a transaction  *)
(* that compounds is the chain's sequence of calls between the hub, the    *)
(* rewards contract and the staking and distribution modules.  A call's    *)
(* own messages run before those that follow it, and a call that fails     *)
(* undoes the whole transaction.  Every other message is Hub's action, in  *)
(* one step, with its effect on the validators.                            *)
(***************************************************************************)
EXTENDS Hub, Sequences

CONSTANTS
  Validators,      \* validator addresses that occur in messages
  ChainValidators, \* those that are validators of the chain
  FirstValidator,  \* the validator of InstantiateMsg
  HubAddress,      \* env.contract.address of the hub
  StakeSenders,    \* accounts that register and deregister validators
  Strangers,       \* accounts that send the contracts' internal messages
  Accruals,        \* rewards a delegation earns at a time
  MaxRewards       \* bound: rewards earned and not yet compounded

ASSUME CompoundingAssumption ==
  /\ IsFiniteSet(Validators) /\ IsFiniteSet(RewardsContracts)
  /\ FirstValidator \in ChainValidators
  /\ ChainValidators \subseteq Validators
  /\ HubAddress \notin Accounts \cup RewardsContracts
  /\ Accounts \cap RewardsContracts = {}
  /\ StakeSenders \cup Strangers \subseteq Accounts
  /\ Accruals \subseteq Nat \ {0}
  /\ MaxRewards \in Nat

VARIABLES
  whitelist,        \* VALIDATORS
  delegations,      \* the hub's stake with each validator, 0 if none
  accrued,          \* rewards each delegation earned and not withdrawn
  withdraw_address, \* where the distribution module pays the hub's rewards
  rewards_balance,  \* bank balance of each rewards contract
  rewards_paused,   \* its PAUSE
  rewards_admin,    \* its ADMIN
  calls,            \* messages of the running transaction, the next one first
  saved             \* the state it started from, None when none runs

rewardsVars == <<rewards_paused, rewards_admin>>
stakeVars == <<whitelist, delegations, accrued, rewards_balance>>
txVars == <<calls, saved>>
allVars == <<vars, stakeVars, rewardsVars, withdraw_address, txVars>>

(* is_contract_paused of the rewards contract.                             *)
RewardsNotPaused(rc) == ~rewards_paused[rc]

Delegated == {v \in Validators : delegations[v] > 0}

-----------------------------------------------------------------------------
(* Faulty variants of the definitions below, which the properties must     *)
(* tell from the real ones.                                                *)
PickOnce(claim) ==
  {[v \in Validators |-> IF v = picked THEN Lesser(delegations[v], claim) ELSE 0] :
     picked \in Delegated}
TakeAtMostOne(v, claimed) == Lesser(1, claimed)
ReplacementsBefore(validator) == whitelist
WithdrawNone == {}
FeeKept(funds) == <<>>
AddressKept(rc) == withdraw_address' = withdraw_address

-----------------------------------------------------------------------------
(* Validators *)

(* What one round of pick_validator's loop undelegates from a validator.   *)
Taken(v, claimed) ==
  IF delegations[v] > claimed THEN claimed ELSE delegations[v]

(* pick_validator: every outcome of its random choices, as the amount      *)
(* undelegated from each validator.  Running out of delegations panics,    *)
(* which is no outcome.                                                    *)
PickValidator(claim) ==
  LET none == [v \in Validators |-> 0]
      pick[deletable \in SUBSET Delegated] == [claimed \in 0..claim |->
        IF claimed = 0 THEN {none}
        ELSE UNION {{[t EXCEPT ![v] = Taken(v, claimed)] :
                       t \in pick[deletable \ {v}][claimed - Taken(v, claimed)]} :
                      v \in deletable}]
  IN pick[Delegated][claim]

(* The staking module pays a delegation's rewards whenever it changes.     *)
Settle(vs) ==
  /\ accrued' = [v \in Validators |-> IF v \in vs THEN 0 ELSE accrued[v]]
  /\ rewards_balance' =
       [rewards_balance EXCEPT ![withdraw_address] =
          @ + SumOf([v \in vs |-> accrued[v]])]

RegisterValidator(sender, v) ==
  /\ NotPaused
  /\ sender = admin
  /\ v \in ChainValidators
  /\ whitelist' = whitelist \cup {v}
  /\ UNCHANGED <<vars, delegations, accrued, rewards_balance>>

BondTo(payment, v) ==
  /\ v \in whitelist
  /\ Bond(payment)
  /\ delegations' = [delegations EXCEPT ![v] = @ + payment]
  /\ Settle({v})
  /\ UNCHANGED whitelist

UnbondFrom(user, amount) ==
  /\ Unbond(user, amount)
  /\ \E taken \in PickValidator(IF EpochPassed THEN UndelegationAmount(amount)
                                               ELSE 0) :
       /\ delegations' = [v \in Validators |-> delegations[v] - taken[v]]
       /\ Settle({v \in Validators : taken[v] > 0})
  /\ UNCHANGED whitelist

SlashValidator(v, loss) ==
  /\ loss < delegations[v]
  /\ SlashStake(loss)
  /\ delegations' = [delegations EXCEPT ![v] = @ - loss]
  /\ UNCHANGED <<whitelist, accrued, rewards_balance>>

(* Validators the hub delegates to earn rewards.                           *)
Accrue(v, amount) ==
  /\ delegations[v] > 0
  /\ SumOf(accrued) + SumOf(rewards_balance) + amount <= MaxRewards
  /\ state.total_bond_amount + SumOf(accrued) + SumOf(rewards_balance) + amount
       <= MaxStake
  /\ accrued' = [accrued EXCEPT ![v] = @ + amount]
  /\ UNCHANGED <<vars, whitelist, delegations, rewards_balance>>

-----------------------------------------------------------------------------
(* Transactions *)

(* withdraw_all_rewards sends one message per delegation; they neither     *)
(* fail nor depend on their order and are one message here.                *)
WithdrawMsg(vs) == [type |-> "WithdrawDelegatorReward", validators |-> vs]
UpdateGlobalIndexMsg == [type |-> "UpdateGlobalIndex"]
DeregisterMsg(sender, v) ==
  [type |-> "DeregisterValidator", sender |-> sender, validator |-> v]
ProcessRewardsMsg(sender, rc) ==
  [type |-> "ProcessRewards", sender |-> sender, contract |-> rc]
UpdateExchangeRateMsg(sender, funds) ==
  [type |-> "UpdateExchangeRate", sender |-> sender, funds |-> funds]
RedelegateMsg(src, dst, amount) ==
  [type |-> "Redelegate", src |-> src, dst |-> dst, amount |-> amount]
SendMsg(amount) == [type |-> "Send", amount |-> amount]
DelegateMsg(v, amount) ==
  [type |-> "Delegate", validator |-> v, amount |-> amount]

Snapshot ==
  [state |-> state, staked |-> staked, hub_balance |-> hub_balance,
   whitelist |-> whitelist, delegations |-> delegations, accrued |-> accrued,
   rewards_balance |-> rewards_balance]

Submit(m) ==
  /\ calls' = <<m>>
  /\ saved' = [msg |-> m, start |-> Snapshot]
  /\ UNCHANGED <<vars, stakeVars>>

(* The messages of the call that just ran come before those that follow.   *)
Emit(ms) ==
  /\ calls' = ms \o Tail(calls)
  /\ saved' = IF calls' = <<>> THEN None ELSE saved

(* What a call checks: the pause switches, the sender, and whatever makes  *)
(* its handler fail or panic.                                              *)
Accepts(m) ==
  CASE m.type = "UpdateGlobalIndex" -> NotPaused
    [] m.type = "DeregisterValidator" ->
         /\ NotPaused
         /\ m.sender = admin
         /\ Cardinality(whitelist) # 1
         /\ whitelist \ {m.validator} # {}
    [] m.type = "ProcessRewards" ->
         /\ RewardsNotPaused(m.contract)
         /\ m.sender = HubAddress
    [] m.type = "UpdateExchangeRate" ->
         /\ NotPaused
         /\ m.sender = config.rewards_contract
         /\ m.funds > 0
         /\ ProtocolFee(m.funds) <= m.funds
         /\ config.token_contract # None
         /\ ActualSupply > 0
         /\ Delegated # {}
         /\ ProtocolFee(m.funds) > 0 => config.protocol_fee_collector # None
    [] m.type = "Redelegate" ->
         m.src # m.dst /\ m.amount <= delegations[m.src]
    [] m.type \in {"Send", "Delegate"} -> m.amount <= hub_balance
    [] OTHER -> TRUE

(* The validators whose rewards UpdateGlobalIndex withdraws.               *)
RewardedValidators == Delegated

UpdateGlobal ==
  /\ Emit(<<WithdrawMsg(RewardedValidators),
            ProcessRewardsMsg(HubAddress, config.rewards_contract)>>)
  /\ UNCHANGED <<vars, stakeVars>>

(* Validators the stake of a deregistered one may move to.                 *)
Replacements(validator) == whitelist \ {validator}

(* A faulty variant: compound before the delegation is moved.              *)
CompoundFirst(validator, replaced_val) ==
  <<UpdateGlobalIndexMsg,
    RedelegateMsg(validator, replaced_val, delegations[validator])>>

(* A delegation is moved and its rewards are compounded.                   *)
DeregisterMessages(validator, replaced_val) ==
  <<RedelegateMsg(validator, replaced_val, delegations[validator]),
    UpdateGlobalIndexMsg>>

(* The whitelist is changed before the messages run.                       *)
Deregister(m) ==
  /\ whitelist' = whitelist \ {m.validator}
  /\ \E replaced_val \in Replacements(m.validator) :
       Emit(IF m.validator \in Delegated
              THEN DeregisterMessages(m.validator, replaced_val) ELSE <<>>)
  /\ UNCHANGED <<vars, delegations, accrued, rewards_balance>>

WithdrawRewards(m) ==
  /\ Settle(m.validators)
  /\ Emit(<<>>)
  /\ UNCHANGED <<vars, whitelist, delegations>>

(* execute_process_rewards sends its whole balance along.                  *)
ProcessRewards(m) ==
  /\ Emit(<<UpdateExchangeRateMsg(m.contract, rewards_balance[m.contract])>>)
  /\ UNCHANGED <<vars, stakeVars>>

FeeMessages(funds) ==
  IF ProtocolFee(funds) > 0 THEN <<SendMsg(ProtocolFee(funds))>> ELSE <<>>

(* The coins are the hub's before its handler runs; it records them,       *)
(* pays the fee and delegates the rest to one of its validators.           *)
UpdateExchangeRate(m) ==
  LET user_rewards == m.funds - ProtocolFee(m.funds) IN
  /\ rewards_balance' = [rewards_balance EXCEPT ![m.sender] = @ - m.funds]
  /\ hub_balance' = hub_balance + m.funds
  /\ state' = [state EXCEPT
       !.exchange_rate = @ + FromRatio(user_rewards, ActualSupply),
       !.total_bond_amount = @ + user_rewards]
  /\ \E v \in Delegated :
       Emit(FeeMessages(m.funds) \o
            (IF user_rewards > 0 THEN <<DelegateMsg(v, user_rewards)>> ELSE <<>>))
  /\ UNCHANGED <<configVars, current_batch, wait_list, history, supply, staked,
                 unbonding, now, whitelist, delegations, accrued>>

Redelegate(m) ==
  /\ delegations' = [delegations EXCEPT ![m.src] = @ - m.amount,
                                        ![m.dst] = @ + m.amount]
  /\ Settle({m.src, m.dst})
  /\ Emit(<<>>)
  /\ UNCHANGED <<vars, whitelist>>

SendFee(m) ==
  /\ hub_balance' = hub_balance - m.amount
  /\ Emit(<<>>)
  /\ UNCHANGED <<configVars, ledgerVars, supply, staked, unbonding, now, stakeVars>>

Delegate(m) ==
  /\ hub_balance' = hub_balance - m.amount
  /\ staked' = staked + m.amount
  /\ delegations' = [delegations EXCEPT ![m.validator] = @ + m.amount]
  /\ Settle({m.validator})
  /\ Emit(<<>>)
  /\ UNCHANGED <<configVars, ledgerVars, supply, unbonding, now, whitelist>>

Call(m) ==
  /\ Accepts(m)
  /\ \/ m.type = "UpdateGlobalIndex" /\ UpdateGlobal
     \/ m.type = "DeregisterValidator" /\ Deregister(m)
     \/ m.type = "WithdrawDelegatorReward" /\ WithdrawRewards(m)
     \/ m.type = "ProcessRewards" /\ ProcessRewards(m)
     \/ m.type = "UpdateExchangeRate" /\ UpdateExchangeRate(m)
     \/ m.type = "Redelegate" /\ Redelegate(m)
     \/ m.type = "Send" /\ SendFee(m)
     \/ m.type = "Delegate" /\ Delegate(m)

(* A failing call undoes the transaction.                                  *)
Revert(m) ==
  /\ ~Accepts(m)
  /\ calls' = <<>>
  /\ saved' = None
  /\ state' = saved.start.state
  /\ staked' = saved.start.staked
  /\ hub_balance' = saved.start.hub_balance
  /\ whitelist' = saved.start.whitelist
  /\ delegations' = saved.start.delegations
  /\ accrued' = saved.start.accrued
  /\ rewards_balance' = saved.start.rewards_balance
  /\ UNCHANGED <<configVars, current_batch, wait_list, history, supply,
                 unbonding, now>>

Execute ==
  /\ calls # <<>>
  /\ Call(Head(calls)) \/ Revert(Head(calls))
  /\ UNCHANGED <<rewardsVars, withdraw_address>>

-----------------------------------------------------------------------------
(* The rewards contract's own messages, and migration of the hub.          *)
RewardsInit ==
  /\ rewards_balance = [rc \in RewardsContracts |-> 0]
  /\ rewards_paused = [rc \in RewardsContracts |-> FALSE]
  /\ rewards_admin \in [RewardsContracts -> Accounts]

RewardsPause(sender, rc) ==
  /\ sender = rewards_admin[rc]
  /\ rewards_paused' = [rewards_paused EXCEPT ![rc] = TRUE]
  /\ UNCHANGED rewards_admin

RewardsUnpause(sender, rc) ==
  /\ sender = rewards_admin[rc]
  /\ rewards_paused' = [rewards_paused EXCEPT ![rc] = FALSE]
  /\ UNCHANGED rewards_admin

RewardsUpdateAdmin(sender, rc, account) ==
  /\ RewardsNotPaused(rc)
  /\ sender = rewards_admin[rc]
  /\ rewards_admin' = [rewards_admin EXCEPT ![rc] = account]
  /\ UNCHANGED rewards_paused

SetWithdrawAddress(rc) == withdraw_address' = rc

(* migrate: rewards go to the new contract from now on.                    *)
MigrateTo(rc) ==
  /\ Migrate(rc)
  /\ SetWithdrawAddress(rc)
  /\ UNCHANGED <<ledgerVars, chainVars, stakeVars, rewardsVars>>

-----------------------------------------------------------------------------
(* instantiate of both contracts, with the messages of the hub's: register *)
(* and delegate to the given validator, and set the withdraw address.      *)
CompoundingInit ==
  /\ Init
  /\ whitelist = {FirstValidator}
  /\ delegations = [v \in Validators |-> IF v = FirstValidator THEN InitialBond ELSE 0]
  /\ accrued = [v \in Validators |-> 0]
  /\ withdraw_address = config.rewards_contract
  /\ RewardsInit
  /\ calls = <<>>
  /\ saved = None

Submitted ==
  \/ Submit(UpdateGlobalIndexMsg)
  \/ \E sender \in StakeSenders, v \in Validators : Submit(DeregisterMsg(sender, v))
  \/ \E sender \in Strangers :
       \/ \E rc \in RewardsContracts : Submit(ProcessRewardsMsg(sender, rc))
       \/ \E funds \in Accruals : Submit(UpdateExchangeRateMsg(sender, funds))

StakeMessage ==
  \/ \E sender \in StakeSenders, v \in Validators : RegisterValidator(sender, v)
  \/ \E payment \in BondAmounts, v \in Validators : BondTo(payment, v)
  \/ \E user \in Users, amount \in UnbondAmounts : UnbondFrom(user, amount)

StakeChain ==
  \/ \E v \in Validators, loss \in StakeSlashes : SlashValidator(v, loss)
  \/ \E v \in Validators, amount \in Accruals : Accrue(v, amount)

(* Hub's steps that leave the validators alone.  Withdrawals and slashing  *)
(* of unbonding coins touch neither stake nor rewards and are left to Hub. *)
Elsewhere ==
  /\ \/ CheckSlashing
     \/ Administer
     \/ \E interval \in BlockIntervals : EndBlock(interval)
     \/ \E amount \in Donations : Donate(amount)
  /\ UNCHANGED stakeVars

RewardsMessage ==
  /\ \E sender \in Senders, rc \in RewardsContracts :
       \/ RewardsPause(sender, rc)
       \/ RewardsUnpause(sender, rc)
       \/ \E account \in Accounts : RewardsUpdateAdmin(sender, rc, account)
  /\ UNCHANGED <<vars, stakeVars>>

Idle == calls = <<>>

CompoundingNext ==
  \/ Execute
  \/ /\ Idle
     /\ \/ Submitted /\ UNCHANGED <<rewardsVars, withdraw_address>>
        \/ /\ StakeMessage \/ StakeChain \/ Elsewhere
           /\ UNCHANGED <<rewardsVars, withdraw_address, txVars>>
        \/ RewardsMessage /\ UNCHANGED <<withdraw_address, txVars>>
        \/ (\E rc \in RewardsContracts : MigrateTo(rc)) /\ UNCHANGED txVars

CompoundingSpec == CompoundingInit /\ [][CompoundingNext]_allVars

(* A transaction runs to its end, and somebody's UpdateGlobalIndex is      *)
(* included although others come before it.                                *)
CompoundingFairSpec ==
  /\ CompoundingSpec
  /\ WF_allVars(Execute)
  /\ SF_allVars(/\ Idle
                /\ Submit(UpdateGlobalIndexMsg)
                /\ UNCHANGED <<rewardsVars, withdraw_address>>)

-----------------------------------------------------------------------------
(* Hub, with a running transaction seen as not yet begun.                  *)
H == INSTANCE Hub WITH
       state <- IF Idle THEN state ELSE saved.start.state,
       staked <- IF Idle THEN staked ELSE saved.start.staked,
       hub_balance <- IF Idle THEN hub_balance ELSE saved.start.hub_balance,
       RewardAmounts <- 1..MaxRewards,
       MaxStake <- MaxStake + MaxRewards

(* The calls of a compounding transaction amount to one step of Hub, or to *)
(* none if one of them fails: all rewards are recorded and staked at once, *)
(* and the hub's balance, from which later withdrawals compute what        *)
(* arrived, is left as it was.  Migration is the one step Hub lacks.       *)
HubImplemented ==
  /\ H!Init
  /\ [][H!Next \/ (H!ConfigMigrate /\ UNCHANGED <<H!ledgerVars, H!chainVars>>)]_(H!vars)

(* The stake Hub counts is what the validators hold together, also between *)
(* two calls of a transaction: pick_validator undelegates a claim exactly, *)
(* and redelegation moves stake without changing it.                       *)
StakeSplit == staked = SumOf(delegations)

(* Between transactions all stake is with whitelisted validators, and      *)
(* there is one: no redelegation, compounding or undelegation leaves stake *)
(* with a validator the admin removed.                                     *)
StakeWhitelisted == Idle => whitelist # {} /\ Delegated \subseteq whitelist

(* What pick_validator may undelegate: some validators entirely, and the   *)
(* rest of the claim from one more.                                        *)
PickReference(claim) ==
  {t \in [Validators -> 0..claim] :
     /\ SumOf(t) = claim
     /\ \A v \in Validators : t[v] <= delegations[v]
     /\ \E last \in Validators :
          \A v \in Validators \ {last} : t[v] \in {0, delegations[v]}}

(* The loop of pick_validator meets any claim within the stake exactly,    *)
(* for every order of its random choices, and splits at most one           *)
(* delegation.                                                             *)
PicksMeetClaim ==
  \A claim \in 0..staked : PickValidator(claim) = PickReference(claim)

(* The rewards the transaction that started in s can compound.             *)
Compoundable(s) ==
  SumOf([v \in {w \in Validators : s.delegations[w] > 0} |-> s.accrued[v]])
    + s.rewards_balance[config.rewards_contract]

CompoundingPossible(s) ==
  /\ NotPaused
  /\ ~rewards_paused[config.rewards_contract]
  /\ config.token_contract # None
  /\ ActualSupply > 0
  /\ Compoundable(s) > 0
  /\ ProtocolFee(Compoundable(s)) > 0 => config.protocol_fee_collector # None
  /\ ProtocolFee(Compoundable(s)) <= Compoundable(s)

(* Whether message m, sent in state s, succeeds.  Outsiders can call       *)
(* neither ProcessRewards nor UpdateExchangeRate.                          *)
Succeeds(m, s) ==
  CASE m.type = "UpdateGlobalIndex" -> CompoundingPossible(s)
    [] m.type = "DeregisterValidator" ->
         /\ NotPaused
         /\ m.sender = admin
         /\ Cardinality(s.whitelist) > 1
         /\ s.delegations[m.validator] > 0 => CompoundingPossible(s)
    [] OTHER -> FALSE

(* The outcome of a transaction is decided by the state it starts from: it *)
(* compounds every reward earned by then, or it leaves no trace.  A        *)
(* validator with stake is deregistered only together with compounding.    *)
OutcomeForeseen ==
  [][~Idle /\ Idle' =>
       LET m == saved.msg
           s == saved.start
       IN IF ~Succeeds(m, s) THEN Snapshot' = s
          ELSE IF m.type = "DeregisterValidator" /\ s.delegations[m.validator] = 0
            THEN Snapshot' = [s EXCEPT !.whitelist = @ \ {m.validator}]
            ELSE /\ Compoundable(Snapshot)' = 0
                 /\ staked' = s.staked + Compoundable(s) - ProtocolFee(Compoundable(s))
                 /\ m.type = "DeregisterValidator"
                      => m.validator \notin whitelist' \cup Delegated']_allVars

(* Rewards do not wait forever: they are compounded, or something stands   *)
(* in the way (a pause, a missing collector, no token issued).             *)
RewardsCompounded ==
  (Idle /\ CompoundingPossible(Snapshot)) ~> (Idle /\ ~CompoundingPossible(Snapshot))
=============================================================================
