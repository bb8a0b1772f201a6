------------------------------ MODULE HubProofs ------------------------------
(***************************************************************************)
(* Theorems about the hub's ledger, for every choice of parameters,        *)
(* amounts and bounds, administrative messages included.                   *)
(***************************************************************************)
EXTENDS Hub, FixedPointTheorems

-----------------------------------------------------------------------------
(* Types of the operators the actions are made of                          *)

(* The state slashing() leaves is a state, and differs only in the record  *)
(* of the stake and in the rate.                                           *)
LEMMA AfterSlashingType ==
  ASSUME TypeOK
  PROVE  /\ AfterSlashing \in StateType
         /\ AfterSlashing.last_unbonded_time = state.last_unbonded_time
         /\ AfterSlashing.last_processed_batch = state.last_processed_batch
         /\ AfterSlashing.prev_hub_balance = state.prev_hub_balance
         /\ AfterSlashing.actual_unbonded_amount = state.actual_unbonded_amount
<1>1. staked \in Nat /\ ActualSupply \in Nat /\ state \in StateType
      BY DEF TypeOK, ActualSupply
<1>2. UpdatedRate(staked, ActualSupply) \in Nat  BY <1>1, UpdatedRateBacked
<1> QED  BY <1>1, <1>2 DEF AfterSlashing, StateType

(* What bond computes.                                                     *)
LEMMA BondTypes ==
  ASSUME TypeOK, NEW payment \in Nat,
         MulDec(Frac, AfterSlashing.exchange_rate) > 0
  PROVE  /\ MintAmount(payment) \in Nat
         /\ MintAmount(payment) * MulDec(Frac, AfterSlashing.exchange_rate)
              <= payment * Frac
         /\ MintAmountWithFee(payment) \in Int
         /\ (AfterSlashing.exchange_rate < params.er_threshold
               => BondGap(payment) >= 0)
              => MintAmountWithFee(payment) <= MintAmount(payment)
<1>1. AfterSlashing.exchange_rate \in Nat /\ AfterSlashing.total_bond_amount \in Nat
      BY AfterSlashingType DEF StateType
<1>2. /\ MintAmount(payment) \in Nat
      /\ MintAmount(payment) * MulDec(Frac, AfterSlashing.exchange_rate)
           <= payment * Frac
      BY <1>1, DecimalDivisionBounds DEF MintAmount
<1>3. ActualSupply \in Nat  BY DEF TypeOK, ActualSupply
<1>4. BondGap(payment) \in Int  BY <1>1, <1>2, <1>3 DEF BondGap
<1>5. params.peg_recovery_fee \in Nat /\ params.er_threshold \in Nat
      BY DEF TypeOK, ConfigTypeOK, ParamFields
<1>6. MulDec(MintAmount(payment), params.peg_recovery_fee) \in Nat
      BY <1>2, <1>5, MulDecBounds
<1>7. /\ BondFee(payment) \in Int
      /\ (AfterSlashing.exchange_rate < params.er_threshold
            => BondGap(payment) >= 0) => BondFee(payment) >= 0
      BY <1>4, <1>6 DEF BondFee, Lesser
<1> QED  BY <1>2, <1>7 DEF MintAmountWithFee

(* What unbond computes, for an amount its checks accept.                  *)
LEMMA UnbondTypes ==
  ASSUME TypeOK, NEW amount \in Nat, amount <= supply, AmountWithFee(amount) >= 0
  PROVE  /\ AmountWithFee(amount) \in Nat
         /\ (AfterSlashing.exchange_rate < params.er_threshold => UnbondGap >= 0)
              => AmountWithFee(amount) <= amount
         /\ Requested(amount) \in Nat
         /\ UnbondRate(amount) \in Nat
         /\ UndelegationAmount(amount) \in Nat
         /\ UndelegationAmount(amount) * One
              <= Requested(amount) * UnbondRate(amount)
<1>1. AfterSlashing.total_bond_amount \in Nat /\ AfterSlashing.exchange_rate \in Nat
      BY AfterSlashingType DEF StateType
<1>2. supply \in Nat /\ current_batch.requested_with_fee \in Nat  BY DEF TypeOK
<1>3. UnbondGap \in Int  BY <1>1, <1>2 DEF UnbondGap, ActualSupply
<1>4. params.peg_recovery_fee \in Nat /\ params.er_threshold \in Nat
      BY DEF TypeOK, ConfigTypeOK, ParamFields
<1>5. MulDec(amount, params.peg_recovery_fee) \in Nat  BY <1>4, MulDecBounds
<1>6. /\ UnbondFee(amount) \in Int
      /\ (AfterSlashing.exchange_rate < params.er_threshold => UnbondGap >= 0)
           => UnbondFee(amount) >= 0
      BY <1>3, <1>5 DEF UnbondFee, Lesser
<1>7. /\ AmountWithFee(amount) \in Nat
      /\ (AfterSlashing.exchange_rate < params.er_threshold => UnbondGap >= 0)
           => AmountWithFee(amount) <= amount
      BY <1>6 DEF AmountWithFee
<1>8. Requested(amount) \in Nat  BY <1>2, <1>7 DEF Requested
<1>9. UnbondRate(amount) \in Nat
  <2>1. supply - amount + Requested(amount) \in Nat  BY <1>2, <1>8
  <2> QED  BY <1>1, <2>1, UpdatedRateBacked DEF UnbondRate
<1> QED  BY <1>7, <1>8, <1>9, MulDecBounds DEF UndelegationAmount

-----------------------------------------------------------------------------
(* Type correctness                                                        *)

(* instantiate stores values of the declared types.                        *)
LEMMA InitType == Init => TypeOK
<1> SUFFICES ASSUME Init PROVE TypeOK  OBVIOUS
<1> USE DEF Init
<1>1. ConfigTypeOK
      BY ConfigAssumption DEF ConfigInit, ConfigTypeOK
<1>2. state \in StateType
      BY FixedPointAssumption, HubAssumption DEF StateType
<1>3. current_batch \in [id : Nat \ {0}, requested_with_fee : Nat]  OBVIOUS
<1>4. wait_list \in [Users -> [BatchIds -> Nat]]  OBVIOUS
<1>5. DOMAIN history = {} /\ DOMAIN unbonding = {}  OBVIOUS
<1>6. supply \in Nat /\ staked \in Nat /\ hub_balance \in Nat /\ now \in Nat
      BY HubAssumption
<1> QED  BY <1>1, <1>2, <1>3, <1>4, <1>5, <1>6 DEF TypeOK

(* Administrative messages keep the types of the configuration.            *)
LEMMA ConfigNextType ==
  ASSUME ConfigTypeOK, ConfigNext PROVE ConfigTypeOK'
<1> USE DEF ConfigTypeOK
<1>1. PICK sender \in Senders :
        \/ Pause(sender)
        \/ Unpause(sender)
        \/ \E account \in Accounts : UpdateAdmin(sender, account)
        \/ \E token \in Tokens \cup {None}, collector \in Collectors \cup {None} :
             UpdateConfig(sender, token, collector)
        \/ \E msg \in ParamMsgs : UpdateParams(sender, msg)
      BY DEF ConfigNext
<1>2. CASE Pause(sender)  BY <1>2 DEF Pause
<1>3. CASE Unpause(sender)  BY <1>3 DEF Unpause
<1>4. ASSUME NEW account \in Accounts, UpdateAdmin(sender, account)
      PROVE  ConfigTypeOK'
      BY <1>4 DEF UpdateAdmin
<1>5. ASSUME NEW token \in Tokens \cup {None}, NEW collector \in Collectors \cup {None},
             UpdateConfig(sender, token, collector)
      PROVE  ConfigTypeOK'
  <2>1. config' \in ConfigType  BY <1>5 DEF UpdateConfig, ConfigType
  <2> QED  BY <1>5, <2>1 DEF UpdateConfig
<1>6. ASSUME NEW msg \in ParamMsgs, UpdateParams(sender, msg)
      PROVE  ConfigTypeOK'
  <2>1. msg \in [ParamFields -> Nat \cup {None}]  BY ConfigAssumption
  <2>2. params' \in [ParamFields -> Nat]  BY <1>6, <2>1 DEF UpdateParams
  <2> QED  BY <1>6, <2>2 DEF UpdateParams
<1> QED  BY <1>1, <1>2, <1>3, <1>4, <1>5, <1>6

(* CheckSlashing keeps the types.                                          *)
LEMMA CheckSlashingType ==
  ASSUME TypeOK, CheckSlashing PROVE TypeOK'
<1>1. state' \in StateType  BY AfterSlashingType DEF CheckSlashing
<1> QED  BY <1>1 DEF TypeOK, CheckSlashing, chainVars, configVars, ConfigTypeOK

(* execute_bond keeps the types: its checked subtractions leave no         *)
(* negative amount.                                                        *)
LEMMA BondType ==
  ASSUME TypeOK, NEW payment \in BondAmounts, Bond(payment) PROVE TypeOK'
<1> DEFINE bond == AfterSlashing.total_bond_amount + payment
           issued == ActualSupply + MintAmountWithFee(payment)
<1>1. payment \in Nat  BY HubAssumption
<1>2. AfterSlashing \in StateType /\ AfterSlashing.total_bond_amount \in Nat
      BY AfterSlashingType DEF StateType
<1>3. MintAmountWithFee(payment) \in Nat  BY <1>1, BondTypes DEF Bond
<1>4. supply \in Nat /\ staked \in Nat /\ ActualSupply \in Nat
      BY DEF TypeOK, ActualSupply
<1>5. bond \in Nat /\ issued \in Nat  BY <1>1, <1>2, <1>3, <1>4
<1>6. state' = [AfterSlashing EXCEPT !.total_bond_amount = bond,
                                    !.exchange_rate = UpdatedRate(bond, issued)]
      BY DEF Bond
<1> HIDE DEF bond, issued
<1>7. UpdatedRate(bond, issued) \in Nat  BY <1>5, UpdatedRateBacked
<1>8. state' \in StateType  BY <1>2, <1>5, <1>6, <1>7 DEF StateType
<1>9. supply' \in Nat /\ staked' \in Nat  BY <1>1, <1>3, <1>4 DEF Bond
<1> QED  BY <1>8, <1>9 DEF Bond, TypeOK, configVars, ConfigTypeOK

(* execute_unbond keeps the types, whether the batch stays open or is      *)
(* closed and undelegated.                                                 *)
LEMMA UnbondType ==
  ASSUME TypeOK, NEW user \in Users, NEW amount \in UnbondAmounts,
         Unbond(user, amount)
  PROVE  TypeOK'
<1> DEFINE id == current_batch.id
           claim == UndelegationAmount(amount)
<1>1. amount \in Nat /\ amount <= supply /\ AmountWithFee(amount) >= 0
      BY HubAssumption DEF Unbond, WithinSupply
<1>2. /\ AmountWithFee(amount) \in Nat
      /\ Requested(amount) \in Nat
      /\ UnbondRate(amount) \in Nat
      /\ claim \in Nat
      BY <1>1, UnbondTypes
<1>3. /\ AfterSlashing \in StateType
      /\ AfterSlashing.total_bond_amount \in Nat
      BY AfterSlashingType DEF StateType
<1>4. id \in BatchIds  BY HubAssumption DEF TypeOK, Unbond, BatchIds
<1>5. supply \in Nat /\ staked \in Nat /\ now \in Nat  BY DEF TypeOK
<1>6. wait_list' \in [Users -> [BatchIds -> Nat]]
  <2>1. wait_list[user] \in [BatchIds -> Nat]  BY DEF TypeOK
  <2>2. wait_list[user][id] + AmountWithFee(amount) \in Nat  BY <1>2, <1>4, <2>1
  <2> QED  BY <1>4, <2>1, <2>2 DEF Unbond, TypeOK
<1>7. supply' \in Nat  BY <1>1, <1>5 DEF Unbond
<1>8. CASE JoinBatch(amount)
  <2>1. state' \in StateType  BY <1>2, <1>3, <1>8 DEF JoinBatch, StateType
  <2>2. current_batch' \in [id : Nat \ {0}, requested_with_fee : Nat]
        BY <1>2, <1>8 DEF JoinBatch, TypeOK
  <2> QED  BY <1>6, <1>7, <1>8, <2>1, <2>2
           DEF JoinBatch, Unbond, TypeOK, configVars, ConfigTypeOK
<1>9. CASE CloseBatch(amount)
  <2>1. state' \in StateType
    <3>1. claim <= AfterSlashing.total_bond_amount  BY <1>9 DEF CloseBatch
    <3>2. AfterSlashing.total_bond_amount - claim \in Nat  BY <1>2, <1>3, <3>1
    <3>3. state' = [AfterSlashing EXCEPT
                      !.total_bond_amount = AfterSlashing.total_bond_amount - claim,
                      !.exchange_rate = UnbondRate(amount),
                      !.last_unbonded_time = now]
          BY <1>9 DEF CloseBatch
    <3> HIDE DEF claim
    <3> QED  BY <1>2, <1>3, <1>5, <3>2, <3>3 DEF StateType
  <2>2. current_batch' \in [id : Nat \ {0}, requested_with_fee : Nat]
        BY <1>4, <1>9 DEF CloseBatch, NextBatch, BatchIds
  <2>3. staked' \in Nat  BY <1>2, <1>5, <1>9 DEF CloseBatch
  <2>4. /\ DOMAIN history' \subseteq BatchIds
        /\ \A b \in DOMAIN history' : history'[b] \in HistoryType
    <3> DEFINE closed == [time |-> now, amount |-> Requested(amount),
                          applied_exchange_rate |-> UnbondRate(amount),
                          withdraw_rate |-> UnbondRate(amount),
                          released |-> FALSE]
    <3>1. history' = Put(history, id, closed)  BY <1>9 DEF CloseBatch
    <3>2. closed \in HistoryType  BY <1>2, <1>5 DEF HistoryType
    <3> HIDE DEF closed
    <3> QED  BY <1>4, <3>1, <3>2 DEF Put, TypeOK
  <2>5. /\ DOMAIN unbonding' \subseteq BatchIds
        /\ \A b \in DOMAIN unbonding' : unbonding'[b] \in EntryType
    <3> DEFINE entry == [amount |-> claim, completion |-> now + ChainUnbondingTime,
                         paid |-> FALSE]
    <3>1. unbonding' = IF claim = 0 THEN unbonding ELSE Put(unbonding, id, entry)
          BY <1>9 DEF CloseBatch
    <3>2. entry \in EntryType  BY <1>2, <1>5, HubAssumption DEF EntryType
    <3> HIDE DEF entry
    <3> QED  BY <1>4, <3>1, <3>2 DEF Put, TypeOK
  <2> QED  BY <1>6, <1>7, <2>1, <2>2, <2>3, <2>4, <2>5
           DEF Unbond, TypeOK, configVars, ConfigTypeOK
<1> QED  BY <1>8, <1>9 DEF Unbond

(* What process_withdraw_rate stores for the batches it releases.          *)
LEMMA ReleasedHistoryType ==
  ASSUME TypeOK, NEW total \in Nat,
         NEW slashed \in [value : Nat, negative : BOOLEAN],
         Processable(total, slashed)
  PROVE  /\ DOMAIN ReleasedHistory(total, slashed) = DOMAIN history
         /\ \A b \in DOMAIN history :
              ReleasedHistory(total, slashed)[b] \in HistoryType
<1>1. DOMAIN ReleasedHistory(total, slashed) = DOMAIN history
      BY DEF ReleasedHistory
<1>2. ASSUME NEW b \in DOMAIN history
      PROVE  ReleasedHistory(total, slashed)[b] \in HistoryType
  <2>1. history[b] \in HistoryType  BY DEF TypeOK
  <2>2. CASE b \notin MaturedBatches  BY <2>1, <2>2 DEF ReleasedHistory
  <2>3. CASE b \in MaturedBatches
    <3> DEFINE rate == FromRatio(ActualUnbondedOf(b, total, slashed),
                                 history[b].amount)
    <3>1. /\ total \in Nat \ {0}
          /\ history[b].amount \in Nat \ {0}
          /\ slashed.negative => SlashedShare(b, total, slashed) >= 1
          BY <2>1, <2>3 DEF Processable, HistoryType
    <3>2. UnbondedAmount(b) \in Nat
          BY <2>1, MulDecBounds DEF UnbondedAmount, HistoryType
    <3>3. FromRatio(UnbondedAmount(b), total) \in Nat
          BY <3>1, <3>2, FromRatioBounds
    <3>4. SlashedShare(b, total, slashed) \in Nat
          BY <3>3, MulDecBounds DEF SlashedShare
    <3>5. RoundedLoss(b, total, slashed) \in Nat  BY <3>4 DEF RoundedLoss
    <3>6. ActualUnbondedOf(b, total, slashed) \in Nat
          BY <3>1, <3>2, <3>4, <3>5 DEF ActualUnbondedOf, FromSubtraction
    <3>7. rate \in Nat  BY <3>1, <3>6, FromRatioBounds
    <3>8. ReleasedHistory(total, slashed)[b]
            = [history[b] EXCEPT !.withdraw_rate = rate, !.released = TRUE]
          BY <2>3 DEF ReleasedHistory
    <3> HIDE DEF rate
    <3> QED  BY <2>1, <3>7, <3>8 DEF HistoryType
  <2> QED  BY <2>2, <2>3
<1> QED  BY <1>1, <1>2

(* execute_withdraw_unbonded keeps the types: the balance it pays from     *)
(* never becomes negative.                                                 *)
LEMMA WithdrawType ==
  ASSUME TypeOK, NEW user \in Users, WithdrawUnbonded(user) PROVE TypeOK'
<1> DEFINE total == TotalUnbonded
           slashed == FromSubtraction(total, ActualUnbonded)
           h == ReleasedHistory(total, slashed)
           finished == FinishedAmount(user, h)
<1>1. PICK last \in state.last_processed_batch..(current_batch.id - 1) :
        WithdrawUpTo(user, last)
      BY DEF WithdrawUnbonded
<1>2. /\ Fits(total)
      /\ Processable(total, slashed)
      /\ PayOut(user, last, h, finished)
      BY <1>1 DEF WithdrawUpTo
<1>3. total \in Nat  BY <1>2, FixedPointAssumption DEF Fits
<1>4. state \in StateType /\ hub_balance \in Nat /\ last \in Nat
  <2>1. state \in StateType /\ hub_balance \in Nat /\ current_batch.id \in Nat
        BY DEF TypeOK
  <2>2. state.last_processed_batch \in Nat  BY <2>1 DEF StateType
  <2> QED  BY <2>1, <2>2
<1>5. ActualUnbonded \in Nat  BY <1>4 DEF ActualUnbonded, FromSubtraction, StateType
<1>6. slashed \in [value : Nat, negative : BOOLEAN]
      BY <1>3, <1>5 DEF FromSubtraction
<1>7. /\ DOMAIN h = DOMAIN history
      /\ \A b \in DOMAIN history : h[b] \in HistoryType
      BY <1>2, <1>3, <1>6, ReleasedHistoryType
<1> HIDE DEF total, slashed, h, finished
<1>8. hub_balance - finished \in Nat /\ finished \in Nat
      BY <1>2, <1>4, FixedPointAssumption DEF PayOut, Fits
<1>9. state' \in StateType
  <2>1. state' = [state EXCEPT !.last_processed_batch = last,
                              !.actual_unbonded_amount = 0,
                              !.prev_hub_balance = hub_balance - finished]
        BY <1>2 DEF PayOut
  <2> QED  BY <1>4, <1>8, <2>1 DEF StateType
<1>10. wait_list' \in [Users -> [BatchIds -> Nat]]
  <2>1. wait_list[user] \in [BatchIds -> Nat]  BY DEF TypeOK
  <2>2. RemainingRequests(user, h) \in [BatchIds -> Nat]
        BY <2>1 DEF RemainingRequests
  <2> QED  BY <1>2, <2>2 DEF PayOut, TypeOK
<1>11. hub_balance' \in Nat  BY <1>2, <1>8 DEF PayOut
<1>12. history' = h  BY <1>2 DEF PayOut
<1> QED  BY <1>2, <1>7, <1>9, <1>10, <1>11, <1>12
         DEF PayOut, TypeOK, configVars, ConfigTypeOK

(* Compounding keeps the types: the fee never exceeds the reward.          *)
LEMMA UpdateGlobalIndexType ==
  ASSUME TypeOK, NEW reward \in RewardAmounts, UpdateGlobalIndex(reward)
  PROVE  TypeOK'
<1> DEFINE user_rewards == reward - ProtocolFee(reward)
           rate == state.exchange_rate + FromRatio(user_rewards, ActualSupply)
           bond == state.total_bond_amount + user_rewards
<1>1. reward \in Nat /\ params.protocol_fee \in Nat
      BY HubAssumption DEF TypeOK, ConfigTypeOK, ParamFields
<1>2. ProtocolFee(reward) \in Nat  BY <1>1, MulDecBounds DEF ProtocolFee
<1>3. user_rewards \in Nat  BY <1>1, <1>2 DEF UpdateGlobalIndex
<1>4. ActualSupply \in Nat \ {0}
      BY DEF TypeOK, ActualSupply, UpdateGlobalIndex
<1>5. state \in StateType /\ state.exchange_rate \in Nat
        /\ state.total_bond_amount \in Nat /\ staked \in Nat
      BY DEF TypeOK, StateType
<1>6. FromRatio(user_rewards, ActualSupply) \in Nat
      BY <1>3, <1>4, FromRatioBounds
<1>7. rate \in Nat /\ bond \in Nat  BY <1>3, <1>5, <1>6
<1>8. state' = [state EXCEPT !.exchange_rate = rate, !.total_bond_amount = bond]
      BY DEF UpdateGlobalIndex
<1>9. staked' \in Nat  BY <1>3, <1>5 DEF UpdateGlobalIndex
<1> HIDE DEF rate, bond
<1>10. state' \in StateType  BY <1>5, <1>7, <1>8 DEF StateType
<1> QED  BY <1>9, <1>10 DEF UpdateGlobalIndex, TypeOK, configVars, ConfigTypeOK

(* There are finitely many batches.                                        *)
LEMMA BatchesFinite == IsFiniteSet(BatchIds)
BY HubAssumption, FS_Interval DEF BatchIds

(* What arrives at the end of a block is an amount of coins.               *)
LEMMA ArrivedNat ==
  ASSUME TypeOK
  PROVE  SumOf([b \in Due |-> unbonding[b].amount]) \in Nat
<1> DEFINE a == [b \in Due |-> unbonding[b].amount]
<1>1. IsFiniteSet(Due)  BY BatchesFinite, FS_Subset DEF Due, TypeOK
<1>2. a \in [Due -> Nat]  BY DEF Due, TypeOK, EntryType
<1> HIDE DEF a
<1>3. SumOf(a) \in Nat  BY <1>1, <1>2, SumNat
<1> QED  BY <1>3 DEF a

(* The end of a block keeps the types.                                     *)
LEMMA EndBlockType ==
  ASSUME TypeOK, NEW interval \in BlockIntervals, EndBlock(interval)
  PROVE  TypeOK'
<1>1. interval \in Nat /\ now \in Nat /\ hub_balance \in Nat
      BY HubAssumption DEF TypeOK
<1>2. hub_balance' \in Nat /\ now' \in Nat  BY <1>1, ArrivedNat DEF EndBlock
<1>3. /\ DOMAIN unbonding' \subseteq BatchIds
      /\ \A b \in DOMAIN unbonding' : unbonding'[b] \in EntryType
  <2>1. DOMAIN unbonding' = DOMAIN unbonding  BY DEF EndBlock
  <2>2. ASSUME NEW b \in DOMAIN unbonding PROVE unbonding'[b] \in EntryType
    <3>1. unbonding[b] \in EntryType  BY DEF TypeOK
    <3>2. [unbonding[b] EXCEPT !.paid = TRUE] \in EntryType
          BY <3>1 DEF EntryType
    <3> QED  BY <3>1, <3>2 DEF EndBlock
  <2> QED  BY <2>1, <2>2 DEF TypeOK
<1> QED  BY <1>2, <1>3
         DEF EndBlock, TypeOK, ledgerVars, configVars, ConfigTypeOK

(* Slashing of stake or of unbonding entries keeps the types.              *)
LEMMA SlashType ==
  ASSUME TypeOK,
         \/ \E loss \in StakeSlashes : SlashStake(loss)
         \/ \E b \in DOMAIN unbonding, loss \in UnbondingSlashes :
              SlashUnbonding(b, loss)
  PROVE  TypeOK'
<1>1. ASSUME NEW loss \in StakeSlashes, SlashStake(loss) PROVE TypeOK'
  <2>1. loss \in Nat /\ staked \in Nat  BY HubAssumption DEF TypeOK
  <2>2. staked' \in Nat  BY <1>1, <2>1 DEF SlashStake
  <2> QED  BY <1>1, <2>2 DEF SlashStake, TypeOK, ledgerVars, configVars, ConfigTypeOK
<1>2. ASSUME NEW b \in DOMAIN unbonding, NEW loss \in UnbondingSlashes,
             SlashUnbonding(b, loss)
      PROVE  TypeOK'
  <2>1. loss \in Nat /\ unbonding[b] \in EntryType  BY HubAssumption DEF TypeOK
  <2>2. unbonding[b].amount - loss \in Nat
        BY <1>2, <2>1 DEF SlashUnbonding, EntryType
  <2>3. unbonding' = [unbonding EXCEPT
                        ![b] = [unbonding[b] EXCEPT
                                  !.amount = unbonding[b].amount - loss]]
        BY <1>2 DEF SlashUnbonding
  <2>4. [unbonding[b] EXCEPT !.amount = unbonding[b].amount - loss] \in EntryType
        BY <2>1, <2>2 DEF EntryType
  <2>5. /\ DOMAIN unbonding' \subseteq BatchIds
        /\ \A c \in DOMAIN unbonding' : unbonding'[c] \in EntryType
        BY <2>3, <2>4 DEF TypeOK
  <2> QED  BY <1>2, <2>5
           DEF SlashUnbonding, TypeOK, ledgerVars, configVars, ConfigTypeOK
<1> QED  BY <1>1, <1>2

(* A bank transfer to the hub keeps the types.                             *)
LEMMA DonateType ==
  ASSUME TypeOK, NEW amount \in Donations, Donate(amount) PROVE TypeOK'
<1>1. hub_balance' \in Nat  BY HubAssumption DEF Donate, TypeOK
<1> QED  BY <1>1 DEF Donate, TypeOK, ledgerVars, configVars, ConfigTypeOK

(* Every step keeps the types.                                             *)
LEMMA NextType == TypeOK /\ [Next]_vars => TypeOK'
<1> SUFFICES ASSUME TypeOK, [Next]_vars PROVE TypeOK'  OBVIOUS
<1>1. CASE Message
  <2>1. CASE CheckSlashing  BY <2>1, CheckSlashingType
  <2>2. CASE \E payment \in BondAmounts : Bond(payment)  BY <2>2, BondType
  <2>3. CASE \E user \in Users, amount \in UnbondAmounts : Unbond(user, amount)
        BY <2>3, UnbondType
  <2>4. CASE \E user \in Users : WithdrawUnbonded(user)  BY <2>4, WithdrawType
  <2>5. CASE \E reward \in RewardAmounts : UpdateGlobalIndex(reward)
        BY <2>5, UpdateGlobalIndexType
  <2>6. CASE Administer
    <3>1. ConfigTypeOK'  BY <2>6, ConfigNextType DEF Administer, TypeOK
    <3> QED  BY <2>6, <3>1 DEF Administer, TypeOK, ledgerVars, chainVars
  <2> QED  BY <1>1, <2>1, <2>2, <2>3, <2>4, <2>5, <2>6 DEF Message
<1>2. CASE Chain
      BY <1>2, EndBlockType, SlashType, DonateType DEF Chain
<1>3. CASE UNCHANGED vars
      BY <1>3 DEF vars, TypeOK, ledgerVars, chainVars, configVars, ConfigTypeOK
<1> QED  BY <1>1, <1>2, <1>3 DEF Next

(* Every storage item of the hub keeps its type: no checked subtraction    *)
(* that guards an action lets a negative amount, balance or rate through.  *)
THEOREM TypeCorrect == Spec => []TypeOK
<1>1. Init => TypeOK  BY InitType
<1>2. TypeOK /\ [Next]_vars => TypeOK'  BY NextType
<1> QED  BY <1>1, <1>2, PTL DEF Spec

-----------------------------------------------------------------------------
(* The books: the inductive invariant behind RateBacked, StakeRecorded and *)
(* UndelegationCovered.                                                    *)
Books == TypeOK /\ RateBacked /\ StakeRecorded

(* slashing() leaves books that balance with the stake.                    *)
LEMMA AfterSlashingBooks ==
  ASSUME Books
  PROVE  /\ AfterSlashing.exchange_rate \in Nat
         /\ AfterSlashing.total_bond_amount = staked
         /\ AfterSlashing.exchange_rate * ActualSupply <= staked * One
         /\ staked = 0 => ActualSupply = 0
<1>1. /\ staked \in Nat /\ ActualSupply \in Nat /\ state \in StateType
      /\ state.total_bond_amount \in Nat /\ state.exchange_rate \in Nat
      BY DEF Books, TypeOK, ActualSupply, StateType
<1>2. /\ staked <= state.total_bond_amount
      /\ staked = 0 => state.total_bond_amount = 0
      /\ state.total_bond_amount = 0 => ActualSupply = 0
      /\ state.exchange_rate * ActualSupply <= state.total_bond_amount * One
      BY DEF Books, StakeRecorded, RateBacked
<1>3. CASE staked > 0 /\ state.total_bond_amount > staked
  <2>1. AfterSlashing = [state EXCEPT
                           !.total_bond_amount = staked,
                           !.exchange_rate = UpdatedRate(staked, ActualSupply)]
        BY <1>3 DEF AfterSlashing
  <2>2. /\ AfterSlashing.total_bond_amount = staked
        /\ AfterSlashing.exchange_rate = UpdatedRate(staked, ActualSupply)
        BY <1>1, <2>1 DEF StateType
  <2>3. /\ UpdatedRate(staked, ActualSupply) \in Nat
        /\ UpdatedRate(staked, ActualSupply) * ActualSupply <= staked * One
    <3>1. staked # 0  BY <1>1, <1>3
    <3> QED  BY <1>1, <3>1, UpdatedRateBacked
  <2> QED  BY <1>1, <1>2, <2>2, <2>3
<1>4. CASE ~(staked > 0 /\ state.total_bond_amount > staked)
  <2>1. AfterSlashing = state  BY <1>4 DEF AfterSlashing
  <2>2. state.total_bond_amount = staked  BY <1>1, <1>2, <1>4
  <2> QED  BY <1>1, <1>2, <2>1, <2>2
<1> QED  BY <1>3, <1>4

(* Books over the values a step can change.                                *)
LEMMA BooksFrom ==
  ASSUME TypeOK',
         NEW rate \in Nat, NEW bond \in Nat, NEW issued \in Nat, NEW stake \in Nat,
         state'.exchange_rate = rate, state'.total_bond_amount = bond,
         ActualSupply' = issued, staked' = stake,
         rate * issued <= bond * One,
         stake <= bond, stake = 0 => bond = 0, bond = 0 => issued = 0
  PROVE  Books'
  BY DEF Books, RateBacked, StakeRecorded

(* instantiate records what it delegates, at a rate the bond covers.       *)
LEMMA InitBooks == Init => Books
<1> SUFFICES ASSUME Init PROVE Books  OBVIOUS
<1>1. /\ state.exchange_rate = One /\ state.total_bond_amount = InitialBond
      /\ ActualSupply = InitialSupply /\ staked = InitialBond
      BY HubAssumption DEF Init, ActualSupply
<1>2. /\ One \in Nat /\ InitialBond \in Nat \ {0} /\ InitialSupply \in Nat
      /\ InitialSupply <= InitialBond
      BY FixedPointAssumption, HubAssumption
<1>3. One * InitialSupply <= InitialBond * One  BY <1>2
<1> QED  BY <1>1, <1>2, <1>3, InitType DEF Books, RateBacked, StakeRecorded

(* CheckSlashing keeps the books balanced.                                 *)
LEMMA CheckSlashingBooks ==
  ASSUME Books, CheckSlashing PROVE Books'
<1>1. TypeOK'  BY CheckSlashingType DEF Books
<1>2. /\ state' = AfterSlashing /\ staked' = staked
      /\ ActualSupply' = ActualSupply
      BY DEF CheckSlashing, chainVars, ActualSupply
<1>3. staked \in Nat /\ ActualSupply \in Nat  BY DEF Books, TypeOK, ActualSupply
<1> QED  BY <1>1, <1>2, <1>3, AfterSlashingBooks, BooksFrom

(* execute_bond keeps the books balanced: the rate is recomputed from what *)
(* it records.                                                             *)
LEMMA BondBooks ==
  ASSUME Books, NEW payment \in BondAmounts, Bond(payment) PROVE Books'
<1> DEFINE bond == AfterSlashing.total_bond_amount + payment
           issued == ActualSupply + MintAmountWithFee(payment)
<1>1. TypeOK /\ TypeOK'  BY BondType DEF Books
<1>2. payment \in Nat \ {0}  BY HubAssumption
<1>3. MintAmountWithFee(payment) \in Nat  BY <1>1, <1>2, BondTypes DEF Bond
<1>4. /\ supply \in Nat /\ staked \in Nat /\ ActualSupply \in Nat
      /\ current_batch.requested_with_fee \in Nat
      BY <1>1 DEF TypeOK, ActualSupply
<1>5. AfterSlashing.total_bond_amount = staked  BY AfterSlashingBooks
<1>6. AfterSlashing \in StateType  BY <1>1, AfterSlashingType
<1>7. bond \in Nat \ {0} /\ issued \in Nat /\ staked' = bond
      BY <1>2, <1>3, <1>4, <1>5 DEF Bond
<1>8. ActualSupply' = issued  BY <1>3, <1>4 DEF Bond, ActualSupply
<1>9. state' = [AfterSlashing EXCEPT !.total_bond_amount = bond,
                                    !.exchange_rate = UpdatedRate(bond, issued)]
      BY DEF Bond
<1> HIDE DEF bond, issued
<1>10. /\ state'.total_bond_amount = bond
       /\ state'.exchange_rate = UpdatedRate(bond, issued)
       BY <1>6, <1>9 DEF StateType
<1>11. /\ UpdatedRate(bond, issued) \in Nat
       /\ UpdatedRate(bond, issued) * issued <= bond * One
       BY <1>7, UpdatedRateBacked
<1> QED  BY <1>1, <1>7, <1>8, <1>10, <1>11, BooksFrom

(* For a burn its checks accept, the rate unbond computes is covered by    *)
(* the stake, and so is the undelegation of the whole batch: what remains  *)
(* covers the remaining supply.                                            *)
LEMMA UnbondCovered ==
  ASSUME Books, NEW amount \in Nat \ {0}, amount <= supply,
         AmountWithFee(amount) >= 0
  PROVE  /\ staked > 0
         /\ UnbondRate(amount) * (supply - amount + Requested(amount)) <= staked * One
         /\ UndelegationAmount(amount) <= staked
         /\ UnbondRate(amount) * (supply - amount)
              <= (staked - UndelegationAmount(amount)) * One
         /\ UndelegationAmount(amount) = staked => supply - amount = 0
<1> DEFINE r == UnbondRate(amount)
           q == Requested(amount)
           left == supply - amount
           claim == UndelegationAmount(amount)
<1>1. TypeOK /\ supply \in Nat /\ staked \in Nat /\ One \in Nat \ {0}
      BY FixedPointAssumption DEF Books, TypeOK
<1>2. /\ r \in Nat /\ q \in Nat /\ claim \in Nat
      /\ claim * One <= q * r
      BY <1>1, UnbondTypes
<1>3. left \in Nat  BY <1>1
<1>4. staked > 0
  <2>1. ActualSupply # 0  BY <1>1 DEF ActualSupply, TypeOK
  <2> QED  BY <1>1, <2>1, AfterSlashingBooks
<1>5. r = UpdatedRate(staked, left + q)  BY AfterSlashingBooks DEF UnbondRate
<1> HIDE DEF r, q, left, claim
<1>6. r * (left + q) <= staked * One
  <2>1. left + q \in Nat /\ staked # 0  BY <1>1, <1>2, <1>3, <1>4
  <2> QED  BY <1>1, <1>5, <2>1, UpdatedRateBacked
<1>7. r * left + r * q <= staked * One  BY <1>1, <1>2, <1>3, <1>6
<1>8. q * r = r * q /\ r * left \in Nat /\ r * q \in Nat
        /\ claim * One \in Nat /\ staked * One \in Nat
      BY <1>1, <1>2, <1>3
<1>9. r * left + claim * One <= staked * One  BY <1>2, <1>7, <1>8
<1>10. claim <= staked
  <2>1. claim * One <= staked * One  BY <1>8, <1>9
  <2> QED  BY <1>1, <1>2, <2>1
<1>11. r * left <= (staked - claim) * One
  <2>1. (staked - claim) * One = staked * One - claim * One  BY <1>1, <1>2
  <2> QED  BY <1>8, <1>9, <2>1
<1>12. ASSUME claim = staked PROVE left = 0
  <2>1. r * left = 0  BY <1>8, <1>9, <1>12
  <2>2. r # 0
    <3>1. claim * One # 0  BY <1>1, <1>4, <1>12
    <3>2. SUFFICES ASSUME r = 0 PROVE FALSE  OBVIOUS
    <3>3. q * r = 0  BY <1>2, <3>2
    <3> QED  BY <1>2, <1>8, <3>1, <3>3
  <2> QED  BY <1>2, <1>3, <2>1, <2>2
<1> QED  BY <1>4, <1>6, <1>10, <1>11, <1>12 DEF r, q, left, claim

(* execute_unbond keeps the books balanced, also when it undelegates the   *)
(* batch.                                                                  *)
LEMMA UnbondBooks ==
  ASSUME Books, NEW user \in Users, NEW amount \in UnbondAmounts,
         Unbond(user, amount)
  PROVE  Books'
<1> DEFINE r == UnbondRate(amount)
           claim == UndelegationAmount(amount)
<1>1. TypeOK /\ TypeOK'  BY UnbondType DEF Books
<1>2. amount \in Nat \ {0} /\ amount <= supply /\ AmountWithFee(amount) >= 0
      BY HubAssumption DEF Unbond, WithinSupply
<1>3. /\ staked > 0
      /\ r * (supply - amount + Requested(amount)) <= staked * One
      /\ claim <= staked
      /\ r * (supply - amount) <= (staked - claim) * One
      /\ claim = staked => supply - amount = 0
      BY <1>2, UnbondCovered
<1>4. r \in Nat /\ claim \in Nat /\ Requested(amount) \in Nat
      BY <1>1, <1>2, UnbondTypes
<1>5. /\ supply \in Nat /\ staked \in Nat /\ supply - amount \in Nat
      /\ supply' = supply - amount
      BY <1>1, <1>2 DEF TypeOK, Unbond
<1>6. AfterSlashing \in StateType /\ AfterSlashing.total_bond_amount = staked
      BY <1>1, AfterSlashingType, AfterSlashingBooks
<1> HIDE DEF r, claim
<1>7. CASE JoinBatch(amount)
  <2>1. state' = [AfterSlashing EXCEPT !.exchange_rate = r] /\ staked' = staked
        BY <1>7 DEF JoinBatch, r
  <2>2. state'.exchange_rate = r /\ state'.total_bond_amount = staked
        BY <1>6, <2>1 DEF StateType
  <2>3. current_batch'.requested_with_fee = Requested(amount)
        BY <1>1, <1>7 DEF JoinBatch, TypeOK
  <2>4. /\ ActualSupply' = supply - amount + Requested(amount)
        /\ ActualSupply' \in Nat
        BY <1>4, <1>5, <2>3 DEF ActualSupply
  <2> QED  BY <1>1, <1>3, <1>4, <1>5, <2>1, <2>2, <2>4, BooksFrom
<1>8. CASE CloseBatch(amount)
  <2>1. state' = [AfterSlashing EXCEPT !.total_bond_amount = staked - claim,
                                      !.exchange_rate = r,
                                      !.last_unbonded_time = now]
        BY <1>6, <1>8 DEF CloseBatch, r, claim
  <2>2. state'.exchange_rate = r /\ state'.total_bond_amount = staked - claim
        BY <1>6, <2>1 DEF StateType
  <2>3. staked' = staked - claim  BY <1>8 DEF CloseBatch, claim
  <2>4. current_batch'.requested_with_fee = 0  BY <1>8 DEF CloseBatch, NextBatch
  <2>5. ActualSupply' = supply - amount  BY <1>5, <2>4 DEF ActualSupply
  <2>6. staked - claim \in Nat  BY <1>3, <1>4, <1>5
  <2>7. staked - claim = 0 => supply - amount = 0  BY <1>3, <1>4, <1>5
  <2> QED  BY <1>1, <1>3, <1>4, <1>5, <2>2, <2>3, <2>5, <2>6, <2>7, BooksFrom
<1> QED  BY <1>7, <1>8 DEF Unbond

(* Compounding keeps the books balanced although it checks no slashing:    *)
(* what it adds to the rate, times the supply, is at most what it adds to  *)
(* the stake.                                                              *)
LEMMA UpdateGlobalIndexBooks ==
  ASSUME Books, NEW reward \in RewardAmounts, UpdateGlobalIndex(reward)
  PROVE  Books'
<1> DEFINE u == reward - ProtocolFee(reward)
           e == state.exchange_rate
           t == state.total_bond_amount
           n == ActualSupply
           f == FromRatio(u, n)
<1>1. TypeOK /\ TypeOK'  BY UpdateGlobalIndexType DEF Books
<1>2. reward \in Nat /\ params.protocol_fee \in Nat
      BY <1>1, HubAssumption DEF TypeOK, ConfigTypeOK, ParamFields
<1>3. ProtocolFee(reward) \in Nat  BY <1>2, MulDecBounds DEF ProtocolFee
<1>4. u \in Nat  BY <1>2, <1>3 DEF UpdateGlobalIndex
<1>5. n \in Nat \ {0}  BY <1>1 DEF TypeOK, ActualSupply, UpdateGlobalIndex
<1>6. state \in StateType /\ e \in Nat /\ t \in Nat /\ staked \in Nat /\ One \in Nat
      BY <1>1, FixedPointAssumption DEF TypeOK, StateType
<1>7. f \in Nat /\ f * n <= u * One  BY <1>4, <1>5, FromRatioBounds
<1>8. e * n <= t * One /\ staked <= t /\ staked > 0
      BY DEF Books, RateBacked, StakeRecorded, UpdateGlobalIndex
<1>9. state' = [state EXCEPT !.exchange_rate = e + f, !.total_bond_amount = t + u]
      BY DEF UpdateGlobalIndex
<1>10. staked' = staked + u /\ ActualSupply' = n
       BY DEF UpdateGlobalIndex, ActualSupply
<1> HIDE DEF u, e, t, n, f
<1>11. state'.exchange_rate = e + f /\ state'.total_bond_amount = t + u
       BY <1>6, <1>9 DEF StateType
<1>12. (e + f) * n <= (t + u) * One
  <2>1. (e + f) * n = e * n + f * n  BY <1>5, <1>6, <1>7
  <2>2. (t + u) * One = t * One + u * One  BY <1>4, <1>6
  <2>3. e * n \in Nat /\ f * n \in Nat /\ t * One \in Nat /\ u * One \in Nat
        BY <1>4, <1>5, <1>6, <1>7
  <2> QED  BY <1>7, <1>8, <2>1, <2>2, <2>3
<1>13. /\ e + f \in Nat /\ t + u \in Nat /\ staked + u \in Nat
       /\ staked + u <= t + u /\ staked + u # 0 /\ t + u # 0
       BY <1>4, <1>6, <1>7, <1>8
<1> QED  BY <1>1, <1>5, <1>10, <1>11, <1>12, <1>13, BooksFrom

(* Slashing takes from the stake, never from the record.                   *)
LEMMA SlashStakeBooks ==
  ASSUME Books, NEW loss \in StakeSlashes, SlashStake(loss) PROVE Books'
<1>1. TypeOK'  BY SlashType DEF Books
<1>2. /\ staked \in Nat /\ loss \in Nat /\ ActualSupply \in Nat
      /\ state.exchange_rate \in Nat /\ state.total_bond_amount \in Nat
      BY HubAssumption DEF Books, TypeOK, StateType, ActualSupply
<1>3. /\ state' = state /\ ActualSupply' = ActualSupply
      /\ staked' = staked - loss /\ staked' > 0 /\ staked' <= staked
      BY <1>2 DEF SlashStake, ledgerVars, ActualSupply
<1> QED  BY <1>1, <1>2, <1>3 DEF Books, RateBacked, StakeRecorded

(* Steps that leave the record, the rate, the supply and the stake alone.  *)
LEMMA BooksUnchanged ==
  ASSUME Books, TypeOK',
         state'.exchange_rate = state.exchange_rate,
         state'.total_bond_amount = state.total_bond_amount,
         UNCHANGED <<current_batch, supply, staked>>
  PROVE  Books'
  BY DEF Books, RateBacked, StakeRecorded, ActualSupply

(* A withdrawal leaves the record, the rate, the supply and the stake      *)
(* alone.                                                                  *)
LEMMA WithdrawBooks ==
  ASSUME Books, NEW user \in Users, WithdrawUnbonded(user) PROVE Books'
<1>1. TypeOK /\ TypeOK'  BY WithdrawType DEF Books
<1>2. PICK last, h, finished : PayOut(user, last, h, finished)
      BY DEF WithdrawUnbonded, WithdrawUpTo
<1>3. /\ state'.exchange_rate = state.exchange_rate
      /\ state'.total_bond_amount = state.total_bond_amount
      BY <1>1, <1>2 DEF PayOut, TypeOK, StateType
<1> QED  BY <1>1, <1>2, <1>3, BooksUnchanged DEF PayOut

(* Books is inductive.                                                     *)
LEMMA NextBooks == Books /\ [Next]_vars => Books'
<1> SUFFICES ASSUME Books, [Next]_vars PROVE Books'  OBVIOUS
<1>1. TypeOK'  BY NextType DEF Books
<1>2. CASE Message
  <2>1. CASE CheckSlashing  BY <2>1, CheckSlashingBooks
  <2>2. CASE \E payment \in BondAmounts : Bond(payment)  BY <2>2, BondBooks
  <2>3. CASE \E user \in Users, amount \in UnbondAmounts : Unbond(user, amount)
        BY <2>3, UnbondBooks
  <2>4. CASE \E user \in Users : WithdrawUnbonded(user)  BY <2>4, WithdrawBooks
  <2>5. CASE \E reward \in RewardAmounts : UpdateGlobalIndex(reward)
        BY <2>5, UpdateGlobalIndexBooks
  <2>6. CASE Administer
        BY <1>1, <2>6, BooksUnchanged DEF Administer, ledgerVars, chainVars
  <2> QED  BY <1>2, <2>1, <2>2, <2>3, <2>4, <2>5, <2>6 DEF Message
<1>3. CASE Chain
  <2>1. CASE \E interval \in BlockIntervals : EndBlock(interval)
        BY <1>1, <2>1, BooksUnchanged DEF EndBlock, ledgerVars
  <2>2. CASE \E loss \in StakeSlashes : SlashStake(loss)  BY <2>2, SlashStakeBooks
  <2>3. CASE \E b \in DOMAIN unbonding, loss \in UnbondingSlashes :
               SlashUnbonding(b, loss)
        BY <1>1, <2>3, BooksUnchanged DEF SlashUnbonding, ledgerVars
  <2>4. CASE \E amount \in Donations : Donate(amount)
        BY <1>1, <2>4, BooksUnchanged DEF Donate, ledgerVars
  <2> QED  BY <1>3, <2>1, <2>2, <2>3, <2>4 DEF Chain
<1>4. CASE UNCHANGED vars
      BY <1>1, <1>4, BooksUnchanged DEF vars, ledgerVars, chainVars
<1> QED  BY <1>2, <1>3, <1>4 DEF Next

(* The books are balanced in every reachable state.                        *)
LEMMA BooksCorrect == Spec => []Books
<1>1. Init => Books  BY InitBooks
<1>2. Books /\ [Next]_vars => Books'  BY NextBooks
<1> QED  BY <1>1, <1>2, PTL DEF Spec

(* The stake the hub has recorded always covers every token at the         *)
(* recorded rate, whatever is bonded, burnt, compounded or slashed and     *)
(* whatever the administrator sets the parameters to.                      *)
THEOREM RateAlwaysBacked == Spec => []RateBacked
<1>1. Books => RateBacked  BY DEF Books
<1> QED  BY <1>1, BooksCorrect, PTL

(* The record never falls below the real stake, and neither is exhausted   *)
(* while tokens remain.                                                    *)
THEOREM StakeAlwaysRecorded == Spec => []StakeRecorded
<1>1. Books => StakeRecorded  BY DEF Books
<1> QED  BY <1>1, BooksCorrect, PTL

(* Closing the batch never asks for more than the hub has staked or        *)
(* recorded: pick_validator finds enough delegations and the `expect` on   *)
(* the recorded stake never fires.                                         *)
THEOREM UndelegationAlwaysCovered == Spec => []UndelegationCovered
<1>1. Books => UndelegationCovered
  <2> SUFFICES ASSUME Books, NEW amount \in 1..supply,
                      AmountWithFee(amount) >= 0
               PROVE  /\ UndelegationAmount(amount) <= AfterSlashing.total_bond_amount
                      /\ UndelegationAmount(amount) <= staked
      BY DEF UndelegationCovered
  <2>1. amount \in Nat \ {0} /\ amount <= supply  BY DEF Books, TypeOK
  <2> QED  BY <2>1, UnbondCovered, AfterSlashingBooks
<1> QED  BY <1>1, BooksCorrect, PTL

-----------------------------------------------------------------------------
(* The rate                                                                *)

(* Cutting the rate to Frac fractions never raises it.                     *)
LEMMA TruncatedRateBelow ==
  ASSUME TypeOK
  PROVE  TruncatedRate \in Nat /\ TruncatedRate <= state.exchange_rate
<1> DEFINE e == state.exchange_rate
           t == MulDec(Frac, e)
           k == One \div Frac
<1>1. e \in Nat  BY DEF TypeOK, StateType
<1>2. Frac \in Nat \ {0} /\ One \in Nat \ {0} /\ One = k * Frac
      BY FixedPointAssumption
<1>3. t \in Nat /\ t * One <= Frac * e  BY <1>1, <1>2, MulDecBounds
<1>4. k \in Nat  BY <1>2, DivBounds
<1> HIDE DEF e, t, k
<1>5. (t * k) * Frac <= e * Frac
  <2>1. t * One = (t * k) * Frac  BY <1>2, <1>3, <1>4
  <2> QED  BY <1>1, <1>2, <1>3, <2>1
<1>6. t * k \in Nat  BY <1>3, <1>4
<1>7. t * k <= e
  <2>1. ASSUME NEW x \in Nat, NEW y \in Nat, x * Frac <= y * Frac PROVE x <= y
        BY <1>2, <2>1
  <2> QED  BY <1>1, <1>5, <1>6, <2>1
<1> QED  BY <1>6, <1>7 DEF TruncatedRate, e, t, k

(* Minting at the truncated rate gives away no more than the payment.      *)
LEMMA BondKeepsRate ==
  ASSUME Books, staked = state.total_bond_amount,
         NEW payment \in BondAmounts, Bond(payment)
  PROVE  state'.exchange_rate >= TruncatedRate
<1> DEFINE e == state.exchange_rate
           t == MulDec(Frac, e)
           k == One \div Frac
           r == TruncatedRate
           n == ActualSupply
           m == MintAmountWithFee(payment)
           bond == staked + payment
<1>1. TypeOK /\ payment \in Nat \ {0}  BY HubAssumption DEF Books
<1>2. /\ e \in Nat /\ staked \in Nat /\ n \in Nat /\ state \in StateType
      /\ Frac \in Nat /\ One \in Nat /\ One = k * Frac /\ k \in Nat
  <2>1. e \in Nat /\ staked \in Nat /\ n \in Nat /\ state \in StateType
        BY <1>1 DEF TypeOK, StateType, ActualSupply
  <2>2. Frac \in Nat \ {0} /\ One \in Nat /\ One = k * Frac
        BY FixedPointAssumption
  <2>3. k \in Nat  BY <2>2, DivBounds
  <2> QED  BY <2>1, <2>2, <2>3
<1>3. AfterSlashing = state  BY <1>2 DEF AfterSlashing
<1>4. /\ MintAmount(payment) \in Nat
      /\ MintAmount(payment) * t <= payment * Frac
      /\ m \in Nat \ {0} /\ m <= MintAmount(payment)
  <2>1. /\ MulDec(Frac, AfterSlashing.exchange_rate) > 0
        /\ AfterSlashing.exchange_rate < params.er_threshold
             => BondGap(payment) >= 0
        /\ m > 0
        BY DEF Bond
  <2>2. /\ MintAmount(payment) \in Nat
        /\ MintAmount(payment) * MulDec(Frac, AfterSlashing.exchange_rate)
             <= payment * Frac
        /\ m \in Int /\ m <= MintAmount(payment)
        BY <1>1, <2>1, BondTypes
  <2> QED  BY <1>3, <2>1, <2>2
<1>5. t \in Nat /\ r = t * k  BY <1>2, MulDecBounds DEF TruncatedRate
<1>6. r \in Nat /\ r <= e  BY <1>1, TruncatedRateBelow
<1>7. e * n <= staked * One  BY DEF Books, RateBacked
<1>8. state' = [state EXCEPT !.total_bond_amount = bond,
                            !.exchange_rate = UpdatedRate(bond, n + m)]
      BY <1>3 DEF Bond
<1> HIDE DEF e, t, k, r, n, m
<1>9. r * n <= staked * One
  <2>1. r * n <= e * n  BY <1>2, <1>6
  <2>2. r * n \in Nat /\ e * n \in Nat /\ staked * One \in Nat  BY <1>2, <1>6
  <2> QED  BY <1>7, <2>1, <2>2
<1>10. r * m <= payment * One
  <2>1. m * t <= MintAmount(payment) * t  BY <1>4, <1>5
  <2>2. m * t <= payment * Frac
    <3>1. /\ m * t \in Nat /\ MintAmount(payment) * t \in Nat
          /\ payment * Frac \in Nat
          BY <1>1, <1>2, <1>4, <1>5
    <3> QED  BY <1>4, <2>1, <3>1
  <2>3. (m * t) * k <= (payment * Frac) * k
    <3>1. m * t \in Nat /\ payment * Frac \in Nat  BY <1>1, <1>2, <1>4, <1>5
    <3> QED  BY <1>2, <2>2, <3>1
  <2>4. (m * t) * k = r * m  BY <1>2, <1>4, <1>5
  <2>5. (payment * Frac) * k = payment * One  BY <1>1, <1>2
  <2> QED  BY <2>3, <2>4, <2>5
<1>11. r * (n + m) <= bond * One
  <2>1. r * (n + m) = r * n + r * m  BY <1>2, <1>4, <1>6
  <2>2. bond * One = staked * One + payment * One  BY <1>1, <1>2
  <2>3. r * n \in Nat /\ r * m \in Nat /\ staked * One \in Nat /\ payment * One \in Nat
        BY <1>1, <1>2, <1>4, <1>6
  <2> QED  BY <1>9, <1>10, <2>1, <2>2, <2>3
<1>12. bond \in Nat \ {0} /\ n + m \in Nat \ {0}  BY <1>1, <1>2, <1>4
<1> HIDE DEF bond
<1>13. UpdatedRate(bond, n + m) = FromRatio(bond, n + m)
       BY <1>12 DEF UpdatedRate
<1>14. r <= FromRatio(bond, n + m)  BY <1>6, <1>11, <1>12, FromRatioGreatest
<1>15. state'.exchange_rate = FromRatio(bond, n + m)
       BY <1>2, <1>8, <1>13 DEF StateType
<1>16. FromRatio(bond, n + m) \in Nat  BY <1>12, FromRatioBounds
<1> QED  BY <1>6, <1>14, <1>15, <1>16 DEF r

(* Burning never lowers the rate: the fee stays with the other holders.    *)
LEMMA UnbondKeepsRate ==
  ASSUME Books, staked = state.total_bond_amount, ActualSupply' > 0,
         NEW user \in Users, NEW amount \in UnbondAmounts, Unbond(user, amount)
  PROVE  state'.exchange_rate >= state.exchange_rate
<1> DEFINE e == state.exchange_rate
           n == ActualSupply
           q == Requested(amount)
           left == supply - amount
<1>1. /\ TypeOK /\ amount \in Nat \ {0} /\ amount <= supply
      /\ AmountWithFee(amount) >= 0
      BY HubAssumption DEF Books, Unbond, WithinSupply
<1>2. /\ e \in Nat /\ staked \in Nat /\ n \in Nat /\ state \in StateType
      /\ supply \in Nat /\ current_batch.requested_with_fee \in Nat
      /\ One \in Nat
      BY <1>1, FixedPointAssumption DEF TypeOK, StateType, ActualSupply
<1>3. AfterSlashing = state  BY <1>2 DEF AfterSlashing
<1>4. /\ AmountWithFee(amount) \in Nat /\ AmountWithFee(amount) <= amount
      /\ q \in Nat
      BY <1>1, UnbondTypes DEF Unbond
<1>5. left \in Nat /\ left + q <= n
      BY <1>1, <1>2, <1>4 DEF Requested, ActualSupply
<1>6. staked > 0  BY <1>1, UnbondCovered
<1>7. left + q > 0
  <2>1. CASE JoinBatch(amount)
    <3>1. current_batch'.requested_with_fee = q /\ supply' = left
          BY <1>1, <2>1 DEF JoinBatch, TypeOK, Unbond
    <3> QED  BY <3>1 DEF ActualSupply
  <2>2. CASE CloseBatch(amount)
    <3>1. current_batch'.requested_with_fee = 0 /\ supply' = left
          BY <2>2 DEF CloseBatch, NextBatch, Unbond
    <3> HIDE DEF left, q
    <3>2. left > 0  BY <1>5, <3>1 DEF ActualSupply
    <3> QED  BY <1>4, <1>5, <3>2
  <2> QED  BY <2>1, <2>2 DEF Unbond
<1>8. UnbondRate(amount) = UpdatedRate(staked, left + q)  BY <1>3 DEF UnbondRate
<1>9. e * n <= staked * One  BY DEF Books, RateBacked
<1>10. state'.exchange_rate = UnbondRate(amount)
  <2>1. CASE JoinBatch(amount)
    <3>1. state' = [state EXCEPT !.exchange_rate = UnbondRate(amount)]
          BY <1>3, <2>1 DEF JoinBatch
    <3> QED  BY <1>2, <3>1 DEF StateType
  <2>2. CASE CloseBatch(amount)
    <3>1. state' = [state EXCEPT
            !.total_bond_amount = state.total_bond_amount - UndelegationAmount(amount),
            !.exchange_rate = UnbondRate(amount),
            !.last_unbonded_time = now]
          BY <1>3, <2>2 DEF CloseBatch
    <3> QED  BY <1>2, <3>1 DEF StateType
  <2> QED  BY <2>1, <2>2 DEF Unbond
<1> HIDE DEF e, n, q, left
<1>11. e * (left + q) <= staked * One
  <2>1. e * (left + q) <= e * n  BY <1>2, <1>4, <1>5
  <2>2. e * (left + q) \in Nat /\ e * n \in Nat /\ staked * One \in Nat
        BY <1>2, <1>4, <1>5
  <2> QED  BY <1>9, <2>1, <2>2
<1>12. left + q \in Nat \ {0}  BY <1>4, <1>5, <1>7
<1>13. UpdatedRate(staked, left + q) = FromRatio(staked, left + q)
       BY <1>2, <1>6, <1>12 DEF UpdatedRate
<1>14. e <= FromRatio(staked, left + q) /\ FromRatio(staked, left + q) \in Nat
       BY <1>2, <1>11, <1>12, FromRatioGreatest, FromRatioBounds
<1> QED  BY <1>2, <1>8, <1>10, <1>13, <1>14 DEF e

(* No step lowers the rate below its truncation while no slashing is       *)
(* unseen.                                                                 *)
LEMMA StepKeepsRate ==
  ASSUME Books, [Next]_vars, staked = state.total_bond_amount, ActualSupply' > 0
  PROVE  state'.exchange_rate >= TruncatedRate
<1>1. /\ TypeOK /\ state \in StateType /\ state.exchange_rate \in Nat
      /\ TruncatedRate \in Nat /\ TruncatedRate <= state.exchange_rate
      BY TruncatedRateBelow DEF Books, TypeOK, StateType
<1>2. SUFFICES ASSUME ~ \E payment \in BondAmounts : Bond(payment)
               PROVE  /\ state'.exchange_rate \in Nat
                      /\ state'.exchange_rate >= state.exchange_rate
      BY <1>1, BondKeepsRate
<1>3. state'.exchange_rate \in Nat
  <2>1. TypeOK'  BY NextType DEF Books
  <2> QED  BY <2>1 DEF TypeOK, StateType
<1>4. CASE CheckSlashing
  <2>1. staked \in Nat  BY <1>1 DEF TypeOK
  <2>2. AfterSlashing = state  BY <2>1 DEF AfterSlashing
  <2> QED  BY <1>1, <1>3, <1>4, <2>2 DEF CheckSlashing
<1>5. CASE \E user \in Users, amount \in UnbondAmounts : Unbond(user, amount)
      BY <1>3, <1>5, UnbondKeepsRate
<1>6. ASSUME NEW user \in Users, WithdrawUnbonded(user)
      PROVE  state'.exchange_rate >= state.exchange_rate
  <2>1. PICK last, h, finished : PayOut(user, last, h, finished)
        BY <1>6 DEF WithdrawUnbonded, WithdrawUpTo
  <2>2. state'.exchange_rate = state.exchange_rate
        BY <1>1, <2>1 DEF PayOut, StateType
  <2> QED  BY <1>1, <2>2
<1>7. ASSUME NEW reward \in RewardAmounts, UpdateGlobalIndex(reward)
      PROVE  state'.exchange_rate >= state.exchange_rate
  <2> DEFINE u == reward - ProtocolFee(reward)
             f == FromRatio(u, ActualSupply)
  <2>1. reward \in Nat /\ params.protocol_fee \in Nat
        BY <1>1, HubAssumption DEF TypeOK, ConfigTypeOK, ParamFields
  <2>2. ProtocolFee(reward) \in Nat  BY <2>1, MulDecBounds DEF ProtocolFee
  <2>3. u \in Nat  BY <1>7, <2>1, <2>2 DEF UpdateGlobalIndex
  <2>4. ActualSupply \in Nat \ {0}
        BY <1>1, <1>7 DEF TypeOK, ActualSupply, UpdateGlobalIndex
  <2>5. f \in Nat  BY <2>3, <2>4, FromRatioBounds
  <2>6. state' = [state EXCEPT
                    !.exchange_rate = state.exchange_rate + f,
                    !.total_bond_amount = state.total_bond_amount + u]
        BY <1>7 DEF UpdateGlobalIndex
  <2> HIDE DEF u, f
  <2>7. state'.exchange_rate = state.exchange_rate + f
        BY <1>1, <2>6 DEF StateType
  <2> QED  BY <1>1, <2>5, <2>7
<1>8. CASE Administer \/ Chain \/ UNCHANGED vars
  <2>1. state' = state
        BY <1>8 DEF Administer, Chain, EndBlock, SlashStake, SlashUnbonding,
                    Donate, vars, ledgerVars
  <2> QED  BY <1>1, <2>1
<1> QED  BY <1>2, <1>3, <1>4, <1>5, <1>6, <1>7, <1>8 DEF Next, Message

(* As long as no slashing is unseen, no message and no step of the chain   *)
(* lowers the rate below its truncation: holders are never diluted.        *)
THEOREM RateAlwaysKept == Spec => RateKept
<1>1. Books /\ [Next]_vars
        => [staked = state.total_bond_amount /\ ActualSupply' > 0
              => state'.exchange_rate >= TruncatedRate]_vars
      BY StepKeepsRate
<1> QED  BY <1>1, BooksCorrect, PTL DEF Spec, RateKept

-----------------------------------------------------------------------------
(* Batches                                                                 *)

Order == TypeOK /\ BatchesInOrder

(* There is no closed batch at the start.                                  *)
LEMMA InitOrder == Init => Order
<1> SUFFICES ASSUME Init PROVE Order  OBVIOUS
<1>1. /\ DOMAIN history = {} /\ current_batch.id = 1
      /\ state.last_processed_batch = 0
      /\ state.last_unbonded_time = StartTime /\ now = StartTime
      BY DEF Init
<1>2. BatchesInOrder  BY <1>1, HubAssumption DEF BatchesInOrder
<1> QED  BY <1>2, InitType DEF Order

(* Closing a batch appends it: its number is free and its time the latest. *)
LEMMA UnbondOrder ==
  ASSUME Order, NEW user \in Users, NEW amount \in UnbondAmounts,
         Unbond(user, amount)
  PROVE  Order'
<1> DEFINE id == current_batch.id
           last == state.last_processed_batch
<1>1. TypeOK /\ TypeOK' /\ BatchesInOrder  BY UnbondType DEF Order
<1>2. /\ AfterSlashing \in StateType
      /\ AfterSlashing.last_unbonded_time = state.last_unbonded_time
      /\ AfterSlashing.last_processed_batch = last
      BY <1>1, AfterSlashingType
<1>3. /\ id \in Nat \ {0} /\ last \in Nat /\ now \in Nat /\ now' = now
      /\ state.last_unbonded_time \in Nat
      /\ \A b \in DOMAIN history : history[b].time \in Nat
      BY <1>1 DEF TypeOK, StateType, HistoryType, Unbond
<1>4. CASE JoinBatch(amount)
  <2>1. /\ state'.last_unbonded_time = state.last_unbonded_time
        /\ state'.last_processed_batch = last
        BY <1>2, <1>4 DEF JoinBatch, StateType
  <2>2. current_batch'.id = id /\ history' = history
        BY <1>1, <1>4 DEF JoinBatch, TypeOK
  <2> QED  BY <1>1, <1>3, <2>1, <2>2 DEF Order, BatchesInOrder
<1>5. CASE CloseBatch(amount)
  <2>1. now > state.last_unbonded_time
    <3>1. params.epoch_period \in Nat
          BY <1>1 DEF TypeOK, ConfigTypeOK, ParamFields
    <3> QED  BY <1>3, <1>5, <3>1 DEF CloseBatch, EpochPassed
  <2>2. /\ state'.last_unbonded_time = now /\ state'.last_processed_batch = last
        BY <1>2, <1>5 DEF CloseBatch, StateType
  <2>3. current_batch'.id = id + 1  BY <1>5 DEF CloseBatch, NextBatch
  <2>4. /\ DOMAIN history' = DOMAIN history \cup {id}
        /\ history'[id].time = now /\ history'[id].released = FALSE
        /\ \A b \in DOMAIN history : b # id => history'[b] = history[b]
        BY <1>5 DEF CloseBatch, Put
  <2>5. /\ DOMAIN history = 1..(id - 1) /\ last < id
        /\ \A b \in DOMAIN history :
             /\ history[b].released <=> b <= last
             /\ history[b].time <= state.last_unbonded_time
             /\ b + 1 \in DOMAIN history => history[b].time < history[b + 1].time
        BY <1>1 DEF BatchesInOrder
  <2> HIDE DEF id, last
  <2>6. DOMAIN history' = 1..id  BY <1>3, <2>4, <2>5
  <2>7. ASSUME NEW b \in 1..id
        PROVE  /\ history'[b].released <=> b <= last
               /\ history'[b].time <= now
               /\ b + 1 \in 1..id => history'[b].time < history'[b + 1].time
    <3>1. CASE b = id  BY <1>3, <2>4, <2>5, <3>1
    <3>2. CASE b # id
      <4>1. b \in DOMAIN history /\ history'[b] = history[b]
            BY <1>3, <2>4, <2>5, <3>2
      <4>2. history[b].time < now  BY <1>3, <2>1, <2>5, <4>1
      <4>3. CASE b + 1 = id  BY <1>3, <2>4, <2>5, <4>1, <4>2, <4>3
      <4>4. CASE b + 1 # id
        <5>1. b + 1 \in DOMAIN history /\ history'[b + 1] = history[b + 1]
              BY <1>3, <2>4, <2>5, <3>2, <4>4
        <5> QED  BY <1>3, <2>5, <4>1, <4>2, <5>1
      <4> QED  BY <4>3, <4>4
    <3> QED  BY <3>1, <3>2
  <2>8. last < id + 1 /\ id + 1 - 1 = id  BY <1>3, <2>5
  <2> QED  BY <1>1, <1>3, <2>2, <2>3, <2>6, <2>7, <2>8 DEF Order, BatchesInOrder
<1> QED  BY <1>4, <1>5 DEF Unbond

(* A withdrawal releases exactly the batches after the last processed one  *)
(* up to the new one, and keeps their times.                               *)
LEMMA WithdrawReleases ==
  ASSUME Order, NEW user \in Users, WithdrawUnbonded(user)
  PROVE  /\ DOMAIN history' = DOMAIN history
         /\ state'.last_processed_batch \in
              state.last_processed_batch..(current_batch.id - 1)
         /\ state'.last_unbonded_time = state.last_unbonded_time
         /\ \A b \in DOMAIN history :
              /\ history'[b].time = history[b].time
              /\ history'[b].amount = history[b].amount
              /\ history'[b].released <=> b <= state'.last_processed_batch
              /\ history[b].released => history'[b] = history[b]
         /\ wait_list' = [wait_list EXCEPT ![user] = RemainingRequests(user, history')]
<1> DEFINE total == TotalUnbonded
           slashed == FromSubtraction(total, ActualUnbonded)
           h == ReleasedHistory(total, slashed)
<1>1. PICK last \in state.last_processed_batch..(current_batch.id - 1) :
        WithdrawUpTo(user, last)
      BY DEF WithdrawUnbonded
<1>2. /\ MaturedBatches = (state.last_processed_batch + 1)..last
      /\ PayOut(user, last, h, FinishedAmount(user, h))
      BY <1>1 DEF WithdrawUpTo
<1>3. /\ state.last_processed_batch \in Nat /\ last \in Int
      /\ state \in StateType /\ current_batch.id \in Nat
      /\ DOMAIN history = 1..(current_batch.id - 1)
      /\ \A b \in DOMAIN history :
           history[b] \in HistoryType
             /\ (history[b].released <=> b <= state.last_processed_batch)
      BY DEF Order, TypeOK, StateType, BatchesInOrder
<1>4. /\ DOMAIN h = DOMAIN history
      /\ \A b \in DOMAIN history \ MaturedBatches : h[b] = history[b]
      BY DEF ReleasedHistory
<1>5. ASSUME NEW b \in MaturedBatches
      PROVE  /\ b \in DOMAIN history
             /\ h[b].time = history[b].time
             /\ h[b].amount = history[b].amount
             /\ h[b].released = TRUE
  <2>1. b \in DOMAIN history  BY DEF MaturedBatches
  <2>2. h[b] = [history[b] EXCEPT
                  !.withdraw_rate =
                     FromRatio(ActualUnbondedOf(b, total, slashed), history[b].amount),
                  !.released = TRUE]
        BY <2>1 DEF ReleasedHistory
  <2>3. history[b] \in HistoryType  BY <1>3, <2>1
  <2> QED  BY <2>1, <2>2, <2>3 DEF HistoryType
<1>6. /\ history' = h /\ state'.last_processed_batch = last
      /\ state'.last_unbonded_time = state.last_unbonded_time
      /\ wait_list' = [wait_list EXCEPT ![user] = RemainingRequests(user, h)]
      BY <1>2, <1>3 DEF PayOut, StateType
<1> HIDE DEF total, slashed, h
<1>7. ASSUME NEW b \in DOMAIN history
      PROVE  /\ h[b].time = history[b].time
             /\ h[b].amount = history[b].amount
             /\ h[b].released <=> b <= last
             /\ history[b].released => h[b] = history[b]
  <2>1. b \in Nat /\ b <= current_batch.id - 1  BY <1>3
  <2>2. CASE b \in MaturedBatches
    <3>1. b > state.last_processed_batch /\ b <= last  BY <1>2, <1>3, <2>1, <2>2
    <3>2. ~(b <= state.last_processed_batch)  BY <1>3, <2>1, <3>1
    <3>3. ~history[b].released  BY <1>3, <3>2
    <3>4. h[b].released = TRUE /\ h[b].time = history[b].time
            /\ h[b].amount = history[b].amount
          BY <1>5, <2>2
    <3> QED  BY <3>1, <3>3, <3>4
  <2>3. CASE b \notin MaturedBatches
    <3>1. h[b] = history[b]  BY <1>4, <2>3
    <3>2. b <= last <=> b <= state.last_processed_batch
          BY <1>1, <1>2, <1>3, <2>1, <2>3
    <3> QED  BY <1>3, <3>1, <3>2
  <2> QED  BY <2>2, <2>3
<1> QED  BY <1>1, <1>4, <1>6, <1>7

(* A withdrawal keeps the order of the batches.                            *)
LEMMA WithdrawOrder ==
  ASSUME Order, NEW user \in Users, WithdrawUnbonded(user) PROVE Order'
<1>1. TypeOK'  BY WithdrawType DEF Order
<1>2. current_batch' = current_batch /\ now' = now
      BY DEF WithdrawUnbonded, WithdrawUpTo, PayOut
<1>3. /\ DOMAIN history' = DOMAIN history
      /\ state'.last_processed_batch \in
           state.last_processed_batch..(current_batch.id - 1)
      /\ state'.last_unbonded_time = state.last_unbonded_time
      /\ \A b \in DOMAIN history :
           /\ history'[b].time = history[b].time
           /\ history'[b].released <=> b <= state'.last_processed_batch
      BY WithdrawReleases
<1>4. state.last_processed_batch \in Nat /\ current_batch.id \in Nat
      BY DEF Order, TypeOK, StateType
<1>5. state'.last_processed_batch < current_batch.id  BY <1>3, <1>4
<1> QED  BY <1>1, <1>2, <1>3, <1>5 DEF Order, BatchesInOrder

(* Steps that leave the batches alone.                                     *)
LEMMA OrderUnchanged ==
  ASSUME Order, TypeOK',
         state'.last_processed_batch = state.last_processed_batch,
         state'.last_unbonded_time = state.last_unbonded_time,
         UNCHANGED <<current_batch, history>>, now' >= now
  PROVE  Order'
<1>1. state.last_unbonded_time \in Nat /\ now \in Nat /\ now' \in Nat
      BY DEF Order, TypeOK, StateType
<1>2. state.last_unbonded_time <= now'  BY <1>1 DEF Order, BatchesInOrder
<1> QED  BY <1>2 DEF Order, BatchesInOrder

(* Order is inductive.                                                     *)
LEMMA NextOrder == Order /\ [Next]_vars => Order'
<1> SUFFICES ASSUME Order, [Next]_vars PROVE Order'  OBVIOUS
<1>1. TypeOK /\ TypeOK' /\ state \in StateType /\ now \in Nat
      BY NextType DEF Order, TypeOK
<1>2. now >= now  BY <1>1
<1>3. CASE CheckSlashing
      BY <1>1, <1>2, <1>3, AfterSlashingType, OrderUnchanged
      DEF CheckSlashing, chainVars
<1>4. ASSUME NEW payment \in BondAmounts, Bond(payment) PROVE Order'
  <2>1. AfterSlashing \in StateType  BY <1>1, AfterSlashingType
  <2>2. /\ state'.last_processed_batch = AfterSlashing.last_processed_batch
        /\ state'.last_unbonded_time = AfterSlashing.last_unbonded_time
        BY <1>4, <2>1 DEF Bond, StateType
  <2> QED  BY <1>1, <1>2, <1>4, <2>2, AfterSlashingType, OrderUnchanged DEF Bond
<1>5. CASE \E user \in Users, amount \in UnbondAmounts : Unbond(user, amount)
      BY <1>5, UnbondOrder
<1>6. CASE \E user \in Users : WithdrawUnbonded(user)  BY <1>6, WithdrawOrder
<1>7. ASSUME NEW reward \in RewardAmounts, UpdateGlobalIndex(reward) PROVE Order'
  <2>1. /\ state'.last_processed_batch = state.last_processed_batch
        /\ state'.last_unbonded_time = state.last_unbonded_time
        BY <1>1, <1>7 DEF UpdateGlobalIndex, StateType
  <2> QED  BY <1>1, <1>2, <1>7, <2>1, OrderUnchanged DEF UpdateGlobalIndex
<1>8. CASE Administer \/ UNCHANGED vars
      BY <1>1, <1>2, <1>8, OrderUnchanged
      DEF Administer, vars, ledgerVars, chainVars
<1>9. CASE Chain
  <2>1. now' >= now
    <3>1. ASSUME NEW interval \in BlockIntervals, EndBlock(interval)
          PROVE  now' >= now
      <4>1. interval \in Nat  BY HubAssumption
      <4>2. now' = now + interval  BY <3>1 DEF EndBlock
      <4> QED  BY <1>1, <4>1, <4>2
    <3>2. CASE ~ \E interval \in BlockIntervals : EndBlock(interval)
      <4>1. now' = now
            BY <1>9, <3>2 DEF Chain, SlashStake, SlashUnbonding, Donate
      <4> QED  BY <1>1, <4>1
    <3> QED  BY <3>1, <3>2
  <2>2. state' = state /\ current_batch' = current_batch /\ history' = history
        BY <1>9 DEF Chain, EndBlock, SlashStake, SlashUnbonding, Donate, ledgerVars
  <2> QED  BY <1>1, <2>1, <2>2, OrderUnchanged
<1> QED  BY <1>3, <1>4, <1>5, <1>6, <1>7, <1>8, <1>9 DEF Next, Message

(* The batches are in order in every reachable state.                      *)
LEMMA OrderCorrect == Spec => []Order
<1>1. Init => Order  BY InitOrder
<1>2. Order /\ [Next]_vars => Order'  BY NextOrder
<1> QED  BY <1>1, <1>2, PTL DEF Spec

(* Closed batches are numbered without gaps in the order of their times    *)
(* and are released in that order, none skipped, whatever periods the      *)
(* administrator sets in between.                                          *)
THEOREM BatchesAlwaysInOrder == Spec => []BatchesInOrder
<1>1. Order => BatchesInOrder  BY DEF Order
<1> QED  BY <1>1, OrderCorrect, PTL

(* The body of ClaimsFrozen.                                               *)
ClaimsKept ==
  \A b \in DOMAIN history :
    /\ b \in DOMAIN history'
    /\ history'[b].amount = history[b].amount
    /\ history'[b].time = history[b].time
    /\ history[b].released => history'[b] = history[b]
    /\ \A u \in Users :
         \/ wait_list'[u][b] = wait_list[u][b]
         \/ wait_list'[u][b] = 0 /\ history'[b].released

(* A request joins the open batch and leaves closed ones alone.            *)
LEMMA UnbondKeepsClaims ==
  ASSUME Order, NEW user \in Users, NEW amount \in UnbondAmounts,
         Unbond(user, amount)
  PROVE  ClaimsKept
<1> DEFINE id == current_batch.id
<1>1. SUFFICES ASSUME NEW b \in DOMAIN history
               PROVE  /\ b \in DOMAIN history'
                      /\ history'[b] = history[b]
                      /\ \A u \in Users : wait_list'[u][b] = wait_list[u][b]
      BY DEF ClaimsKept
<1>2. /\ wait_list \in [Users -> [BatchIds -> Nat]] /\ id \in Nat
      /\ DOMAIN history = 1..(id - 1)
      BY DEF Order, TypeOK, BatchesInOrder
<1>3. b # id  BY <1>2
<1>4. b \in DOMAIN history' /\ history'[b] = history[b]
  <2>1. CASE JoinBatch(amount)  BY <2>1 DEF JoinBatch
  <2>2. CASE CloseBatch(amount)  BY <1>3, <2>2 DEF CloseBatch, Put
  <2> QED  BY <2>1, <2>2 DEF Unbond
<1>5. ASSUME NEW u \in Users PROVE wait_list'[u][b] = wait_list[u][b]
  <2>1. wait_list' = [wait_list EXCEPT
          ![user] = [wait_list[user] EXCEPT
                       ![id] = wait_list[user][id] + AmountWithFee(amount)]]
        BY DEF Unbond
  <2>2. wait_list[user] \in [BatchIds -> Nat]  BY <1>2
  <2>3. b \in BatchIds  BY DEF Order, TypeOK
  <2> QED  BY <1>2, <1>3, <2>1, <2>2, <2>3
<1> QED  BY <1>4, <1>5

(* A withdrawal releases batches once and pays released requests whole.    *)
LEMMA WithdrawKeepsClaims ==
  ASSUME Order, NEW user \in Users, WithdrawUnbonded(user) PROVE ClaimsKept
<1>1. /\ DOMAIN history' = DOMAIN history
      /\ \A b \in DOMAIN history :
           /\ history'[b].time = history[b].time
           /\ history'[b].amount = history[b].amount
           /\ history[b].released => history'[b] = history[b]
      /\ wait_list' = [wait_list EXCEPT ![user] = RemainingRequests(user, history')]
      BY WithdrawReleases
<1>2. /\ wait_list \in [Users -> [BatchIds -> Nat]]
      /\ DOMAIN history \subseteq BatchIds
      BY DEF Order, TypeOK
<1>3. ASSUME NEW b \in DOMAIN history, NEW u \in Users
      PROVE  \/ wait_list'[u][b] = wait_list[u][b]
             \/ wait_list'[u][b] = 0 /\ history'[b].released
  <2>1. CASE u # user  BY <1>1, <1>2, <2>1
  <2>2. CASE u = user
    <3>1. wait_list'[u] = RemainingRequests(user, history')  BY <1>1, <1>2, <2>2
    <3>2. b \in BatchIds  BY <1>2
    <3> QED  BY <1>1, <2>2, <3>1, <3>2 DEF RemainingRequests
  <2> QED  BY <2>1, <2>2
<1> QED  BY <1>1, <1>3 DEF ClaimsKept

(* No step changes a claim on a closed batch except by paying it.          *)
LEMMA StepKeepsClaims ==
  ASSUME Order, [Next]_vars PROVE ClaimsKept
<1>1. CASE \E user \in Users, amount \in UnbondAmounts : Unbond(user, amount)
      BY <1>1, UnbondKeepsClaims
<1>2. CASE \E user \in Users : WithdrawUnbonded(user)
      BY <1>2, WithdrawKeepsClaims
<1>3. CASE \/ CheckSlashing
           \/ \E payment \in BondAmounts : Bond(payment)
           \/ \E reward \in RewardAmounts : UpdateGlobalIndex(reward)
           \/ Administer \/ Chain \/ UNCHANGED vars
  <2>1. history' = history /\ wait_list' = wait_list
        BY <1>3 DEF CheckSlashing, Bond, UpdateGlobalIndex, Administer, Chain,
                    EndBlock, SlashStake, SlashUnbonding, Donate, vars, ledgerVars
  <2> QED  BY <2>1 DEF ClaimsKept
<1> QED  BY <1>1, <1>2, <1>3 DEF Next, Message

(* No message adds to a closed batch, releases it twice, or takes a user's *)
(* claim on it away before it is released.                                 *)
THEOREM ClaimsAlwaysFrozen == Spec => ClaimsFrozen
<1>1. Order /\ [Next]_vars => [ClaimsKept]_vars  BY StepKeepsClaims
<1>2. Spec => [][ClaimsKept]_vars  BY <1>1, OrderCorrect, PTL DEF Spec
<1> QED  BY <1>2 DEF ClaimsFrozen, ClaimsKept

-----------------------------------------------------------------------------
(* What administrative messages can and cannot do, for any accounts,       *)
(* tokens, parameters and messages.                                        *)

(* The configuration has its type as long as only administrative messages  *)
(* and migrations run.                                                     *)
LEMMA ConfigTypeCorrect == ConfigSpec => []ConfigTypeOK
<1>1. ConfigInit => ConfigTypeOK
      BY ConfigAssumption DEF ConfigInit, ConfigTypeOK
<1>2. ConfigTypeOK /\ [ConfigNext \/ ConfigMigrate]_configVars => ConfigTypeOK'
  <2> SUFFICES ASSUME ConfigTypeOK, [ConfigNext \/ ConfigMigrate]_configVars
               PROVE  ConfigTypeOK'
      OBVIOUS
  <2>1. CASE ConfigNext  BY <2>1, ConfigNextType
  <2>2. CASE ConfigMigrate
        BY <2>2 DEF ConfigMigrate, Migrate, ConfigTypeOK, ConfigType
  <2>3. CASE UNCHANGED configVars  BY <2>3 DEF configVars, ConfigTypeOK
  <2> QED  BY <2>1, <2>2, <2>3
<1> QED  BY <1>1, <1>2, PTL DEF ConfigSpec

(* The body of NeverUnset.                                                 *)
AddressesKept ==
  /\ config.token_contract # None => config'.token_contract # None
  /\ config.protocol_fee_collector # None => config'.protocol_fee_collector # None

(* UpdateConfig writes an address only when it is given one.               *)
LEMMA StepKeepsAddresses ==
  ASSUME ConfigTypeOK, ConfigNext \/ ConfigMigrate PROVE AddressesKept
<1>1. ASSUME NEW sender \in Senders, NEW token \in Tokens \cup {None},
             NEW collector \in Collectors \cup {None},
             UpdateConfig(sender, token, collector)
      PROVE  AddressesKept
  <2>1. config \in ConfigType  BY DEF ConfigTypeOK
  <2>2. /\ config'.token_contract
             = IF token # None THEN token ELSE config.token_contract
        /\ config'.protocol_fee_collector
             = IF collector # None THEN collector ELSE config.protocol_fee_collector
        BY <1>1, <2>1 DEF UpdateConfig, ConfigType
  <2> QED  BY <2>2 DEF AddressesKept
<1>2. CASE ConfigMigrate  BY <1>2 DEF ConfigMigrate, Migrate, AddressesKept
<1>3. CASE config' = config  BY <1>3 DEF AddressesKept
<1> QED  BY <1>1, <1>2, <1>3
         DEF ConfigNext, Pause, Unpause, UpdateAdmin, UpdateParams

(* No sequence of updates and migrations takes away the token contract or  *)
(* the fee collector.                                                      *)
THEOREM AddressesNeverUnset == ConfigSpec => NeverUnset
<1>1. ConfigTypeOK /\ [ConfigNext \/ ConfigMigrate]_configVars
        => [AddressesKept]_configVars
      BY StepKeepsAddresses
<1>2. ConfigSpec => [][AddressesKept]_configVars
      BY <1>1, ConfigTypeCorrect, PTL DEF ConfigSpec
<1> QED  BY <1>2 DEF NeverUnset, AddressesKept

-----------------------------------------------------------------------------

(* The body of PegNotOvershot.                                             *)
AtMostPeg ==
  supply' # supply /\ AfterSlashing.exchange_rate < params.er_threshold
    => state'.exchange_rate <= One

(* No more stake than tokens gives a rate of at most one.                  *)
LEMMA RateAtMostOne ==
  ASSUME NEW bond \in Nat, NEW issued \in Nat, bond <= issued
  PROVE  UpdatedRate(bond, issued) <= One
<1>1. One \in Nat \ {0}  BY FixedPointAssumption
<1>2. CASE bond = 0 \/ issued = 0  BY <1>1, <1>2 DEF UpdatedRate
<1>3. CASE bond # 0 /\ issued # 0
  <2>1. PICK r : r = FromRatio(bond, issued)  OBVIOUS
  <2>2. r \in Nat /\ r * issued <= bond * One
        BY <1>1, <1>3, <2>1, FromRatioBounds
  <2>3. bond * One <= issued * One  BY <1>1
  <2>4. /\ r * issued \in Nat /\ bond * One \in Nat /\ One * issued \in Nat
        /\ issued * One = One * issued
        BY <1>1, <2>2
  <2>5. r * issued <= One * issued  BY <2>2, <2>3, <2>4
  <2>6. r <= One
    <3>1. CASE r <= One  BY <3>1
    <3>2. CASE One + 1 <= r
      <4>1. (One + 1) * issued <= r * issued  BY <1>1, <2>2, <3>2
      <4>2. (One + 1) * issued = One * issued + issued  BY <1>1
      <4> QED  BY <1>1, <1>3, <2>4, <2>5, <4>1, <4>2
    <3> QED  BY <1>1, <2>2, <3>1, <3>2
  <2> QED  BY <1>3, <2>1, <2>6 DEF UpdatedRate
<1> QED  BY <1>2, <1>3

(* The fee is at most the gap, so tokens still outnumber the stake.        *)
LEMMA StepKeepsPeg == ASSUME TypeOK, [Next]_vars PROVE AtMostPeg
<1> SUFFICES ASSUME supply' # supply,
                    AfterSlashing.exchange_rate < params.er_threshold
             PROVE  state'.exchange_rate <= One
    BY DEF AtMostPeg
<1>1. /\ AfterSlashing \in StateType /\ AfterSlashing.total_bond_amount \in Nat
      /\ ActualSupply \in Nat /\ supply \in Nat
      /\ current_batch.requested_with_fee \in Nat
      BY AfterSlashingType DEF TypeOK, StateType, ActualSupply
<1>2. ASSUME NEW payment \in BondAmounts, Bond(payment)
      PROVE  state'.exchange_rate <= One
  <2>1. PICK bond, mint, fee, full :
          /\ bond = AfterSlashing.total_bond_amount + payment
          /\ mint = MintAmount(payment) /\ fee = BondFee(payment)
          /\ full = ActualSupply
        OBVIOUS
  <2>2. payment \in Nat /\ bond \in Nat /\ full \in Nat
        BY <1>1, <2>1, HubAssumption
  <2>3. mint \in Nat  BY <1>2, <2>1, <2>2, BondTypes DEF Bond
  <2>4. fee \in Int /\ fee <= (full + mint) - bond
    <3>1. PICK part \in Nat : part = MulDec(mint, params.peg_recovery_fee)
          BY <2>3, MulDecBounds DEF TypeOK, ConfigTypeOK, ParamFields
    <3>2. fee = Lesser(part, (full + mint) - bond)
          BY <2>1, <3>1 DEF BondFee, BondGap
    <3> QED  BY <2>2, <2>3, <3>2 DEF Lesser
  <2>5. state'.exchange_rate = UpdatedRate(bond, full + (mint - fee))
        BY <1>1, <1>2, <2>1 DEF Bond, MintAmountWithFee, StateType
  <2>6. full + (mint - fee) \in Nat /\ bond <= full + (mint - fee)
        BY <2>2, <2>3, <2>4
  <2> QED  BY <2>2, <2>5, <2>6, RateAtMostOne
<1>3. ASSUME NEW user \in Users, NEW amount \in UnbondAmounts, Unbond(user, amount)
      PROVE  state'.exchange_rate <= One
  <2>1. state'.exchange_rate = UnbondRate(amount)
        BY <1>1, <1>3 DEF Unbond, JoinBatch, CloseBatch, StateType
  <2>2. PICK bond, fee, issued, asked :
          /\ bond = AfterSlashing.total_bond_amount /\ fee = UnbondFee(amount)
          /\ issued = supply /\ asked = current_batch.requested_with_fee
        OBVIOUS
  <2>3. amount \in Nat /\ bond \in Nat /\ issued \in Nat /\ asked \in Nat
        BY <1>1, <2>2, HubAssumption
  <2>4. fee \in Int /\ fee <= issued + asked - bond
    <3>1. PICK part \in Nat : part = MulDec(amount, params.peg_recovery_fee)
          BY <2>3, MulDecBounds DEF TypeOK, ConfigTypeOK, ParamFields
    <3>2. fee = Lesser(part, UnbondGap)  BY <2>2, <3>1 DEF UnbondFee
    <3>3. UnbondGap = issued + asked - bond
          BY <1>1, <2>2, <2>3 DEF UnbondGap, ActualSupply
    <3> QED  BY <2>3, <3>2, <3>3 DEF Lesser
  <2>5. UnbondRate(amount) = UpdatedRate(bond, issued - amount + (asked + (amount - fee)))
        BY <2>2 DEF UnbondRate, Requested, AmountWithFee
  <2>6. /\ issued - amount + (asked + (amount - fee)) \in Nat
        /\ bond <= issued - amount + (asked + (amount - fee))
        BY <2>3, <2>4
  <2> QED  BY <2>1, <2>3, <2>5, <2>6, RateAtMostOne
<1>4. \/ \E payment \in BondAmounts : Bond(payment)
      \/ \E user \in Users, amount \in UnbondAmounts : Unbond(user, amount)
      BY DEF Next, Message, Chain, CheckSlashing, WithdrawUnbonded, WithdrawUpTo, PayOut,
             UpdateGlobalIndex, Administer, EndBlock, SlashStake, SlashUnbonding, Donate,
             vars, chainVars
<1> QED  BY <1>2, <1>3, <1>4

(* A bond or a burn that is charged the peg recovery fee never lifts the   *)
(* rate above one, whatever was slashed, asked in the open batch or issued *)
(* before, and whatever parameters the administrator has set.              *)
THEOREM PegNeverOvershot == Spec => PegNotOvershot
<1>1. TypeOK /\ [Next]_vars => [AtMostPeg]_vars  BY StepKeepsPeg
<1>2. Spec => [][AtMostPeg]_vars  BY <1>1, TypeCorrect, PTL DEF Spec
<1> QED  BY <1>2 DEF PegNotOvershot, AtMostPeg

-----------------------------------------------------------------------------

(* The body of PausedFreezes.                                              *)
Frozen ==
  paused /\ paused' => UNCHANGED <<ledgerVars, supply>> /\ staked' <= staked
                         /\ hub_balance' >= hub_balance

(* A paused hub refuses all messages but the admin's; the chain goes on,   *)
(* slashes its stake and pays it unbonded coins.                           *)
LEMMA StepFreezes == ASSUME TypeOK, [Next]_vars PROVE Frozen
<1>1. /\ staked \in Nat /\ hub_balance \in Nat
      /\ staked <= staked /\ hub_balance >= hub_balance
      BY DEF TypeOK
<1>2. CASE NotPaused  BY <1>2 DEF NotPaused, Frozen
<1>3. CASE Administer \/ UNCHANGED vars
  <2>1. UNCHANGED <<ledgerVars, supply, staked, hub_balance>>
        BY <1>3 DEF Administer, chainVars, vars
  <2> QED  BY <1>1, <2>1 DEF Frozen
<1>4. ASSUME NEW interval \in BlockIntervals, EndBlock(interval) PROVE Frozen
  <2> DEFINE arrived == SumOf([b \in Due |-> unbonding[b].amount])
  <2>1. /\ arrived \in Nat /\ hub_balance' = hub_balance + arrived
        /\ UNCHANGED <<ledgerVars, supply, staked>>
        BY <1>4, ArrivedNat DEF EndBlock
  <2> HIDE DEF arrived
  <2>2. hub_balance' >= hub_balance  BY <1>1, <2>1
  <2> QED  BY <1>1, <2>1, <2>2 DEF Frozen
<1>5. ASSUME NEW loss \in StakeSlashes, SlashStake(loss) PROVE Frozen
  <2>1. loss \in Nat /\ staked' = staked - loss  BY <1>5, HubAssumption DEF SlashStake
  <2>2. staked' <= staked  BY <1>1, <2>1
  <2> QED  BY <1>1, <1>5, <2>2 DEF Frozen, SlashStake
<1>6. ASSUME NEW b \in DOMAIN unbonding, NEW loss \in UnbondingSlashes,
             SlashUnbonding(b, loss)
      PROVE  Frozen
      BY <1>1, <1>6 DEF Frozen, SlashUnbonding
<1>7. ASSUME NEW amount \in Donations, Donate(amount) PROVE Frozen
  <2>1. amount \in Nat /\ hub_balance' = hub_balance + amount
        BY <1>7, HubAssumption DEF Donate
  <2>2. hub_balance' >= hub_balance  BY <1>1, <2>1
  <2> QED  BY <1>1, <1>7, <2>2 DEF Frozen, Donate
<1>8. CASE Message
  <2>1. NotPaused \/ Administer
        BY <1>8 DEF Message, CheckSlashing, Bond, Unbond, WithdrawUnbonded,
                    UpdateGlobalIndex
  <2> QED  BY <1>2, <1>3, <2>1
<1> QED  BY <1>3, <1>4, <1>5, <1>6, <1>7, <1>8 DEF Next, Chain

(* While the hub is paused, no message of anybody changes its ledger, the  *)
(* supply or its stake, nor takes a coin from it.                          *)
THEOREM PauseAlwaysFreezes == Spec => PausedFreezes
<1>1. TypeOK /\ [Next]_vars => [Frozen]_vars  BY StepFreezes
<1>2. Spec => [][Frozen]_vars  BY <1>1, TypeCorrect, PTL DEF Spec
<1> QED  BY <1>2 DEF PausedFreezes, Frozen
=============================================================================
