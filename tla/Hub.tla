-------------------------------- MODULE Hub --------------------------------
(***************************************************************************)
(* The hub contract's ledger: the recorded stake and exchange rate, the    *)
(* open unbonding batch, the history of closed batches and the users' wait *)
(* list, with the chain state they depend on (token supply, the hub's      *)
(* stake, its unbonding entries and its bank balance).                     *)
(*                                                                         *)
(* A message that fails is rolled back by the chain, so every error return *)
(* and panic of a handler is a guard of its action; the messages a handler *)
(* emits run in the same transaction and are part of the action.  Tokens   *)
(* are freely transferable, so any user can hold any part of the supply    *)
(* and only the supply is kept.                                            *)
(***************************************************************************)
EXTENDS HubConfig, FiniteSets

CONSTANTS
  Users,
  InitialBond,     \* coins sent with instantiate
  InitialSupply,   \* tokens issued when the token contract was created
  StartTime,       \* block time of instantiate
  ChainUnbondingTime, \* unbonding time of the staking module
  BlockIntervals,  \* time between a block and the next
  BondAmounts, UnbondAmounts, RewardAmounts, \* amounts carried by messages
  StakeSlashes, UnbondingSlashes,            \* losses by slashing
  Donations,       \* coins sent to the hub by a plain bank transfer
  MaxStake, MaxSupply, MaxBalance, MaxBatch, MaxTime \* bounds

ASSUME HubAssumption ==
  /\ IsFiniteSet(Users)
  /\ InitialBond \in Nat \ {0}
  /\ InitialSupply \in 0..InitialBond \* the hub starts at a rate of one
  /\ StartTime \in Nat
  /\ ChainUnbondingTime \in Nat
  /\ BondAmounts \cup UnbondAmounts \cup RewardAmounts \cup StakeSlashes
       \cup UnbondingSlashes \cup Donations \cup BlockIntervals
       \subseteq Nat \ {0}
  /\ MaxStake \in Nat /\ MaxSupply \in Nat /\ MaxBalance \in Nat
  /\ MaxBatch \in Nat /\ MaxTime \in Nat

VARIABLES
  state,         \* STATE
  current_batch, \* CURRENT_BATCH
  wait_list,     \* PREFIX_WAIT_MAP: tokens asked per user and batch, 0 if none
  history,       \* UNBOND_HISTORY_MAP
  supply,        \* total supply of the token contract
  staked,        \* the hub's delegations
  unbonding,     \* undelegated coins, by the batch they were undelegated for
  hub_balance,   \* the hub's bank balance
  now            \* block time

ledgerVars == <<state, current_batch, wait_list, history>>
chainVars == <<supply, staked, unbonding, hub_balance, now>>
vars == <<configVars, ledgerVars, chainVars>>

BatchIds == 1..MaxBatch

(* Tokens that share the recorded stake: issued, or burnt in the open batch *)
ActualSupply == supply + current_batch.requested_with_fee

Put(f, k, v) == [x \in DOMAIN f \cup {k} |-> IF x = k THEN v ELSE f[x]]

-----------------------------------------------------------------------------
(* Faulty variants of the definitions below, which the properties must     *)
(* tell from the real ones.                                                *)
SlashingInverted ==
  IF staked > 0 /\ state.total_bond_amount < staked
    THEN [state EXCEPT !.total_bond_amount = staked,
                       !.exchange_rate = UpdatedRate(staked, ActualSupply)]
    ELSE state
SlashingKeepingRate ==
  IF staked > 0 /\ state.total_bond_amount > staked
    THEN [state EXCEPT !.total_bond_amount = staked]
    ELSE state
MintAtPar(payment) == payment
GapWithoutPayment(payment) ==
  ActualSupply + DecimalDivision(payment, state.exchange_rate)
    - state.total_bond_amount
AnyBurn(amount) == TRUE
RateWithoutRequests(amount) ==
  UpdatedRate(state.total_bond_amount, supply)
EpochReached == now - state.last_unbonded_time >= params.epoch_period
BatchNotReset(id) == [current_batch EXCEPT !.id = id + 1]
ReleasableAtOnce(b) ==
  b \in DOMAIN history /\ history[b].time <= now /\ ~history[b].released
ScanSkippingOne ==
  {b \in DOMAIN history :
     /\ b > state.last_processed_batch + 1
     /\ history[b].time <= now - params.unbonding_period}
LossRoundedDown(b, total, slashed) ==
  (slashed.value * ((history[b].amount * history[b].withdraw_rate) \div One)) \div total
NothingRemoved(user, h) == wait_list[user]
AllClosedRemoved(user, h) ==
  [b \in BatchIds |-> IF b \in DOMAIN h THEN 0 ELSE wait_list[user][b]]

-----------------------------------------------------------------------------
(* Slashing *)

(* slashing(): the state bond, unbond and check_slashing work on.          *)
AfterSlashing ==
  IF staked > 0 /\ state.total_bond_amount > staked
    THEN [state EXCEPT !.total_bond_amount = staked,
                       !.exchange_rate = UpdatedRate(staked, ActualSupply)]
    ELSE state

CheckSlashing ==
  /\ NotPaused
  /\ staked > 0 => config.token_contract # None
  /\ state' = AfterSlashing
  /\ UNCHANGED <<configVars, current_batch, wait_list, history, chainVars>>

-----------------------------------------------------------------------------
(* Bond *)

(* Tokens minted for a payment before the fee.                             *)
MintAmount(payment) == DecimalDivision(payment, AfterSlashing.exchange_rate)

BondGap(payment) ==
  (ActualSupply + MintAmount(payment))
    - (AfterSlashing.total_bond_amount + payment)

BondFee(payment) ==
  IF AfterSlashing.exchange_rate < params.er_threshold
    THEN Lesser(MulDec(MintAmount(payment), params.peg_recovery_fee),
                BondGap(payment))
    ELSE 0

MintAmountWithFee(payment) == MintAmount(payment) - BondFee(payment)

(* The validator is any whitelisted one.  The token contract rejects a     *)
(* mint of zero.                                                           *)
Bond(payment) ==
  /\ NotPaused
  /\ config.token_contract # None
  /\ MulDec(Frac, AfterSlashing.exchange_rate) > 0
  /\ AfterSlashing.exchange_rate < params.er_threshold => BondGap(payment) >= 0
  /\ MintAmountWithFee(payment) > 0
  /\ AfterSlashing.total_bond_amount + payment <= MaxStake
  /\ supply + MintAmountWithFee(payment) <= MaxSupply
  /\ state' = [AfterSlashing EXCEPT
       !.total_bond_amount = @ + payment,
       !.exchange_rate = UpdatedRate(AfterSlashing.total_bond_amount + payment,
                                     ActualSupply + MintAmountWithFee(payment))]
  /\ supply' = supply + MintAmountWithFee(payment)
  /\ staked' = staked + payment
  /\ UNCHANGED <<configVars, current_batch, wait_list, history, unbonding,
                 hub_balance, now>>

-----------------------------------------------------------------------------
(* Unbond *)

(* The total supply after the burn is a checked subtraction.               *)
WithinSupply(amount) == amount <= supply

UnbondGap == ActualSupply - AfterSlashing.total_bond_amount

UnbondFee(amount) ==
  IF AfterSlashing.exchange_rate < params.er_threshold
    THEN Lesser(MulDec(amount, params.peg_recovery_fee), UnbondGap)
    ELSE 0

AmountWithFee(amount) == amount - UnbondFee(amount)

Requested(amount) == current_batch.requested_with_fee + AmountWithFee(amount)

UnbondRate(amount) ==
  UpdatedRate(AfterSlashing.total_bond_amount,
              supply - amount + Requested(amount))

EpochPassed == now - state.last_unbonded_time > params.epoch_period

UndelegationAmount(amount) == MulDec(Requested(amount), UnbondRate(amount))

(* The batch stays open: the request joins it.                             *)
JoinBatch(amount) ==
  /\ ~EpochPassed
  /\ state' = [AfterSlashing EXCEPT !.exchange_rate = UnbondRate(amount)]
  /\ current_batch' =
       [current_batch EXCEPT !.requested_with_fee = Requested(amount)]
  /\ UNCHANGED <<history, staked, unbonding>>

NextBatch(id) == [id |-> id + 1, requested_with_fee |-> 0]

(* The batch is closed and undelegated at the current rate.  The history   *)
(* keeps that rate; a batch worth nothing is closed without undelegation.  *)
CloseBatch(amount) ==
  LET id == current_batch.id
      claim == UndelegationAmount(amount)
  IN
  /\ EpochPassed
  /\ claim # 1
  /\ claim <= staked   \* pick_validator runs out of delegations otherwise
  /\ claim <= AfterSlashing.total_bond_amount
  /\ state' = [AfterSlashing EXCEPT !.total_bond_amount = @ - claim,
                                    !.exchange_rate = UnbondRate(amount),
                                    !.last_unbonded_time = now]
  /\ current_batch' = NextBatch(id)
  /\ history' = Put(history, id, [time |-> now,
                                  amount |-> Requested(amount),
                                  applied_exchange_rate |-> UnbondRate(amount),
                                  withdraw_rate |-> UnbondRate(amount),
                                  released |-> FALSE])
  /\ staked' = staked - claim
  /\ unbonding' = IF claim = 0 THEN unbonding
                  ELSE Put(unbonding, id,
                           [amount |-> claim,
                            completion |-> now + ChainUnbondingTime,
                            paid |-> FALSE])

(* A user sends amount tokens to the hub with the Unbond hook; the hub     *)
(* burns them.                                                             *)
Unbond(user, amount) ==
  /\ NotPaused
  /\ config.token_contract # None
  /\ WithinSupply(amount)
  /\ AfterSlashing.exchange_rate < params.er_threshold => UnbondGap >= 0
  /\ AmountWithFee(amount) >= 0
  /\ current_batch.id <= MaxBatch
  /\ JoinBatch(amount) \/ CloseBatch(amount)
  /\ wait_list' =
       [wait_list EXCEPT ![user][current_batch.id] = @ + AmountWithFee(amount)]
  /\ supply' = supply - amount
  /\ UNCHANGED <<configVars, hub_balance, now>>

-----------------------------------------------------------------------------
(* Withdraw *)

Releasable(b) ==
  /\ b \in DOMAIN history
  /\ history[b].time <= now - params.unbonding_period
  /\ ~history[b].released

(* The batches process_withdraw_rate releases: the unbroken run of         *)
(* releasable batches after the last processed one.                        *)
MaturedBatches ==
  {b \in DOMAIN history :
     /\ b > state.last_processed_batch
     /\ \A k \in (state.last_processed_batch + 1)..b : Releasable(k)}

UnbondedAmount(b) == MulDec(history[b].amount, history[b].withdraw_rate)

TotalUnbonded == SumOf([b \in MaturedBatches |-> UnbondedAmount(b)])

(* Coins that reached the hub since the last withdrawal.                   *)
ActualUnbonded ==
  state.actual_unbonded_amount
    + FromSubtraction(hub_balance, state.prev_hub_balance).value

(* A batch's share of the coins that are missing, or in excess; total is   *)
(* TotalUnbonded and slashed its difference to ActualUnbonded.             *)
SlashedShare(b, total, slashed) ==
  MulDec(slashed.value, FromRatio(UnbondedAmount(b), total))

RoundedLoss(b, total, slashed) ==
  SlashedShare(b, total, slashed) + (IF slashed.value # 0 THEN 1 ELSE 0)

ActualUnbondedOf(b, total, slashed) ==
  IF slashed.negative
    THEN UnbondedAmount(b) + SlashedShare(b, total, slashed) - 1
    ELSE FromSubtraction(UnbondedAmount(b), RoundedLoss(b, total, slashed)).value

ReleasedHistory(total, slashed) ==
  [b \in DOMAIN history |->
     IF b \in MaturedBatches
       THEN [history[b] EXCEPT
               !.withdraw_rate =
                  FromRatio(ActualUnbondedOf(b, total, slashed), history[b].amount),
               !.released = TRUE]
       ELSE history[b]]

(* get_finished_amount: what the released batches of h owe a user.         *)
Owed(user, b, h) ==
  IF h[b].released THEN MulDec(wait_list[user][b], h[b].withdraw_rate) ELSE 0

FinishedAmount(user, h) == SumOf([b \in DOMAIN h |-> Owed(user, b, h)])

(* process_withdraw_rate panics or fails on a matured batch it cannot      *)
(* weigh: nothing was undelegated, or a surplus gives it no whole coin.    *)
Processable(total, slashed) ==
  \A b \in MaturedBatches :
    /\ total > 0
    /\ history[b].amount > 0
    /\ slashed.negative => SlashedShare(b, total, slashed) >= 1

(* remove_unbond_wait_list of the user's released batches.                 *)
RemainingRequests(user, h) ==
  [b \in BatchIds |->
     IF b \in DOMAIN h /\ h[b].released THEN 0 ELSE wait_list[user][b]]

(* Store the released batches h up to last and pay the user out of them.   *)
PayOut(user, last, h, finished) ==
  /\ Fits(finished) /\ finished > 0
  /\ finished <= hub_balance
  /\ history' = h
  /\ wait_list' = [wait_list EXCEPT ![user] = RemainingRequests(user, h)]
  /\ state' = [state EXCEPT !.last_processed_batch = last,
                            !.actual_unbonded_amount = 0,
                            !.prev_hub_balance = hub_balance - finished]
  /\ hub_balance' = hub_balance - finished
  /\ UNCHANGED <<configVars, current_batch, supply, staked, unbonding, now>>

WithdrawUpTo(user, last) ==
  LET total == TotalUnbonded
      slashed == FromSubtraction(total, ActualUnbonded)
      released == ReleasedHistory(total, slashed)
  IN /\ MaturedBatches = (state.last_processed_batch + 1)..last
     /\ Fits(total)
     /\ Processable(total, slashed)
     /\ PayOut(user, last, released, FinishedAmount(user, released))

(* The subtraction now - unbonding_period is checked.                      *)
WithdrawUnbonded(user) ==
  /\ NotPaused
  /\ now >= params.unbonding_period
  /\ \E last \in state.last_processed_batch..(current_batch.id - 1) :
       WithdrawUpTo(user, last)

-----------------------------------------------------------------------------
(* Compounding *)

ProtocolFee(reward) == MulDec(reward, params.protocol_fee)

(* UpdateGlobalIndex with the messages it causes: the chain pays the       *)
(* rewards to the rewards contract, which sends them to the hub's          *)
(* UpdateExchangeRate, which delegates them to a validator the hub already *)
(* delegates to.                                                           *)
UpdateGlobalIndex(reward) ==
  LET fee == ProtocolFee(reward)
      user_rewards == reward - fee
  IN
  /\ NotPaused
  /\ config.token_contract # None
  /\ fee <= reward
  /\ ActualSupply > 0
  /\ staked > 0
  /\ fee > 0 => config.protocol_fee_collector # None
  /\ state.total_bond_amount + user_rewards <= MaxStake
  /\ state' = [state EXCEPT
       !.exchange_rate = @ + FromRatio(user_rewards, ActualSupply),
       !.total_bond_amount = @ + user_rewards]
  /\ staked' = staked + user_rewards
  /\ UNCHANGED <<configVars, current_batch, wait_list, history, supply,
                 unbonding, hub_balance, now>>

-----------------------------------------------------------------------------
(* The chain *)

Due == {b \in DOMAIN unbonding :
          ~unbonding[b].paid /\ unbonding[b].completion <= now}

(* The staking module pays completed entries after the transactions of a   *)
(* block; the next block has a later time.                                 *)
EndBlock(interval) ==
  LET arrived == SumOf([b \in Due |-> unbonding[b].amount])
  IN
  /\ now + interval <= MaxTime
  /\ unbonding' = [b \in DOMAIN unbonding |->
                     IF b \in Due THEN [unbonding[b] EXCEPT !.paid = TRUE]
                                  ELSE unbonding[b]]
  /\ hub_balance' = hub_balance + arrived
  /\ now' = now + interval
  /\ UNCHANGED <<configVars, ledgerVars, supply, staked>>

(* Validators the hub delegates to are slashed; some stake remains.        *)
SlashStake(loss) ==
  /\ loss < staked
  /\ staked' = staked - loss
  /\ UNCHANGED <<configVars, ledgerVars, supply, unbonding, hub_balance, now>>

SlashUnbonding(b, loss) ==
  /\ ~unbonding[b].paid
  /\ loss < unbonding[b].amount
  /\ unbonding' = [unbonding EXCEPT ![b].amount = @ - loss]
  /\ UNCHANGED <<configVars, ledgerVars, supply, staked, hub_balance, now>>

Donate(amount) ==
  /\ hub_balance + amount <= MaxBalance
  /\ hub_balance' = hub_balance + amount
  /\ UNCHANGED <<configVars, ledgerVars, supply, staked, unbonding, now>>

-----------------------------------------------------------------------------
(* instantiate, which bonds the coins sent with it.                        *)
Init ==
  /\ ConfigInit
  /\ state = [exchange_rate |-> One, total_bond_amount |-> InitialBond,
              prev_hub_balance |-> 0, actual_unbonded_amount |-> 0,
              last_unbonded_time |-> StartTime, last_processed_batch |-> 0]
  /\ current_batch = [id |-> 1, requested_with_fee |-> 0]
  /\ wait_list = [u \in Users |-> [b \in BatchIds |-> 0]]
  /\ history = [b \in {} |-> {}]
  /\ supply = InitialSupply
  /\ staked = InitialBond
  /\ unbonding = [b \in {} |-> {}]
  /\ hub_balance = 0
  /\ now = StartTime

Administer == ConfigNext /\ UNCHANGED <<ledgerVars, chainVars>>

Message ==
  \/ CheckSlashing
  \/ \E payment \in BondAmounts : Bond(payment)
  \/ \E user \in Users, amount \in UnbondAmounts : Unbond(user, amount)
  \/ \E user \in Users : WithdrawUnbonded(user)
  \/ \E reward \in RewardAmounts : UpdateGlobalIndex(reward)
  \/ Administer

Chain ==
  \/ \E interval \in BlockIntervals : EndBlock(interval)
  \/ \E loss \in StakeSlashes : SlashStake(loss)
  \/ \E b \in DOMAIN unbonding, loss \in UnbondingSlashes :
       SlashUnbonding(b, loss)
  \/ \E amount \in Donations : Donate(amount)

Next == Message \/ Chain

Spec == Init /\ [][Next]_vars

(* Blocks keep coming, and a user with a matured request keeps asking.     *)
FairSpec ==
  /\ Spec
  /\ WF_vars(\E interval \in BlockIntervals : EndBlock(interval))
  /\ \A user \in Users : WF_vars(WithdrawUnbonded(user))

-----------------------------------------------------------------------------
StateType ==
  [exchange_rate : Nat, total_bond_amount : Nat, prev_hub_balance : Nat,
   actual_unbonded_amount : Nat, last_unbonded_time : Nat,
   last_processed_batch : Nat]

HistoryType ==
  [time : Nat, amount : Nat, applied_exchange_rate : Nat,
   withdraw_rate : Nat, released : BOOLEAN]

EntryType == [amount : Nat, completion : Nat, paid : BOOLEAN]

(* The types of the hub's storage items and of the chain state.            *)
TypeOK ==
  /\ ConfigTypeOK
  /\ state \in StateType
  /\ current_batch \in [id : Nat \ {0}, requested_with_fee : Nat]
  /\ wait_list \in [Users -> [BatchIds -> Nat]]
  /\ DOMAIN history \subseteq BatchIds
  /\ \A b \in DOMAIN history : history[b] \in HistoryType
  /\ DOMAIN unbonding \subseteq BatchIds
  /\ \A b \in DOMAIN unbonding : unbonding[b] \in EntryType
  /\ supply \in Nat /\ staked \in Nat /\ hub_balance \in Nat /\ now \in Nat

(* The recorded stake covers every token at the recorded rate, those burnt *)
(* in the open batch included: bond, unbond, slashing and compounding      *)
(* together never promise more than state.total_bond_amount.               *)
RateBacked ==
  state.exchange_rate * ActualSupply <= state.total_bond_amount * One

(* The hub never has more stake than it recorded, its record is empty only *)
(* if its stake is and only if no token is left, and it has no stake only  *)
(* if its record is empty.  slashing() relies on it: it corrects the       *)
(* record in one direction only, and not at all without delegations.       *)
StakeRecorded ==
  /\ staked <= state.total_bond_amount
  /\ staked = 0 => state.total_bond_amount = 0
  /\ state.total_bond_amount = 0 => ActualSupply = 0

(* Any burn the fee computation accepts could close the batch now: the     *)
(* undelegation never exceeds the stake pick_validator draws from, nor the *)
(* record, so neither the `expect` of unbond.rs:97 nor an empty choice of  *)
(* validators aborts it, whatever slashing the hub has not seen yet.       *)
UndelegationCovered ==
  \A amount \in 1..supply :
    /\ AfterSlashing.exchange_rate < params.er_threshold => UnbondGap >= 0
    /\ AmountWithFee(amount) >= 0
    => /\ UndelegationAmount(amount) <= AfterSlashing.total_bond_amount
       /\ UndelegationAmount(amount) <= staked

(* The rate cut to Frac fractions, as decimal_division uses it.            *)
TruncatedRate == MulDec(Frac, state.exchange_rate) * (One \div Frac)

(* While no slashing is unseen, no step lowers the rate, except that       *)
(* minting divides by the truncated rate and may lower it that far: nobody *)
(* dilutes the other holders by bonding, unbonding or compounding.         *)
RateKept ==
  [][staked = state.total_bond_amount /\ ActualSupply' > 0
       => state'.exchange_rate >= TruncatedRate]_vars

(* The peg recovery fee recovers the peg and no more: a bond or a burn     *)
(* that is charged it leaves the rate at one or below.  The fee is capped  *)
(* by a gap that bond.rs:63 and unbond.rs:43 compute before the tokens are *)
(* minted or burnt, the rate by what is there afterwards.                  *)
PegNotOvershot ==
  [][supply' # supply /\ AfterSlashing.exchange_rate < params.er_threshold
       => state'.exchange_rate <= One]_vars

(* Closed batches are numbered without gaps in the order of their times,   *)
(* and the released ones are exactly those up to last_processed_batch:     *)
(* process_withdraw_rate, which scans from there, never skips a batch.     *)
BatchesInOrder ==
  /\ DOMAIN history = 1..(current_batch.id - 1)
  /\ \A b \in DOMAIN history :
       /\ history[b].released <=> b <= state.last_processed_batch
       /\ history[b].time <= state.last_unbonded_time
       /\ b + 1 \in DOMAIN history => history[b].time < history[b + 1].time
  /\ state.last_processed_batch < current_batch.id
  /\ state.last_unbonded_time <= now

(* What a user asked for in a closed batch never changes until it is paid  *)
(* whole after the release, and a released batch keeps its rate: no later  *)
(* message adds to a closed batch, releases it twice or pays part of it.   *)
ClaimsFrozen ==
  [][\A b \in DOMAIN history :
       /\ b \in DOMAIN history'
       /\ history'[b].amount = history[b].amount
       /\ history'[b].time = history[b].time
       /\ history[b].released => history'[b] = history[b]
       /\ \A u \in Users :
            \/ wait_list'[u][b] = wait_list[u][b]
            \/ wait_list'[u][b] = 0 /\ history'[b].released]_vars

RequestsOf(b) == SumOf([u \in Users |-> wait_list[u][b]])

(* The wait list adds up: to the amount of every batch not yet released,   *)
(* and to what the open batch will undelegate.                             *)
RequestsConserved ==
  \A b \in BatchIds :
    /\ b = current_batch.id
         => RequestsOf(b) = current_batch.requested_with_fee
    /\ b \in DOMAIN history /\ ~history[b].released
         => RequestsOf(b) = history[b].amount
    /\ b > current_batch.id => RequestsOf(b) = 0

(* What the hub still owes on released batches.                            *)
Obligations == SumOf([u \in Users |-> FinishedAmount(u, history)])

EveryBatchUndelegated == DOMAIN unbonding = DOMAIN history

(* The balance kept from the last withdrawal covers all that released      *)
(* batches still owe, so the order in which users withdraw never leaves    *)
(* one unpaid, whatever was slashed while unbonding and however the        *)
(* roundings of process_withdraw_rate fell.  A batch that undelegated      *)
(* nothing is excluded: it is released with a coin that never existed.     *)
Solvent ==
  EveryBatchUndelegated =>
    Obligations <= state.prev_hub_balance /\ state.prev_hub_balance <= hub_balance

(* A batch is releasable only after coins have arrived: unbonding_period   *)
(* outlasts the chain's unbonding, and no withdrawal without a release     *)
(* comes in between and makes the hub forget the arrival.  For a batch     *)
(* that undelegated nothing no coin arrives.                               *)
ReleaseFunded ==
  EveryBatchUndelegated /\ MaturedBatches # {} => ActualUnbonded > 0

(* What is released at once, times the number of its batches, is no more   *)
(* than 10^18: the share of a batch, a Decimal, then tells coins apart.    *)
SharesDistinct == Cardinality(MaturedBatches) * TotalUnbonded <= One

(* Whatever the chain pays and when, the released batches owe at most one  *)
(* coin each more than the balance kept from the last withdrawal.          *)
ShortfallBounded ==
  /\ Obligations <= state.prev_hub_balance + state.last_processed_batch
  /\ state.prev_hub_balance <= hub_balance

(* Released batches are worth what the chain paid for them, up to two      *)
(* coins of rounding each and one for every 10^18 tokens of the batch:     *)
(* together, and one by one except for what was slashed from any of them.  *)
(* The balance change process_withdraw_rate measures credits every arrival *)
(* to the batches it belongs to.                                           *)
ReleaseAccurate ==
  LET released == {b \in DOMAIN history : history[b].released}
      value == [b \in released |->
                  UnbondedAmount(b) + 2 + history[b].amount \div One]
      promised == [b \in released |->
                     MulDec(history[b].amount, history[b].applied_exchange_rate)]
      arrived == [b \in released |->
                    IF b \in DOMAIN unbonding THEN unbonding[b].amount ELSE 0]
      lost == SumOf(promised) - SumOf(arrived)
  IN /\ SumOf(value) >= SumOf(arrived)
     /\ \A b \in released : value[b] + lost >= arrived[b]

(* A step that releases no batch leaves the coins that have arrived to be  *)
(* counted by a later release, as the comment of unbond.rs:311 says of     *)
(* actual_unbonded_amount.                                                 *)
ArrivalsKept ==
  [][state'.last_processed_batch = state.last_processed_batch
       => ActualUnbonded' >= ActualUnbonded]_vars

(* Every closed batch undelegates more than one coin, as the error text of *)
(* unbond.rs:78 says.                                                      *)
ClosedAboveOne ==
  \A b \in DOMAIN history : ~history[b].released => UnbondedAmount(b) > 1

(* Rogue transfers to the hub never make process_withdraw_rate fail, as    *)
(* the comment of unbond.rs:251 says.                                      *)
ReleasePossible ==
  EveryBatchUndelegated =>
    Processable(TotalUnbonded, FromSubtraction(TotalUnbonded, ActualUnbonded))

(* While the hub is paused, messages change neither its ledger nor the     *)
(* stake and supply it controls.                                           *)
PausedFreezes ==
  [][paused /\ paused' => UNCHANGED <<ledgerVars, supply>> /\ staked' <= staked
                         /\ hub_balance' >= hub_balance]_vars

(* A request in a closed batch is paid once the batch has matured, if the  *)
(* explored time leaves it room: some later withdrawal releases the batch  *)
(* and the user is not turned away.                                        *)
EventuallyPaid ==
  \A u \in Users, b \in BatchIds :
    (/\ b \in DOMAIN history
     /\ wait_list[u][b] > 0
     /\ history[b].time + params.unbonding_period <= MaxTime)
      ~> (wait_list[u][b] = 0)
=============================================================================
