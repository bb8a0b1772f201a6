-------------------------- MODULE HubClaimsProofs --------------------------
(***************************************************************************)
(* Hub implements the abstract ledger Claims, for any users, amounts,      *)
(* parameters and administrative messages.  Every step of Hub is a step of *)
(* Claims or leaves its variables alone; that the batches are in order     *)
(* (Order of HubProofs) is what makes a withdrawal's release a release of  *)
(* the batches up to a last one.                                           *)
(***************************************************************************)
EXTENDS HubClaims, HubProofs

(* No request, no released batch and no coin at the start.                 *)
LEMMA InitClaims == Init => C!Init
<1> SUFFICES ASSUME Init PROVE C!Init  OBVIOUS
<1>1. /\ wait_list = [u \in Users |-> [b \in BatchIds |-> 0]]
      /\ current_batch.id = 1
      /\ state.last_processed_batch = 0
      /\ hub_balance = 0
      BY DEF Init
<1>2. [b \in 1..state.last_processed_batch |-> history[b].withdraw_rate]
        = [b \in 1..0 |-> 0]
      BY <1>1
<1> QED  BY <1>1, <1>2 DEF C!Init

(* A burn is a request in the open batch, which it may close.              *)
LEMMA UnbondAsks ==
  ASSUME Order, NEW user \in Users, NEW amount \in UnbondAmounts,
         Unbond(user, amount)
  PROVE  C!Ask(user)
<1> DEFINE id == current_batch.id
           last == state.last_processed_batch
           fee == AmountWithFee(amount)
<1>1. /\ TypeOK /\ BatchesInOrder
      /\ wait_list \in [Users -> [BatchIds -> Nat]]
      /\ id \in Nat \ {0} /\ last \in Nat /\ last < id
      /\ DOMAIN history = 1..(id - 1)
      BY DEF Order, TypeOK, BatchesInOrder, StateType
<1>2. id \in BatchIds  BY <1>1, HubAssumption DEF Unbond, BatchIds
<1>3. /\ wait_list' = [wait_list EXCEPT ![user] =
                         [wait_list[user] EXCEPT ![id] = wait_list[user][id] + fee]]
      /\ fee >= 0
      BY DEF Unbond
<1>4. fee \in Nat
  <2>1. amount \in Nat /\ amount <= supply
        BY HubAssumption DEF Unbond, WithinSupply
  <2> QED  BY <1>1, <1>3, <2>1, UnbondTypes
<1>5. /\ AfterSlashing \in StateType
      /\ AfterSlashing.last_processed_batch = last
      BY <1>1, AfterSlashingType
<1>6. /\ current_batch'.id \in {id, id + 1}
      /\ state'.last_processed_batch = last
      /\ \A b \in 1..(id - 1) : history'[b] = history[b]
  <2>1. CASE JoinBatch(amount)
        BY <1>1, <1>5, <2>1 DEF JoinBatch, StateType, TypeOK
  <2>2. CASE CloseBatch(amount)
    <3>1. current_batch'.id = id + 1 /\ state'.last_processed_batch = last
          BY <1>5, <2>2 DEF CloseBatch, NextBatch, StateType
    <3>2. \A b \in DOMAIN history : b # id => history'[b] = history[b]
          BY <2>2 DEF CloseBatch, Put
    <3>3. \A b \in 1..(id - 1) : b \in DOMAIN history /\ b # id
      <4> HIDE DEF id
      <4> QED  BY <1>1
    <3>4. \A b \in 1..(id - 1) : history'[b] = history[b]
          BY ONLY <3>2, <3>3
    <3> QED  BY ONLY <3>1, <3>4
  <2> QED  BY <2>1, <2>2 DEF Unbond
<1>7. \A b \in 1..last : history'[b] = history[b]  BY <1>1, <1>6
<1>8. [b \in 1..state'.last_processed_batch |-> history'[b].withdraw_rate]
        = [b \in 1..last |-> history[b].withdraw_rate]
      BY <1>6, <1>7
<1>9. hub_balance' = hub_balance  BY DEF Unbond
<1> HIDE DEF fee
<1>10. /\ wait_list'[user][id] = wait_list[user][id] + fee
       /\ wait_list[user][id] \in Nat
  <2>1. wait_list[user] \in [BatchIds -> Nat]  BY <1>1
  <2> QED  BY <1>1, <1>2, <1>3, <2>1
<1>11. wait_list'[user][id] >= wait_list[user][id]  BY <1>4, <1>10
<1>12. wait_list' = [wait_list EXCEPT ![user] =
                       [wait_list[user] EXCEPT ![id] = wait_list'[user][id]]]
       BY <1>3, <1>10
<1> QED  BY <1>2, <1>6, <1>8, <1>9, <1>11, <1>12 DEF C!Ask

(* A withdrawal releases the batches up to a last one at one rate each and *)
(* pays the user what they owe him.                                        *)
LEMMA WithdrawPays ==
  ASSUME Order, NEW user \in Users, WithdrawUnbonded(user)
  PROVE  C!Pay(user)
<1> DEFINE id == current_batch.id
           first == state.last_processed_batch
           last == state'.last_processed_batch
           rate == [b \in 1..last |-> history'[b].withdraw_rate]
           finished == FinishedAmount(user, history')
<1>1. /\ TypeOK' /\ wait_list \in [Users -> [BatchIds -> Nat]]
      /\ id \in Nat \ {0} /\ first \in Nat /\ hub_balance \in Nat
      /\ DOMAIN history = 1..(id - 1)
      /\ DOMAIN history \subseteq BatchIds
      /\ \A b \in DOMAIN history : history[b].released <=> b <= first
      BY WithdrawType DEF Order, TypeOK, BatchesInOrder, StateType
<1>2. /\ DOMAIN history' = DOMAIN history
      /\ last \in first..(id - 1)
      /\ \A b \in DOMAIN history :
           /\ history'[b].released <=> b <= last
           /\ history[b].released => history'[b] = history[b]
      /\ wait_list' = [wait_list EXCEPT ![user] = RemainingRequests(user, history')]
      BY WithdrawReleases
<1>3. /\ finished > 0 /\ finished <= hub_balance /\ finished \in Nat
      /\ hub_balance' = hub_balance - finished
      /\ current_batch' = current_batch
      BY FixedPointAssumption
      DEF WithdrawUnbonded, WithdrawUpTo, PayOut, Fits
<1>4. rate \in [1..last -> Nat]
  <2>1. \A b \in DOMAIN history' : history'[b].withdraw_rate \in Nat
        BY <1>1 DEF TypeOK, HistoryType
  <2>2. 1..last \subseteq DOMAIN history'  BY <1>1, <1>2
  <2> QED  BY <2>1, <2>2
<1>5. \A b \in 1..first :
        rate[b] = [k \in 1..first |-> history[k].withdraw_rate][b]
  <2>1. SUFFICES ASSUME NEW b \in 1..first
                 PROVE  history'[b] = history[b] /\ b \in 1..last
        OBVIOUS
  <2>2. b \in DOMAIN history /\ b \in 1..last  BY <1>1, <1>2
  <2>3. b <= first  BY <1>1
  <2>4. history[b].released  BY <1>1, <2>2, <2>3
  <2> QED  BY <1>2, <2>2, <2>4
<1>6. [b \in 1..(id - 1) |->
         IF b <= last THEN MulDec(wait_list[user][b], rate[b]) ELSE 0]
        = [b \in DOMAIN history' |-> Owed(user, b, history')]
  <2>1. ASSUME NEW b \in DOMAIN history'
        PROVE  (IF b <= last THEN MulDec(wait_list[user][b], rate[b]) ELSE 0)
                 = Owed(user, b, history')
    <3>1. CASE b <= last
      <4>1. b \in 1..last  BY <1>1, <1>2, <3>1
      <4> QED  BY <1>2, <3>1, <4>1 DEF Owed
    <3>2. CASE ~(b <= last)  BY <1>2, <3>2 DEF Owed
    <3> QED  BY <3>1, <3>2
  <2> QED  BY <1>1, <1>2, <2>1
<1>7. C!Due(user, last, rate) = finished  BY <1>6 DEF C!Due, FinishedAmount
<1>8. wait_list' = [wait_list EXCEPT ![user] =
        [b \in BatchIds |-> IF b <= last THEN 0 ELSE wait_list[user][b]]]
  <2>1. ASSUME NEW b \in BatchIds
        PROVE  (b \in DOMAIN history' /\ history'[b].released) <=> b <= last
    <3>1. CASE b \in DOMAIN history  BY <1>2, <3>1
    <3>2. CASE b \notin DOMAIN history
          BY <1>1, <1>2, <3>2, HubAssumption DEF BatchIds
    <3> QED  BY <3>1, <3>2
  <2>2. RemainingRequests(user, history')
          = [b \in BatchIds |-> IF b <= last THEN 0 ELSE wait_list[user][b]]
        BY <2>1 DEF RemainingRequests
  <2> QED  BY <1>2, <2>2
<1> HIDE DEF rate, finished
<1>9. C!Due(user, last, rate) \in 1..hub_balance  BY <1>1, <1>3, <1>7
<1>10. hub_balance' = hub_balance - C!Due(user, last, rate)  BY <1>3, <1>7
<1> USE DEF rate
<1> QED  BY <1>2, <1>3, <1>4, <1>5, <1>8, <1>9, <1>10 DEF C!Pay

(* Every other step leaves the requests, the batches and their rates as    *)
(* they are, and takes no coin from the hub.                               *)
LEMMA OtherReceives ==
  ASSUME Order, UNCHANGED <<current_batch, wait_list, history>>,
         state'.last_processed_batch = state.last_processed_batch,
         hub_balance' >= hub_balance
  PROVE  C!Receive
BY DEF C!Receive

(* Every step of Hub is a step of Claims or none.                          *)
LEMMA StepImplements ==
  ASSUME Order, [Next]_vars PROVE [C!Next]_(C!claimVars)
<1>1. /\ TypeOK /\ TypeOK' /\ state \in StateType /\ hub_balance \in Nat
      /\ hub_balance >= hub_balance
      BY NextType DEF Order, TypeOK
<1>2. CASE \E user \in Users, amount \in UnbondAmounts : Unbond(user, amount)
      BY <1>2, UnbondAsks DEF C!Next
<1>3. CASE \E user \in Users : WithdrawUnbonded(user)
      BY <1>3, WithdrawPays DEF C!Next
<1>4. CASE \/ CheckSlashing
           \/ \E payment \in BondAmounts : Bond(payment)
           \/ \E reward \in RewardAmounts : UpdateGlobalIndex(reward)
           \/ Administer \/ Chain \/ UNCHANGED vars
  <2>1. UNCHANGED <<current_batch, wait_list, history>>
        BY <1>4 DEF CheckSlashing, Bond, UpdateGlobalIndex, Administer, Chain,
                    EndBlock, SlashStake, SlashUnbonding, Donate, vars, ledgerVars
  <2>2. state'.last_processed_batch = state.last_processed_batch
    <3>1. /\ AfterSlashing \in StateType
          /\ AfterSlashing.last_processed_batch = state.last_processed_batch
          BY <1>1, AfterSlashingType
    <3>2. CASE CheckSlashing  BY <3>1, <3>2 DEF CheckSlashing
    <3>3. CASE \E payment \in BondAmounts : Bond(payment)
          BY <3>1, <3>3 DEF Bond, StateType
    <3>4. CASE \E reward \in RewardAmounts : UpdateGlobalIndex(reward)
          BY <1>1, <3>4 DEF UpdateGlobalIndex, StateType
    <3>5. CASE Administer \/ Chain \/ UNCHANGED vars
      <4>1. state' = state
            BY <3>5 DEF Administer, Chain, EndBlock, SlashStake, SlashUnbonding,
                        Donate, vars, ledgerVars
      <4> QED  BY <4>1
    <3> QED  BY <1>4, <3>2, <3>3, <3>4, <3>5
  <2>3. hub_balance' >= hub_balance
    <3>1. ASSUME NEW interval \in BlockIntervals, EndBlock(interval)
          PROVE  hub_balance' >= hub_balance
      <4> DEFINE arrived == SumOf([b \in Due |-> unbonding[b].amount])
      <4>1. arrived \in Nat /\ hub_balance' = hub_balance + arrived
            BY <1>1, <3>1, ArrivedNat DEF EndBlock
      <4> HIDE DEF arrived
      <4> QED  BY <1>1, <4>1
    <3>2. ASSUME NEW amount \in Donations, Donate(amount)
          PROVE  hub_balance' >= hub_balance
      <4>1. amount \in Nat /\ hub_balance' = hub_balance + amount
            BY <3>2, HubAssumption DEF Donate
      <4> QED  BY <1>1, <4>1
    <3>3. CASE \/ CheckSlashing
               \/ \E payment \in BondAmounts : Bond(payment)
               \/ \E reward \in RewardAmounts : UpdateGlobalIndex(reward)
               \/ Administer
               \/ \E loss \in StakeSlashes : SlashStake(loss)
               \/ \E b \in DOMAIN unbonding, loss \in UnbondingSlashes :
                    SlashUnbonding(b, loss)
               \/ UNCHANGED vars
      <4>1. hub_balance' = hub_balance
            BY <3>3 DEF CheckSlashing, Bond, UpdateGlobalIndex, Administer,
                        SlashStake, SlashUnbonding, vars, chainVars
      <4> QED  BY <1>1, <4>1
    <3> QED  BY <1>4, <3>1, <3>2, <3>3 DEF Chain
  <2> QED  BY <2>1, <2>2, <2>3, OtherReceives DEF C!Next
<1> QED  BY <1>2, <1>3, <1>4 DEF Next, Message

(* The hub keeps the promise of Claims: whatever is bonded, burnt,         *)
(* slashed, compounded or administered in between, a request joins the     *)
(* open batch, batches are released in order at a rate that is final, and  *)
(* a withdrawal pays its sender exactly what released batches owe him.     *)
THEOREM ClaimsAlwaysImplemented == Spec => ClaimsImplemented
<1>1. Init => C!Init  BY InitClaims
<1>2. Order /\ [Next]_vars => [C!Next]_(C!claimVars)  BY StepImplements
<1> QED  BY <1>1, <1>2, OrderCorrect, PTL DEF Spec, ClaimsImplemented, C!ClaimsSpec

-----------------------------------------------------------------------------
(* The wait list adds up.                                                  *)

Requests == Order /\ RequestsConserved

(* Nobody has asked for anything at the start.                             *)
LEMMA InitRequests == Init => Requests
<1> SUFFICES ASSUME Init PROVE RequestsConserved
    BY InitOrder DEF Requests
<1>1. ASSUME NEW b \in BatchIds PROVE RequestsOf(b) = 0
  <2> DEFINE asked == [u \in Users |-> wait_list[u][b]]
  <2>1. asked \in [Users -> Nat] /\ \A u \in Users : asked[u] = 0
        BY <1>1 DEF Init
  <2>2. SumOf(asked) = 0  BY <2>1, HubAssumption, SumZero
  <2> QED  BY <2>2 DEF RequestsOf
<1>2. DOMAIN history = {} /\ current_batch.requested_with_fee = 0
      BY DEF Init
<1> QED  BY <1>1, <1>2 DEF RequestsConserved

(* A burn adds what it asks for to the open batch, and to no other.        *)
LEMMA UnbondRequests ==
  ASSUME Requests, NEW user \in Users, NEW amount \in UnbondAmounts,
         Unbond(user, amount)
  PROVE  Requests'
<1> DEFINE id == current_batch.id
           fee == AmountWithFee(amount)
           before(b) == [u \in Users |-> wait_list[u][b]]
           after(b) == [u \in Users |-> wait_list'[u][b]]
<1>1. /\ Order /\ Order' /\ TypeOK /\ TypeOK' /\ RequestsConserved
      /\ wait_list \in [Users -> [BatchIds -> Nat]]
      /\ id \in Nat \ {0} /\ DOMAIN history = 1..(id - 1)
      /\ current_batch.requested_with_fee \in Nat
      BY UnbondOrder DEF Requests, Order, TypeOK, BatchesInOrder
<1>2. id \in BatchIds  BY <1>1, HubAssumption DEF Unbond, BatchIds
<1>3. wait_list' = [wait_list EXCEPT ![user] =
                      [wait_list[user] EXCEPT ![id] = wait_list[user][id] + fee]]
      BY DEF Unbond
<1>4. fee \in Nat
  <2>1. amount \in Nat /\ amount <= supply /\ AmountWithFee(amount) >= 0
        BY HubAssumption DEF Unbond, WithinSupply
  <2> QED  BY <1>1, <2>1, UnbondTypes
<1>5. Requested(amount) = current_batch.requested_with_fee + fee  BY DEF Requested
<1> HIDE DEF fee
<1>6. ASSUME NEW b \in BatchIds, b # id PROVE RequestsOf(b)' = RequestsOf(b)
  <2>1. \A u \in Users : wait_list'[u][b] = wait_list[u][b]
    <3>1. \A u \in Users : wait_list[u] \in [BatchIds -> Nat]  BY <1>1
    <3> QED  BY <1>1, <1>3, <1>6, <3>1
  <2>2. after(b) = before(b)  BY <2>1
  <2> QED  BY <2>2 DEF RequestsOf
<1>7. ASSUME NEW b \in BatchIds, b = id PROVE RequestsOf(b)' = Requested(amount)
  <2>1. before(b) \in [Users -> Nat] /\ after(b) \in [Users -> Nat]
    <3>1. \A u \in Users : /\ wait_list[u] \in [BatchIds -> Nat]
                           /\ wait_list'[u] \in [BatchIds -> Nat]
          BY <1>1 DEF TypeOK
    <3> QED  BY <3>1
  <2>2. \A u \in Users : u # user => after(b)[u] = before(b)[u]  BY <1>1, <1>3
  <2>3. after(b)[user] = before(b)[user] + fee
    <3>1. wait_list[user] \in [BatchIds -> Nat]  BY <1>1
    <3> QED  BY <1>1, <1>3, <1>7, <3>1
  <2>4. SumOf(before(b)) = current_batch.requested_with_fee
        BY <1>1, <1>7 DEF RequestsConserved, RequestsOf
  <2>5. \A f, g \in [Users -> Nat] :
          (\A u \in Users : u # user => g[u] = f[u])
            => SumOf(g) = SumOf(f) - f[user] + g[user]
        BY HubAssumption, SumUpdate
  <2>6. SumOf(after(b)) = SumOf(before(b)) - before(b)[user] + after(b)[user]
        BY <2>1, <2>2, <2>5
  <2>7. before(b)[user] \in Nat  BY <2>1
  <2> HIDE DEF before, after
  <2>8. SumOf(after(b)) = current_batch.requested_with_fee + fee
        BY <1>1, <1>4, <2>3, <2>4, <2>6, <2>7
  <2> QED  BY <1>5, <2>8 DEF RequestsOf, after
<1>8. CASE JoinBatch(amount)
  <2>1. /\ current_batch'.id = id /\ history' = history
        /\ current_batch'.requested_with_fee = Requested(amount)
        BY <1>1, <1>8 DEF JoinBatch, TypeOK
  <2>2. ASSUME NEW b \in BatchIds
        PROVE  /\ b = id => RequestsOf(b)' = Requested(amount)
               /\ b \in DOMAIN history /\ ~history[b].released
                    => RequestsOf(b)' = history[b].amount
               /\ b > id => RequestsOf(b)' = 0
    <3>1. CASE b = id  BY <1>1, <1>7, <3>1
    <3>2. CASE b # id  BY <1>1, <1>6, <3>2 DEF RequestsConserved
    <3> QED  BY <3>1, <3>2
  <2> QED  BY <1>1, <2>1, <2>2 DEF Requests, RequestsConserved
<1>9. CASE CloseBatch(amount)
  <2>1. /\ current_batch'.id = id + 1 /\ current_batch'.requested_with_fee = 0
        /\ DOMAIN history' = DOMAIN history \cup {id}
        /\ history'[id].amount = Requested(amount)
        /\ \A b \in DOMAIN history : b # id => history'[b] = history[b]
        BY <1>9 DEF CloseBatch, NextBatch, Put
  <2>2. ASSUME NEW b \in BatchIds
        PROVE  /\ b >= id + 1 => RequestsOf(b)' = 0
               /\ b \in DOMAIN history' /\ ~history'[b].released
                    => RequestsOf(b)' = history'[b].amount
    <3>1. CASE b = id  BY <1>1, <1>7, <2>1, <3>1
    <3>2. CASE b # id
      <4>1. b \in Nat  BY HubAssumption DEF BatchIds
      <4> QED  BY <1>1, <1>6, <2>1, <3>2, <4>1 DEF RequestsConserved
    <3> QED  BY <3>1, <3>2
  <2>3. ASSUME NEW b \in BatchIds
        PROVE  /\ b = current_batch'.id
                    => RequestsOf(b)' = current_batch'.requested_with_fee
               /\ b > current_batch'.id => RequestsOf(b)' = 0
    <3>1. b \in Nat  BY HubAssumption DEF BatchIds
    <3> QED  BY <1>1, <2>1, <2>2, <3>1
  <2> QED  BY <1>1, <2>2, <2>3 DEF Requests, RequestsConserved
<1> QED  BY <1>8, <1>9 DEF Unbond

(* A withdrawal removes requests in released batches only.                 *)
LEMMA WithdrawRequests ==
  ASSUME Requests, NEW user \in Users, WithdrawUnbonded(user) PROVE Requests'
<1> DEFINE id == current_batch.id
<1>1. /\ Order /\ Order' /\ RequestsConserved
      /\ wait_list \in [Users -> [BatchIds -> Nat]]
      /\ id \in Nat \ {0} /\ DOMAIN history = 1..(id - 1)
      BY WithdrawOrder DEF Requests, Order, TypeOK, BatchesInOrder
<1>2. /\ DOMAIN history' = DOMAIN history
      /\ \A b \in DOMAIN history :
           /\ history'[b].amount = history[b].amount
           /\ history[b].released => history'[b] = history[b]
      /\ wait_list' = [wait_list EXCEPT ![user] = RemainingRequests(user, history')]
      BY <1>1, WithdrawReleases
<1>3. current_batch' = current_batch
      BY DEF WithdrawUnbonded, WithdrawUpTo, PayOut
<1>4. ASSUME NEW b \in BatchIds, ~(b \in DOMAIN history' /\ history'[b].released)
      PROVE  RequestsOf(b)' = RequestsOf(b)
  <2>1. RemainingRequests(user, history')[b] = wait_list[user][b]
        BY <1>4 DEF RemainingRequests
  <2>2. \A u \in Users : wait_list'[u][b] = wait_list[u][b]  BY <1>1, <1>2, <2>1
  <2>3. [u \in Users |-> wait_list'[u][b]] = [u \in Users |-> wait_list[u][b]]
        BY <2>2
  <2> QED  BY <2>3 DEF RequestsOf
<1>5. ASSUME NEW b \in BatchIds
      PROVE  /\ b = id => RequestsOf(b)' = current_batch.requested_with_fee
             /\ b \in DOMAIN history' /\ ~history'[b].released
                  => RequestsOf(b)' = history'[b].amount
             /\ b > id => RequestsOf(b)' = 0
  <2>1. b \in Nat  BY HubAssumption DEF BatchIds
  <2>2. CASE b \in DOMAIN history' /\ history'[b].released
        BY <1>1, <1>2, <2>1, <2>2
  <2>3. CASE ~(b \in DOMAIN history' /\ history'[b].released)
        BY <1>1, <1>2, <1>4, <2>1, <2>3 DEF RequestsConserved
  <2> QED  BY <2>2, <2>3
<1> QED  BY <1>1, <1>3, <1>5 DEF Requests, RequestsConserved

(* Requests is inductive: no other step touches the wait list, the history *)
(* or the open batch.                                                      *)
LEMMA NextRequests == Requests /\ [Next]_vars => Requests'
<1> SUFFICES ASSUME Requests, [Next]_vars PROVE Requests'  OBVIOUS
<1>1. Order'  BY NextOrder DEF Requests
<1>2. CASE \E user \in Users, amount \in UnbondAmounts : Unbond(user, amount)
      BY <1>2, UnbondRequests
<1>3. CASE \E user \in Users : WithdrawUnbonded(user)  BY <1>3, WithdrawRequests
<1>4. CASE UNCHANGED <<current_batch, wait_list, history>>
      BY <1>1, <1>4 DEF Requests, RequestsConserved, RequestsOf
<1>5. CASE \/ CheckSlashing
           \/ \E payment \in BondAmounts : Bond(payment)
           \/ \E reward \in RewardAmounts : UpdateGlobalIndex(reward)
           \/ Administer \/ Chain \/ UNCHANGED vars
  <2>1. UNCHANGED <<current_batch, wait_list, history>>
        BY <1>5 DEF CheckSlashing, Bond, UpdateGlobalIndex, Administer, Chain,
                    EndBlock, SlashStake, SlashUnbonding, Donate, vars, ledgerVars
  <2> QED  BY <1>4, <2>1
<1> QED  BY <1>2, <1>3, <1>5 DEF Next, Message

(* What a batch undelegates is what the users asked for in it, to the last *)
(* token, until it is released: execute_unbond adds the same amount to the *)
(* wait list and to the batch, and nothing else touches either.            *)
THEOREM RequestsAlwaysConserved == Spec => []RequestsConserved
<1>1. Init => Requests  BY InitRequests
<1>2. Requests /\ [Next]_vars => Requests'  BY NextRequests
<1>3. Requests => RequestsConserved  BY DEF Requests
<1> QED  BY <1>1, <1>2, <1>3, PTL DEF Spec
=============================================================================
