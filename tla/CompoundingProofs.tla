-------------------------- MODULE CompoundingProofs --------------------------
(***************************************************************************)
(* The hub with its validators and the rewards contract, for any number of *)
(* validators and rewards contracts and any amounts.                       *)
(*                                                                         *)
(* The inductive invariant says, between transactions, where the stake and *)
(* the rewards are, and within a transaction how far it is: which messages *)
(* are left and how the state differs from the one it started from.        *)
(***************************************************************************)
EXTENDS Compounding, HubProofs, SequenceTheorems

(* Rewards earned and not yet compounded.                                  *)
Rewards(s) == SumOf(s.accrued) + SumOf(s.rewards_balance)

SnapshotType ==
  [state : StateType, staked : Nat, hub_balance : Nat,
   whitelist : SUBSET Validators, delegations : [Validators -> Nat],
   accrued : [Validators -> Nat], rewards_balance : [RewardsContracts -> Nat]]

(* What a transaction starts from: all stake is with whitelisted           *)
(* validators, and rewards are only waiting with those that have stake.    *)
Settled(s) ==
  /\ s \in SnapshotType
  /\ s.whitelist # {}
  /\ s.staked = SumOf(s.delegations)
  /\ \A v \in Validators : s.delegations[v] > 0 => v \in s.whitelist
  /\ \A v \in Validators : s.delegations[v] = 0 => s.accrued[v] = 0
  /\ Rewards(s) <= MaxRewards
  /\ Rewards(s) > 0 =>
       s.state.total_bond_amount + Rewards(s) <= MaxStake + MaxRewards

(* What holds between any two calls.                                       *)
Sound ==
  /\ Books
  /\ whitelist \in SUBSET Validators
  /\ delegations \in [Validators -> Nat]
  /\ accrued \in [Validators -> Nat]
  /\ rewards_balance \in [RewardsContracts -> Nat]
  /\ StakeSplit
  /\ \A v \in Validators : delegations[v] = 0 => accrued[v] = 0
  /\ withdraw_address = config.rewards_contract

-----------------------------------------------------------------------------
(* How far a transaction is; m is the message it was started with and s    *)
(* the state it started from.                                              *)

NothingAccrued == \A v \in Validators : accrued[v] = 0

(* A message that can start a transaction.                                 *)
Startable(m) ==
  \/ m = UpdateGlobalIndexMsg
  \/ \E sender \in StakeSenders, v \in Validators : m = DeregisterMsg(sender, v)
  \/ \E sender \in Strangers, rc \in RewardsContracts :
       m = ProcessRewardsMsg(sender, rc)
  \/ \E sender \in Strangers, funds \in Accruals :
       m = UpdateExchangeRateMsg(sender, funds)

Starting(m, s) == calls = <<m>> /\ Startable(m) /\ Snapshot = s

(* A validator with stake is being deregistered: it is off the whitelist.  *)
Removing(m, s) ==
  /\ NotPaused
  /\ \E sender \in StakeSenders, v \in Validators :
       /\ m = DeregisterMsg(sender, v)
       /\ sender = admin
       /\ Cardinality(s.whitelist) > 1
       /\ s.delegations[v] > 0
       /\ whitelist = s.whitelist \ {v}
  /\ whitelist # {}

Moving(m, s) ==
  /\ Removing(m, s)
  /\ Snapshot = [s EXCEPT !.whitelist = whitelist]
  /\ \E replaced_val \in whitelist :
       calls = DeregisterMessages(m.validator, replaced_val)

(* The stake is where it will be compounded.                               *)
Placed(m, s) ==
  /\ NotPaused
  /\ (m = UpdateGlobalIndexMsg /\ whitelist = s.whitelist) \/ Removing(m, s)
  /\ Delegated \subseteq whitelist
  /\ staked = s.staked

Collected(s) ==
  /\ SumOf(accrued) + rewards_balance[config.rewards_contract] = Compoundable(s)
  /\ Rewards(Snapshot) = Rewards(s)

Collecting(m, s) ==
  LET rc == config.rewards_contract IN
  /\ Placed(m, s)
  /\ Collected(s)
  /\ state = s.state /\ hub_balance = s.hub_balance
  /\ \/ Removing(m, s) /\ calls = <<UpdateGlobalIndexMsg>>
     \/ calls = <<WithdrawMsg(Delegated), ProcessRewardsMsg(HubAddress, rc)>>
     \/ NothingAccrued /\ calls = <<ProcessRewardsMsg(HubAddress, rc)>>
     \/ /\ NothingAccrued /\ RewardsNotPaused(rc)
        /\ calls = <<UpdateExchangeRateMsg(rc, rewards_balance[rc])>>

(* The rewards are recorded; the fee, the delegation, or both are left.    *)
Paying(m, s) ==
  LET funds == Compoundable(s)
      fee == ProtocolFee(funds)
      user_rewards == funds - fee
  IN
  /\ Placed(m, s)
  /\ CompoundingPossible(s)
  /\ NothingAccrued
  /\ rewards_balance[config.rewards_contract] = 0
  /\ Rewards(Snapshot) = Rewards(s) - funds
  /\ s.staked <= s.state.total_bond_amount
  /\ state = [s.state EXCEPT
       !.exchange_rate = @ + FromRatio(user_rewards, ActualSupply),
       !.total_bond_amount = @ + user_rewards]
  /\ \E v \in Delegated :
       \/ /\ fee > 0 /\ user_rewards > 0
          /\ calls = <<SendMsg(fee), DelegateMsg(v, user_rewards)>>
          /\ hub_balance = s.hub_balance + funds
       \/ /\ fee > 0 /\ user_rewards = 0
          /\ calls = <<SendMsg(fee)>>
          /\ hub_balance = s.hub_balance + fee
       \/ /\ user_rewards > 0
          /\ calls = <<DelegateMsg(v, user_rewards)>>
          /\ hub_balance = s.hub_balance + user_rewards

Progress(m, s) ==
  Starting(m, s) \/ Moving(m, s) \/ Collecting(m, s) \/ Paying(m, s)

(* The inductive invariant.                                                *)
Invariant ==
  /\ Sound
  /\ Idle => Settled(Snapshot)
  /\ ~Idle => \E m, s : /\ saved = [msg |-> m, start |-> s]
                        /\ Settled(s)
                        /\ Progress(m, s)

-----------------------------------------------------------------------------
(* Picking validators                                                      *)

(* The equation that the recursive function of PickValidator solves.       *)
PickRound(p, deletable, claim) ==
  [claimed \in 0..claim |->
     IF claimed = 0 THEN {[v \in Validators |-> 0]}
     ELSE UNION {{[t EXCEPT ![v] = Taken(v, claimed)] :
                    t \in p[deletable \ {v}][claimed - Taken(v, claimed)]} :
                   v \in deletable}]

PickEquation(p, claim) ==
  p = [deletable \in SUBSET Delegated |-> PickRound(p, deletable, claim)]

Picks(claim) == CHOOSE p : PickEquation(p, claim)

(* pick_validator's outcomes are the solution's for all delegations.       *)
LEMMA PickIsPicks ==
  ASSUME NEW claim PROVE PickValidator(claim) = Picks(claim)[Delegated][claim]
BY DEF PickValidator, Picks, PickEquation, PickRound

(* A round depends on the smaller sets only.                               *)
LEMMA RoundLocal ==
  ASSUME NEW claim, NEW p, NEW q, NEW s, \A v \in s : p[s \ {v}] = q[s \ {v}]
  PROVE  PickRound(p, s, claim) = PickRound(q, s, claim)
<1> DEFINE Step(r, v, c) == {[t EXCEPT ![v] = Taken(v, c)] : t \in r[c - Taken(v, c)]}
<1>1. ASSUME NEW c \in 0..claim
      PROVE  UNION {Step(p[s \ {v}], v, c) : v \in s}
               = UNION {Step(q[s \ {v}], v, c) : v \in s}
  <2> HIDE DEF Step
  <2>1. \A v \in s : Step(p[s \ {v}], v, c) = Step(q[s \ {v}], v, c)  OBVIOUS
  <2> QED  BY <2>1
<1> QED  BY <1>1 DEF PickRound

(* The amount c is split over the validators of s, and all but one of them *)
(* give their whole delegation or nothing.                                 *)
Split(t, s, c) ==
  /\ t \in [Validators -> Nat]
  /\ SumOf(t) = c
  /\ \A v \in Validators : t[v] <= delegations[v] /\ (v \notin s => t[v] = 0)
  /\ \E last \in Validators :
       \A v \in Validators \ {last} : t[v] \in {0, delegations[v]}

(* The equation has a solution: one for the sets of at most n validators   *)
(* extends to n + 1.                                                       *)
LEMMA PicksExist ==
  ASSUME NEW claim, IsFiniteSet(Delegated)
  PROVE  PickEquation(Picks(claim), claim)
<1> DEFINE Small(n) == {s \in SUBSET Delegated : Cardinality(s) <= n}
           Upto(p, n) == p = [s \in Small(n) |-> PickRound(p, s, claim)]
           B == {n \in Nat : ~ \E p : Upto(p, n)}
<1>1. \A s \in SUBSET Delegated :
        /\ IsFiniteSet(s) /\ Cardinality(s) \in Nat
        /\ Cardinality(s) <= Cardinality(Delegated)
      BY FS_Subset, FS_CardinalityType
<1>2. B = {}
  <2> SUFFICES ASSUME B # {} PROVE FALSE  OBVIOUS
  <2>1. PICK n \in B : \A k \in B : n <= k  BY LeastNatural
  <2>2. n # 0
    <3> SUFFICES ASSUME n = 0 PROVE FALSE  OBVIOUS
    <3>1. Small(0) = {{}}  BY <1>1, FS_EmptySet
    <3> DEFINE p == [s \in Small(0) |-> PickRound({}, {}, claim)]
    <3>2. \A s \in Small(0) : PickRound(p, s, claim) = PickRound({}, {}, claim)
          BY <3>1, RoundLocal
    <3>3. Upto(p, 0)  BY <3>2
    <3> QED  BY <3>3
  <2> DEFINE m == n - 1
  <2>3. n \in Nat /\ m \in Nat /\ m < n  BY <2>2
  <2>4. m \notin B
    <3> HIDE DEF B, m
    <3> QED  BY <2>1, <2>3
  <2>5. PICK h : Upto(h, m)  BY <2>3, <2>4
  <2> DEFINE p == [s \in Small(n) |-> PickRound(h, s, claim)]
  <2>6. ASSUME NEW s \in Small(n), NEW v \in s PROVE s \ {v} \in Small(m)
    <3>1. Cardinality(s \ {v}) = Cardinality(s) - 1
          BY <1>1, FS_RemoveElement
    <3> QED  BY <1>1, <2>3, <3>1
  <2>7. ASSUME NEW s \in Small(m) PROVE h[s] = p[s]
    <3>1. s \in Small(n)  BY <1>1, <2>3
    <3>2. h[s] = PickRound(h, s, claim)  BY <2>5
    <3> QED  BY <3>1, <3>2
  <2>8. \A s \in Small(n) : PickRound(h, s, claim) = PickRound(p, s, claim)
    <3> SUFFICES ASSUME NEW s \in Small(n)
                 PROVE  PickRound(h, s, claim) = PickRound(p, s, claim)
        OBVIOUS
    <3>1. \A v \in s : h[s \ {v}] = p[s \ {v}]  BY <2>6, <2>7
    <3> HIDE DEF p
    <3> QED  BY <3>1, RoundLocal
  <2>9. Upto(p, n)  BY <2>8
  <2> QED  BY <2>9
<1>3. Cardinality(Delegated) \in Nat  BY FS_CardinalityType
<1>4. PICK p : Upto(p, Cardinality(Delegated))  BY <1>2, <1>3
<1>5. Small(Cardinality(Delegated)) = SUBSET Delegated  BY <1>1
<1>6. PickEquation(p, claim)  BY <1>4, <1>5 DEF PickEquation
<1> QED  BY <1>6 DEF Picks

(* The members of the recursive set.                                       *)
LEMMA PicksMember ==
  ASSUME NEW claim \in Nat, IsFiniteSet(Delegated),
         NEW s \in SUBSET Delegated, NEW c \in 0..claim
  PROVE  /\ c = 0 => Picks(claim)[s][c] = {[v \in Validators |-> 0]}
         /\ c # 0 => Picks(claim)[s][c] =
              UNION {{[t EXCEPT ![v] = Taken(v, c)] :
                        t \in Picks(claim)[s \ {v}][c - Taken(v, c)]} : v \in s}
<1>1. Picks(claim)[s] = PickRound(Picks(claim), s, claim)
      BY PicksExist DEF PickEquation
<1> QED  BY <1>1 DEF PickRound

(* One round more: v gives what Taken says.                                *)
LEMMA SplitMore ==
  ASSUME delegations \in [Validators -> Nat], IsFiniteSet(Validators),
         NEW s \in SUBSET Validators, NEW v \in s, NEW c \in Nat, NEW u,
         Split(u, s \ {v}, c - Taken(v, c))
  PROVE  Split([u EXCEPT ![v] = Taken(v, c)], s, c)
<1> DEFINE k == Taken(v, c)
           t == [u EXCEPT ![v] = k]
<1>1. /\ k \in Nat /\ k <= c /\ k <= delegations[v]
      /\ k = c \/ k = delegations[v]
      BY DEF Taken
<1> HIDE DEF k
<1>2. /\ u \in [Validators -> Nat] /\ u[v] = 0 /\ SumOf(u) = c - k
      /\ \A w \in Validators : u[w] <= delegations[w] /\ (w \notin s => u[w] = 0)
      BY DEF Split, k
<1>3. /\ t \in [Validators -> Nat] /\ t[v] = k
      /\ \A w \in Validators : w # v => t[w] = u[w]
      BY <1>1, <1>2
<1> HIDE DEF t
<1>4. SumOf(t) = SumOf(u) - u[v] + t[v]
  <2>1. u \in [Validators -> Int] /\ t \in [Validators -> Int]  BY <1>2, <1>3
  <2> QED  BY <1>3, <2>1, SumUpdate
<1>5. SumOf(t) = c  BY <1>1, <1>2, <1>3, <1>4
<1>6. \A w \in Validators : t[w] <= delegations[w] /\ (w \notin s => t[w] = 0)
      BY <1>1, <1>2, <1>3
<1>7. \E last \in Validators :
        \A w \in Validators \ {last} : t[w] \in {0, delegations[w]}
  <2>1. CASE k = c
    <3>1. SumOf(u) = 0  BY <1>1, <1>2, <2>1
    <3>2. \A w \in Validators : u[w] = 0  BY <1>2, <3>1, SumZero
    <3>3. \A w \in Validators \ {v} : t[w] \in {0, delegations[w]}
          BY <1>3, <3>2
    <3> QED  BY <3>3
  <2>2. CASE k = delegations[v]
    <3>1. PICK last \in Validators :
            \A w \in Validators \ {last} : u[w] \in {0, delegations[w]}
          BY DEF Split
    <3>2. \A w \in Validators \ {last} : t[w] \in {0, delegations[w]}
          BY <1>3, <2>2, <3>1
    <3> QED  BY <3>2
  <2> QED  BY <1>1, <2>1, <2>2
<1>8. Split(t, s, c)  BY <1>3, <1>5, <1>6, <1>7 DEF Split
<1> QED  BY <1>8 DEF t, k

(* Whatever is picked is such a split.                                     *)
LEMMA PicksSplit ==
  ASSUME delegations \in [Validators -> Nat], NEW claim \in Nat
  PROVE  \A c \in 0..claim : \A t \in Picks(claim)[Delegated][c] :
           Split(t, Delegated, c)
<1> DEFINE P == Picks(claim)
           B == {s \in SUBSET Delegated :
                   \E c \in 0..claim : \E t \in P[s][c] : ~Split(t, s, c)}
<1>1. IsFiniteSet(Validators) /\ FirstValidator \in Validators
      BY CompoundingAssumption
<1>2. Delegated \subseteq Validators  BY DEF Delegated
<1>3. IsFiniteSet(Delegated)  BY <1>1, <1>2, FS_Subset
<1>4. ASSUME NEW s \in SUBSET Delegated PROVE Split([v \in Validators |-> 0], s, 0)
  <2> DEFINE z == [v \in Validators |-> 0]
  <2>1. z \in [Validators -> Nat] /\ \A v \in Validators : z[v] = 0  OBVIOUS
  <2> HIDE DEF z
  <2>2. SumOf(z) = 0  BY <1>1, <2>1, SumZero
  <2>3. \A v \in Validators : z[v] <= delegations[v]  BY <2>1
  <2>4. Split(z, s, 0)  BY <1>1, <2>1, <2>2, <2>3 DEF Split
  <2> QED  BY <2>4 DEF z
<1>5. ASSUME NEW s \in B PROVE \E v \in s : s \ {v} \in B
  <2>9. PICK c \in 0..claim : \E t \in P[s][c] : ~Split(t, s, c)  OBVIOUS
  <2>1. PICK t \in P[s][c] : ~Split(t, s, c)  BY <2>9
  <2>2. c # 0
    <3> SUFFICES ASSUME c = 0 PROVE FALSE  OBVIOUS
    <3>1. P[s][c] = {[v \in Validators |-> 0]}  BY <1>3, PicksMember
    <3> QED  BY <1>4, <2>1, <3>1
  <2>3. P[s][c] = UNION {{[u EXCEPT ![v] = Taken(v, c)] :
                            u \in P[s \ {v}][c - Taken(v, c)]} : v \in s}
        BY <1>3, <2>2, PicksMember
  <2>4. PICK v \in s : \E u \in P[s \ {v}][c - Taken(v, c)] :
                         t = [u EXCEPT ![v] = Taken(v, c)]
    <3>1. t \in UNION {{[u EXCEPT ![v] = Taken(v, c)] :
                          u \in P[s \ {v}][c - Taken(v, c)]} : v \in s}
          BY ONLY <2>1, <2>3
    <3> QED  BY ONLY <3>1
  <2>5. PICK u \in P[s \ {v}][c - Taken(v, c)] : t = [u EXCEPT ![v] = Taken(v, c)]
        BY <2>4
  <2>6. s \in SUBSET Validators /\ c \in Nat  BY <1>2
  <2>7. ~Split(u, s \ {v}, c - Taken(v, c))
        BY <1>1, <2>1, <2>5, <2>6, SplitMore
  <2>8. c - Taken(v, c) \in 0..claim
    <3>1. delegations[v] \in Nat  BY <2>6
    <3> QED  BY <3>1 DEF Taken
  <2> QED  BY <2>7, <2>8
<1>6. {} \notin B
  <2> SUFFICES ASSUME {} \in B PROVE FALSE  OBVIOUS
  <2> QED  BY <1>5
<1>7. B = {}  BY <1>3, <1>5, <1>6, SubsetInduction
<1> QED  BY <1>7

(* Every such split can be picked: first whoever gives all it has, then    *)
(* the last one.                                                           *)
LEMMA SplitPicked ==
  ASSUME delegations \in [Validators -> Nat], NEW claim \in Nat
  PROVE  \A c \in 0..claim : \A t :
           Split(t, Delegated, c) => t \in Picks(claim)[Delegated][c]
<1> DEFINE P == Picks(claim)
           B == {s \in SUBSET Delegated : \E c \in 0..claim :
                   \E t \in [Validators -> Nat] : Split(t, s, c) /\ t \notin P[s][c]}
<1>1. IsFiniteSet(Validators)  BY CompoundingAssumption
<1>2. Delegated \subseteq Validators  BY DEF Delegated
<1>3. IsFiniteSet(Delegated)  BY <1>1, <1>2, FS_Subset
<1>4. ASSUME NEW s \in B PROVE \E v \in s : s \ {v} \in B
  <2>1. PICK c \in 0..claim, t \in [Validators -> Nat] :
          Split(t, s, c) /\ t \notin P[s][c]
        OBVIOUS
  <2>2. /\ SumOf(t) = c
        /\ \A v \in Validators : t[v] <= delegations[v] /\ (v \notin s => t[v] = 0)
        BY <2>1 DEF Split
  <2>3. PICK last \in Validators :
          \A v \in Validators \ {last} : t[v] \in {0, delegations[v]}
        BY <2>1 DEF Split
  <2>4. c # 0
    <3> SUFFICES ASSUME c = 0 PROVE FALSE  OBVIOUS
    <3>1. P[s][c] = {[v \in Validators |-> 0]}  BY <1>3, PicksMember
    <3>2. \A v \in Validators : t[v] = 0  BY <1>1, <2>2, SumZero
    <3>3. t = [v \in Validators |-> 0]  BY <3>2
    <3> QED  BY <2>1, <3>1, <3>3
  <2>5. \A v \in Validators : t[v] <= c  BY <1>1, <2>2, SumZero
  <2>6. PICK v \in Validators : t[v] # 0 /\ (v # last \/ t[v] = c)
    <3>1. CASE \E v \in Validators : v # last /\ t[v] # 0  BY <3>1
    <3>2. CASE \A v \in Validators : v # last => t[v] = 0
      <4>1. t \in [Validators -> Int]  OBVIOUS
      <4>2. SumOf(t) = t[last]  BY <1>1, <3>2, <4>1, SumSingle
      <4> QED  BY <2>2, <2>4, <4>2
    <3> QED  BY <3>1, <3>2
  <2>7. v \in s  BY <2>2, <2>6
  <2>8. /\ t[v] \in Nat /\ delegations[v] \in Nat /\ t[v] <= delegations[v]
        /\ t[v] <= c /\ c \in Nat /\ (t[v] = delegations[v] \/ t[v] = c)
        BY <2>2, <2>3, <2>5, <2>6
  <2>9. t[v] = Taken(v, c)  BY <2>8 DEF Taken
  <2> DEFINE u == [t EXCEPT ![v] = 0]
  <2>10. /\ u \in [Validators -> Nat] /\ u[v] = 0
         /\ \A w \in Validators : w # v => u[w] = t[w]
         OBVIOUS
  <2>16. t = [u EXCEPT ![v] = Taken(v, c)]  BY <2>9
  <2> HIDE DEF u
  <2>11. SumOf(u) = c - Taken(v, c)
    <3>1. u \in [Validators -> Int] /\ t \in [Validators -> Int]  BY <2>10
    <3>2. SumOf(u) = SumOf(t) - t[v] + u[v]  BY <1>1, <2>10, <3>1, SumUpdate
    <3> QED  BY <2>2, <2>8, <2>9, <2>10, <3>2
  <2>12. Split(u, s \ {v}, c - Taken(v, c))
    <3>1. \A w \in Validators \ {last} : u[w] \in {0, delegations[w]}
          BY <2>3, <2>10
    <3>2. \A w \in Validators :
            u[w] <= delegations[w] /\ (w \notin s \ {v} => u[w] = 0)
          BY <2>2, <2>8, <2>10
    <3> QED  BY <2>10, <2>11, <3>1, <3>2 DEF Split
  <2>13. P[s][c] = UNION {{[r EXCEPT ![w] = Taken(w, c)] :
                            r \in P[s \ {w}][c - Taken(w, c)]} : w \in s}
        BY <1>3, <2>4, PicksMember, SMTT(30)
  <2>14. u \notin P[s \ {v}][c - Taken(v, c)]
    <3> SUFFICES ASSUME u \in P[s \ {v}][c - Taken(v, c)] PROVE FALSE  OBVIOUS
    <3>1. t \in {[r EXCEPT ![v] = Taken(v, c)] : r \in P[s \ {v}][c - Taken(v, c)]}
          BY <2>16
    <3> DEFINE Round(w) == {[r EXCEPT ![w] = Taken(w, c)] :
                              r \in P[s \ {w}][c - Taken(w, c)]}
    <3>2. t \in Round(v) /\ P[s][c] = UNION {Round(w) : w \in s}  BY <2>13, <3>1
    <3> HIDE DEF Round
    <3>3. t \in UNION {Round(w) : w \in s}  BY <2>7, <3>2
    <3>4. t \in P[s][c]  BY <3>2, <3>3
    <3> QED  BY <2>1, <3>4
  <2>15. c - Taken(v, c) \in 0..claim  BY <2>8, <2>9
  <2> QED  BY <2>7, <2>10, <2>12, <2>14, <2>15
<1>5. {} \notin B
  <2> SUFFICES ASSUME {} \in B PROVE FALSE  OBVIOUS
  <2> QED  BY <1>4
<1>6. B = {}  BY <1>3, <1>4, <1>5, SubsetInduction
<1>7. \A c, t : Split(t, Delegated, c) => t \in [Validators -> Nat]  BY DEF Split
<1> QED  BY <1>6, <1>7

(* pick_validator undelegates a claim exactly, in every way that splits at *)
(* most one delegation.                                                    *)
LEMMA PickMeetsReference ==
  ASSUME delegations \in [Validators -> Nat], NEW claim \in Nat
  PROVE  PickValidator(claim) = PickReference(claim)
<1>1. IsFiniteSet(Validators)  BY CompoundingAssumption
<1>2. \A t : Split(t, Delegated, claim) => t \in PickReference(claim)
  <2> SUFFICES ASSUME NEW t, Split(t, Delegated, claim)
               PROVE  t \in PickReference(claim)
      OBVIOUS
  <2>1. t \in [Validators -> Nat] /\ SumOf(t) = claim  BY DEF Split
  <2>2. \A v \in Validators : t[v] <= claim  BY <1>1, <2>1, SumZero
  <2>3. t \in [Validators -> 0..claim]  BY <2>1, <2>2
  <2> QED  BY <2>3 DEF Split, PickReference
<1>3. \A t \in PickReference(claim) : Split(t, Delegated, claim)
  <2> SUFFICES ASSUME NEW t \in PickReference(claim)
               PROVE  Split(t, Delegated, claim)
      OBVIOUS
  <2>1. /\ t \in [Validators -> 0..claim] /\ SumOf(t) = claim
        /\ \A v \in Validators : t[v] <= delegations[v]
        BY DEF PickReference
  <2>2. \A v \in Validators : v \notin Delegated => delegations[v] = 0
        BY DEF Delegated
  <2>3. t \in [Validators -> Nat]  BY <2>1
  <2>4. \A v \in Validators : v \notin Delegated => t[v] = 0  BY <2>1, <2>2, <2>3
  <2> QED  BY <2>1, <2>3, <2>4 DEF Split, PickReference
<1>4. claim \in 0..claim  OBVIOUS
<1>5. \A t : t \in PickValidator(claim) <=> Split(t, Delegated, claim)
      BY <1>4, PickIsPicks, PicksSplit, SplitPicked
<1>6. \A t : t \in PickValidator(claim) <=> t \in PickReference(claim)
      BY <1>2, <1>3, <1>5
<1> QED  BY <1>6

-----------------------------------------------------------------------------
(* Messages and rewards                                                    *)

(* The messages that precede others.                                       *)
LEMMA Sequences ==
  ASSUME NEW x, NEW y
  PROVE  /\ Head(<<x>>) = x /\ Tail(<<x>>) = <<>>
         /\ Head(<<x, y>>) = x /\ Tail(<<x, y>>) = <<y>>
         /\ <<>> \o <<>> = <<>> /\ <<>> \o <<x>> = <<x>>
         /\ <<x>> \o <<>> = <<x>> /\ <<x, y>> \o <<>> = <<x, y>>
         /\ <<x>> # <<>> /\ <<x, y>> # <<>>
         /\ <<x>> \o <<y>> = <<x, y>>
<1>1. <<x>> \in Seq({x, y}) /\ <<y>> \in Seq({x, y}) /\ <<x, y>> \in Seq({x, y})
      OBVIOUS
<1>2. /\ <<x>> \o <<y>> \in Seq({x, y}) /\ Len(<<x>> \o <<y>>) = 2
      /\ (<<x>> \o <<y>>)[1] = x /\ (<<x>> \o <<y>>)[2] = y
      OBVIOUS
<1>3. \A i \in 1..2 : (<<x>> \o <<y>>)[i] = <<x, y>>[i]  BY <1>2
<1>4. <<x>> \o <<y>> = <<x, y>>  BY <1>1, <1>2, <1>3, SeqEqual
<1>5. Head(<<x>>) = x /\ Tail(<<x>>) = <<>>  OBVIOUS
<1>6. Head(<<x, y>>) = x /\ Tail(<<x, y>>) = <<y>>  OBVIOUS
<1>7. <<>> \o <<>> = <<>> /\ <<>> \o <<x>> = <<x>>  OBVIOUS
<1>8. <<x>> \o <<>> = <<x>> /\ <<x, y>> \o <<>> = <<x, y>>  OBVIOUS
<1>9. <<x>> # <<>> /\ <<x, y>> # <<>>  OBVIOUS
<1> QED  BY <1>4, <1>5, <1>6, <1>7, <1>8, <1>9

(* A settlement moves rewards to the rewards contract; none is lost.       *)
LEMMA SettleEffect ==
  ASSUME NEW vs \in SUBSET Validators, Settle(vs),
         accrued \in [Validators -> Nat],
         rewards_balance \in [RewardsContracts -> Nat],
         withdraw_address \in RewardsContracts
  PROVE  /\ accrued' \in [Validators -> Nat]
         /\ rewards_balance' \in [RewardsContracts -> Nat]
         /\ \A v \in Validators : accrued'[v] = IF v \in vs THEN 0 ELSE accrued[v]
         /\ SumOf(accrued') + rewards_balance'[withdraw_address]
              = SumOf(accrued) + rewards_balance[withdraw_address]
         /\ SumOf(accrued') + SumOf(rewards_balance')
              = SumOf(accrued) + SumOf(rewards_balance)
<1> DEFINE paid == [v \in Validators |-> IF v \in vs THEN accrued[v] ELSE 0]
           part == SumOf([v \in vs |-> accrued[v]])
           wa == withdraw_address
<1>1. IsFiniteSet(Validators) /\ IsFiniteSet(RewardsContracts)
      BY CompoundingAssumption
<1>2. /\ accrued' \in [Validators -> Nat]
      /\ \A v \in Validators : accrued'[v] = IF v \in vs THEN 0 ELSE accrued[v]
      BY DEF Settle
<1>3. /\ paid \in [Validators -> Nat]
      /\ \A v \in Validators : accrued[v] = accrued'[v] + paid[v]
      BY <1>2
<1>4. accrued \in [Validators -> Int]  OBVIOUS
<1>5. part = SumOf(paid)  BY <1>1, <1>4, SumPart
<1>6. rewards_balance' = [rewards_balance EXCEPT ![wa] = rewards_balance[wa] + part]
      BY DEF Settle
<1> HIDE DEF paid, part
<1>7. SumOf(accrued) = SumOf(accrued') + SumOf(paid)
  <2>1. accrued' \in [Validators -> Int] /\ paid \in [Validators -> Int]
        BY <1>2, <1>3
  <2>2. \A v \in Validators : accrued[v] = accrued'[v] + paid[v]  BY <1>3
  <2> QED  BY ONLY <1>1, <1>4, <2>1, <2>2, SumAdd
<1>8. SumOf(accrued') \in Nat /\ SumOf(paid) \in Nat /\ SumOf(rewards_balance) \in Nat
      BY <1>1, <1>2, <1>3, SumNat
<1>9. /\ rewards_balance' \in [RewardsContracts -> Nat]
      /\ rewards_balance'[wa] = rewards_balance[wa] + part
      /\ \A rc \in RewardsContracts :
           rc # wa => rewards_balance'[rc] = rewards_balance[rc]
      BY <1>5, <1>6, <1>8
<1>10. SumOf(rewards_balance')
         = SumOf(rewards_balance) - rewards_balance[wa] + rewards_balance'[wa]
  <2>1. /\ rewards_balance \in [RewardsContracts -> Int]
        /\ rewards_balance' \in [RewardsContracts -> Int]
        BY <1>9
  <2> QED  BY <1>1, <1>9, <2>1, SumUpdate
<1>11. rewards_balance[wa] \in Nat  OBVIOUS
<1>12. SumOf(accrued') + rewards_balance'[wa] = SumOf(accrued) + rewards_balance[wa]
       BY <1>5, <1>7, <1>8, <1>9, <1>11
<1>13. SumOf(accrued') + SumOf(rewards_balance')
         = SumOf(accrued) + SumOf(rewards_balance)
       BY <1>5, <1>7, <1>8, <1>9, <1>10, <1>11
<1> QED  BY <1>2, <1>9, <1>12, <1>13

-----------------------------------------------------------------------------
(* Between transactions                                                    *)

(* The parts of Settled for the current state.                             *)
LEMMA SettledParts ==
  ASSUME Sound, Settled(Snapshot)
  PROVE  /\ whitelist # {}
         /\ \A v \in Validators : delegations[v] > 0 => v \in whitelist
         /\ SumOf(accrued) \in Nat /\ SumOf(rewards_balance) \in Nat
         /\ SumOf(accrued) + SumOf(rewards_balance) <= MaxRewards
         /\ SumOf(accrued) + SumOf(rewards_balance) > 0 =>
              state.total_bond_amount + SumOf(accrued) + SumOf(rewards_balance)
                <= MaxStake + MaxRewards
         /\ state.total_bond_amount \in Nat /\ MaxStake \in Nat /\ MaxRewards \in Nat
<1>1. /\ Snapshot.whitelist = whitelist /\ Snapshot.delegations = delegations
      /\ Snapshot.accrued = accrued /\ Snapshot.rewards_balance = rewards_balance
      /\ Snapshot.state = state
      BY DEF Snapshot
<1>2. SumOf(accrued) \in Nat /\ SumOf(rewards_balance) \in Nat
      BY CompoundingAssumption, SumNat DEF Sound
<1>3. state.total_bond_amount \in Nat /\ MaxStake \in Nat /\ MaxRewards \in Nat
      BY HubAssumption, CompoundingAssumption DEF Sound, Books, TypeOK, StateType
<1> QED  BY <1>1, <1>2, <1>3 DEF Settled, Rewards

(* Settled in the next state, from its parts.                              *)
LEMMA SettledFrom ==
  ASSUME Sound', whitelist' # {},
         \A v \in Validators : delegations'[v] > 0 => v \in whitelist',
         SumOf(accrued') + SumOf(rewards_balance') <= MaxRewards,
         SumOf(accrued') + SumOf(rewards_balance') > 0 =>
           state'.total_bond_amount + SumOf(accrued') + SumOf(rewards_balance')
             <= MaxStake + MaxRewards
  PROVE  Settled(Snapshot)'
<1>1. /\ Snapshot'.whitelist = whitelist' /\ Snapshot'.delegations = delegations'
      /\ Snapshot'.accrued = accrued' /\ Snapshot'.rewards_balance = rewards_balance'
      /\ Snapshot'.state = state' /\ Snapshot'.staked = staked'
      BY DEF Snapshot
<1>2. SumOf(accrued') \in Nat /\ SumOf(rewards_balance') \in Nat
      BY CompoundingAssumption, SumNat DEF Sound
<1>3. state'.total_bond_amount \in Nat
      BY DEF Sound, Books, TypeOK, StateType
<1>4. Snapshot' \in SnapshotType
      BY DEF Snapshot, SnapshotType, Sound, Books, TypeOK
<1>5. Rewards(Snapshot') > 0 =>
        Snapshot'.state.total_bond_amount + Rewards(Snapshot') <= MaxStake + MaxRewards
      BY <1>1, <1>2, <1>3 DEF Rewards
<1>6. Rewards(Snapshot') <= MaxRewards  BY <1>1 DEF Rewards
<1>7. Settled(Snapshot')  BY <1>1, <1>4, <1>5, <1>6 DEF Settled, Sound, StakeSplit
<1> QED  BY <1>7

(* Hub's record never grows when it is corrected.                          *)
LEMMA CorrectedBelow ==
  ASSUME Books
  PROVE  /\ AfterSlashing.total_bond_amount \in Nat
         /\ AfterSlashing.total_bond_amount <= state.total_bond_amount
BY AfterSlashingBooks DEF Books, TypeOK, StakeRecorded

(* A step that leaves the validators and their rewards alone.              *)
LEMMA StakeUnchanged ==
  ASSUME Sound, Settled(Snapshot), Books', UNCHANGED <<stakeVars, staked>>,
         withdraw_address' = config'.rewards_contract,
         state'.total_bond_amount <= state.total_bond_amount
  PROVE  Sound' /\ Settled(Snapshot)'
<1>1. Sound'  BY DEF Sound, stakeVars, StakeSplit
<1>2. /\ whitelist' = whitelist /\ delegations' = delegations
      /\ accrued' = accrued /\ rewards_balance' = rewards_balance
      BY DEF stakeVars
<1>3. state'.total_bond_amount \in Nat
      BY DEF Books, TypeOK, StateType
<1>4. SumOf(accrued) + SumOf(rewards_balance) > 0 =>
        state'.total_bond_amount + SumOf(accrued) + SumOf(rewards_balance)
          <= MaxStake + MaxRewards
      BY <1>3, SettledParts
<1> QED  BY <1>1, <1>2, <1>4, SettledParts, SettledFrom

(* RegisterValidator.                                                      *)
LEMMA RegisterSettled ==
  ASSUME Sound, Settled(Snapshot), NEW sender, NEW v \in Validators,
         RegisterValidator(sender, v), UNCHANGED withdraw_address
  PROVE  Sound' /\ Settled(Snapshot)'
<1>1. /\ delegations' = delegations /\ accrued' = accrued
      /\ rewards_balance' = rewards_balance /\ whitelist' = whitelist \cup {v}
      /\ UNCHANGED vars
      BY DEF RegisterValidator
<1>2. Books'
      BY <1>1 DEF Sound, Books, vars, configVars, ledgerVars, chainVars, TypeOK,
                  ConfigTypeOK, RateBacked, StakeRecorded, ActualSupply
<1>3. state' = state /\ config' = config /\ staked' = staked
      BY <1>1 DEF vars, configVars, ledgerVars, chainVars
<1>4. Sound'  BY <1>1, <1>2, <1>3 DEF Sound, StakeSplit
<1> QED  BY <1>1, <1>3, <1>4, SettledParts, SettledFrom

(* Bond, to a whitelisted validator.                                       *)
LEMMA BondToSettled ==
  ASSUME Sound, Settled(Snapshot), NEW payment \in BondAmounts, NEW v \in Validators,
         BondTo(payment, v), UNCHANGED withdraw_address
  PROVE  Sound' /\ Settled(Snapshot)'
<1>1. /\ Bond(payment) /\ Settle({v}) /\ v \in whitelist /\ whitelist' = whitelist
      /\ delegations' = [delegations EXCEPT ![v] = delegations[v] + payment]
      BY DEF BondTo
<1>2. Books'  BY <1>1, BondBooks DEF Sound
<1>3. /\ payment \in Nat /\ staked \in Nat /\ config \in ConfigType
      /\ withdraw_address = config.rewards_contract /\ config' = config
      /\ staked' = staked + payment
      /\ delegations \in [Validators -> Nat] /\ staked = SumOf(delegations)
      BY <1>1, HubAssumption
      DEF Sound, Books, TypeOK, ConfigTypeOK, Bond, configVars, StakeSplit
<1>4. withdraw_address \in RewardsContracts  BY <1>3 DEF ConfigType
<1>5. /\ accrued' \in [Validators -> Nat]
      /\ rewards_balance' \in [RewardsContracts -> Nat]
      /\ \A w \in Validators : accrued'[w] = IF w \in {v} THEN 0 ELSE accrued[w]
      /\ SumOf(accrued') + SumOf(rewards_balance')
           = SumOf(accrued) + SumOf(rewards_balance)
      BY <1>1, <1>4, SettleEffect DEF Sound
<1>6. /\ delegations' \in [Validators -> Nat] /\ delegations'[v] = delegations[v] + payment
      /\ \A w \in Validators : w # v => delegations'[w] = delegations[w]
      BY <1>1, <1>3
<1>7. staked' = SumOf(delegations')
  <2>1. /\ delegations \in [Validators -> Int] /\ delegations' \in [Validators -> Int]
        /\ delegations[v] \in Nat
        BY <1>3, <1>6
  <2>2. \A w \in Validators : w # v => delegations'[w] = delegations[w]  BY <1>6
  <2>3. SumOf(delegations') = SumOf(delegations) - delegations[v] + delegations'[v]
        BY ONLY <2>1, <2>2, v \in Validators, CompoundingAssumption, SumUpdate
  <2> QED  BY <1>3, <1>6, <2>1, <2>3
<1>8. \A w \in Validators : delegations'[w] = 0 => accrued'[w] = 0
      BY <1>5, <1>6 DEF Sound
<1>9. Sound'
      BY <1>1, <1>2, <1>3, <1>5, <1>6, <1>7, <1>8 DEF Sound, StakeSplit
<1>10. state'.total_bond_amount <= MaxStake
  <2>1. AfterSlashing \in StateType  BY AfterSlashingType DEF Sound, Books
  <2>2. /\ state'.total_bond_amount = AfterSlashing.total_bond_amount + payment
        /\ AfterSlashing.total_bond_amount + payment <= MaxStake
        BY <1>1, <2>1 DEF Bond, StateType
  <2> QED  BY <2>2
<1>11. state'.total_bond_amount \in Nat  BY <1>2 DEF Books, TypeOK, StateType
<1>12. /\ SumOf(accrued') \in Nat /\ SumOf(rewards_balance') \in Nat
       BY <1>5, CompoundingAssumption, SumNat
<1>13. state'.total_bond_amount + SumOf(accrued') + SumOf(rewards_balance')
         <= MaxStake + MaxRewards
       BY <1>5, <1>10, <1>11, <1>12, SettledParts
<1>14. \A w \in Validators : delegations'[w] > 0 => w \in whitelist'
       BY <1>1, <1>6, SettledParts
<1> QED  BY <1>1, <1>5, <1>9, <1>13, <1>14, SettledParts, SettledFrom

(* Unbond, with the undelegations of pick_validator.                       *)
LEMMA UnbondFromSettled ==
  ASSUME Sound, Settled(Snapshot), NEW user \in Users, NEW amount \in UnbondAmounts,
         UnbondFrom(user, amount), UNCHANGED withdraw_address
  PROVE  Sound' /\ Settled(Snapshot)'
<1> DEFINE claim == IF EpochPassed THEN UndelegationAmount(amount) ELSE 0
<1>1. Unbond(user, amount) /\ whitelist' = whitelist  BY DEF UnbondFrom
<1>2. Books /\ Books' /\ TypeOK  BY <1>1, UnbondBooks DEF Sound, Books
<1>3. claim \in Nat
  <2>1. amount \in Nat /\ amount <= supply /\ AmountWithFee(amount) >= 0
        BY <1>1, HubAssumption DEF Unbond, WithinSupply
  <2> QED  BY <1>2, <2>1, UnbondTypes
<1>4. PICK taken \in PickValidator(claim) :
        /\ delegations' = [v \in Validators |-> delegations[v] - taken[v]]
        /\ Settle({v \in Validators : taken[v] > 0})
      BY DEF UnbondFrom
<1>5. staked' = staked - claim /\ staked \in Nat
  <2>1. CASE JoinBatch(amount)  BY <1>2, <2>1 DEF JoinBatch, TypeOK
  <2>2. CASE CloseBatch(amount)  BY <1>2, <2>2 DEF CloseBatch, TypeOK
  <2> QED  BY <1>1, <2>1, <2>2 DEF Unbond
<1>6. state'.total_bond_amount <= state.total_bond_amount
  <2>1. AfterSlashing \in StateType  BY <1>2, AfterSlashingType
  <2>2. /\ AfterSlashing.total_bond_amount \in Nat
        /\ AfterSlashing.total_bond_amount <= state.total_bond_amount
        /\ state.total_bond_amount \in Nat
        BY <1>2, CorrectedBelow DEF TypeOK, StateType
  <2>3. state'.total_bond_amount = AfterSlashing.total_bond_amount - claim
    <3>1. CASE JoinBatch(amount)
          BY <2>1, <2>2, <3>1 DEF JoinBatch, StateType
    <3>2. CASE CloseBatch(amount)
          BY <2>1, <2>2, <3>2 DEF CloseBatch, StateType
    <3> QED  BY <1>1, <3>1, <3>2 DEF Unbond
  <2> QED  BY <1>3, <2>2, <2>3
<1> HIDE DEF claim
<1>7. /\ delegations \in [Validators -> Nat] /\ staked = SumOf(delegations)
      /\ accrued \in [Validators -> Nat]
      /\ \A v \in Validators : delegations[v] = 0 => accrued[v] = 0
      /\ withdraw_address = config.rewards_contract /\ config' = config
      /\ withdraw_address \in RewardsContracts
      BY <1>1, <1>2
      DEF Sound, StakeSplit, Unbond, configVars, TypeOK, ConfigTypeOK, ConfigType
<1>8. taken \in PickReference(claim)  BY <1>3, <1>4, <1>7, PickMeetsReference
<1>9. /\ taken \in [Validators -> Nat] /\ SumOf(taken) = claim
      /\ \A v \in Validators : taken[v] <= delegations[v]
  <2>1. taken \in [Validators -> 0..claim]  BY <1>8 DEF PickReference
  <2> QED  BY <1>3, <1>8, <2>1 DEF PickReference
<1>10. /\ delegations' \in [Validators -> Nat]
       /\ \A v \in Validators : delegations[v] = delegations'[v] + taken[v]
       BY <1>4, <1>7, <1>9
<1>11. staked' = SumOf(delegations')
  <2>1. /\ delegations \in [Validators -> Int] /\ delegations' \in [Validators -> Int]
        /\ taken \in [Validators -> Int]
        BY <1>7, <1>9, <1>10
  <2>2. \A v \in Validators : delegations[v] = delegations'[v] + taken[v]  BY <1>10
  <2>3. SumOf(delegations) = SumOf(delegations') + SumOf(taken)
        BY ONLY <2>1, <2>2, CompoundingAssumption, SumAdd
  <2>4. SumOf(delegations') \in Nat  BY <1>10, CompoundingAssumption, SumNat
  <2> QED  BY <1>3, <1>5, <1>7, <1>9, <2>3, <2>4
<1>12. /\ accrued' \in [Validators -> Nat]
       /\ rewards_balance' \in [RewardsContracts -> Nat]
       /\ \A v \in Validators :
            accrued'[v] = IF v \in {w \in Validators : taken[w] > 0} THEN 0 ELSE accrued[v]
       /\ SumOf(accrued') + SumOf(rewards_balance')
            = SumOf(accrued) + SumOf(rewards_balance)
  <2>1. {v \in Validators : taken[v] > 0} \in SUBSET Validators  OBVIOUS
  <2> QED  BY <1>4, <1>7, <2>1, SettleEffect DEF Sound
<1>13. \A v \in Validators : delegations'[v] = 0 => accrued'[v] = 0
  <2> SUFFICES ASSUME NEW v \in Validators, delegations'[v] = 0 PROVE accrued'[v] = 0
      OBVIOUS
  <2>1. taken[v] \in Nat /\ delegations[v] = taken[v]  BY <1>9, <1>10
  <2>2. CASE taken[v] > 0  BY <1>12, <2>2
  <2>3. CASE taken[v] = 0  BY <1>7, <1>12, <2>1, <2>3
  <2> QED  BY <2>1, <2>2, <2>3
<1>14. Sound'
       BY <1>1, <1>2, <1>7, <1>10, <1>11, <1>12, <1>13 DEF Sound, StakeSplit
<1>15. \A v \in Validators : delegations'[v] > 0 => v \in whitelist'
  <2> SUFFICES ASSUME NEW v \in Validators, delegations'[v] > 0 PROVE v \in whitelist
      BY <1>1
  <2>1. delegations[v] > 0  BY <1>9, <1>10
  <2> QED  BY <2>1, SettledParts
<1>16. state'.total_bond_amount \in Nat  BY <1>2 DEF Books, TypeOK, StateType
<1>17. SumOf(accrued') \in Nat /\ SumOf(rewards_balance') \in Nat
       BY <1>12, CompoundingAssumption, SumNat
<1>18. SumOf(accrued') + SumOf(rewards_balance') > 0 =>
         state'.total_bond_amount + SumOf(accrued') + SumOf(rewards_balance')
           <= MaxStake + MaxRewards
       BY <1>6, <1>12, <1>16, <1>17, SettledParts
<1> QED  BY <1>1, <1>12, <1>14, <1>15, <1>18, SettledParts, SettledFrom

(* A validator is slashed.                                                 *)
LEMMA SlashSettled ==
  ASSUME Sound, Settled(Snapshot), NEW v \in Validators, NEW loss \in StakeSlashes,
         SlashValidator(v, loss), UNCHANGED withdraw_address
  PROVE  Sound' /\ Settled(Snapshot)'
<1>1. /\ loss < delegations[v] /\ SlashStake(loss)
      /\ delegations' = [delegations EXCEPT ![v] = delegations[v] - loss]
      /\ whitelist' = whitelist /\ accrued' = accrued
      /\ rewards_balance' = rewards_balance
      BY DEF SlashValidator
<1>2. Books'  BY <1>1, SlashStakeBooks DEF Sound
<1>3. /\ loss \in Nat /\ staked \in Nat /\ staked' = staked - loss
      /\ config' = config /\ state' = state
      /\ delegations \in [Validators -> Nat] /\ staked = SumOf(delegations)
      BY <1>1, HubAssumption
      DEF Sound, Books, TypeOK, SlashStake, configVars, ledgerVars, StakeSplit
<1>4. /\ delegations' \in [Validators -> Nat] /\ delegations'[v] = delegations[v] - loss
      /\ delegations'[v] > 0 /\ delegations[v] > 0
      /\ \A w \in Validators : w # v => delegations'[w] = delegations[w]
      BY <1>1, <1>3
<1>5. staked' = SumOf(delegations')
  <2>1. /\ delegations \in [Validators -> Int] /\ delegations' \in [Validators -> Int]
        /\ delegations[v] \in Nat
        BY <1>3, <1>4
  <2>2. \A w \in Validators : w # v => delegations'[w] = delegations[w]  BY <1>4
  <2>3. SumOf(delegations') = SumOf(delegations) - delegations[v] + delegations'[v]
        BY ONLY <2>1, <2>2, v \in Validators, CompoundingAssumption, SumUpdate
  <2> QED  BY <1>3, <1>4, <2>1, <2>3
<1>6. \A w \in Validators : delegations'[w] = 0 => accrued'[w] = 0
      BY <1>1, <1>4 DEF Sound
<1>7. Sound'  BY <1>1, <1>2, <1>3, <1>4, <1>5, <1>6 DEF Sound, StakeSplit
<1>8. \A w \in Validators : delegations'[w] > 0 => w \in whitelist'
      BY <1>1, <1>4, SettledParts
<1> QED  BY <1>1, <1>3, <1>7, <1>8, SettledParts, SettledFrom

(* A delegation earns rewards.                                             *)
LEMMA AccrueSettled ==
  ASSUME Sound, Settled(Snapshot), NEW v \in Validators, NEW amount \in Accruals,
         Accrue(v, amount), UNCHANGED withdraw_address
  PROVE  Sound' /\ Settled(Snapshot)'
<1>1. /\ delegations[v] > 0
      /\ accrued' = [accrued EXCEPT ![v] = accrued[v] + amount]
      /\ whitelist' = whitelist /\ delegations' = delegations
      /\ rewards_balance' = rewards_balance /\ UNCHANGED vars
      /\ SumOf(accrued) + SumOf(rewards_balance) + amount <= MaxRewards
      /\ state.total_bond_amount + SumOf(accrued) + SumOf(rewards_balance) + amount
           <= MaxStake
      BY DEF Accrue
<1>2. Books'
      BY <1>1 DEF Sound, Books, vars, configVars, ledgerVars, chainVars, TypeOK,
                  ConfigTypeOK, RateBacked, StakeRecorded, ActualSupply
<1>3. state' = state /\ config' = config /\ staked' = staked
      BY <1>1 DEF vars, configVars, ledgerVars, chainVars
<1>4. amount \in Nat /\ accrued \in [Validators -> Nat]
      BY CompoundingAssumption DEF Sound
<1>5. /\ accrued' \in [Validators -> Nat] /\ accrued'[v] = accrued[v] + amount
      /\ \A w \in Validators : w # v => accrued'[w] = accrued[w]
      BY <1>1, <1>4
<1>6. SumOf(accrued') = SumOf(accrued) + amount
  <2>1. /\ accrued \in [Validators -> Int] /\ accrued' \in [Validators -> Int]
        /\ accrued[v] \in Nat
        BY <1>4, <1>5
  <2>2. \A w \in Validators : w # v => accrued'[w] = accrued[w]  BY <1>5
  <2>3. SumOf(accrued') = SumOf(accrued) - accrued[v] + accrued'[v]
        BY ONLY <2>1, <2>2, v \in Validators, CompoundingAssumption, SumUpdate
  <2>4. SumOf(accrued) \in Nat  BY SettledParts
  <2> QED  BY <1>4, <1>5, <2>1, <2>3, <2>4
<1>7. \A w \in Validators : delegations'[w] = 0 => accrued'[w] = 0
      BY <1>1, <1>5 DEF Sound
<1>8. Sound'  BY <1>1, <1>2, <1>3, <1>5, <1>7 DEF Sound, StakeSplit
<1>9. /\ SumOf(accrued') + SumOf(rewards_balance') <= MaxRewards
      /\ state'.total_bond_amount + SumOf(accrued') + SumOf(rewards_balance')
           <= MaxStake + MaxRewards
      BY <1>1, <1>3, <1>4, <1>6, SettledParts
<1> QED  BY <1>1, <1>3, <1>8, <1>9, SettledParts, SettledFrom

(* Administrative messages do not change the rewards contract.             *)
LEMMA RewardsContractKept ==
  ASSUME ConfigTypeOK, ConfigNext
  PROVE  config'.rewards_contract = config.rewards_contract
<1>1. PICK sender \in Senders :
        \/ Pause(sender)
        \/ Unpause(sender)
        \/ \E account \in Accounts : UpdateAdmin(sender, account)
        \/ \E token \in Tokens \cup {None}, collector \in Collectors \cup {None} :
             UpdateConfig(sender, token, collector)
        \/ \E msg \in ParamMsgs : UpdateParams(sender, msg)
      BY DEF ConfigNext
<1>2. CASE \E token \in Tokens \cup {None}, collector \in Collectors \cup {None} :
             UpdateConfig(sender, token, collector)
      BY <1>2 DEF UpdateConfig, ConfigTypeOK, ConfigType
<1>3. CASE config' = config  BY <1>3
<1> QED  BY <1>1, <1>2, <1>3 DEF Pause, Unpause, UpdateAdmin, UpdateParams

(* Hub's steps that leave the validators alone.                            *)
LEMMA ElsewhereSettled ==
  ASSUME Sound, Settled(Snapshot), Elsewhere, UNCHANGED withdraw_address
  PROVE  Sound' /\ Settled(Snapshot)'
<1>1. Books /\ TypeOK /\ withdraw_address = config.rewards_contract
        /\ UNCHANGED stakeVars
        /\ state.total_bond_amount \in Nat
      BY DEF Sound, Books, Elsewhere, TypeOK, StateType
<1>2. CASE CheckSlashing
  <2>1. Books'  BY <1>1, <1>2, CheckSlashingBooks
  <2>2. state' = AfterSlashing /\ staked' = staked /\ config' = config
        BY <1>2 DEF CheckSlashing, configVars, chainVars
  <2> QED  BY <1>1, <2>1, <2>2, CorrectedBelow, StakeUnchanged
<1>3. CASE Administer
  <2>1. Books'
    <3>1. [Next]_vars  BY <1>3 DEF Next, Message
    <3> QED  BY <1>1, <3>1, NextBooks
  <2>2. state' = state /\ staked' = staked /\ ConfigNext /\ ConfigTypeOK
        BY <1>1, <1>3 DEF Administer, ledgerVars, chainVars, TypeOK
  <2>3. config'.rewards_contract = config.rewards_contract
        BY <2>2, RewardsContractKept
  <2> QED  BY <1>1, <2>1, <2>2, <2>3, StakeUnchanged
<1>4. CASE \/ \E interval \in BlockIntervals : EndBlock(interval)
           \/ \E amount \in Donations : Donate(amount)
  <2>1. Books'
    <3>1. [Next]_vars  BY <1>4 DEF Next, Chain
    <3> QED  BY <1>1, <3>1, NextBooks
  <2>2. state' = state /\ staked' = staked /\ config' = config
        BY <1>4 DEF EndBlock, Donate, configVars, ledgerVars
  <2> QED  BY <1>1, <2>1, <2>2, StakeUnchanged
<1> QED  BY <1>2, <1>3, <1>4 DEF Elsewhere

(* Messages of the rewards contract's admin, and submitted messages.       *)
LEMMA VarsUnchangedSound ==
  ASSUME Sound, UNCHANGED <<vars, stakeVars, withdraw_address>>
  PROVE  Sound'
<1>1. Books'
      BY DEF Sound, Books, vars, configVars, ledgerVars, chainVars, TypeOK,
             ConfigTypeOK, RateBacked, StakeRecorded, ActualSupply
<1> QED  BY <1>1 DEF Sound, stakeVars, vars, configVars, chainVars, StakeSplit

(* Migration.                                                              *)
LEMMA MigrateSettled ==
  ASSUME Sound, Settled(Snapshot), NEW rc \in RewardsContracts, MigrateTo(rc)
  PROVE  Sound' /\ Settled(Snapshot)'
<1>1. /\ config' = [token_contract_registered |-> FALSE,
                    token_contract |-> config.token_contract,
                    protocol_fee_collector |-> config.protocol_fee_collector,
                    rewards_contract |-> rc]
      /\ UNCHANGED <<admin, paused, params, ledgerVars, chainVars, stakeVars>>
      /\ withdraw_address' = rc
      BY DEF MigrateTo, Migrate, SetWithdrawAddress
<1>2. Books  BY DEF Sound
<1>3. TypeOK'
  <2>1. ConfigTypeOK'
    <3>1. config \in ConfigType  BY <1>2 DEF Books, TypeOK, ConfigTypeOK
    <3>2. config' \in ConfigType  BY <1>1, <3>1 DEF ConfigType
    <3> QED  BY <1>1, <1>2, <3>2 DEF Books, TypeOK, ConfigTypeOK
  <2> QED  BY <1>1, <1>2, <2>1 DEF Books, TypeOK, ledgerVars, chainVars
<1>4. Books'  BY <1>1, <1>2, <1>3, BooksUnchanged DEF ledgerVars, chainVars
<1>5. state' = state /\ staked' = staked /\ state.total_bond_amount \in Nat
      BY <1>1, <1>2 DEF ledgerVars, chainVars, Books, TypeOK, StateType
<1>6. withdraw_address' = config'.rewards_contract  BY <1>1
<1> QED  BY <1>1, <1>4, <1>5, <1>6, StakeUnchanged

(* instantiate.                                                            *)
LEMMA InitInvariant == CompoundingInit => Invariant
<1> SUFFICES ASSUME CompoundingInit PROVE Invariant  OBVIOUS
<1>1. /\ Init /\ whitelist = {FirstValidator}
      /\ delegations = [v \in Validators |-> IF v = FirstValidator THEN InitialBond ELSE 0]
      /\ accrued = [v \in Validators |-> 0]
      /\ withdraw_address = config.rewards_contract
      /\ rewards_balance = [rc \in RewardsContracts |-> 0]
      /\ calls = <<>> /\ staked = InitialBond
      BY DEF CompoundingInit, RewardsInit, Init
<1>2. Books  BY <1>1, InitBooks
<1>3. /\ FirstValidator \in Validators /\ IsFiniteSet(Validators)
      /\ IsFiniteSet(RewardsContracts) /\ MaxRewards \in Nat /\ InitialBond \in Nat
      BY CompoundingAssumption, HubAssumption
<1>4. /\ delegations \in [Validators -> Nat] /\ accrued \in [Validators -> Nat]
      /\ rewards_balance \in [RewardsContracts -> Nat]
      /\ whitelist \in SUBSET Validators
      BY <1>1, <1>3
<1>5. SumOf(delegations) = delegations[FirstValidator]
  <2>1. /\ delegations \in [Validators -> Int]
        /\ \A v \in Validators : v # FirstValidator => delegations[v] = 0
        BY <1>1, <1>4
  <2> QED  BY ONLY <1>3, <2>1, SumSingle
<1>6. SumOf(accrued) = 0 /\ SumOf(rewards_balance) = 0
  <2>1. /\ \A v \in Validators : accrued[v] = 0
        /\ \A rc \in RewardsContracts : rewards_balance[rc] = 0
        BY <1>1
  <2> QED  BY ONLY <1>3, <1>4, <2>1, SumZero
<1>7. Sound
      BY <1>1, <1>2, <1>3, <1>4, <1>5 DEF Sound, StakeSplit
<1>8. Snapshot \in SnapshotType
      BY <1>2, <1>4 DEF Snapshot, SnapshotType, Books, TypeOK
<1>9. /\ Snapshot.whitelist = whitelist /\ Snapshot.delegations = delegations
      /\ Snapshot.accrued = accrued /\ Snapshot.rewards_balance = rewards_balance
      /\ Snapshot.staked = staked
      BY DEF Snapshot
<1>10. Rewards(Snapshot) = 0  BY <1>6, <1>9 DEF Rewards
<1>11. \A v \in Validators : delegations[v] > 0 => v \in whitelist
       BY <1>1
<1>12. Settled(Snapshot)
       BY <1>1, <1>3, <1>7, <1>8, <1>9, <1>10, <1>11 DEF Settled, Sound, StakeSplit
<1> QED  BY <1>1, <1>7, <1>12 DEF Invariant, Idle

-----------------------------------------------------------------------------
(* Within a transaction                                                    *)

(* What each message checks, and what runs when it is accepted.            *)
LEMMA UpdateGlobalIndexCall ==
  /\ Accepts(UpdateGlobalIndexMsg) <=> NotPaused
  /\ Call(UpdateGlobalIndexMsg) => UpdateGlobal
BY DEF Accepts, Call, UpdateGlobalIndexMsg

(* DeregisterValidator.                                                    *)
LEMMA DeregisterCall ==
  ASSUME NEW sender, NEW v
  PROVE  LET m == DeregisterMsg(sender, v) IN
         /\ Accepts(m) <=> /\ NotPaused /\ sender = admin
                           /\ Cardinality(whitelist) # 1 /\ whitelist \ {v} # {}
         /\ Call(m) => Deregister(m)
         /\ m.sender = sender /\ m.validator = v /\ m.type = "DeregisterValidator"
BY DEF Accepts, Call, DeregisterMsg

(* ProcessRewards.                                                         *)
LEMMA ProcessRewardsCall ==
  ASSUME NEW sender, NEW rc
  PROVE  LET m == ProcessRewardsMsg(sender, rc) IN
         /\ Accepts(m) <=> RewardsNotPaused(rc) /\ sender = HubAddress
         /\ Call(m) => ProcessRewards(m)
         /\ m.contract = rc /\ m.type = "ProcessRewards"
BY DEF Accepts, Call, ProcessRewardsMsg

(* UpdateExchangeRate.                                                     *)
LEMMA UpdateExchangeRateCall ==
  ASSUME NEW sender, NEW funds
  PROVE  LET m == UpdateExchangeRateMsg(sender, funds) IN
         /\ Accepts(m) <=>
              /\ NotPaused
              /\ sender = config.rewards_contract
              /\ funds > 0
              /\ ProtocolFee(funds) <= funds
              /\ config.token_contract # None
              /\ ActualSupply > 0
              /\ Delegated # {}
              /\ ProtocolFee(funds) > 0 => config.protocol_fee_collector # None
         /\ Call(m) => UpdateExchangeRate(m)
         /\ m.sender = sender /\ m.funds = funds /\ m.type = "UpdateExchangeRate"
BY DEF Accepts, Call, UpdateExchangeRateMsg

(* The messages to the chain.                                              *)
LEMMA ChainCall ==
  ASSUME NEW vs, NEW src, NEW dst, NEW v, NEW amount
  PROVE  /\ Accepts(WithdrawMsg(vs))
         /\ Call(WithdrawMsg(vs)) => WithdrawRewards(WithdrawMsg(vs))
         /\ WithdrawMsg(vs).validators = vs
         /\ Accepts(RedelegateMsg(src, dst, amount))
              <=> src # dst /\ amount <= delegations[src]
         /\ Call(RedelegateMsg(src, dst, amount))
              => Redelegate(RedelegateMsg(src, dst, amount))
         /\ Accepts(SendMsg(amount)) <=> amount <= hub_balance
         /\ Call(SendMsg(amount)) => SendFee(SendMsg(amount))
         /\ Accepts(DelegateMsg(v, amount)) <=> amount <= hub_balance
         /\ Call(DelegateMsg(v, amount)) => Delegate(DelegateMsg(v, amount))
<1>1. /\ Accepts(WithdrawMsg(vs))
      /\ Call(WithdrawMsg(vs)) => WithdrawRewards(WithdrawMsg(vs))
      /\ WithdrawMsg(vs).validators = vs
      BY DEF Accepts, Call, WithdrawMsg
<1>2. /\ Accepts(RedelegateMsg(src, dst, amount))
              <=> src # dst /\ amount <= delegations[src]
      /\ Call(RedelegateMsg(src, dst, amount))
              => Redelegate(RedelegateMsg(src, dst, amount))
      BY DEF Accepts, Call, RedelegateMsg
<1>3. /\ Accepts(SendMsg(amount)) <=> amount <= hub_balance
      /\ Call(SendMsg(amount)) => SendFee(SendMsg(amount))
      BY DEF Accepts, Call, SendMsg
<1>4. /\ Accepts(DelegateMsg(v, amount)) <=> amount <= hub_balance
      /\ Call(DelegateMsg(v, amount)) => Delegate(DelegateMsg(v, amount))
      BY DEF Accepts, Call, DelegateMsg
<1> QED  BY <1>1, <1>2, <1>3, <1>4

(* What a call may lead to: the transaction goes on, it leaves no trace    *)
(* because the message could not succeed, it removes a validator without   *)
(* stake, or it has compounded.                                            *)
Undone(m, s) == Idle' /\ Snapshot' = s /\ ~Succeeds(m, s)

Dropped(m, s) ==
  /\ Idle' /\ Succeeds(m, s)
  /\ m.type = "DeregisterValidator" /\ s.delegations[m.validator] = 0
  /\ Snapshot' = [s EXCEPT !.whitelist = @ \ {m.validator}]

Compounded(m, s) ==
  LET funds == Compoundable(s)
      user_rewards == funds - ProtocolFee(funds)
  IN
  /\ Idle' /\ Succeeds(m, s) /\ CompoundingPossible(s) /\ s.staked > 0
  /\ m.type = "DeregisterValidator" => s.delegations[m.validator] > 0
  /\ Placed(m, [s EXCEPT !.staked = @ + user_rewards])'
  /\ NothingAccrued'
  /\ rewards_balance'[config.rewards_contract] = 0
  /\ Rewards(Snapshot)' = Rewards(s) - funds
  /\ state' = [s.state EXCEPT
       !.exchange_rate = @ + FromRatio(user_rewards, ActualSupply),
       !.total_bond_amount = @ + user_rewards]
  /\ hub_balance' = s.hub_balance

Outcome(m, s) ==
  /\ Sound'
  /\ \/ ~Idle' /\ saved' = saved /\ Progress(m, s)'
     \/ Undone(m, s) \/ Dropped(m, s) \/ Compounded(m, s)

(* What is left alone by every call.                                       *)
LEMMA ExecuteKeeps ==
  ASSUME Execute
  PROVE  UNCHANGED <<configVars, current_batch, wait_list, history, supply,
                     unbonding, now, rewardsVars, withdraw_address>>
<1>1. PICK m : Call(m) \/ Revert(m)  BY DEF Execute
<1>2. UNCHANGED <<configVars, current_batch, wait_list, history, supply,
                  unbonding, now>>
      BY <1>1 DEF Call, Revert, UpdateGlobal, Deregister, WithdrawRewards,
                  ProcessRewards, UpdateExchangeRate, Redelegate, SendFee, Delegate,
                  vars, ledgerVars, chainVars
<1> QED  BY <1>2 DEF Execute

(* The fields of a snapshot.                                               *)
LEMMA SnapshotFields ==
  /\ Snapshot.state = state /\ Snapshot.staked = staked
  /\ Snapshot.hub_balance = hub_balance /\ Snapshot.whitelist = whitelist
  /\ Snapshot.delegations = delegations /\ Snapshot.accrued = accrued
  /\ Snapshot.rewards_balance = rewards_balance
BY DEF Snapshot

(* All rewards earned are with validators that have stake, so they are     *)
(* what UpdateGlobalIndex withdraws.                                       *)
LEMMA CompoundableSum ==
  ASSUME NEW s, Settled(s), config.rewards_contract \in RewardsContracts
  PROVE  /\ Compoundable(s)
              = SumOf(s.accrued) + s.rewards_balance[config.rewards_contract]
         /\ Compoundable(s) \in Nat
         /\ Compoundable(s) <= Rewards(s)
         /\ Rewards(s) \in Nat
<1> DEFINE D == {w \in Validators : s.delegations[w] > 0}
           part == [v \in D |-> s.accrued[v]]
           padded == [v \in Validators |-> IF v \in D THEN s.accrued[v] ELSE 0]
           rc == config.rewards_contract
<1>1. /\ s.accrued \in [Validators -> Nat] /\ s.delegations \in [Validators -> Nat]
      /\ s.rewards_balance \in [RewardsContracts -> Nat]
      /\ \A v \in Validators : s.delegations[v] = 0 => s.accrued[v] = 0
      BY DEF Settled, SnapshotType
<1>2. padded = s.accrued
  <2>1. \A v \in Validators : v \notin D => s.accrued[v] = 0  BY <1>1
  <2>2. \A v \in Validators : padded[v] = s.accrued[v]  BY <2>1
  <2> QED  BY <1>1, <2>2
<1>3. SumOf(part) = SumOf(padded)
  <2>1. D \in SUBSET Validators /\ s.accrued \in [Validators -> Int]  BY <1>1
  <2> HIDE DEF D
  <2> QED  BY <2>1, CompoundingAssumption, SumPart
<1>4. Compoundable(s) = SumOf(part) + s.rewards_balance[rc]  BY DEF Compoundable
<1>5. /\ SumOf(s.accrued) \in Nat /\ SumOf(s.rewards_balance) \in Nat
      /\ s.rewards_balance[rc] <= SumOf(s.rewards_balance)
      /\ s.rewards_balance[rc] \in Nat
      BY <1>1, CompoundingAssumption, SumNat, SumZero
<1> HIDE DEF part, padded
<1>6. Compoundable(s) = SumOf(s.accrued) + s.rewards_balance[rc]
      BY <1>2, <1>3, <1>4
<1> QED  BY <1>5, <1>6 DEF Rewards

(* A failing call restores the state the transaction started from.         *)
LEMMA RevertRestores ==
  ASSUME NEW m, NEW s, NEW x, Sound, Settled(s), saved = [msg |-> m, start |-> s],
         Revert(x), UNCHANGED withdraw_address, state = s.state, staked = s.staked
  PROVE  Sound' /\ Idle' /\ Snapshot' = s
<1>1. s \in SnapshotType /\ saved.start = s  BY DEF Settled
<1>2. /\ calls' = <<>>
      /\ state' = s.state /\ staked' = s.staked /\ hub_balance' = s.hub_balance
      /\ whitelist' = s.whitelist /\ delegations' = s.delegations
      /\ accrued' = s.accrued /\ rewards_balance' = s.rewards_balance
      /\ UNCHANGED <<configVars, current_batch, wait_list, history, supply,
                     unbonding, now>>
      BY <1>1 DEF Revert
<1>3. Snapshot' = s  BY <1>1, <1>2 DEF Snapshot, SnapshotType
<1>4. TypeOK'
      BY <1>1, <1>2 DEF Sound, Books, TypeOK, configVars, ConfigTypeOK, SnapshotType
<1>5. Books'  BY <1>2, <1>4, BooksUnchanged DEF Sound
<1>6. Sound'
      BY <1>1, <1>2, <1>5 DEF Sound, StakeSplit, Settled, SnapshotType, configVars
<1> QED  BY <1>2, <1>3, <1>6 DEF Idle

(* The first call of UpdateGlobalIndex.                                    *)
LEMMA GlobalIndexStarts ==
  ASSUME NEW m, NEW s, Sound, Settled(s), saved = [msg |-> m, start |-> s],
         Execute, Starting(m, s), m = UpdateGlobalIndexMsg
  PROVE  Outcome(m, s)
<1> DEFINE rc == config.rewards_contract
<1>1. /\ calls = <<m>> /\ Snapshot = s /\ Head(calls) = m
      /\ UNCHANGED <<withdraw_address, configVars, rewardsVars>>
      BY Sequences, ExecuteKeeps DEF Starting
<1>2. /\ state = s.state /\ staked = s.staked /\ hub_balance = s.hub_balance
      /\ whitelist = s.whitelist /\ delegations = s.delegations
      /\ accrued = s.accrued /\ rewards_balance = s.rewards_balance
      BY <1>1, SnapshotFields
<1>3. CASE Call(m)
  <2>1. UpdateGlobal /\ Accepts(m)  BY <1>3, UpdateGlobalIndexCall DEF Call
  <2>2. NotPaused  BY <2>1, UpdateGlobalIndexCall
  <2>3. /\ calls' = <<WithdrawMsg(Delegated), ProcessRewardsMsg(HubAddress, rc)>>
        /\ saved' = saved /\ UNCHANGED <<vars, stakeVars>>
    <3>1. /\ calls' = <<WithdrawMsg(Delegated), ProcessRewardsMsg(HubAddress, rc)>>
                        \o Tail(calls)
          /\ saved' = IF calls' = <<>> THEN None ELSE saved
          /\ UNCHANGED <<vars, stakeVars>>
          BY <2>1 DEF UpdateGlobal, Emit, RewardedValidators
    <3> QED  BY <1>1, <3>1, Sequences
  <2>4. Sound'  BY <1>1, <2>3, VarsUnchangedSound
  <2>5. /\ whitelist' = whitelist /\ delegations' = delegations /\ accrued' = accrued
        /\ rewards_balance' = rewards_balance /\ state' = state /\ staked' = staked
        /\ hub_balance' = hub_balance /\ config' = config /\ paused' = paused
        BY <2>3 DEF vars, stakeVars, configVars, ledgerVars, chainVars
  <2>6. Snapshot' = Snapshot /\ Delegated' = Delegated
        BY <2>5 DEF Snapshot, Delegated
  <2>7. Delegated \subseteq whitelist  BY <1>2 DEF Delegated, Settled
  <2>8. Placed(m, s)'
        BY <1>2, <2>2, <2>5, <2>6, <2>7 DEF Placed, NotPaused
  <2>9. rc \in RewardsContracts
        BY DEF Sound, Books, TypeOK, ConfigTypeOK, ConfigType
  <2>10. Collected(s)'
    <3>1. Compoundable(s)' = Compoundable(s)  BY <2>5 DEF Compoundable
    <3>2. Compoundable(s) = SumOf(s.accrued) + s.rewards_balance[rc]
          BY <2>9, CompoundableSum
    <3> QED  BY <1>1, <1>2, <2>5, <2>6, <3>1, <3>2 DEF Collected
  <2>11. Collecting(m, s)'
         BY <1>2, <2>3, <2>5, <2>6, <2>8, <2>10 DEF Collecting
  <2>12. ~Idle'  BY <2>3, Sequences DEF Idle
  <2> QED  BY <2>3, <2>4, <2>11, <2>12 DEF Outcome, Progress
<1>4. CASE Revert(m)
  <2>1. ~NotPaused  BY <1>4, UpdateGlobalIndexCall DEF Revert
  <2>2. ~Succeeds(m, s)
        BY <2>1 DEF Succeeds, CompoundingPossible, UpdateGlobalIndexMsg
  <2>3. Sound' /\ Idle' /\ Snapshot' = s  BY <1>1, <1>2, <1>4, RevertRestores
  <2> QED  BY <2>2, <2>3 DEF Outcome, Undone
<1> QED  BY <1>1, <1>3, <1>4 DEF Execute

(* The first call of DeregisterValidator.                                  *)
LEMMA DeregisterStarts ==
  ASSUME NEW m, NEW s, Sound, Settled(s), saved = [msg |-> m, start |-> s],
         Execute, Starting(m, s),
         NEW sender \in StakeSenders, NEW v \in Validators,
         m = DeregisterMsg(sender, v)
  PROVE  Outcome(m, s)
<1>1. /\ calls = <<m>> /\ Snapshot = s /\ Head(calls) = m /\ Tail(calls) = <<>>
      /\ UNCHANGED <<withdraw_address, configVars, rewardsVars>>
      BY Sequences, ExecuteKeeps DEF Starting
<1>2. /\ state = s.state /\ staked = s.staked /\ hub_balance = s.hub_balance
      /\ whitelist = s.whitelist /\ delegations = s.delegations
      /\ accrued = s.accrued /\ rewards_balance = s.rewards_balance
      BY <1>1, SnapshotFields
<1>3. m.sender = sender /\ m.validator = v /\ m.type = "DeregisterValidator"
      BY DeregisterCall
<1>4. /\ IsFiniteSet(whitelist) /\ Cardinality(whitelist) \in Nat
      /\ Cardinality(whitelist) # 0
  <2>1. whitelist \subseteq Validators /\ whitelist # {}
        BY <1>2 DEF Sound, Settled
  <2> QED  BY <2>1, CompoundingAssumption, FS_Subset, FS_CardinalityType, FS_EmptySet
<1>5. CASE Call(m)
  <2>1. Deregister(m) /\ Accepts(m)  BY <1>5, DeregisterCall DEF Call
  <2>2. /\ NotPaused /\ sender = admin
        /\ Cardinality(whitelist) # 1 /\ whitelist \ {v} # {}
        BY <2>1, DeregisterCall
  <2>3. Cardinality(s.whitelist) > 1  BY <1>2, <1>4, <2>2
  <2>4. PICK replaced_val \in whitelist \ {v} :
          Emit(IF v \in Delegated THEN DeregisterMessages(v, replaced_val) ELSE <<>>)
        BY <1>3, <2>1 DEF Deregister, Replacements
  <2>5. /\ whitelist' = whitelist \ {v} /\ delegations' = delegations
        /\ accrued' = accrued /\ rewards_balance' = rewards_balance /\ UNCHANGED vars
        BY <1>3, <2>1 DEF Deregister
  <2>6. /\ state' = state /\ staked' = staked /\ hub_balance' = hub_balance
        /\ config' = config /\ paused' = paused /\ admin' = admin
        BY <2>5 DEF vars, configVars, ledgerVars, chainVars
  <2>7. Books'
        BY <2>5 DEF Sound, Books, vars, configVars, ledgerVars, chainVars, TypeOK,
                    ConfigTypeOK, RateBacked, StakeRecorded, ActualSupply
  <2>8. Sound'  BY <1>1, <2>5, <2>6, <2>7 DEF Sound, StakeSplit
  <2>9. Snapshot' = [s EXCEPT !.whitelist = s.whitelist \ {v}]
    <3>1. s \in SnapshotType  BY DEF Settled
    <3> QED  BY <1>2, <2>5, <2>6, <3>1, SMTT(30) DEF Snapshot, SnapshotType
  <2>10. CASE v \in Delegated
    <3>1. /\ calls' = DeregisterMessages(v, replaced_val) \o Tail(calls)
          /\ saved' = IF calls' = <<>> THEN None ELSE saved
          BY <2>4, <2>10 DEF Emit
    <3>2. calls' = DeregisterMessages(v, replaced_val)
          BY <1>1, <3>1, Sequences DEF DeregisterMessages
    <3>3. calls' # <<>> /\ saved' = saved
          BY <3>1, <3>2, Sequences DEF DeregisterMessages
    <3>4. DeregisterMessages(v, replaced_val)' = DeregisterMessages(v, replaced_val)
          BY <2>5 DEF DeregisterMessages
    <3>5. s.delegations[v] > 0  BY <1>2, <2>10 DEF Delegated
    <3>6. Removing(m, s)'
          BY <1>2, <2>2, <2>3, <2>5, <2>6, <3>5 DEF Removing, NotPaused
    <3>7. Snapshot' = [s EXCEPT !.whitelist = whitelist']
          BY <1>2, <2>5, <2>9
    <3>8. Moving(m, s)'
          BY <1>3, <2>5, <3>2, <3>4, <3>6, <3>7 DEF Moving
    <3> QED  BY <2>8, <3>3, <3>8 DEF Outcome, Progress, Idle
  <2>11. CASE v \notin Delegated
    <3>1. calls' = <<>>  BY <1>1, <2>4, <2>11, Sequences DEF Emit
    <3>2. s.delegations[v] = 0
          BY <1>2, <2>11 DEF Delegated, Sound
    <3>3. Succeeds(m, s)
          BY <1>3, <2>2, <2>3, <3>2 DEF Succeeds
    <3> QED  BY <1>3, <2>8, <2>9, <3>1, <3>2, <3>3 DEF Outcome, Dropped, Idle
  <2> QED  BY <2>10, <2>11
<1>6. CASE Revert(m)
  <2>1. ~ /\ NotPaused /\ sender = admin
          /\ Cardinality(whitelist) # 1 /\ whitelist \ {v} # {}
        BY <1>6, DeregisterCall DEF Revert
  <2>2. Cardinality(whitelist) > 1 => whitelist \ {v} # {}
    <3> SUFFICES ASSUME Cardinality(whitelist) > 1, whitelist \ {v} = {} PROVE FALSE
        OBVIOUS
    <3>1. IsFiniteSet({v}) /\ Cardinality({v}) = 1  BY FS_Singleton
    <3>2. Cardinality(whitelist) <= Cardinality({v})  BY <3>1, FS_Subset
    <3> QED  BY <1>4, <3>1, <3>2
  <2>3. ~Succeeds(m, s)
    <3> SUFFICES ASSUME Succeeds(m, s) PROVE FALSE  OBVIOUS
    <3>1. NotPaused /\ sender = admin /\ Cardinality(whitelist) > 1
          BY <1>2, <1>3 DEF Succeeds
    <3> QED  BY <1>4, <2>1, <2>2, <3>1
  <2>4. Sound' /\ Idle' /\ Snapshot' = s  BY <1>1, <1>2, <1>6, RevertRestores
  <2> QED  BY <2>3, <2>4 DEF Outcome, Undone
<1> QED  BY <1>1, <1>5, <1>6 DEF Execute

(* A contract's internal message sent by somebody else.                    *)
LEMMA StrangerStarts ==
  ASSUME NEW m, NEW s, Sound, Settled(s), saved = [msg |-> m, start |-> s],
         Execute, Starting(m, s), NEW sender \in Strangers,
         \/ \E rc \in RewardsContracts : m = ProcessRewardsMsg(sender, rc)
         \/ \E funds \in Accruals : m = UpdateExchangeRateMsg(sender, funds)
  PROVE  Outcome(m, s)
<1>1. /\ calls = <<m>> /\ Snapshot = s /\ Head(calls) = m
      /\ UNCHANGED withdraw_address
      BY Sequences, ExecuteKeeps DEF Starting
<1>2. state = s.state /\ staked = s.staked  BY <1>1, SnapshotFields
<1>3. config.rewards_contract \in RewardsContracts
      BY DEF Sound, Books, TypeOK, ConfigTypeOK, ConfigType
<1>4. sender # HubAddress /\ sender # config.rewards_contract
      BY <1>3, CompoundingAssumption
<1>5. ~Accepts(m)  BY <1>4, ProcessRewardsCall, UpdateExchangeRateCall
<1>6. Revert(m)  BY <1>1, <1>5 DEF Execute, Call
<1>7. ~Succeeds(m, s)
      BY DEF Succeeds, ProcessRewardsMsg, UpdateExchangeRateMsg
<1>8. Sound' /\ Idle' /\ Snapshot' = s  BY <1>1, <1>2, <1>6, RevertRestores
<1> QED  BY <1>7, <1>8 DEF Outcome, Undone

(* The first call of a transaction.                                        *)
LEMMA StartingStep ==
  ASSUME NEW m, NEW s, Sound, Settled(s), saved = [msg |-> m, start |-> s],
         Execute, Starting(m, s)
  PROVE  Outcome(m, s)
<1>1. Startable(m)  BY DEF Starting
<1> QED  BY <1>1, GlobalIndexStarts, DeregisterStarts, StrangerStarts DEF Startable

(* The stake of the validator that is deregistered moves to another.       *)
LEMMA MovingStep ==
  ASSUME NEW m, NEW s, Sound, Settled(s), saved = [msg |-> m, start |-> s],
         Execute, Moving(m, s)
  PROVE  Outcome(m, s)
<1> DEFINE rc == config.rewards_contract
<1>1. PICK sender \in StakeSenders, v \in Validators :
        /\ m = DeregisterMsg(sender, v) /\ sender = admin
        /\ Cardinality(s.whitelist) > 1 /\ s.delegations[v] > 0
        /\ whitelist = s.whitelist \ {v}
      BY DEF Moving, Removing
<1>2. m.validator = v  BY <1>1, DeregisterCall
<1>3. PICK dst \in whitelist : calls = DeregisterMessages(v, dst)
      BY <1>2 DEF Moving
<1> DEFINE amount == delegations[v]
           x == RedelegateMsg(v, dst, amount)
<1>4. /\ Head(calls) = x /\ Tail(calls) = <<UpdateGlobalIndexMsg>>
      BY <1>3, Sequences DEF DeregisterMessages
<1>5. UNCHANGED <<withdraw_address, configVars, rewardsVars>>  BY ExecuteKeeps
<1>6. /\ state = s.state /\ staked = s.staked /\ hub_balance = s.hub_balance
      /\ delegations = s.delegations /\ accrued = s.accrued
      /\ rewards_balance = s.rewards_balance
  <2>1. s \in SnapshotType /\ Snapshot = [s EXCEPT !.whitelist = whitelist]
        BY DEF Settled, Moving
  <2>2. /\ Snapshot.state = s.state /\ Snapshot.staked = s.staked
        /\ Snapshot.hub_balance = s.hub_balance
        /\ Snapshot.delegations = s.delegations /\ Snapshot.accrued = s.accrued
        /\ Snapshot.rewards_balance = s.rewards_balance
        BY <2>1 DEF SnapshotType
  <2> QED  BY <2>2, SnapshotFields
<1>7. /\ delegations \in [Validators -> Nat] /\ amount \in Nat /\ v # dst
      /\ dst \in Validators /\ accrued \in [Validators -> Nat]
      /\ rewards_balance \in [RewardsContracts -> Nat]
      /\ withdraw_address = rc /\ rc \in RewardsContracts
      /\ staked = SumOf(delegations)
      BY <1>1, <1>3
      DEF Sound, StakeSplit, Books, TypeOK, ConfigTypeOK, ConfigType
<1>8. Redelegate(x)
  <2>1. amount <= delegations[v]  BY <1>7
  <2>2. Accepts(x)  BY <1>7, <2>1, ChainCall
  <2>3. Call(x)  BY <1>4, <2>2 DEF Execute, Revert
  <2> QED  BY <2>3, ChainCall
<1>9. /\ delegations' = [delegations EXCEPT ![v] = delegations[v] - amount,
                                            ![dst] = @ + amount]
      /\ Settle({v, dst}) /\ whitelist' = whitelist /\ UNCHANGED vars
      /\ calls' = <<>> \o Tail(calls)
      /\ saved' = IF calls' = <<>> THEN None ELSE saved
      BY <1>8 DEF Redelegate, RedelegateMsg, Emit
<1>10. calls' = <<UpdateGlobalIndexMsg>> /\ saved' = saved /\ calls' # <<>>
       BY <1>4, <1>9, Sequences
<1>11. /\ delegations' \in [Validators -> Nat]
       /\ delegations'[v] = 0 /\ delegations'[dst] = delegations[dst] + amount
       /\ \A w \in Validators \ {v, dst} : delegations'[w] = delegations[w]
  <2> DEFINE between == [delegations EXCEPT ![v] = delegations[v] - amount]
  <2>1. /\ between \in [Validators -> Nat] /\ between[v] = 0
        /\ \A w \in Validators : w # v => between[w] = delegations[w]
        BY <1>7
  <2>2. delegations' = [between EXCEPT ![dst] = delegations[dst] + amount]
    <3>1. delegations' = [delegations EXCEPT ![v] = delegations[v] - amount,
                                             ![dst] = delegations[dst] + amount]
          BY <1>7, <1>8 DEF Redelegate, RedelegateMsg
    <3> QED  BY <3>1
  <2> HIDE DEF between, amount
  <2> QED  BY <1>7, <2>1, <2>2
<1>12. SumOf(delegations') = SumOf(delegations)
  <2> DEFINE between == [delegations EXCEPT ![v] = 0]
  <2>1. /\ between \in [Validators -> Nat] /\ between[v] = 0
        /\ \A w \in Validators : w # v => between[w] = delegations[w]
        BY <1>7
  <2> HIDE DEF between
  <2>2. /\ delegations \in [Validators -> Int] /\ between \in [Validators -> Int]
        /\ delegations' \in [Validators -> Int]
        BY <1>7, <1>11, <2>1
  <2>3. \A w \in Validators : w # dst => delegations'[w] = between[w]
        BY <1>11, <2>1
  <2>4. \A w \in Validators : w # v => between[w] = delegations[w]  BY <2>1
  <2>5. SumOf(between) = SumOf(delegations) - delegations[v] + between[v]
        BY ONLY <2>2, <2>4, v \in Validators, CompoundingAssumption, SumUpdate
  <2>6. SumOf(delegations') = SumOf(between) - between[dst] + delegations'[dst]
        BY ONLY <1>7, <2>2, <2>3, CompoundingAssumption, SumUpdate
  <2>7. SumOf(delegations) \in Int /\ delegations[dst] \in Nat
        BY <1>7, <2>2, CompoundingAssumption, SumInt
  <2>8. between[dst] = delegations[dst]  BY <1>7, <2>1
  <2> QED  BY <1>7, <1>11, <2>1, <2>5, <2>6, <2>7, <2>8
<1>13. /\ accrued' \in [Validators -> Nat]
       /\ rewards_balance' \in [RewardsContracts -> Nat]
       /\ \A w \in Validators :
            accrued'[w] = IF w \in {v, dst} THEN 0 ELSE accrued[w]
       /\ SumOf(accrued') + rewards_balance'[rc] = SumOf(accrued) + rewards_balance[rc]
       /\ SumOf(accrued') + SumOf(rewards_balance')
            = SumOf(accrued) + SumOf(rewards_balance)
  <2>1. {v, dst} \in SUBSET Validators  BY <1>7
  <2> QED  BY <1>7, <1>9, <2>1, SettleEffect
<1>14. Books'
       BY <1>9 DEF Sound, Books, vars, configVars, ledgerVars, chainVars, TypeOK,
                   ConfigTypeOK, RateBacked, StakeRecorded, ActualSupply
<1>15. /\ state' = state /\ staked' = staked /\ hub_balance' = hub_balance
       /\ config' = config /\ paused' = paused /\ admin' = admin
       BY <1>9 DEF vars, configVars, ledgerVars, chainVars
<1>16. \A w \in Validators : delegations'[w] = 0 => accrued'[w] = 0
       BY <1>11, <1>13 DEF Sound
<1>17. Sound'
       BY <1>5, <1>7, <1>9, <1>11, <1>12, <1>13, <1>14, <1>15, <1>16
       DEF Sound, StakeSplit
<1>18. Delegated' \subseteq whitelist'
  <2> SUFFICES ASSUME NEW w \in Validators, delegations'[w] > 0 PROVE w \in whitelist
      BY <1>9 DEF Delegated
  <2>1. CASE w \in {v, dst}  BY <1>3, <1>11, <2>1
  <2>2. CASE w \notin {v, dst}
    <3>1. s.delegations[w] > 0  BY <1>6, <1>11, <2>2
    <3> QED  BY <1>1, <2>2, <3>1 DEF Settled
  <2> QED  BY <2>1, <2>2
<1>19. Removing(m, s)'
       BY <1>1, <1>3, <1>9, <1>15 DEF Moving, Removing, NotPaused
<1>20. Placed(m, s)'
       BY <1>6, <1>15, <1>18, <1>19 DEF Placed, Removing
<1>21. Collected(s)'
  <2>1. Compoundable(s)' = Compoundable(s)  BY <1>15 DEF Compoundable
  <2>2. Compoundable(s) = SumOf(s.accrued) + s.rewards_balance[rc]
        BY <1>7, CompoundableSum
  <2>3. Snapshot'.accrued = accrued' /\ Snapshot'.rewards_balance = rewards_balance'
        BY DEF Snapshot
  <2>4. Rewards(Snapshot') = Rewards(s)  BY <1>6, <1>13, <2>3 DEF Rewards
  <2> QED  BY <1>6, <1>13, <1>15, <2>1, <2>2, <2>4 DEF Collected
<1>22. Collecting(m, s)'
       BY <1>6, <1>10, <1>15, <1>19, <1>20, <1>21 DEF Collecting
<1> QED  BY <1>10, <1>17, <1>22 DEF Outcome, Progress, Idle

(* A call that changes no state but the messages left.                     *)
LEMMA CollectedKept ==
  ASSUME NEW m, NEW s, Placed(m, s), Collected(s), UNCHANGED <<vars, stakeVars>>
  PROVE  /\ Placed(m, s)' /\ Collected(s)' /\ (Removing(m, s) => Removing(m, s)')
         /\ Delegated' = Delegated /\ config' = config
         /\ state' = state /\ hub_balance' = hub_balance
         /\ rewards_balance' = rewards_balance
         /\ (NothingAccrued => NothingAccrued')
<1>1. /\ whitelist' = whitelist /\ delegations' = delegations /\ accrued' = accrued
      /\ rewards_balance' = rewards_balance /\ state' = state /\ staked' = staked
      /\ hub_balance' = hub_balance /\ config' = config /\ paused' = paused
      /\ admin' = admin
      BY DEF vars, stakeVars, configVars, ledgerVars, chainVars
<1>2. Removing(m, s) => Removing(m, s)'  BY <1>1 DEF Removing, NotPaused
<1>3. Delegated' = Delegated  BY <1>1 DEF Delegated
<1>4. Placed(m, s)'  BY <1>1, <1>2, <1>3 DEF Placed, NotPaused
<1>5. Compoundable(s)' = Compoundable(s)  BY <1>1 DEF Compoundable
<1>6. Snapshot' = Snapshot  BY <1>1 DEF Snapshot
<1>7. Collected(s)'  BY <1>1, <1>5, <1>6 DEF Collected
<1> QED  BY <1>1, <1>2, <1>3, <1>4, <1>7 DEF NothingAccrued

(* A message that has to compound fails if compounding is not possible.    *)
LEMMA Impossible ==
  ASSUME NEW m, NEW s, Placed(m, s), ~CompoundingPossible(s)
  PROVE  ~Succeeds(m, s)
<1>1. CASE m = UpdateGlobalIndexMsg
      BY <1>1 DEF Succeeds, UpdateGlobalIndexMsg
<1>2. CASE Removing(m, s)
  <2>1. PICK sender \in StakeSenders, v \in Validators :
          m = DeregisterMsg(sender, v) /\ s.delegations[v] > 0
        BY <1>2 DEF Removing
  <2>2. m.type = "DeregisterValidator" /\ m.validator = v
        BY <2>1, DeregisterCall
  <2> QED  BY <2>1, <2>2 DEF Succeeds
<1> QED  BY <1>1, <1>2 DEF Placed

(* UpdateGlobalIndex after a redelegation.                                 *)
LEMMA GlobalIndexStep ==
  ASSUME NEW m, NEW s, Sound, Settled(s), saved = [msg |-> m, start |-> s],
         Execute, Collecting(m, s), calls = <<UpdateGlobalIndexMsg>>
  PROVE  Outcome(m, s)
<1> DEFINE rc == config.rewards_contract
           x == UpdateGlobalIndexMsg
<1>1. Head(calls) = x /\ Tail(calls) = <<>> /\ UNCHANGED withdraw_address
      BY Sequences, ExecuteKeeps
<1>2. Placed(m, s) /\ Collected(s) /\ state = s.state /\ hub_balance = s.hub_balance
      BY DEF Collecting
<1>3. Accepts(x)  BY <1>2, UpdateGlobalIndexCall DEF Placed
<1>4. UpdateGlobal  BY <1>1, <1>3, UpdateGlobalIndexCall DEF Execute, Revert
<1>5. /\ calls' = <<WithdrawMsg(Delegated), ProcessRewardsMsg(HubAddress, rc)>>
      /\ saved' = saved /\ UNCHANGED <<vars, stakeVars>>
  <2>1. /\ calls' = <<WithdrawMsg(Delegated), ProcessRewardsMsg(HubAddress, rc)>>
                      \o Tail(calls)
        /\ saved' = IF calls' = <<>> THEN None ELSE saved
        /\ UNCHANGED <<vars, stakeVars>>
        BY <1>4 DEF UpdateGlobal, Emit, RewardedValidators
  <2> QED  BY <1>1, <2>1, Sequences
<1>6. Sound'  BY <1>1, <1>5, VarsUnchangedSound
<1>7. Collecting(m, s)'  BY <1>2, <1>5, CollectedKept DEF Collecting
<1>8. ~Idle'  BY <1>5, Sequences DEF Idle
<1> QED  BY <1>5, <1>6, <1>7, <1>8 DEF Outcome, Progress

(* The rewards of all delegations are withdrawn.                           *)
LEMMA WithdrawStep ==
  ASSUME NEW m, NEW s, Sound, Settled(s), saved = [msg |-> m, start |-> s],
         Execute, Collecting(m, s),
         calls = <<WithdrawMsg(Delegated),
                   ProcessRewardsMsg(HubAddress, config.rewards_contract)>>
  PROVE  Outcome(m, s)
<1> DEFINE rc == config.rewards_contract
           x == WithdrawMsg(Delegated)
           y == ProcessRewardsMsg(HubAddress, rc)
<1>1. /\ Head(calls) = x /\ Tail(calls) = <<y>>
      /\ UNCHANGED <<withdraw_address, configVars>>
      BY Sequences, ExecuteKeeps
<1>2. Placed(m, s) /\ Collected(s) /\ state = s.state /\ hub_balance = s.hub_balance
      BY DEF Collecting
<1>3. WithdrawRewards(x)
  <2>1. Accepts(x)  BY ChainCall
  <2>2. Call(x)  BY <1>1, <2>1 DEF Execute, Revert
  <2> QED  BY <2>2, ChainCall
<1>4. /\ Settle(Delegated) /\ UNCHANGED <<vars, whitelist, delegations>>
      /\ calls' = <<>> \o Tail(calls)
      /\ saved' = IF calls' = <<>> THEN None ELSE saved
      BY <1>3, ChainCall DEF WithdrawRewards, Emit
<1>5. calls' = <<y>> /\ saved' = saved /\ calls' # <<>>  BY <1>1, <1>4, Sequences
<1>6. /\ Delegated \in SUBSET Validators /\ withdraw_address = rc
      /\ rc \in RewardsContracts /\ accrued \in [Validators -> Nat]
      /\ rewards_balance \in [RewardsContracts -> Nat]
      /\ delegations \in [Validators -> Nat]
      BY DEF Delegated, Sound, Books, TypeOK, ConfigTypeOK, ConfigType
<1>7. /\ accrued' \in [Validators -> Nat]
      /\ rewards_balance' \in [RewardsContracts -> Nat]
      /\ \A v \in Validators : accrued'[v] = IF v \in Delegated THEN 0 ELSE accrued[v]
      /\ SumOf(accrued') + rewards_balance'[rc] = SumOf(accrued) + rewards_balance[rc]
      /\ SumOf(accrued') + SumOf(rewards_balance')
           = SumOf(accrued) + SumOf(rewards_balance)
      BY <1>4, <1>6, SettleEffect
<1>8. \A v \in Validators : accrued'[v] = 0
  <2> SUFFICES ASSUME NEW v \in Validators, v \notin Delegated PROVE accrued[v] = 0
      BY <1>7
  <2>1. delegations[v] = 0  BY <1>6 DEF Delegated
  <2> QED  BY <2>1 DEF Sound
<1>9. /\ whitelist' = whitelist /\ delegations' = delegations
      /\ state' = state /\ staked' = staked /\ hub_balance' = hub_balance
      /\ config' = config /\ paused' = paused /\ admin' = admin
      BY <1>4 DEF vars, configVars, ledgerVars, chainVars
<1>10. Books'
       BY <1>4 DEF Sound, Books, vars, configVars, ledgerVars, chainVars, TypeOK,
                   ConfigTypeOK, RateBacked, StakeRecorded, ActualSupply
<1>11. Sound'
       BY <1>1, <1>7, <1>8, <1>9, <1>10 DEF Sound, StakeSplit
<1>12. Delegated' = Delegated  BY <1>9 DEF Delegated
<1>13. Removing(m, s) => Removing(m, s)'  BY <1>9 DEF Removing, NotPaused
<1>14. Placed(m, s)'  BY <1>2, <1>9, <1>12, <1>13 DEF Placed, NotPaused
<1>15. Collected(s)'
  <2>1. Compoundable(s)' = Compoundable(s)  BY <1>9 DEF Compoundable
  <2>2. /\ Snapshot'.accrued = accrued' /\ Snapshot'.rewards_balance = rewards_balance'
        /\ Snapshot.accrued = accrued /\ Snapshot.rewards_balance = rewards_balance
        BY DEF Snapshot
  <2>3. Rewards(Snapshot') = Rewards(Snapshot)  BY <1>7, <2>2 DEF Rewards
  <2> QED  BY <1>2, <1>7, <1>9, <2>1, <2>3 DEF Collected
<1>16. Collecting(m, s)'
       BY <1>2, <1>5, <1>8, <1>9, <1>14, <1>15 DEF Collecting, NothingAccrued
<1> QED  BY <1>5, <1>11, <1>16 DEF Outcome, Progress, Idle

(* The rewards contract sends its balance to the hub.                      *)
LEMMA ProcessStep ==
  ASSUME NEW m, NEW s, Sound, Settled(s), saved = [msg |-> m, start |-> s],
         Execute, Collecting(m, s), NothingAccrued,
         calls = <<ProcessRewardsMsg(HubAddress, config.rewards_contract)>>
  PROVE  Outcome(m, s)
<1> DEFINE rc == config.rewards_contract
           x == ProcessRewardsMsg(HubAddress, rc)
           y == UpdateExchangeRateMsg(rc, rewards_balance[rc])
<1>1. /\ Head(calls) = x /\ Tail(calls) = <<>>
      /\ UNCHANGED <<withdraw_address, rewardsVars>>
      BY Sequences, ExecuteKeeps
<1>2. Placed(m, s) /\ Collected(s) /\ state = s.state /\ hub_balance = s.hub_balance
      BY DEF Collecting
<1>3. CASE Call(x)
  <2>1. ProcessRewards(x) /\ Accepts(x)  BY <1>3, ProcessRewardsCall DEF Call
  <2>2. RewardsNotPaused(rc) /\ x.contract = rc  BY <2>1, ProcessRewardsCall
  <2>3. calls' = <<y>> /\ saved' = saved /\ UNCHANGED <<vars, stakeVars>>
    <3>1. /\ calls' = <<y>> \o Tail(calls)
          /\ saved' = IF calls' = <<>> THEN None ELSE saved
          /\ UNCHANGED <<vars, stakeVars>>
          BY <2>1, <2>2 DEF ProcessRewards, Emit
    <3> QED  BY <1>1, <3>1, Sequences
  <2>4. Sound'  BY <1>1, <2>3, VarsUnchangedSound
  <2>5. RewardsNotPaused(rc)'
    <3>1. rewards_paused' = rewards_paused /\ config' = config
          BY <1>1, <2>3 DEF rewardsVars, vars, configVars
    <3> QED  BY <2>2, <3>1 DEF RewardsNotPaused
  <2>6. Collecting(m, s)'
    <3>1. calls' = <<UpdateExchangeRateMsg(config'.rewards_contract,
                       rewards_balance'[config'.rewards_contract])>>
          BY <1>2, <2>3, CollectedKept
    <3> QED  BY <1>2, <2>3, <2>5, <3>1, CollectedKept DEF Collecting
  <2>7. ~Idle'  BY <2>3, Sequences DEF Idle
  <2> QED  BY <2>3, <2>4, <2>6, <2>7 DEF Outcome, Progress
<1>4. CASE Revert(x)
  <2>1. ~RewardsNotPaused(rc)  BY <1>4, ProcessRewardsCall DEF Revert
  <2>2. ~Succeeds(m, s)
        BY <1>2, <2>1, Impossible DEF CompoundingPossible, RewardsNotPaused
  <2>3. staked = s.staked  BY <1>2 DEF Placed
  <2>4. Sound' /\ Idle' /\ Snapshot' = s  BY <1>1, <1>2, <1>4, <2>3, RevertRestores
  <2> QED  BY <2>2, <2>4 DEF Outcome, Undone
<1> QED  BY <1>1, <1>3, <1>4 DEF Execute

(* The fee and the users' part of the rewards.                             *)
LEMMA FeeTypes ==
  ASSUME TypeOK, NEW funds \in Nat
  PROVE  /\ ProtocolFee(funds) \in Nat
         /\ ProtocolFee(funds) <= funds => funds - ProtocolFee(funds) \in Nat
<1>1. params.protocol_fee \in Nat  BY DEF TypeOK, ConfigTypeOK, ParamFields
<1>2. ProtocolFee(funds) \in Nat  BY <1>1, MulDecBounds DEF ProtocolFee
<1> QED  BY <1>2

(* The books balance when rewards are recorded that are not yet staked.    *)
LEMMA RecordBooks ==
  ASSUME Books, NEW funds \in Nat, ProtocolFee(funds) <= funds, ActualSupply > 0,
         staked > 0, hub_balance' \in Nat,
         state' = [state EXCEPT
           !.exchange_rate =
              state.exchange_rate + FromRatio(funds - ProtocolFee(funds), ActualSupply),
           !.total_bond_amount =
              state.total_bond_amount + (funds - ProtocolFee(funds))],
         UNCHANGED <<configVars, current_batch, wait_list, history, supply, staked,
                     unbonding, now>>
  PROVE  Books'
<1> DEFINE u == funds - ProtocolFee(funds)
           e == state.exchange_rate
           t == state.total_bond_amount
           n == ActualSupply
           f == FromRatio(u, n)
<1>1. TypeOK  BY DEF Books
<1>2. u \in Nat  BY <1>1, FeeTypes
<1>3. n \in Nat \ {0} /\ ActualSupply' = n  BY <1>1 DEF TypeOK, ActualSupply
<1>4. state \in StateType /\ e \in Nat /\ t \in Nat /\ staked \in Nat /\ One \in Nat
      BY <1>1, FixedPointAssumption DEF TypeOK, StateType
<1>5. f \in Nat /\ f * n <= u * One  BY <1>2, <1>3, FromRatioBounds
<1>6. e * n <= t * One /\ staked <= t  BY DEF Books, RateBacked, StakeRecorded
<1>7. state' = [state EXCEPT !.exchange_rate = e + f, !.total_bond_amount = t + u]
      OBVIOUS
<1> HIDE DEF u, e, t, n, f
<1>8. /\ state'.exchange_rate = e + f /\ state'.total_bond_amount = t + u
      /\ e + f \in Nat /\ t + u \in Nat
  <2>1. e + f \in Nat /\ t + u \in Nat  BY <1>2, <1>4, <1>5
  <2> QED  BY <1>4, <1>7, <2>1 DEF StateType
<1>9. state' \in StateType  BY <1>4, <1>7, <1>8 DEF StateType
<1>10. TypeOK'  BY <1>1, <1>9 DEF TypeOK, configVars, ConfigTypeOK
<1>11. (e + f) * n <= (t + u) * One
  <2>1. (e + f) * n = e * n + f * n  BY <1>3, <1>4, <1>5
  <2>2. (t + u) * One = t * One + u * One  BY <1>2, <1>4
  <2>3. e * n \in Nat /\ f * n \in Nat /\ t * One \in Nat /\ u * One \in Nat
        BY <1>2, <1>3, <1>4, <1>5
  <2> QED  BY <1>5, <1>6, <2>1, <2>2, <2>3
<1>12. staked' = staked /\ staked <= t + u /\ staked # 0 /\ t + u # 0
       BY <1>2, <1>4, <1>6
<1> QED  BY <1>3, <1>4, <1>8, <1>10, <1>11, <1>12, BooksFrom

(* Stake with some validator, if there is any.                             *)
LEMMA StakeDelegated ==
  ASSUME Sound
  PROVE  staked > 0 <=> Delegated # {}
<1>1. /\ delegations \in [Validators -> Nat] /\ staked = SumOf(delegations)
      /\ staked \in Nat
      BY DEF Sound, StakeSplit, Books, TypeOK
<1>2. SumOf(delegations) = 0 <=> \A v \in Validators : delegations[v] = 0
      BY <1>1, CompoundingAssumption, SumZero
<1>3. Delegated = {} <=> \A v \in Validators : delegations[v] = 0
      BY <1>1 DEF Delegated
<1> QED  BY <1>1, <1>2, <1>3

(* The hub accepts the rewards exactly when compounding was possible.      *)
LEMMA RecordAccepted ==
  ASSUME NEW m, NEW s, Sound, Settled(s), Collecting(m, s), NothingAccrued,
         RewardsNotPaused(config.rewards_contract)
  PROVE  LET rc == config.rewards_contract IN
         /\ rewards_balance[rc] = Compoundable(s)
         /\ Compoundable(s) \in Nat
         /\ SumOf(accrued) = 0
         /\ Accepts(UpdateExchangeRateMsg(rc, rewards_balance[rc]))
              <=> CompoundingPossible(s)
<1> DEFINE rc == config.rewards_contract
<1>1. /\ rc \in RewardsContracts /\ accrued \in [Validators -> Nat]
      /\ rewards_balance \in [RewardsContracts -> Nat]
      /\ staked \in Nat
      BY DEF Sound, Books, TypeOK, ConfigTypeOK, ConfigType
<1>2. SumOf(accrued) = 0
      BY <1>1, CompoundingAssumption, SumZero DEF NothingAccrued
<1>3. rewards_balance[rc] = Compoundable(s)
  <2>1. SumOf(accrued) + rewards_balance[rc] = Compoundable(s)
        BY DEF Collecting, Collected
  <2>2. rewards_balance[rc] \in Nat  BY <1>1
  <2> QED  BY <1>2, <2>1, <2>2
<1>4. Compoundable(s) \in Nat  BY <1>1, CompoundableSum
<1>5. NotPaused  BY DEF Collecting, Placed
<1>6. ActualSupply > 0 => Delegated # {}
  <2>1. staked = 0 => ActualSupply = 0  BY DEF Sound, Books, StakeRecorded
  <2>2. ActualSupply \in Nat  BY DEF Sound, Books, TypeOK, ActualSupply
  <2> QED  BY <1>1, <2>1, <2>2, StakeDelegated
<1>7. Accepts(UpdateExchangeRateMsg(rc, rewards_balance[rc])) <=> CompoundingPossible(s)
  <2> DEFINE funds == rewards_balance[rc]
  <2>1. Accepts(UpdateExchangeRateMsg(rc, funds)) <=>
          /\ NotPaused /\ rc = config.rewards_contract /\ funds > 0
          /\ ProtocolFee(funds) <= funds /\ config.token_contract # None
          /\ ActualSupply > 0 /\ Delegated # {}
          /\ ProtocolFee(funds) > 0 => config.protocol_fee_collector # None
        BY UpdateExchangeRateCall
  <2> QED  BY <1>3, <1>5, <1>6, <2>1 DEF CompoundingPossible, RewardsNotPaused
<1> QED  BY <1>2, <1>3, <1>4, <1>7

(* The hub records the rewards: UpdateExchangeRate.                        *)
LEMMA RecordStep ==
  ASSUME NEW m, NEW s, Sound, Settled(s), saved = [msg |-> m, start |-> s],
         Execute, Collecting(m, s), NothingAccrued,
         RewardsNotPaused(config.rewards_contract),
         calls = <<UpdateExchangeRateMsg(config.rewards_contract,
                     rewards_balance[config.rewards_contract])>>
  PROVE  Outcome(m, s)
<1> DEFINE rc == config.rewards_contract
           funds == Compoundable(s)
           fee == ProtocolFee(funds)
           user_rewards == funds - fee
           x == UpdateExchangeRateMsg(rc, rewards_balance[rc])
<1>1. /\ Head(calls) = x /\ Tail(calls) = <<>>
      /\ UNCHANGED <<withdraw_address, configVars, rewardsVars, current_batch,
                     wait_list, history, supply, unbonding, now>>
      BY Sequences, ExecuteKeeps
<1>2. /\ Placed(m, s) /\ Collected(s) /\ state = s.state
      /\ hub_balance = s.hub_balance /\ staked = s.staked
      BY DEF Collecting, Placed
<1>3. /\ rewards_balance[rc] = funds /\ funds \in Nat /\ SumOf(accrued) = 0
      /\ Accepts(x) <=> CompoundingPossible(s)
      BY RecordAccepted
<1>4. CASE Revert(x)
  <2>1. ~Succeeds(m, s)  BY <1>2, <1>3, <1>4, Impossible DEF Revert
  <2>2. Sound' /\ Idle' /\ Snapshot' = s  BY <1>1, <1>2, <1>4, RevertRestores
  <2> QED  BY <2>1, <2>2 DEF Outcome, Undone
<1>5. CASE Call(x)
  <2>1. /\ UpdateExchangeRate(x) /\ CompoundingPossible(s)
        /\ x.sender = rc /\ x.funds = funds
        BY <1>3, <1>5, UpdateExchangeRateCall DEF Call
  <2>2. PICK v \in Delegated :
          Emit(FeeMessages(funds) \o
               (IF user_rewards > 0 THEN <<DelegateMsg(v, user_rewards)>> ELSE <<>>))
        BY <2>1 DEF UpdateExchangeRate
  <2>3. /\ rewards_balance' = [rewards_balance EXCEPT ![rc] = rewards_balance[rc] - funds]
        /\ hub_balance' = hub_balance + funds
        /\ state' = [state EXCEPT
             !.exchange_rate =
                state.exchange_rate + FromRatio(user_rewards, ActualSupply),
             !.total_bond_amount = state.total_bond_amount + user_rewards]
        /\ staked' = staked /\ whitelist' = whitelist
        /\ delegations' = delegations /\ accrued' = accrued
        BY <2>1 DEF UpdateExchangeRate
  <2>4. /\ TypeOK /\ rc \in RewardsContracts /\ hub_balance \in Nat /\ staked \in Nat
        /\ rewards_balance \in [RewardsContracts -> Nat]
        /\ accrued \in [Validators -> Nat]
        BY DEF Sound, Books, TypeOK, ConfigTypeOK, ConfigType
  <2>5. /\ ActualSupply > 0 /\ funds > 0 /\ fee <= funds
        /\ ~rewards_paused[rc] /\ config.token_contract # None
        /\ fee > 0 => config.protocol_fee_collector # None
        BY <2>1 DEF CompoundingPossible
  <2>6. fee \in Nat /\ user_rewards \in Nat  BY <1>3, <2>4, <2>5, FeeTypes
  <2>7. staked > 0  BY <2>2, StakeDelegated
  <2>8. hub_balance' \in Nat  BY <1>3, <2>3, <2>4
  <2>9. Books'
        BY <1>1, <1>3, <2>3, <2>5, <2>7, <2>8, RecordBooks DEF Sound
  <2>10. config' = config /\ paused' = paused /\ admin' = admin /\ params' = params
           /\ rewards_paused' = rewards_paused
         BY <1>1 DEF configVars, rewardsVars
  <2>11. /\ rewards_balance' \in [RewardsContracts -> Nat] /\ rewards_balance'[rc] = 0
         /\ \A r \in RewardsContracts : r # rc => rewards_balance'[r] = rewards_balance[r]
         BY <1>3, <2>3, <2>4
  <2>12. SumOf(rewards_balance') = SumOf(rewards_balance) - funds
    <3>1. /\ rewards_balance \in [RewardsContracts -> Int]
          /\ rewards_balance' \in [RewardsContracts -> Int]
          BY <2>4, <2>11
    <3>2. \A r \in RewardsContracts : r # rc => rewards_balance'[r] = rewards_balance[r]
          BY <2>11
    <3>3. SumOf(rewards_balance')
            = SumOf(rewards_balance) - rewards_balance[rc] + rewards_balance'[rc]
          BY ONLY <2>4, <3>1, <3>2, CompoundingAssumption, SumUpdate
    <3>4. SumOf(rewards_balance) \in Nat  BY <2>4, CompoundingAssumption, SumNat
    <3> QED  BY <1>3, <2>11, <3>3, <3>4
  <2>13. Sound'
         BY <1>1, <2>3, <2>4, <2>9, <2>10, <2>11 DEF Sound, StakeSplit
  <2>14. /\ Compoundable(s)' = funds /\ ActualSupply' = ActualSupply
         /\ ProtocolFee(funds)' = fee /\ Delegated' = Delegated
         BY <1>1, <2>3, <2>10 DEF Compoundable, ActualSupply, ProtocolFee, Delegated
  <2>15. CompoundingPossible(s)'
         BY <1>1, <2>1, <2>10, <2>14 DEF CompoundingPossible, NotPaused, ProtocolFee
  <2>16. Removing(m, s) => Removing(m, s)'  BY <2>3, <2>10 DEF Removing, NotPaused
  <2>17. Placed(m, s)'
         BY <1>2, <2>3, <2>10, <2>14, <2>16 DEF Placed, NotPaused
  <2>18. Rewards(Snapshot)' = Rewards(s) - funds
    <3>1. /\ Snapshot'.accrued = accrued' /\ Snapshot'.rewards_balance = rewards_balance'
          /\ Snapshot.accrued = accrued /\ Snapshot.rewards_balance = rewards_balance
          BY DEF Snapshot
    <3>2. Rewards(Snapshot) = Rewards(s)  BY <1>2 DEF Collected
    <3>3. SumOf(rewards_balance) \in Nat  BY <2>4, CompoundingAssumption, SumNat
    <3> QED  BY <1>3, <2>3, <2>12, <3>1, <3>2, <3>3 DEF Rewards
  <2>19. s.staked <= s.state.total_bond_amount
         BY <1>2 DEF Sound, Books, StakeRecorded
  <2> HIDE DEF fee
  <2>20. \/ /\ fee > 0 /\ user_rewards > 0
            /\ calls' = <<SendMsg(fee), DelegateMsg(v, user_rewards)>>
         \/ fee > 0 /\ user_rewards = 0 /\ calls' = <<SendMsg(fee)>>
         \/ /\ fee = 0 /\ user_rewards > 0
            /\ calls' = <<DelegateMsg(v, user_rewards)>>
    <3>1. calls' = (FeeMessages(funds) \o
                     (IF user_rewards > 0 THEN <<DelegateMsg(v, user_rewards)>>
                                          ELSE <<>>)) \o <<>>
          BY <1>1, <2>2 DEF Emit
    <3>2. FeeMessages(funds) = IF fee > 0 THEN <<SendMsg(fee)>> ELSE <<>>
          BY DEF FeeMessages, fee
    <3>3. CASE fee > 0 /\ user_rewards > 0  BY <3>1, <3>2, <3>3, Sequences
    <3>4. CASE fee > 0 /\ user_rewards = 0
      <4>1. ~(user_rewards > 0) /\ FeeMessages(funds) = <<SendMsg(fee)>>
            BY <3>2, <3>4
      <4>2. calls' = (<<SendMsg(fee)>> \o <<>>) \o <<>>
        <5> HIDE DEF user_rewards
        <5> QED  BY <3>1, <4>1
      <4> QED  BY <3>4, <4>2, Sequences
    <3>5. CASE fee = 0 /\ user_rewards > 0  BY <3>1, <3>2, <3>5, Sequences
    <3>6. ~(fee = 0 /\ user_rewards = 0)  BY <1>3, <2>5, <2>6
    <3> QED  BY <2>6, <3>3, <3>4, <3>5, <3>6
  <2>21. calls' # <<>> /\ saved' = saved
    <3>1. calls' # <<>>  BY ONLY <2>20, Sequences
    <3> QED  BY <2>2, <3>1 DEF Emit
  <2>22. \E w \in Delegated :
           \/ /\ fee > 0 /\ user_rewards > 0
              /\ calls' = <<SendMsg(fee), DelegateMsg(w, user_rewards)>>
              /\ hub_balance' = s.hub_balance + funds
           \/ /\ fee > 0 /\ user_rewards = 0
              /\ calls' = <<SendMsg(fee)>>
              /\ hub_balance' = s.hub_balance + fee
           \/ /\ user_rewards > 0
              /\ calls' = <<DelegateMsg(w, user_rewards)>>
              /\ hub_balance' = s.hub_balance + user_rewards
    <3>1. /\ hub_balance' = s.hub_balance + funds
          /\ fee = 0 => user_rewards = funds
          /\ user_rewards = 0 => fee = funds
          BY <1>2, <1>3, <2>3, <2>6
    <3> QED  BY <2>20, <3>1
  <2>23. Paying(m, s)'
    <3>1. /\ rewards_balance'[config'.rewards_contract] = 0 /\ NothingAccrued'
          BY <2>3, <2>10, <2>11 DEF NothingAccrued
    <3> QED  BY <1>2, <2>3, <2>14, <2>15, <2>17, <2>18, <2>19, <2>22, <3>1
             DEF Paying, fee
  <2> QED  BY <2>13, <2>21, <2>23 DEF Outcome, Progress, Idle
<1> QED  BY <1>1, <1>4, <1>5 DEF Execute

(* The calls that collect and record the rewards.                          *)
LEMMA CollectingStep ==
  ASSUME NEW m, NEW s, Sound, Settled(s), saved = [msg |-> m, start |-> s],
         Execute, Collecting(m, s)
  PROVE  Outcome(m, s)
<1> DEFINE rc == config.rewards_contract
<1>1. CASE calls = <<UpdateGlobalIndexMsg>>  BY <1>1, GlobalIndexStep
<1>2. CASE calls = <<WithdrawMsg(Delegated), ProcessRewardsMsg(HubAddress, rc)>>
      BY <1>2, WithdrawStep
<1>3. CASE NothingAccrued /\ calls = <<ProcessRewardsMsg(HubAddress, rc)>>
      BY <1>3, ProcessStep
<1>4. CASE /\ NothingAccrued /\ RewardsNotPaused(rc)
           /\ calls = <<UpdateExchangeRateMsg(rc, rewards_balance[rc])>>
      BY <1>4, RecordStep
<1> QED  BY <1>1, <1>2, <1>3, <1>4 DEF Collecting

(* Facts about the amounts while the rewards are paid out.                 *)
LEMMA PayingParts ==
  ASSUME NEW m, NEW s, Sound, Settled(s), Paying(m, s)
  PROVE  LET funds == Compoundable(s)
             fee == ProtocolFee(funds)
         IN
         /\ TypeOK /\ config.rewards_contract \in RewardsContracts
         /\ funds \in Nat /\ fee \in Nat /\ funds - fee \in Nat
         /\ fee + (funds - fee) = funds
         /\ s.hub_balance \in Nat /\ s.staked \in Nat /\ s \in SnapshotType
         /\ staked = s.staked /\ staked > 0 /\ hub_balance \in Nat
         /\ Placed(m, s) /\ CompoundingPossible(s) /\ NothingAccrued
         /\ rewards_balance[config.rewards_contract] = 0
         /\ Rewards(Snapshot) = Rewards(s) - funds
<1> DEFINE funds == Compoundable(s)
           fee == ProtocolFee(funds)
<1>1. /\ TypeOK /\ config.rewards_contract \in RewardsContracts
      /\ hub_balance \in Nat
      BY DEF Sound, Books, TypeOK, ConfigTypeOK, ConfigType
<1>2. /\ Placed(m, s) /\ CompoundingPossible(s) /\ NothingAccrued
      /\ rewards_balance[config.rewards_contract] = 0
      /\ Rewards(Snapshot) = Rewards(s) - funds
      /\ Delegated # {}
      BY DEF Paying
<1>3. funds \in Nat  BY <1>1, CompoundableSum
<1>4. fee \in Nat /\ funds - fee \in Nat
      BY <1>1, <1>2, <1>3, FeeTypes DEF CompoundingPossible
<1>5. s \in SnapshotType  BY DEF Settled
<1>6. s.hub_balance \in Nat /\ s.staked \in Nat  BY <1>5 DEF SnapshotType
<1>7. staked = s.staked  BY <1>2 DEF Placed
<1>8. staked > 0  BY <1>2, StakeDelegated
<1>9. fee + (funds - fee) = funds
  <2> HIDE DEF funds, fee
  <2> QED  BY <1>3, <1>4
<1> QED  BY <1>1, <1>2, <1>3, <1>4, <1>5, <1>6, <1>7, <1>8, <1>9

(* The last payment ends the transaction.                                  *)
LEMMA PaidCompounded ==
  ASSUME NEW m, NEW s, Sound, Settled(s), Execute, Paying(m, s),
         Sound', calls' = <<>>, NothingAccrued',
         rewards_balance'[config.rewards_contract] = 0,
         Rewards(Snapshot)' = Rewards(Snapshot), state' = state,
         staked' = s.staked + (Compoundable(s) - ProtocolFee(Compoundable(s))),
         hub_balance' = s.hub_balance, whitelist' = whitelist,
         Delegated' \subseteq whitelist
  PROVE  Outcome(m, s)
<1> DEFINE funds == Compoundable(s)
           user_rewards == funds - ProtocolFee(funds)
<1>1. /\ s \in SnapshotType /\ Placed(m, s) /\ CompoundingPossible(s)
      /\ s.staked > 0 /\ user_rewards \in Nat
      /\ Rewards(Snapshot) = Rewards(s) - funds
      BY PayingParts
<1>2. /\ config' = config /\ paused' = paused /\ admin' = admin /\ params' = params
      BY ExecuteKeeps DEF configVars
<1>3. Compoundable(s)' = funds /\ user_rewards' = user_rewards
      BY <1>2 DEF Compoundable, ProtocolFee
<1> HIDE DEF user_rewards
<1> PICK final : final = [s EXCEPT !.staked = s.staked + user_rewards]  OBVIOUS
<1>4. /\ final.staked = s.staked + user_rewards /\ final.whitelist = s.whitelist
      /\ final.delegations = s.delegations
      BY <1>1 DEF SnapshotType
<1>5. Removing(m, s) => Removing(m, final)'
      BY <1>2, <1>4 DEF Removing, NotPaused
<1>6. Placed(m, final)'
      BY <1>1, <1>2, <1>4, <1>5 DEF Placed, NotPaused, user_rewards
<1>7. Succeeds(m, s) /\ (m.type = "DeregisterValidator" => s.delegations[m.validator] > 0)
  <2>1. CASE m = UpdateGlobalIndexMsg
        BY <1>1, <2>1 DEF Succeeds, UpdateGlobalIndexMsg
  <2>2. CASE Removing(m, s)
    <3>1. PICK sender \in StakeSenders, v \in Validators :
            /\ m = DeregisterMsg(sender, v) /\ sender = admin /\ s.delegations[v] > 0
            /\ Cardinality(s.whitelist) > 1
          BY <2>2 DEF Removing
    <3>2. m.type = "DeregisterValidator" /\ m.validator = v /\ m.sender = sender
          BY <3>1, DeregisterCall
    <3> QED  BY <1>1, <2>2, <3>1, <3>2 DEF Succeeds, Removing
  <2> QED  BY <1>1, <2>1, <2>2 DEF Placed
<1>8. state' = [s.state EXCEPT
        !.exchange_rate = s.state.exchange_rate + FromRatio(user_rewards, ActualSupply),
        !.total_bond_amount = s.state.total_bond_amount + user_rewards]
      BY DEF Paying, user_rewards
<1>9. Idle'  BY DEF Idle
<1>10. Placed(m, [s EXCEPT !.staked = s.staked + user_rewards])'  BY <1>3, <1>6
<1>11. Compounded(m, s)
       BY <1>1, <1>7, <1>8, <1>9, <1>10 DEF Compounded, user_rewards
<1> QED  BY <1>11 DEF Outcome

(* The fee is sent to the collector.                                       *)
LEMMA SendStep ==
  ASSUME NEW m, NEW s, Sound, Settled(s), saved = [msg |-> m, start |-> s],
         Execute, Paying(m, s),
         NEW ms, Head(calls) = SendMsg(ProtocolFee(Compoundable(s))), Tail(calls) = ms,
         \/ /\ ms = <<>>
            /\ Compoundable(s) - ProtocolFee(Compoundable(s)) = 0
            /\ hub_balance = s.hub_balance + ProtocolFee(Compoundable(s))
         \/ /\ hub_balance = s.hub_balance + Compoundable(s)
            /\ Compoundable(s) - ProtocolFee(Compoundable(s)) > 0
            /\ \E v \in Delegated :
                 ms = <<DelegateMsg(v, Compoundable(s) - ProtocolFee(Compoundable(s)))>>
  PROVE  Outcome(m, s)
<1> DEFINE funds == Compoundable(s)
           fee == ProtocolFee(funds)
           user_rewards == funds - fee
           x == SendMsg(fee)
<1>1. /\ TypeOK /\ funds \in Nat /\ fee \in Nat /\ user_rewards \in Nat
      /\ fee + user_rewards = funds /\ s.hub_balance \in Nat /\ hub_balance \in Nat
      /\ s.staked \in Nat /\ staked = s.staked /\ NothingAccrued /\ Placed(m, s)
      /\ rewards_balance[config.rewards_contract] = 0
      /\ CompoundingPossible(s)
      /\ Rewards(Snapshot) = Rewards(s) - funds
      BY PayingParts
<1>2. UNCHANGED <<withdraw_address, configVars, rewardsVars, current_batch,
                  wait_list, history, supply, unbonding, now>>
      BY ExecuteKeeps
<1>3. SendFee(x)
  <2>1. fee <= hub_balance
    <3> HIDE DEF user_rewards, fee, funds
    <3> QED  BY <1>1 DEF funds, fee
  <2>2. Accepts(x)  BY <2>1, ChainCall
  <2>3. Call(x)  BY <2>2 DEF Execute, Revert
  <2> QED  BY <2>3, ChainCall
<1>4. /\ hub_balance' = hub_balance - fee /\ UNCHANGED <<ledgerVars, staked, stakeVars>>
      /\ calls' = <<>> \o ms /\ saved' = IF calls' = <<>> THEN None ELSE saved
      BY <1>3 DEF SendFee, SendMsg, Emit
<1>5. /\ state' = state /\ staked' = staked /\ whitelist' = whitelist
      /\ delegations' = delegations /\ accrued' = accrued
      /\ rewards_balance' = rewards_balance
      BY <1>4 DEF ledgerVars, stakeVars
<1>6. /\ config' = config /\ paused' = paused /\ admin' = admin /\ params' = params
      /\ rewards_paused' = rewards_paused
      BY <1>2 DEF configVars, rewardsVars
<1>7. /\ Compoundable(s)' = funds /\ ActualSupply' = ActualSupply
      /\ ProtocolFee(funds)' = fee /\ Delegated' = Delegated
      BY <1>2, <1>5, <1>6 DEF Compoundable, ActualSupply, ProtocolFee, Delegated
<1>8. hub_balance' = s.hub_balance + user_rewards /\ hub_balance' \in Nat
  <2>1. hub_balance = s.hub_balance + funds
    <3>1. user_rewards = 0 => fee = funds  BY <1>1
    <3> QED  BY <3>1
  <2> HIDE DEF user_rewards, fee, funds
  <2> QED  BY <1>1, <1>4, <2>1, SMTT(30)
<1>9. Sound'
  <2>1. TypeOK'
        BY <1>1, <1>2, <1>4, <1>5, <1>8 DEF TypeOK, configVars, ConfigTypeOK
  <2>2. Books'  BY <1>2, <1>5, <2>1, BooksUnchanged DEF Sound
  <2> QED  BY <1>2, <1>5, <1>6, <2>2 DEF Sound, StakeSplit
<1>10. Rewards(Snapshot)' = Rewards(Snapshot)
  <2>1. /\ Snapshot'.accrued = accrued' /\ Snapshot'.rewards_balance = rewards_balance'
        /\ Snapshot.accrued = accrued /\ Snapshot.rewards_balance = rewards_balance
        BY DEF Snapshot
  <2> QED  BY <1>5, <2>1 DEF Rewards
<1>11. NothingAccrued'  BY <1>1, <1>5 DEF NothingAccrued
<1>12. CASE ms = <<>> /\ user_rewards = 0
  <2>1. calls' = <<>>  BY <1>4, <1>12, Sequences
  <2>2. staked' = s.staked + user_rewards /\ hub_balance' = s.hub_balance
    <3>1. /\ staked' = s.staked /\ s.staked \in Nat /\ s.hub_balance \in Nat
          /\ user_rewards = 0
          BY <1>1, <1>5, <1>12
    <3>2. hub_balance' = s.hub_balance + user_rewards  BY <1>8
    <3> HIDE DEF user_rewards
    <3> QED  BY ONLY <3>1, <3>2
  <2>3. Delegated' \subseteq whitelist  BY <1>1, <1>7 DEF Placed
  <2> QED  BY <1>1, <1>5, <1>9, <1>10, <1>11, <2>1, <2>2, <2>3, PaidCompounded
<1>13. ASSUME NEW v \in Delegated, ms = <<DelegateMsg(v, user_rewards)>>,
              user_rewards > 0
       PROVE  Outcome(m, s)
  <2>1. calls' = <<DelegateMsg(v, user_rewards)>> /\ calls' # <<>> /\ saved' = saved
        BY <1>4, <1>13, Sequences
  <2>2. CompoundingPossible(s)'
        BY <1>1, <1>2, <1>6, <1>7 DEF CompoundingPossible, NotPaused, ProtocolFee
  <2>3. Removing(m, s) => Removing(m, s)'  BY <1>5, <1>6 DEF Removing, NotPaused
  <2>4. Placed(m, s)'
        BY <1>1, <1>5, <1>6, <1>7, <2>3 DEF Placed, NotPaused
  <2>5. /\ state = [s.state EXCEPT
             !.exchange_rate = s.state.exchange_rate + FromRatio(user_rewards, ActualSupply),
             !.total_bond_amount = s.state.total_bond_amount + user_rewards]
        /\ s.staked <= s.state.total_bond_amount
        BY DEF Paying
  <2>6. v \in Delegated'  BY <1>7
  <2>7. /\ rewards_balance'[config'.rewards_contract] = 0
        /\ Rewards(Snapshot)' = Rewards(s) - funds
        BY <1>1, <1>5, <1>6, <1>10
  <2> HIDE DEF fee
  <2>8. Paying(m, s)'
        BY <1>5, <1>7, <1>8, <1>11, <1>13, <2>1, <2>2, <2>4, <2>5, <2>6, <2>7
        DEF Paying, fee
  <2> QED  BY <1>9, <2>1, <2>8 DEF Outcome, Progress, Idle
<1> QED  BY <1>12, <1>13

(* The users' part is delegated.                                           *)
LEMMA DelegateStep ==
  ASSUME NEW m, NEW s, Sound, Settled(s), saved = [msg |-> m, start |-> s],
         Execute, Paying(m, s), NEW v \in Delegated,
         calls = <<DelegateMsg(v, Compoundable(s) - ProtocolFee(Compoundable(s)))>>,
         hub_balance = s.hub_balance + (Compoundable(s) - ProtocolFee(Compoundable(s)))
  PROVE  Outcome(m, s)
<1> DEFINE funds == Compoundable(s)
           rc == config.rewards_contract
           user_rewards == funds - ProtocolFee(funds)
           x == DelegateMsg(v, user_rewards)
<1>1. /\ TypeOK /\ user_rewards \in Nat /\ s.hub_balance \in Nat /\ hub_balance \in Nat
      /\ s.staked \in Nat /\ staked = s.staked /\ staked > 0
      /\ NothingAccrued /\ Placed(m, s) /\ rewards_balance[rc] = 0
      /\ rc \in RewardsContracts /\ s \in SnapshotType
      BY PayingParts
<1>2. /\ Head(calls) = x /\ Tail(calls) = <<>>
      /\ UNCHANGED <<withdraw_address, configVars, rewardsVars, current_batch,
                     wait_list, history, supply, unbonding, now>>
      BY Sequences, ExecuteKeeps
<1>3. state.total_bond_amount = s.state.total_bond_amount + user_rewards
        /\ s.staked <= s.state.total_bond_amount
        /\ s.state.total_bond_amount \in Nat
  <2>1. s.state \in StateType  BY <1>1 DEF SnapshotType
  <2>2. /\ state = [s.state EXCEPT
             !.exchange_rate = s.state.exchange_rate + FromRatio(user_rewards, ActualSupply),
             !.total_bond_amount = s.state.total_bond_amount + user_rewards]
        /\ s.staked <= s.state.total_bond_amount
        BY DEF Paying
  <2> QED  BY <2>1, <2>2 DEF StateType
<1> HIDE DEF user_rewards
<1>4. Delegate(x)
  <2>1. user_rewards <= hub_balance  BY <1>1 DEF user_rewards
  <2>2. Accepts(x)  BY <2>1, ChainCall
  <2>3. Call(x)  BY <1>2, <2>2 DEF Execute, Revert
  <2> QED  BY <2>3, ChainCall
<1>5. /\ hub_balance' = hub_balance - user_rewards /\ staked' = staked + user_rewards
      /\ delegations' = [delegations EXCEPT ![v] = delegations[v] + user_rewards]
      /\ Settle({v}) /\ whitelist' = whitelist /\ UNCHANGED ledgerVars
      /\ calls' = <<>> \o Tail(calls)
      BY <1>4 DEF Delegate, DelegateMsg, Emit
<1>6. calls' = <<>>  BY <1>2, <1>5, Sequences
<1>7. hub_balance' = s.hub_balance /\ hub_balance' \in Nat
      BY <1>1, <1>5 DEF user_rewards
<1>8. /\ state' = state /\ config' = config
      BY <1>2, <1>5 DEF ledgerVars, configVars
<1>9. /\ delegations \in [Validators -> Nat] /\ accrued \in [Validators -> Nat]
      /\ rewards_balance \in [RewardsContracts -> Nat] /\ v \in Validators
      /\ withdraw_address = rc /\ staked = SumOf(delegations)
      BY DEF Sound, Delegated, StakeSplit
<1>10. /\ accrued' \in [Validators -> Nat]
       /\ rewards_balance' \in [RewardsContracts -> Nat]
       /\ \A w \in Validators : accrued'[w] = IF w \in {v} THEN 0 ELSE accrued[w]
       /\ SumOf(accrued') + rewards_balance'[rc] = SumOf(accrued) + rewards_balance[rc]
       /\ SumOf(accrued') + SumOf(rewards_balance')
            = SumOf(accrued) + SumOf(rewards_balance)
       BY <1>1, <1>5, <1>9, SettleEffect
<1>11. NothingAccrued'  BY <1>1, <1>10 DEF NothingAccrued
<1>12. rewards_balance'[rc] = 0
  <2>1. SumOf(accrued) = 0
        BY <1>1, <1>9, CompoundingAssumption, SumZero DEF NothingAccrued
  <2>2. SumOf(accrued') = 0
        BY <1>10, <1>11, CompoundingAssumption, SumZero DEF NothingAccrued
  <2>3. rewards_balance'[rc] \in Nat  BY <1>1, <1>10
  <2> QED  BY <1>1, <1>10, <2>1, <2>2, <2>3
<1>13. Rewards(Snapshot)' = Rewards(Snapshot)
  <2>1. /\ Snapshot'.accrued = accrued' /\ Snapshot'.rewards_balance = rewards_balance'
        /\ Snapshot.accrued = accrued /\ Snapshot.rewards_balance = rewards_balance
        BY DEF Snapshot
  <2> QED  BY <1>10, <2>1 DEF Rewards
<1>14. /\ delegations' \in [Validators -> Nat]
       /\ delegations'[v] = delegations[v] + user_rewards
       /\ \A w \in Validators : w # v => delegations'[w] = delegations[w]
       BY <1>1, <1>5, <1>9
<1>15. staked' = SumOf(delegations')
  <2>1. /\ delegations \in [Validators -> Int] /\ delegations' \in [Validators -> Int]
        /\ delegations[v] \in Nat
        BY <1>9, <1>14
  <2>2. \A w \in Validators : w # v => delegations'[w] = delegations[w]  BY <1>14
  <2>3. SumOf(delegations') = SumOf(delegations) - delegations[v] + delegations'[v]
        BY ONLY <1>9, <2>1, <2>2, CompoundingAssumption, SumUpdate
  <2>4. SumOf(delegations) \in Int  BY <2>1, CompoundingAssumption, SumInt
  <2> QED  BY <1>1, <1>5, <1>9, <1>14, <2>1, <2>3, <2>4
<1>16. Books'
  <2>1. staked' \in Nat /\ staked' > 0 /\ staked' <= state.total_bond_amount
        BY <1>1, <1>3, <1>5, SMTT(30)
  <2>2. TypeOK'
        BY <1>1, <1>2, <1>5, <1>7, <2>1
        DEF TypeOK, configVars, ConfigTypeOK, ledgerVars
  <2>3. /\ state.exchange_rate * ActualSupply <= state.total_bond_amount * One
        /\ state.total_bond_amount = 0 => ActualSupply = 0
        BY DEF Sound, Books, RateBacked, StakeRecorded
  <2>4. ActualSupply' = ActualSupply  BY <1>2 DEF ActualSupply
  <2> QED  BY <1>8, <2>1, <2>2, <2>3, <2>4 DEF Books, RateBacked, StakeRecorded
<1>17. Sound'
       BY <1>2, <1>5, <1>8, <1>9, <1>10, <1>11, <1>14, <1>15, <1>16
       DEF Sound, StakeSplit, NothingAccrued
<1>18. Delegated' \subseteq whitelist
  <2>1. Delegated \subseteq whitelist  BY <1>1 DEF Placed
  <2> SUFFICES ASSUME NEW w \in Validators, delegations'[w] > 0 PROVE w \in Delegated
      BY <2>1 DEF Delegated
  <2> QED  BY <1>14 DEF Delegated
<1>19. staked' = s.staked + (Compoundable(s) - ProtocolFee(Compoundable(s)))
       BY <1>1, <1>5 DEF user_rewards
<1> QED
  BY <1>5, <1>6, <1>7, <1>8, <1>11, <1>12, <1>13, <1>17, <1>18, <1>19, PaidCompounded

(* The calls that pay out the rewards.                                     *)
LEMMA PayingStep ==
  ASSUME NEW m, NEW s, Sound, Settled(s), saved = [msg |-> m, start |-> s],
         Execute, Paying(m, s)
  PROVE  Outcome(m, s)
<1> DEFINE funds == Compoundable(s)
           fee == ProtocolFee(funds)
           user_rewards == funds - fee
<1>1. PICK v \in Delegated :
        \/ /\ fee > 0 /\ user_rewards > 0
           /\ calls = <<SendMsg(fee), DelegateMsg(v, user_rewards)>>
           /\ hub_balance = s.hub_balance + funds
        \/ /\ fee > 0 /\ user_rewards = 0
           /\ calls = <<SendMsg(fee)>>
           /\ hub_balance = s.hub_balance + fee
        \/ /\ user_rewards > 0
           /\ calls = <<DelegateMsg(v, user_rewards)>>
           /\ hub_balance = s.hub_balance + user_rewards
      BY DEF Paying
<1> HIDE DEF funds, fee, user_rewards
<1>2. CASE /\ user_rewards > 0 /\ calls = <<SendMsg(fee), DelegateMsg(v, user_rewards)>>
           /\ hub_balance = s.hub_balance + funds
  <2>1. Head(calls) = SendMsg(fee) /\ Tail(calls) = <<DelegateMsg(v, user_rewards)>>
        BY <1>2, Sequences
  <2> QED  BY <1>2, <2>1, SendStep DEF funds, fee, user_rewards
<1>3. CASE /\ user_rewards = 0 /\ calls = <<SendMsg(fee)>>
           /\ hub_balance = s.hub_balance + fee
  <2>1. Head(calls) = SendMsg(fee) /\ Tail(calls) = <<>>  BY <1>3, Sequences
  <2> QED  BY <1>3, <2>1, SendStep DEF funds, fee, user_rewards
<1>4. CASE /\ calls = <<DelegateMsg(v, user_rewards)>>
           /\ hub_balance = s.hub_balance + user_rewards
      BY <1>4, DelegateStep DEF funds, fee, user_rewards
<1> QED  BY <1>1, <1>2, <1>3, <1>4

(* Every call of a transaction.                                            *)
LEMMA ExecuteStep ==
  ASSUME Invariant, Execute, NEW m, NEW s, m = saved.msg, s = saved.start
  PROVE  Settled(s) /\ saved = [msg |-> m, start |-> s] /\ Outcome(m, s)
<1>1. /\ Sound /\ Settled(s) /\ saved = [msg |-> m, start |-> s] /\ Progress(m, s)
      BY DEF Invariant, Execute, Idle
<1> QED  BY <1>1, StartingStep, MovingStep, CollectingStep, PayingStep DEF Progress

-----------------------------------------------------------------------------
(* The invariant                                                           *)

(* The state a transaction leaves is one that another can start from.      *)
LEMMA OutcomeSettled ==
  ASSUME NEW m, NEW s, Sound, Settled(s), Sound',
         config' = config, params' = params,
         Undone(m, s) \/ Dropped(m, s) \/ Compounded(m, s)
  PROVE  Settled(Snapshot)'
<1>1. s \in SnapshotType  BY DEF Settled
<1>2. CASE Undone(m, s)
  <2>1. Settled(Snapshot')  BY <1>2 DEF Undone
  <2> QED  BY <2>1
<1>3. CASE Dropped(m, s)
  <2> DEFINE v == m.validator
  <2>1. /\ Snapshot' = [s EXCEPT !.whitelist = s.whitelist \ {v}]
        /\ s.delegations[v] = 0 /\ Cardinality(s.whitelist) > 1
        BY <1>3 DEF Dropped, Succeeds
  <2> HIDE DEF v
  <2>2. /\ Snapshot'.whitelist = s.whitelist \ {v} /\ Snapshot'.staked = s.staked
        /\ Snapshot'.delegations = s.delegations /\ Snapshot'.accrued = s.accrued
        /\ Snapshot'.rewards_balance = s.rewards_balance /\ Snapshot'.state = s.state
        BY <1>1, <2>1 DEF SnapshotType
  <2>3. Snapshot' \in SnapshotType  BY <1>1, <2>1 DEF SnapshotType
  <2>4. s.whitelist \ {v} # {}
    <3> SUFFICES ASSUME s.whitelist \ {v} = {} PROVE FALSE  OBVIOUS
    <3>1. IsFiniteSet({v}) /\ Cardinality({v}) = 1  BY FS_Singleton
    <3>2. IsFiniteSet(s.whitelist) /\ Cardinality(s.whitelist) <= Cardinality({v})
          BY <3>1, FS_Subset
    <3>3. Cardinality(s.whitelist) \in Nat  BY <3>2, FS_CardinalityType
    <3> QED  BY <2>1, <3>1, <3>2, <3>3
  <2>5. Rewards(Snapshot') = Rewards(s)  BY <2>2 DEF Rewards
  <2>6. \A w \in Validators : s.delegations[w] > 0 => w \in s.whitelist \ {v}
        BY <2>1 DEF Settled
  <2>7. Settled(Snapshot')  BY <2>2, <2>3, <2>4, <2>5, <2>6 DEF Settled
  <2> QED  BY <2>7
<1>4. CASE Compounded(m, s)
  <2> DEFINE funds == Compoundable(s)
             fee == ProtocolFee(funds)
  <2>1. config.rewards_contract \in RewardsContracts /\ TypeOK
        BY DEF Sound, Books, TypeOK, ConfigTypeOK, ConfigType
  <2>2. /\ funds \in Nat /\ funds <= Rewards(s) /\ Rewards(s) \in Nat
        BY <2>1, CompoundableSum
  <2>3. fee \in Nat /\ fee <= funds /\ funds > 0
        BY <1>4, <2>1, <2>2, FeeTypes DEF Compounded, CompoundingPossible
  <2>4. whitelist' # {} /\ Delegated' \subseteq whitelist'
    <3>1. PICK t : /\ t = [s EXCEPT !.staked = s.staked + (funds - fee)] /\ Placed(m, t)'
      <4>1. Placed(m, [s EXCEPT !.staked = s.staked + (funds - fee)])'
            BY <1>4 DEF Compounded
      <4>2. Compoundable(s)' = funds /\ ProtocolFee(funds)' = fee
            BY DEF Compoundable, ProtocolFee
      <4> QED  BY <4>1, <4>2
    <3>2. t.whitelist = s.whitelist  BY <1>1, <3>1 DEF SnapshotType
    <3> QED  BY <3>1, <3>2 DEF Placed, Removing, Settled
  <2>5. \A v \in Validators : delegations'[v] > 0 => v \in whitelist'
        BY <2>4 DEF Delegated
  <2>6. SumOf(accrued') + SumOf(rewards_balance') = Rewards(s) - funds
    <3>1. Snapshot'.accrued = accrued' /\ Snapshot'.rewards_balance = rewards_balance'
          BY DEF Snapshot
    <3>2. Rewards(Snapshot') = Rewards(s) - funds  BY <1>4 DEF Compounded
    <3> QED  BY <3>1, <3>2 DEF Rewards
  <2>7. state'.total_bond_amount = s.state.total_bond_amount + (funds - fee)
    <3>1. s.state \in StateType  BY <1>1 DEF SnapshotType
    <3>2. state' = [s.state EXCEPT
            !.exchange_rate = s.state.exchange_rate + FromRatio(funds - fee, ActualSupply),
            !.total_bond_amount = s.state.total_bond_amount + (funds - fee)]
          BY <1>4 DEF Compounded
    <3> QED  BY <3>1, <3>2 DEF StateType
  <2>8. /\ s.state.total_bond_amount \in Nat /\ Rewards(s) <= MaxRewards
        /\ Rewards(s) > 0 =>
             s.state.total_bond_amount + Rewards(s) <= MaxStake + MaxRewards
        BY DEF Settled, SnapshotType, StateType
  <2>9. SumOf(accrued') \in Nat /\ SumOf(rewards_balance') \in Nat
        BY CompoundingAssumption, SumNat DEF Sound
  <2>10. MaxStake \in Nat /\ MaxRewards \in Nat
         BY HubAssumption, CompoundingAssumption
  <2> HIDE DEF funds, fee
  <2>11. SumOf(accrued') + SumOf(rewards_balance') <= MaxRewards
         BY <2>2, <2>3, <2>6, <2>8, <2>10
  <2>12. state'.total_bond_amount + SumOf(accrued') + SumOf(rewards_balance')
           <= MaxStake + MaxRewards
    <3>1. state'.total_bond_amount + SumOf(accrued') + SumOf(rewards_balance')
            = s.state.total_bond_amount + (funds - fee) + (Rewards(s) - funds)
          BY <2>2, <2>3, <2>6, <2>7, <2>8, <2>9
    <3> QED  BY <2>2, <2>3, <2>8, <2>10, <3>1
  <2> QED  BY <2>4, <2>5, <2>11, <2>12, SettledFrom
<1> QED  BY <1>2, <1>3, <1>4

(* The invariant while a transaction runs.                                 *)
LEMMA RunningInvariant ==
  ASSUME NEW m, NEW s, Sound', calls' # <<>>, saved' = [msg |-> m, start |-> s],
         Settled(s), Progress(m, s)'
  PROVE  Invariant'
BY DEF Invariant, Idle

(* A message is submitted.                                                 *)
LEMMA SubmitInvariant ==
  ASSUME Sound, Settled(Snapshot), NEW m, Startable(m), Submit(m),
         UNCHANGED withdraw_address
  PROVE  Invariant'
<1>1. calls' = <<m>> /\ saved' = [msg |-> m, start |-> Snapshot]
        /\ UNCHANGED <<vars, stakeVars>>
      BY DEF Submit
<1>2. Sound'  BY <1>1, VarsUnchangedSound
<1>3. Snapshot' = Snapshot
      BY <1>1 DEF Snapshot, vars, stakeVars, configVars, ledgerVars, chainVars
<1>4. PICK s : s = Snapshot  OBVIOUS
<1>5. Starting(m, s)'  BY <1>1, <1>3, <1>4 DEF Starting, Startable
<1>6. calls' # <<>>  BY <1>1, Sequences
<1> QED  BY <1>1, <1>2, <1>4, <1>5, <1>6, RunningInvariant DEF Progress

(* Between transactions, a step that starts none.                          *)
LEMMA IdleInvariant ==
  ASSUME Sound', Settled(Snapshot)', calls' = <<>>
  PROVE  Invariant'
BY DEF Invariant, Idle

(* A call of a transaction.                                                *)
LEMMA ExecuteInvariant ==
  ASSUME Invariant, Execute
  PROVE  Invariant'
<1>1. PICK m, s : m = saved.msg /\ s = saved.start  OBVIOUS
<1>2. /\ Sound /\ Settled(s) /\ saved = [msg |-> m, start |-> s] /\ Outcome(m, s)
      BY <1>1, ExecuteStep DEF Invariant
<1>3. CASE calls' # <<>> /\ saved' = saved /\ Progress(m, s)'
      BY <1>2, <1>3, RunningInvariant DEF Outcome
<1>4. CASE Undone(m, s) \/ Dropped(m, s) \/ Compounded(m, s)
  <2>1. config' = config /\ params' = params  BY ExecuteKeeps DEF configVars
  <2>2. Settled(Snapshot)'  BY <1>2, <1>4, <2>1, OutcomeSettled DEF Outcome
  <2>3. calls' = <<>>  BY <1>4 DEF Undone, Dropped, Compounded, Idle
  <2> QED  BY <1>2, <2>2, <2>3, IdleInvariant DEF Outcome
<1> QED  BY <1>2, <1>3, <1>4 DEF Outcome, Idle

(* Invariant is inductive.                                                 *)
LEMMA NextInvariant == Invariant /\ [CompoundingNext]_allVars => Invariant'
<1> SUFFICES ASSUME Invariant, [CompoundingNext]_allVars PROVE Invariant'  OBVIOUS
<1>1. CASE Execute  BY <1>1, ExecuteInvariant
<1>2. CASE UNCHANGED allVars
  <2>1. UNCHANGED <<vars, stakeVars, withdraw_address, rewardsVars, calls, saved>>
        BY <1>2 DEF allVars, txVars
  <2>2. Sound'  BY <2>1, VarsUnchangedSound DEF Invariant
  <2>3. Snapshot' = Snapshot
        BY <2>1 DEF Snapshot, vars, stakeVars, configVars, ledgerVars, chainVars
  <2>4. CASE Idle  BY <2>1, <2>2, <2>3, <2>4, IdleInvariant DEF Invariant, Idle
  <2>5. CASE ~Idle
    <3>1. PICK m, s : m = saved.msg /\ s = saved.start  OBVIOUS
    <3>2. saved = [msg |-> m, start |-> s] /\ Settled(s) /\ Progress(m, s)
          BY <2>5, <3>1 DEF Invariant
    <3>3. /\ whitelist' = whitelist /\ delegations' = delegations /\ accrued' = accrued
          /\ rewards_balance' = rewards_balance /\ state' = state /\ staked' = staked
          /\ hub_balance' = hub_balance /\ config' = config /\ paused' = paused
          /\ admin' = admin /\ params' = params /\ supply' = supply
          /\ current_batch' = current_batch /\ rewards_paused' = rewards_paused
          /\ calls' = calls
          BY <2>1 DEF vars, stakeVars, configVars, ledgerVars, chainVars, rewardsVars
    <3>4. /\ Delegated' = Delegated /\ Compoundable(s)' = Compoundable(s)
          /\ ActualSupply' = ActualSupply
          BY <3>3 DEF Delegated, Compoundable, ActualSupply
    <3>5. Progress(m, s)'
          BY <2>3, <3>2, <3>3, <3>4
          DEF Progress, Starting, Startable, Moving, Collecting, Paying, Placed, Collected,
              Removing, CompoundingPossible, NotPaused, RewardsNotPaused, NothingAccrued,
              ProtocolFee, DeregisterMessages
    <3> QED  BY <2>1, <2>2, <2>5, <3>2, <3>5, RunningInvariant DEF Idle
  <2> QED  BY <2>4, <2>5
<1>3. ASSUME Idle PROVE Sound /\ Settled(Snapshot) /\ calls = <<>>
      BY <1>3 DEF Invariant, Idle
<1>4. CASE Idle /\ Submitted /\ UNCHANGED withdraw_address
      BY <1>3, <1>4, SubmitInvariant DEF Submitted, Startable
<1>5. CASE Idle /\ StakeMessage /\ UNCHANGED <<withdraw_address, calls>>
      BY <1>3, <1>5, RegisterSettled, BondToSettled, UnbondFromSettled, IdleInvariant
      DEF StakeMessage
<1>6. CASE Idle /\ StakeChain /\ UNCHANGED <<withdraw_address, calls>>
      BY <1>3, <1>6, SlashSettled, AccrueSettled, IdleInvariant DEF StakeChain
<1>7. CASE Idle /\ Elsewhere /\ UNCHANGED <<withdraw_address, calls>>
      BY <1>3, <1>7, ElsewhereSettled, IdleInvariant
<1>8. CASE Idle /\ RewardsMessage /\ UNCHANGED <<withdraw_address, calls>>
  <2>1. UNCHANGED <<vars, stakeVars>>  BY <1>8 DEF RewardsMessage
  <2>2. Sound'  BY <1>3, <1>8, <2>1, VarsUnchangedSound
  <2>3. Snapshot' = Snapshot
        BY <2>1 DEF Snapshot, vars, stakeVars, configVars, ledgerVars, chainVars
  <2>4. Settled(Snapshot')  BY <1>3, <1>8, <2>3
  <2> QED  BY <1>3, <1>8, <2>2, <2>4, IdleInvariant
<1>9. CASE Idle /\ (\E rc \in RewardsContracts : MigrateTo(rc)) /\ UNCHANGED calls
      BY <1>3, <1>9, MigrateSettled, IdleInvariant
<1> QED
  BY <1>1, <1>2, <1>4, <1>5, <1>6, <1>7, <1>8, <1>9 DEF CompoundingNext, txVars

(* The invariant holds in every reachable state.                           *)
LEMMA InvariantCorrect == CompoundingSpec => []Invariant
BY InitInvariant, NextInvariant, PTL DEF CompoundingSpec

(* The stake that the hub counts is always what its validators hold,       *)
(* through bonding, undelegation from any choice of validators, slashing,  *)
(* redelegation and compounding, and between the calls of a transaction.   *)
THEOREM StakeAlwaysSplit == CompoundingSpec => []StakeSplit
<1>1. Invariant => StakeSplit  BY DEF Invariant, Sound
<1> QED  BY <1>1, InvariantCorrect, PTL

(* Between transactions all stake is with whitelisted validators.          *)
THEOREM StakeAlwaysWhitelisted == CompoundingSpec => []StakeWhitelisted
<1>1. Invariant => StakeWhitelisted
      BY SettledParts DEF Invariant, StakeWhitelisted, Delegated
<1> QED  BY <1>1, InvariantCorrect, PTL

(* For any delegations and any claim within the stake, the loop of         *)
(* pick_validator undelegates exactly the claim, whatever it picks.        *)
THEOREM PicksAlwaysMeetClaim == CompoundingSpec => []PicksMeetClaim
<1>1. Invariant => PicksMeetClaim
  <2> SUFFICES ASSUME Invariant, NEW claim \in 0..staked
               PROVE  PickValidator(claim) = PickReference(claim)
      BY DEF PicksMeetClaim
  <2>1. delegations \in [Validators -> Nat] /\ staked \in Nat
        BY DEF Invariant, Sound, Books, TypeOK
  <2>2. claim \in Nat  BY <2>1
  <2> QED  BY <2>1, <2>2, PickMeetsReference
<1> QED  BY <1>1, InvariantCorrect, PTL

(* The outcome of a transaction is decided by the state it starts from.    *)
THEOREM OutcomeAlwaysForeseen == CompoundingSpec => OutcomeForeseen
<1> DEFINE Foreseen ==
      ~Idle /\ Idle' =>
       LET m == saved.msg
           s == saved.start
       IN IF ~Succeeds(m, s) THEN Snapshot' = s
          ELSE IF m.type = "DeregisterValidator" /\ s.delegations[m.validator] = 0
            THEN Snapshot' = [s EXCEPT !.whitelist = @ \ {m.validator}]
            ELSE /\ Compoundable(Snapshot)' = 0
                 /\ staked' = s.staked + Compoundable(s) - ProtocolFee(Compoundable(s))
                 /\ m.type = "DeregisterValidator"
                      => m.validator \notin whitelist' \cup Delegated'
<1>1. Invariant /\ [CompoundingNext]_allVars => [Foreseen]_allVars
  <2> SUFFICES ASSUME Invariant, CompoundingNext, ~Idle, Idle' PROVE Foreseen
      OBVIOUS
  <2>1. Execute  BY DEF CompoundingNext
  <2>2. PICK m, s : m = saved.msg /\ s = saved.start  OBVIOUS
  <2>3. /\ Sound /\ Settled(s) /\ Outcome(m, s)
        BY <2>1, <2>2, ExecuteStep DEF Invariant
  <2>4. CASE Undone(m, s)  BY <2>2, <2>4 DEF Undone
  <2>5. CASE Dropped(m, s)  BY <2>2, <2>5 DEF Dropped
  <2>6. CASE Compounded(m, s)
    <3> DEFINE funds == Compoundable(s)
               fee == ProtocolFee(funds)
               rc == config.rewards_contract
    <3>1. /\ config' = config /\ params' = params  BY <2>1, ExecuteKeeps DEF configVars
    <3>2. /\ Succeeds(m, s) /\ s \in SnapshotType /\ funds \in Nat /\ fee \in Nat
          /\ s.staked \in Nat /\ rc \in RewardsContracts /\ fee <= funds
      <4>1. TypeOK /\ rc \in RewardsContracts
            BY <2>3 DEF Sound, Books, TypeOK, ConfigTypeOK, ConfigType
      <4>2. funds \in Nat  BY <2>3, <4>1, CompoundableSum
      <4> QED  BY <2>3, <2>6, <4>1, <4>2, FeeTypes
               DEF Compounded, CompoundingPossible, Settled, SnapshotType
    <3>3. m.type = "DeregisterValidator" => s.delegations[m.validator] > 0
          BY <2>6 DEF Compounded
    <3>4. PICK t : t = [s EXCEPT !.staked = s.staked + (funds - fee)] /\ Placed(m, t)'
      <4>1. Placed(m, [s EXCEPT !.staked = s.staked + (funds - fee)])'
            BY <2>6 DEF Compounded
      <4>2. Compoundable(s)' = funds /\ ProtocolFee(funds)' = fee
            BY <3>1 DEF Compoundable, ProtocolFee
      <4> QED  BY <4>1, <4>2
    <3>5. t.staked = s.staked + (funds - fee) /\ t.whitelist = s.whitelist
          BY <3>2, <3>4 DEF SnapshotType
    <3>6. staked' = s.staked + funds - fee
      <4>1. staked' = s.staked + (funds - fee)  BY <3>4, <3>5 DEF Placed
      <4> HIDE DEF funds, fee
      <4> QED  BY <3>2, <4>1
    <3>7. m.type = "DeregisterValidator" => m.validator \notin whitelist' \cup Delegated'
      <4> SUFFICES ASSUME m.type = "DeregisterValidator"
                   PROVE  m.validator \notin whitelist'
          BY <3>4 DEF Placed
      <4>1. m # UpdateGlobalIndexMsg  BY DEF UpdateGlobalIndexMsg
      <4>2. Removing(m, t)'  BY <3>4, <4>1 DEF Placed
      <4>3. PICK sender \in StakeSenders, v \in Validators :
              m = DeregisterMsg(sender, v) /\ whitelist' = t.whitelist \ {v}
            BY <4>2 DEF Removing
      <4>4. m.validator = v  BY <4>3, DeregisterCall
      <4> QED  BY <4>3, <4>4
    <3>8. Compoundable(Snapshot)' = 0
      <4>1. /\ Snapshot'.delegations = delegations' /\ Snapshot'.accrued = accrued'
            /\ Snapshot'.rewards_balance = rewards_balance'
            BY DEF Snapshot
      <4> DEFINE D == {w \in Validators : delegations'[w] > 0}
                 part == [v \in D |-> accrued'[v]]
      <4>2. \A v \in D : accrued'[v] = 0  BY <2>6 DEF Compounded, NothingAccrued
      <4>3. IsFiniteSet(D)  BY CompoundingAssumption, FS_Subset
      <4>4. part \in [D -> Nat] /\ \A v \in D : part[v] = 0  BY <4>2
      <4> HIDE DEF D
      <4>5. SumOf(part) = 0
        <5> HIDE DEF part
        <5> QED  BY <4>3, <4>4, SumZero
      <4>6. rewards_balance'[rc] = 0  BY <2>6 DEF Compounded
      <4> QED  BY <3>1, <4>1, <4>5, <4>6 DEF Compoundable, D
    <3> QED  BY <2>2, <3>2, <3>3, <3>6, <3>7, <3>8
  <2> QED  BY <2>3, <2>4, <2>5, <2>6 DEF Outcome
<1>2. CompoundingSpec => [][Foreseen]_allVars
      BY <1>1, InvariantCorrect, PTL DEF CompoundingSpec
<1> QED  BY <1>2 DEF OutcomeForeseen

-----------------------------------------------------------------------------
(* Refinement of Hub                                                       *)

(* Hub's operators over the mapped variables are those over the variables  *)
(* themselves when no transaction runs.                                    *)
LEMMA SameSum == ASSUME NEW f PROVE H!SumOf(f) = SumOf(f)
BY DEF SumOf, MapThenSumSet, MapThenFoldSet,
       H!SumOf, H!MapThenSumSet, H!MapThenFoldSet

(* slashing().                                                             *)
LEMMA SameCorrection == ASSUME Idle PROVE H!AfterSlashing = AfterSlashing
BY DEF AfterSlashing, UpdatedRate, FromRatio, ActualSupply,
       H!AfterSlashing, H!UpdatedRate, H!FromRatio, H!ActualSupply

(* instantiate.                                                            *)
LEMMA MappedInit == CompoundingInit => H!Init
<1> SUFFICES ASSUME CompoundingInit PROVE H!Init  OBVIOUS
<1>1. Init /\ Idle  BY DEF CompoundingInit, Idle
<1> QED  BY <1>1 DEF Init, ConfigInit, BatchIds, H!Init, H!ConfigInit, H!BatchIds

(* CheckSlashing.                                                          *)
LEMMA MappedCheckSlashing ==
  ASSUME Idle, Idle', CheckSlashing PROVE H!CheckSlashing
BY SameCorrection
DEF CheckSlashing, NotPaused, configVars, chainVars,
    H!CheckSlashing, H!NotPaused, H!configVars, H!chainVars

(* Bond; what it may record is bounded less tightly in Hub.                *)
LEMMA MappedBond ==
  ASSUME Idle, Idle', Books, NEW payment \in BondAmounts, Bond(payment)
  PROVE  H!Bond(payment)
<1>1. H!AfterSlashing = AfterSlashing  BY SameCorrection
<1>2. /\ H!MintAmountWithFee(payment) = MintAmountWithFee(payment)
      /\ H!BondGap(payment) = BondGap(payment)
      /\ H!ActualSupply = ActualSupply
      BY <1>1
      DEF MintAmountWithFee, MintAmount, BondFee, BondGap, Lesser, MulDec, FromRatio,
          DecimalDivision, ActualSupply,
          H!MintAmountWithFee, H!MintAmount, H!BondFee, H!BondGap, H!Lesser, H!MulDec,
          H!FromRatio, H!DecimalDivision, H!ActualSupply
<1>3. AfterSlashing.total_bond_amount + payment <= MaxStake + MaxRewards
  <2>1. /\ AfterSlashing.total_bond_amount \in Nat /\ payment \in Nat
        /\ MaxStake \in Nat /\ MaxRewards \in Nat
        BY HubAssumption, CompoundingAssumption, CorrectedBelow
  <2>2. AfterSlashing.total_bond_amount + payment <= MaxStake  BY DEF Bond
  <2> QED  BY <2>1, <2>2
<1>4. \A b, n : H!UpdatedRate(b, n) = UpdatedRate(b, n)
      BY DEF UpdatedRate, FromRatio, H!UpdatedRate, H!FromRatio
<1>5. \A a, b : H!MulDec(a, b) = MulDec(a, b)  BY DEF MulDec, H!MulDec
<1> QED
  BY <1>1, <1>2, <1>3, <1>4, <1>5
  DEF Bond, NotPaused, configVars, H!Bond, H!NotPaused, H!configVars

(* Unbond.                                                                 *)
LEMMA MappedUnbond ==
  ASSUME Idle, Idle', NEW user \in Users, NEW amount \in UnbondAmounts,
         Unbond(user, amount)
  PROVE  H!Unbond(user, amount)
<1>1. H!AfterSlashing = AfterSlashing  BY SameCorrection
<1>2. /\ H!AmountWithFee(amount) = AmountWithFee(amount)
      /\ H!UnbondGap = UnbondGap /\ H!Requested(amount) = Requested(amount)
      /\ H!UnbondRate(amount) = UnbondRate(amount)
      /\ H!UndelegationAmount(amount) = UndelegationAmount(amount)
      /\ H!EpochPassed = EpochPassed
      BY <1>1
      DEF AmountWithFee, UnbondFee, UnbondGap, Requested, UnbondRate, Lesser, MulDec,
          FromRatio, UpdatedRate, UndelegationAmount, EpochPassed, ActualSupply,
          H!AmountWithFee, H!UnbondFee, H!UnbondGap, H!Requested, H!UnbondRate,
          H!Lesser, H!MulDec, H!FromRatio, H!UpdatedRate, H!UndelegationAmount,
          H!EpochPassed, H!ActualSupply
<1>3. JoinBatch(amount) => H!JoinBatch(amount)
      BY <1>1, <1>2 DEF JoinBatch, H!JoinBatch
<1>4. CloseBatch(amount) => H!CloseBatch(amount)
      BY <1>1, <1>2 DEF CloseBatch, NextBatch, Put, H!CloseBatch, H!NextBatch, H!Put
<1> QED
  BY <1>1, <1>2, <1>3, <1>4
  DEF Unbond, NotPaused, WithinSupply, configVars,
      H!Unbond, H!NotPaused, H!WithinSupply, H!configVars

(* The chain's steps and administration.                                   *)
LEMMA MappedOther ==
  ASSUME Idle, Idle'
  PROVE  /\ \A loss : SlashStake(loss) => H!SlashStake(loss)
         /\ \A interval : EndBlock(interval) => H!EndBlock(interval)
         /\ \A amount : Donate(amount) => H!Donate(amount)
         /\ Administer => H!Administer
<1>1. ASSUME NEW loss, SlashStake(loss) PROVE H!SlashStake(loss)
      BY <1>1 DEF SlashStake, configVars, ledgerVars,
                  H!SlashStake, H!configVars, H!ledgerVars
<1>2. ASSUME NEW amount, Donate(amount) PROVE H!Donate(amount)
      BY <1>2 DEF Donate, configVars, ledgerVars, H!Donate, H!configVars, H!ledgerVars
<1>3. ASSUME NEW interval, EndBlock(interval) PROVE H!EndBlock(interval)
  <2>1. H!Due = Due  BY DEF Due, H!Due
  <2>2. H!SumOf([b \in Due |-> unbonding[b].amount])
          = SumOf([b \in Due |-> unbonding[b].amount])
        BY SameSum
  <2> QED  BY <1>3, <2>1, <2>2 DEF EndBlock, configVars, ledgerVars,
                                   H!EndBlock, H!configVars, H!ledgerVars
<1>4. ASSUME Administer PROVE H!Administer
  <2>1. H!ConfigNext
        BY <1>4 DEF Administer, ConfigNext, Pause, Unpause, UpdateAdmin, UpdateConfig,
                    UpdateParams, NotPaused, TokenUpdatable, ParamFields,
                    H!ConfigNext, H!Pause, H!Unpause, H!UpdateAdmin, H!UpdateConfig,
                    H!UpdateParams, H!NotPaused, H!TokenUpdatable, H!ParamFields
  <2> QED  BY <1>4, <2>1 DEF Administer, ledgerVars, chainVars,
                             H!Administer, H!ledgerVars, H!chainVars
<1> QED  BY <1>1, <1>2, <1>3, <1>4

(* What Hub sees of a step: nothing if its mapped variables stay.          *)
LEMMA MappedUnchanged ==
  ASSUME UNCHANGED <<configVars, current_batch, wait_list, history, supply,
                     unbonding, now>>,
         NEW record, NEW stake, NEW balance,
         record = IF Idle THEN state ELSE saved.start.state,
         stake = IF Idle THEN staked ELSE saved.start.staked,
         balance = IF Idle THEN hub_balance ELSE saved.start.hub_balance,
         record = IF Idle' THEN state' ELSE saved'.start.state,
         stake = IF Idle' THEN staked' ELSE saved'.start.staked,
         balance = IF Idle' THEN hub_balance' ELSE saved'.start.hub_balance
  PROVE  UNCHANGED H!vars
BY DEF configVars, H!vars, H!configVars, H!ledgerVars, H!chainVars

(* The last call of a compounding transaction is Hub's UpdateGlobalIndex.  *)
LEMMA MappedCompounding ==
  ASSUME ~Idle, NEW m, NEW s, Sound, Settled(s), saved = [msg |-> m, start |-> s],
         Execute, Compounded(m, s)
  PROVE  \E reward \in 1..MaxRewards : H!UpdateGlobalIndex(reward)
<1> DEFINE funds == Compoundable(s)
           fee == ProtocolFee(funds)
<1>1. saved.start = s /\ Idle'  BY DEF Compounded
<1>2. UNCHANGED <<configVars, current_batch, wait_list, history, supply,
                  unbonding, now>>
      BY ExecuteKeeps
<1>3. /\ NotPaused /\ config.token_contract # None /\ fee <= funds /\ ActualSupply > 0
      /\ s.staked > 0
      /\ fee > 0 => config.protocol_fee_collector # None
      /\ funds > 0 /\ hub_balance' = s.hub_balance
      /\ state' = [s.state EXCEPT
           !.exchange_rate = s.state.exchange_rate + FromRatio(funds - fee, ActualSupply),
           !.total_bond_amount = s.state.total_bond_amount + (funds - fee)]
      BY DEF Compounded, CompoundingPossible
<1>4. config.rewards_contract \in RewardsContracts /\ TypeOK
      BY DEF Sound, Books, TypeOK, ConfigTypeOK, ConfigType
<1>5. funds \in Nat /\ funds <= Rewards(s) /\ Rewards(s) \in Nat
      BY <1>4, CompoundableSum
<1>6. fee \in Nat  BY <1>4, <1>5, FeeTypes
<1>7. staked' = s.staked + (funds - fee)
  <2>1. PICK t : t = [s EXCEPT !.staked = s.staked + (funds - fee)] /\ Placed(m, t)'
    <3>1. Placed(m, [s EXCEPT !.staked = s.staked + (funds - fee)])'
          BY DEF Compounded
    <3>2. Compoundable(s)' = funds /\ ProtocolFee(funds)' = fee
          BY <1>2 DEF Compoundable, ProtocolFee, configVars
    <3> QED  BY <3>1, <3>2
  <2>2. t.staked = s.staked + (funds - fee)  BY <2>1 DEF Settled, SnapshotType
  <2> QED  BY <2>1, <2>2 DEF Placed
<1>8. /\ s.state.total_bond_amount \in Nat /\ Rewards(s) <= MaxRewards
      /\ Rewards(s) > 0 =>
           s.state.total_bond_amount + Rewards(s) <= MaxStake + MaxRewards
      BY DEF Settled, SnapshotType, StateType
<1>9. MaxStake \in Nat /\ MaxRewards \in Nat
      BY HubAssumption, CompoundingAssumption
<1>10. /\ H!ProtocolFee(funds) = fee /\ H!ActualSupply = ActualSupply
       /\ H!FromRatio(funds - fee, ActualSupply) = FromRatio(funds - fee, ActualSupply)
       /\ H!NotPaused
       BY <1>3 DEF ProtocolFee, MulDec, ActualSupply, FromRatio, NotPaused,
              H!ProtocolFee, H!MulDec, H!ActualSupply, H!FromRatio, H!NotPaused
<1> HIDE DEF funds, fee
<1>11. s.state.total_bond_amount + (funds - fee) <= MaxStake + MaxRewards
       BY <1>3, <1>5, <1>6, <1>8, <1>9
<1>12. funds \in 1..MaxRewards  BY <1>3, <1>5, <1>8, <1>9
<1>13. H!UpdateGlobalIndex(funds)
       BY <1>1, <1>2, <1>3, <1>7, <1>10, <1>11
       DEF H!UpdateGlobalIndex, H!configVars, configVars
<1> QED  BY <1>12, <1>13

(* A call of a transaction is a step of Hub or none.                       *)
LEMMA MappedExecute ==
  ASSUME Invariant, Execute
  PROVE  H!Next \/ UNCHANGED H!vars
<1>1. PICK m, s : m = saved.msg /\ s = saved.start  OBVIOUS
<1>2. /\ Sound /\ Settled(s) /\ saved = [msg |-> m, start |-> s] /\ Outcome(m, s)
      /\ ~Idle
      BY <1>1, ExecuteStep DEF Invariant, Execute, Idle
<1>3. UNCHANGED <<configVars, current_batch, wait_list, history, supply,
                  unbonding, now>>
      BY ExecuteKeeps
<1>4. CASE ~Idle' /\ saved' = saved  BY <1>2, <1>3, <1>4, MappedUnchanged
<1>5. CASE Undone(m, s) \/ Dropped(m, s)
  <2>1. Idle' /\ state' = s.state /\ staked' = s.staked /\ hub_balance' = s.hub_balance
    <3>1. s \in SnapshotType  BY <1>2 DEF Settled
    <3>2. /\ Idle' /\ Snapshot'.state = s.state /\ Snapshot'.staked = s.staked
          /\ Snapshot'.hub_balance = s.hub_balance
          BY <1>5, <3>1 DEF Undone, Dropped, SnapshotType
    <3> QED  BY <3>2 DEF Snapshot
  <2> QED  BY <1>1, <1>2, <1>3, <2>1, MappedUnchanged
<1>6. CASE Compounded(m, s)
      BY <1>2, <1>6, MappedCompounding DEF H!Next, H!Message
<1> QED  BY <1>2, <1>4, <1>5, <1>6 DEF Outcome

(* Every step is a step of Hub, a migration, or none.                      *)
LEMMA StepMapped ==
  ASSUME Invariant, [CompoundingNext]_allVars
  PROVE  \/ H!Next
         \/ H!ConfigMigrate /\ UNCHANGED <<H!ledgerVars, H!chainVars>>
         \/ UNCHANGED H!vars
<1>1. CASE Execute  BY <1>1, MappedExecute
<1>2. CASE UNCHANGED allVars
      BY <1>2 DEF allVars, vars, txVars, configVars, ledgerVars, chainVars, Idle,
                  H!vars, H!configVars, H!ledgerVars, H!chainVars
<1>3. CASE Idle /\ Submitted
  <2>1. PICK m : Submit(m)  BY <1>3 DEF Submitted
  <2>2. /\ calls' = <<m>> /\ saved' = [msg |-> m, start |-> Snapshot] /\ UNCHANGED vars
        BY <2>1 DEF Submit
  <2>3. ~Idle'  BY <2>2, Sequences DEF Idle
  <2>4. /\ saved'.start.state = state /\ saved'.start.staked = staked
        /\ saved'.start.hub_balance = hub_balance
        BY <2>2, SnapshotFields
  <2> QED  BY <1>3, <2>2, <2>3, <2>4, MappedUnchanged
           DEF vars, configVars, ledgerVars, chainVars
<1>4. CASE /\ Idle /\ UNCHANGED calls
           /\ \/ \E sender \in StakeSenders, v \in Validators : RegisterValidator(sender, v)
              \/ \E v \in Validators, amount \in Accruals : Accrue(v, amount)
              \/ RewardsMessage
  <2>1. UNCHANGED vars /\ Idle'
        BY <1>4 DEF RegisterValidator, Accrue, RewardsMessage, Idle
  <2> QED  BY <1>4, <2>1, MappedUnchanged DEF vars, configVars, ledgerVars, chainVars
<1>5. CASE /\ Idle /\ UNCHANGED calls
           /\ \/ \E payment \in BondAmounts, v \in Validators : BondTo(payment, v)
              \/ \E user \in Users, amount \in UnbondAmounts : UnbondFrom(user, amount)
              \/ \E v \in Validators, loss \in StakeSlashes : SlashValidator(v, loss)
              \/ Elsewhere
  <2>1. Idle' /\ Books  BY <1>5 DEF Idle, Invariant, Sound
  <2>2. \/ \E payment \in BondAmounts : Bond(payment)
        \/ \E user \in Users, amount \in UnbondAmounts : Unbond(user, amount)
        \/ \E loss \in StakeSlashes : SlashStake(loss)
        \/ CheckSlashing \/ Administer
        \/ \E interval \in BlockIntervals : EndBlock(interval)
        \/ \E amount \in Donations : Donate(amount)
        BY <1>5 DEF BondTo, UnbondFrom, SlashValidator, Elsewhere
  <2> QED  BY <1>5, <2>1, <2>2, MappedBond, MappedUnbond, MappedCheckSlashing,
              MappedOther
           DEF H!Next, H!Message, H!Chain
<1>6. CASE Idle /\ UNCHANGED calls /\ \E rc \in RewardsContracts : MigrateTo(rc)
  <2>1. Idle'  BY <1>6 DEF Idle
  <2> QED  BY <1>6, <2>1
           DEF MigrateTo, Migrate, ledgerVars, chainVars,
               H!ConfigMigrate, H!Migrate, H!ledgerVars, H!chainVars
<1> QED
  BY <1>1, <1>2, <1>3, <1>4, <1>5, <1>6
  DEF CompoundingNext, StakeMessage, StakeChain, txVars

(* The calls of the hub, the rewards contract and the chain implement Hub: *)
(* every transaction is one step of Hub or none, for any interleaving with *)
(* the other messages, any choice of validators and any amounts.           *)
THEOREM HubAlwaysImplemented == CompoundingSpec => HubImplemented
<1> DEFINE HubStep ==
      H!Next \/ (H!ConfigMigrate /\ UNCHANGED <<H!ledgerVars, H!chainVars>>)
<1>1. Invariant /\ [CompoundingNext]_allVars => [HubStep]_(H!vars)
      BY StepMapped
<1>2. CompoundingSpec => H!Init /\ [][HubStep]_(H!vars)
      BY <1>1, MappedInit, InvariantCorrect, PTL DEF CompoundingSpec
<1> QED  BY <1>2 DEF HubImplemented

-----------------------------------------------------------------------------
(* Administration, with transactions that run call by call                 *)

(* A transaction sent to a paused hub gets nowhere; the other messages and *)
(* the chain's steps are Hub's.                                            *)
LEMMA StepFreezesCalls ==
  ASSUME Invariant, [CompoundingNext]_allVars
  PROVE  Frozen
<1> SUFFICES ASSUME paused, paused'
             PROVE  /\ UNCHANGED <<ledgerVars, supply>> /\ staked' <= staked
                    /\ hub_balance' >= hub_balance
    BY DEF Frozen
<1>1. TypeOK /\ staked \in Nat /\ hub_balance \in Nat
      BY DEF Invariant, Sound, Books, TypeOK
<1>2. ~NotPaused /\ ~NotPaused'  BY DEF NotPaused
<1>3. CASE Execute
  <2>1. PICK m, s : m = saved.msg /\ s = saved.start  OBVIOUS
  <2>2. Progress(m, s) /\ Outcome(m, s)
        BY <1>3, <2>1, ExecuteStep DEF Invariant, Execute, Idle
  <2>3. Snapshot = s
        BY <1>2, <2>2 DEF Progress, Starting, Moving, Collecting, Paying, Removing, Placed
  <2>4. \/ Snapshot' = s
        \/ Snapshot' = [s EXCEPT !.whitelist = @ \ {m.validator}]
        BY <1>2, <2>2
        DEF Outcome, Undone, Dropped, Compounded, Progress, Starting, Moving, Collecting,
            Paying, Removing, Placed
  <2>5. /\ s.state = state /\ s.staked = staked /\ s.hub_balance = hub_balance
        /\ DOMAIN s = DOMAIN Snapshot
        BY <2>3, SnapshotFields
  <2>6. /\ Snapshot'.state = s.state /\ Snapshot'.staked = s.staked
        /\ Snapshot'.hub_balance = s.hub_balance
        BY <2>3, <2>4 DEF Snapshot
  <2>7. UNCHANGED <<state, staked, hub_balance>>
        BY <2>5, <2>6 DEF Snapshot
  <2>8. UNCHANGED <<current_batch, wait_list, history, supply>>  BY <1>3, ExecuteKeeps
  <2> QED  BY <1>1, <2>7, <2>8 DEF ledgerVars
<1>4. CASE UNCHANGED vars
      BY <1>1, <1>4 DEF vars, ledgerVars, chainVars
<1>5. CASE Next
  <2>1. Frozen  BY <1>1, <1>5, StepFreezes
  <2> QED  BY <2>1 DEF Frozen
<1>6. CASE \E rc \in RewardsContracts : MigrateTo(rc)
      BY <1>1, <1>6 DEF MigrateTo, ledgerVars, chainVars
<1>7. CASE Submitted \/ RewardsMessage \/ UNCHANGED allVars
  <2>1. UNCHANGED vars  BY <1>7 DEF Submitted, Submit, RewardsMessage, allVars
  <2> QED  BY <1>4, <2>1
<1>8. CASE StakeMessage \/ StakeChain \/ Elsewhere
  <2>1. Next \/ UNCHANGED vars
        BY <1>8 DEF StakeMessage, StakeChain, Elsewhere, RegisterValidator, BondTo,
                    UnbondFrom, SlashValidator, Accrue, Next, Message, Chain
  <2> QED  BY <1>4, <1>5, <2>1
<1> QED  BY <1>3, <1>6, <1>7, <1>8 DEF CompoundingNext

(* A pause of the hub stops a transaction at its first call, whichever     *)
(* message it starts with, before any coin is moved or recorded.           *)
THEOREM PauseAlwaysStopsCalls == CompoundingSpec => PausedFreezes
<1>1. Invariant /\ [CompoundingNext]_allVars => [Frozen]_vars  BY StepFreezesCalls
<1>2. CompoundingSpec => [][Frozen]_vars
      BY <1>1, InvariantCorrect, PTL DEF CompoundingSpec
<1> QED  BY <1>2 DEF PausedFreezes, Frozen

(* Neither calls nor migrations, in whatever order, take away the token    *)
(* contract or the fee collector that the calls of a transaction need.     *)
THEOREM CallsNeverUnset == CompoundingSpec => NeverUnset
<1>1. ASSUME Invariant, [CompoundingNext]_allVars PROVE [AddressesKept]_configVars
  <2>1. ConfigTypeOK  BY <1>1 DEF Invariant, Sound, Books, TypeOK
  <2>2. CASE ConfigNext \/ ConfigMigrate  BY <2>1, <2>2, StepKeepsAddresses
  <2>3. CASE UNCHANGED configVars  BY <2>3
  <2>4. CASE Execute  BY <2>3, <2>4, ExecuteKeeps
  <2>5. CASE UNCHANGED vars  BY <2>3, <2>5 DEF vars
  <2>6. CASE \E rc \in RewardsContracts : MigrateTo(rc)
        BY <2>2, <2>6 DEF MigrateTo, ConfigMigrate
  <2>7. CASE Submitted \/ RewardsMessage \/ UNCHANGED allVars
        BY <2>5, <2>7 DEF Submitted, Submit, RewardsMessage, allVars
  <2>8. CASE StakeMessage \/ StakeChain \/ Elsewhere
    <3>1. Next \/ UNCHANGED vars
          BY <2>8 DEF StakeMessage, StakeChain, Elsewhere, RegisterValidator, BondTo,
                      UnbondFrom, SlashValidator, Accrue, Next, Message, Chain
    <3>2. CASE Next
      <4>1. Administer \/ UNCHANGED configVars
            BY <3>2 DEF Next, Message, Chain, CheckSlashing, Bond, Unbond,
                        WithdrawUnbonded, WithdrawUpTo, PayOut, UpdateGlobalIndex,
                        EndBlock, SlashStake, SlashUnbonding, Donate
      <4> QED  BY <2>2, <2>3, <4>1 DEF Administer
    <3> QED  BY <2>5, <3>1, <3>2
  <2> QED  BY <1>1, <2>4, <2>6, <2>7, <2>8 DEF CompoundingNext
<1>2. CompoundingSpec => [][AddressesKept]_configVars
      BY <1>1, InvariantCorrect, PTL DEF CompoundingSpec
<1> QED  BY <1>2 DEF NeverUnset, AddressesKept
=============================================================================
