----------------------------- MODULE HubQueries -----------------------------
(***************************************************************************)
(* The hub's queries that compute something: what a user could withdraw,   *)
(* and the pages of the history.                                           *)
(***************************************************************************)
EXTENDS Hub

CONSTANTS DefaultLimit, MaxLimit  \* DEFAULT_LIMIT and MAX_LIMIT of state.rs

ASSUME QueryAssumption == DefaultLimit \in Nat \ {0} /\ MaxLimit \in Nat \ {0}

-----------------------------------------------------------------------------
(* Faulty variants of the definitions below, which the properties must     *)
(* tell from the real ones.                                                *)
FinishedNow(b) == history[b].time < now
AfterInclusive(start) == {b \in DOMAIN history : start # None => b >= start}
-----------------------------------------------------------------------------

(* query_get_finished_amount compares times strictly.                      *)
FinishedBefore(b) == history[b].time < now - params.unbonding_period

(* query_withdrawable_unbonded: released or not, a batch counts at the     *)
(* rate the history has for it.                                            *)
WithdrawableUnbonded(user) ==
  SumOf([b \in DOMAIN history |->
           IF FinishedBefore(b)
             THEN MulDec(wait_list[user][b], history[b].withdraw_rate) ELSE 0])

(* The keys of a page follow the given batch.                              *)
AfterStart(start) == {b \in DOMAIN history : start # None => b > start}

(* all_unbond_history: the first batches after start, at most the limit.   *)
AllUnbondHistory(start, limit) ==
  LET lim == Lesser(IF limit = None THEN DefaultLimit ELSE limit, MaxLimit)
  IN {b \in AfterStart(start) :
        Cardinality({k \in AfterStart(start) : k <= b}) <= lim}

-----------------------------------------------------------------------------
(* The query promises no more than a withdrawal made now would pay, except *)
(* for the coins that are missing, which it does not look at, and for      *)
(* rounding: three coins per batch it would release, and one for every     *)
(* 10^18 requested in it.  And it promises no less, except for coins in    *)
(* excess, for batches that ripen in this very second, for those released  *)
(* before the period was raised, and for one that undelegated nothing.     *)
QueryHonest ==
  LET total == TotalUnbonded
      slashed == FromSubtraction(total, ActualUnbonded)
      released == ReleasedHistory(total, slashed)
      short == IF slashed.negative THEN 0 ELSE slashed.value
      excess == IF slashed.negative THEN slashed.value ELSE 0
      ripe == now - params.unbonding_period
      counted(b) == IF history[b].released THEN history[b].time < ripe
                    ELSE history[b].time # ripe
      rounding == SumOf([b \in MaturedBatches |-> 3 + history[b].amount \div One])
  IN
  now >= params.unbonding_period /\ Processable(total, slashed) =>
    \A u \in Users :
      /\ WithdrawableUnbonded(u) <= FinishedAmount(u, released) + short + rounding
      /\ EveryBatchUndelegated /\ (\A b \in DOMAIN history : counted(b)) =>
           FinishedAmount(u, released) <= WithdrawableUnbonded(u) + excess

(* Page n of the history, each page starting after the last batch of the   *)
(* one before.                                                             *)
Page(limit) ==
  LET page[n \in 1..MaxBatch] ==
        IF n = 1 THEN AllUnbondHistory(None, limit)
        ELSE IF page[n - 1] = {} THEN {}
        ELSE AllUnbondHistory(Max(page[n - 1]), limit)
  IN page

(* Reading page after page shows every batch once, whatever the limit.     *)
PagesComplete ==
  \A limit \in 1..(MaxLimit + 1) \cup {None} :
    /\ UNION {Page(limit)[n] : n \in 1..MaxBatch} = DOMAIN history
    /\ \A m, n \in 1..MaxBatch :
         m # n => Page(limit)[m] \cap Page(limit)[n] = {}
=============================================================================
