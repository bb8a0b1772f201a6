------------------------------- MODULE Claims -------------------------------
(***************************************************************************)
(* What unbonding promises, without the bookkeeping: a request joins the   *)
(* open batch; batches are closed one after the other and released in that *)
(* order, each at one rate that never changes; whoever withdraws is paid   *)
(* all his requests in released batches, at their rates, and they are      *)
(* gone.                                                                   *)
(***************************************************************************)
EXTENDS Naturals

CONSTANTS
  Users,
  Batches,      \* numbers of the batches requests can be made in
  Value(_, _),  \* coins for an amount at a rate
  SumOf(_)      \* sum of a function's values

VARIABLES
  asked,    \* what each user asked for and was not paid, by batch
  open,     \* the batch requests join
  released, \* the last released batch
  rates,    \* the rates of the released batches
  coins     \* coins there are to pay with

claimVars == <<asked, open, released, rates, coins>>

Init ==
  /\ asked = [u \in Users |-> [b \in Batches |-> 0]]
  /\ open = 1
  /\ released = 0
  /\ rates = [b \in 1..0 |-> 0]
  /\ coins = 0

(* A request of any size, which may be the last one of its batch.          *)
Ask(user) ==
  /\ open \in Batches
  /\ asked'[user][open] >= asked[user][open]
  /\ asked' = [asked EXCEPT ![user][open] = asked'[user][open]]
  /\ open' \in {open, open + 1}
  /\ UNCHANGED <<released, rates, coins>>

(* What the released batches owe a user.                                   *)
Due(user, last, rate) ==
  SumOf([b \in 1..(open - 1) |->
           IF b <= last THEN Value(asked[user][b], rate[b]) ELSE 0])

(* The batches up to last are released, and the user is paid.              *)
Pay(user) ==
  \E last \in released..(open - 1) :
    /\ released' = last
    /\ rates' \in [1..last -> Nat]
    /\ \A b \in 1..released : rates'[b] = rates[b]
    /\ Due(user, last, rates') \in 1..coins
    /\ coins' = coins - Due(user, last, rates')
    /\ asked' = [asked EXCEPT ![user] =
                   [b \in Batches |-> IF b <= last THEN 0 ELSE asked[user][b]]]
    /\ UNCHANGED open

Receive ==
  /\ coins' >= coins
  /\ UNCHANGED <<asked, open, released, rates>>

Next == (\E user \in Users : Ask(user) \/ Pay(user)) \/ Receive

ClaimsSpec == Init /\ [][Next]_claimVars
=============================================================================
