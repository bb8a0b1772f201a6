# A TLA+ model of the Prism auto-compounding cAsset contracts

The repository holds two CosmWasm contracts. The **hub** takes coins, delegates
them to validators and issues tokens for them at an exchange rate; it burns
tokens, undelegates in batches and pays the coins out after the chain's
unbonding time; and it compounds staking rewards into the exchange rate. The
**rewards contract** receives the staking rewards and hands them to the hub.
This directory models both contracts and the parts of the chain they use, checks
the models with TLC on small instances and proves the central properties with
TLAPS for every value of the parameters.

## 1. Inventory

| component | state | operations | talks to |
|---|---|---|---|
| hub: administration (`contract.rs`, `config.rs`, `utility.rs`, `migration.rs`) | `ADMIN`, `PAUSE`, `CONFIG`, `PARAMETERS` | instantiate, Pause, Unpause, UpdateAdmin, UpdateConfig, UpdateParams, migrate | every other message reads the pause switch, the addresses and the parameters |
| hub: exchange rate and batches (`bond.rs`, `unbond.rs`, `contract.rs`) | `STATE`, `CURRENT_BATCH`, `PREFIX_WAIT_MAP`, `UNBOND_HISTORY_MAP` | Bond, Receive/Unbond, CheckSlashing, WithdrawUnbonded | queries delegations, token supply and its balance; emits delegate, undelegate, mint, burn and bank messages |
| hub: compounding (`autho_compounding.rs`, `contract.rs`) | `STATE` | UpdateGlobalIndex, UpdateExchangeRate | chain's distribution module, rewards contract, fee collector |
| hub: validators (`config.rs`, `state.rs`, `unbond.rs`) | `VALIDATORS` | RegisterValidator, DeregisterValidator, `pick_validator` | staking module |
| rewards contract | `ADMIN`, `PAUSE`, `CONFIG`, its balance | ProcessRewards, Pause, Unpause, UpdateAdmin | called by the hub, calls it back |
| arithmetic (`math.rs`, `signed_integer.rs`, `hub.rs`) | none | `decimal_division`, `from_subtraction`, `update_exchange_rate` | |
| bignumber (`bignumber/src/math.rs`) | none | `Decimal256`, `Uint256`, conversions to and from 128 bits and strings | three helpers of the hub's `math.rs` |
| queries (`contract.rs`, `state.rs`) | none | withdrawable coins, pages of the history, plain reads | |
| chain: staking, distribution, bank, blocks (external) | delegations, unbonding entries, rewards, balances, time | delegate, undelegate, redelegate, pay, slash | |
| tests, mock queriers, schema | none | | |

Nothing runs concurrently inside a contract; what is hard is the order of
messages of many senders with the steps of the chain in between. A transaction
is atomic: an error or a panic anywhere, in the messages it emits included,
undoes it. Slashing is seen late, coins arrive at a time the hub does not
control, releases are computed from balance differences, and every conversion
rounds. `PROJECT.json` lists these hazards, each at its line, with the
properties that watch it.

What makes the components correct:

* *exchange rate*: the recorded stake covers all tokens at the recorded rate
  whatever slashing is unseen; nobody is diluted by another's message; the peg fee
  takes no more than the peg needs; a batch can always be undelegated;
* *batches and withdrawals*: requests add up; batches are closed and released
  in order; claims do not change once closed; a release is worth what arrived;
  what is released can be paid to everyone in any order; ripe requests get paid;
* *validators and compounding*: stake is only with whitelisted validators; a claim
  is undelegated exactly, whichever validators are drawn; a compounding transaction
  takes every reward or leaves no trace, and rewards do not wait for ever;
* *arithmetic*: results are the exact ones rounded in the stated direction, or a
  failure, never another number;
* *queries*: what is announced is what a withdrawal pays;
* *administration*: a pause stops every change of the ledger; the token
  contract is registered once; needed addresses are never lost; parameters are
  within their limits.

## 2. Modules

| module | models |
|---|---|
| `FixedPoint` | `Uint128`, `Decimal` and the repository's helpers, with every rounding. A Decimal is its number of atomics |
| `BigNumber` (extends it) | the bignumber package and the hub's helpers that compute through it |
| `HubConfig` (extends `FixedPoint`) | the administrative state and messages, and migration |
| `Hub` (extends `HubConfig`) | the ledger: bonding, unbonding, release, compounding, slashing, and the chain |
| `Claims` | an abstract ledger: what unbonding promises to users |
| `HubClaims` (extends `Hub`) | the refinement mapping from `Hub` to `Claims` |
| `HubQueries` (extends `Hub`) | the queries that compute something |
| `Compounding` (extends `Hub`) | hub, rewards contract and validators call by call, and the refinement mapping to `Hub` |
| `MCHubConfig`, `MCHub`, `MCCompounding`, `MCNumbers` | constants for TLC; `MCNumbers` also the exact references of the arithmetic |
| `FixedPointTheorems` | lemmas about the arithmetic and about sums over finite sets |
| `HubProofs` | theorems about `Hub` and its administration |
| `HubClaimsProofs` | its refinement of `Claims`, and that requests add up |
| `HubSolvencyProofs` | what the hub owes and what it keeps to pay it |
| `HubReleaseProofs` | what released batches are worth when withdrawals come in time |
| `HubQueriesProofs` | the pages of the history, and the query of withdrawable coins |
| `CompoundingProofs` | theorems about `Compounding` and its refinement of `Hub` |
| `NumbersProofs` | the arithmetic of `BigNumber`, for every scale and width |

### How state and actions correspond to the code

`state`, `current_batch`, `history`, `wait_list`, `config`, `params`, `admin`
and `paused` are the storage items of the same name, with the code's field
names. `state` leaves out `second_exchange_rate`,
`principle_balance_before_exchange_update` and `last_index_modification`, which
no handler reads. A request missing from the wait list is 0 in `wait_list`.
`supply`, `staked`, `unbonding`, `hub_balance` and `now` are the chain state the
hub queries.

In `Hub` an action is one transaction. The code's checks, early returns, checked
subtractions and panics are its guards; the messages the handler emits are part
of it. Thus `Bond` delegates and mints (the token contract refuses a mint of
zero), `Unbond` is the token's Send with the hub's hook, the undelegation and
the burn, `WithdrawUnbonded` releases and pays, and `UpdateGlobalIndex` runs
through the rewards contract back into `execute_update_exchange_rate`.
`slashing()` is the operator `AfterSlashing`: the state the rest of the handler
works on. `process_withdraw_rate`'s first loop is `MaturedBatches` (the unbroken
run of ripe batches after the last processed one), its second
`ReleasedHistory`; `Processable` holds the panics and errors of the second loop.

`Compounding` opens up what `Hub` takes as one number and one step. `whitelist`
is `VALIDATORS`; `delegations` and `accrued` are the hub's stake and rewards with
each validator; `rewards_balance`, `rewards_paused` and `rewards_admin` are the
state of each rewards contract (two, since migration names another);
`withdraw_address` is set by instantiate and migrate. A transaction that
compounds is a list `calls` of messages, run one per step: `Emit` puts the
messages of a call before those that follow it, as the chain does, `Accepts` is
what each handler checks, and `Revert` restores `saved`, the state the
transaction started from, when a call fails. `PickValidator` is the set of
outcomes of `pick_validator`'s loop over all its random choices, and a delegation
of compounded rewards goes to any validator the hub delegates to. The staking
module pays a delegation's rewards to the withdraw address whenever the
delegation changes (`Settle`). Between transactions the other messages are
`Hub`'s actions with their effect on the validators. Withdrawals and slashing of
unbonding coins are left out of `Compounding`: they touch neither stake nor
rewards, and `Hub` has them.

In `BigNumber` a panic or an error is the result `None`; a string is the sequence
of its parts between dots, a part the sequence of its digits, so that parsing and
printing are the code's algorithms. A `U256` is four limbs.

External parts are modelled as the hub uses them. `EndBlock` pays the entries
that are complete after a block's transactions and moves time on. `SlashStake`
and `SlashUnbonding` take a loss and leave something: a slashing that leaves
nothing of the whole delegation is outside the model, and so is the dust the
staking module loses in converting shares. `Donate` is a plain transfer to the
hub.

Abstractions: token holders are not told apart, since tokens are transferable and
the hub reads only the supply; the hub starts as instantiated, or as after its
first UpdateConfig; `InitialSupply <= InitialBond`, since instantiate sets the
rate to one and mints nothing. Migration is an action of `HubConfig` and of
`Compounding`, not of `Hub`: after it another token contract may be registered,
whose supply is another one.

### Refinements

`HubImplemented`: with a running transaction seen as not yet begun (`state`,
`staked` and `hub_balance` map to the saved ones while calls are left), every
behaviour of `Compounding` is one of `Hub`: the last call of a compounding
transaction is Hub's `UpdateGlobalIndex`, a reverted one is nothing, and
migration is the one step `Hub` lacks and the property allows in addition.

`ClaimsImplemented`: `wait_list`, the open batch, the last released one, the
released rates and the hub's balance are the variables of `Claims`, whose steps
are asking (which may close the batch), paying (which may release batches first)
and receiving coins.

## 3. Runs

`One` and `Frac` are 100 and 10 instead of 10^18 and 10^9, with
`One = Frac * Frac` as in the code: rounding is a hundredth, so roundings that
take billions of coins in reality happen at ten.

| run | shows | bounds |
|---|---|---|
| `hub_rates` | `TypeOK`, `RateBacked`, `StakeRecorded`, `UndelegationCovered`, `RateKept`, `PegNotOvershot`, `PausedFreezes` | one user (requests of different users are the same to the rate), one sender of administrative messages, peg fee 0.5, protocol fee 0.4, stake up to 9, one batch to close; bonds, burns, rewards, slashings and pauses in every order give rates below and above one |
| `hub_batches` | `BatchesInOrder`, `RequestsConserved`, `Solvent`, `ShortfallBounded`, `ReleaseFunded`, `ReleaseAccurate`, `ClaimsFrozen`, `ClaimsImplemented`, `QueryHonest`, `PagesComplete` | two interchangeable users, three batches, slashing of unbonding coins, stray transfers; time enough to release three batches together or one by one; pages of up to two batches |
| `hub_liveness` | `EventuallyPaid` | two users, two batches, compounding in between |
| `compounding_stake` | `StakeSplit`, `StakeWhitelisted`, `PicksMeetClaim`, `HubImplemented`, `OutcomeForeseen` | two validators, registered and deregistered at any time, stake up to 5 split and slashed unevenly, half of the rewards as fee |
| `compounding_calls` | `HubImplemented`, `OutcomeForeseen`, `RewardsCompounded`, `NeverUnset`, `PausedFreezes` | two rewards contracts with an admin and a pause switch each, migration between them, no fee collector at first, a fee raised above the rewards, an account that calls the internal messages |
| `numbers` | `DivisionClose`, `StringsExact`, `HelpersExact`, `WideExact`, `RatioRoundTrip` | all pairs of 8-bit Decimals with two digits; U256 has 16 bits in four limbs of 4 |

Time bounds (`MaxTime`), batches (`MaxBatch`) and amounts (`MaxStake`,
`MaxSupply`, `MaxBalance`, `MaxRewards`) are guards; at `MaxTime` only time stops,
and administrative or ledger steps go on. `MaxBatch` is the number of batches
requests can be made in; 3 is one more than needed for a batch to be skipped or
released between two others. Two validators are enough for `pick_validator` to
empty one and split the other, and for a removed validator to be drawn instead of
its replacement; a third one costs the room for fees, slashing and undelegation
together.
The widths of `numbers` keep the code's proportions: a product of two Decimals
always fits into U256, and a sum or a product of amounts may not fit into half
of it.

`Solvent`, `ReleaseFunded` and `ReleaseAccurate` are checked where they can hold:
with an unbonding period one block longer than the chain's, so that coins arrive
before the batch is ripe and not earlier than the block before. `ReleaseFunded`
speaks of histories in which every batch undelegated something, and
`ReleaseAccurate` allows two coins of rounding per batch and one more for every
10^18 tokens in it. With a shorter
period and slashing, a batch can be released before any coin has arrived; its loss
is then all of it and one coin more, and the absolute value the code takes makes
that coin a claim on nothing. So `Solvent` needs `ReleaseFunded` (section 4), and
leaves out histories with a batch that undelegated nothing; `ShortfallBounded`
needs neither. Both depend on the proportion of One to the amounts: a batch's
weight is rounded down to a multiple of 1/One and one coin is added to its loss,
which covers the rounding as long as what is released together, times the number
of its batches, is within One (`SharesDistinct`; 10^18 in the code, and 90 of 100
at most in this run).
`RateKept` allows the rate to fall to its value cut to Frac fractions, because
`decimal_division` cuts the divisor: with a rate of 1.0000000005 a payment of
2 * 10^9 mints 2 * 10^9 tokens, one more than "a / b".
`QueryHonest` compares the query of withdrawable coins, which uses the rate at
closing and a strict comparison of times, with the withdrawal it announces: it is
off by the coins that are missing or in excess, by rounding (three coins per batch
and one for every 10^18 requested in it), and by the batches that ripen in that very
second or were released before the period was raised. That a withdrawal pays no more
than announced is not claimed while a batch that undelegated nothing is on its way:
`from_subtraction` may give it a coin.

Fairness. `FairSpec` (`hub_liveness`): blocks keep coming, which the chain
provides, and a user keeps sending WithdrawUnbonded while it would succeed.
Nothing is assumed of other users, so no fairness closes a batch: a request waits
until somebody unbonds after the epoch, and `EventuallyPaid` starts with a closed
batch. Stray transfers and slashings are left out of that run: the first make a
release fail (below), the second may leave a claim worth nothing.
`CompoundingFairSpec` (`compounding_calls`): a transaction that was begun runs to
its end (weak fairness; the chain executes or undoes it within a block), and
somebody's UpdateGlobalIndex, which anybody may send at any time, is included
although other messages come before it (strong fairness, since it is not enabled
while another transaction runs). Nothing is assumed of admins.

### Disagreements found

| run | what happens |
|---|---|
| `config_params` | `validate_params` builds its errors but never returns them |
| `config_migration` | migration clears `token_contract_registered`, so the token can be replaced |
| `hub_forgotten_arrivals` | a withdrawal that releases nothing drops the arrivals it saw, because `actual_unbonded_amount` is set to zero; the batch they belong to is later released as slashed. Needs an unbonding period longer than the chain's, which is accepted |
| `hub_early_release` | with a period equal to the chain's, a batch is ripe in the block at whose end its coins arrive; released with an older batch, it shares that batch's coins, and its own are credited to nobody |
| `hub_zero_batch` | a batch worth 0 coins is closed; the check excludes only 1. Ripe alone, it makes `from_ratio(0, 0)` panic |
| `hub_rogue_transfer` | one coin sent to the hub, shared over two batches, makes `checked_sub(1)` fail for every withdrawal until the difference changes |

## 4. Proofs

The theorems are about `Spec` of `Hub` and `CompoundingSpec` of `Compounding` (one
is about `ConfigSpec` of `HubConfig`, five about all pairs of numbers of
`MCNumbers`): any finite sets of users and validators, any amounts, parameters and
administrative messages, any bounds, scales and widths. They rest on the
assumptions `FixedPointAssumption` (10^18 is a multiple of 10^9),
`ConfigAssumption`, `HubAssumption` and `CompoundingAssumption` (types and
finiteness of the constants; amounts are positive; the initial supply does not
exceed the initial bond) and `BigNumberAssumption` (a U256 has twice the bits of a
Uint128, and its half holds One), which TLC evaluates in every run that extends
these modules.

### The rate, batches and administration

* `TypeCorrect`: `TypeOK` is inductive by itself; one lemma per action.
* `RateAlwaysBacked`, `StakeAlwaysRecorded`, `UndelegationAlwaysCovered`: the
  inductive invariant is `Books == TypeOK /\ RateBacked /\ StakeRecorded`. Neither
  part is inductive alone: burning recomputes the rate as stake over supply, which
  is covered only if tokens are left only while stake is
  (`UpdatedRateBacked`); and undelegation is within the stake only because the
  rate is. `UnbondCovered` is the heart: the undelegation, rounded down, fits into
  the stake and leaves enough for the rest.
* `RateAlwaysKept`: from `Books`; minting divides by the truncated rate
  (`DecimalDivisionBounds`), so the new stake covers the new supply at that rate,
  and `from_ratio` returns the greatest covered rate (`FromRatioGreatest`).
* `BatchesAlwaysInOrder`: the invariant `Order == TypeOK /\ BatchesInOrder`; time
  never runs back, and a release covers exactly the run after the last processed
  batch, even if the period is changed in between.
* `ClaimsAlwaysFrozen`: from `Order`, since a request joins the batch numbered one
  after the history.
* `ClaimsAlwaysImplemented`: `Hub` implements `Claims`. The initial states map to
  initial states; with `Order` as invariant, an unbonding is an asking
  (`UnbondAsks`), a withdrawal pays what the abstract ledger owes at the rates it
  releases (`WithdrawPays`), and every other step receives coins or leaves the
  ledger alone (`OtherReceives`).
* `PegNeverOvershot`: the fee is at most the gap between tokens and stake, so after
  the mint or the burn there are still at least as many tokens, those of the open
  batch included, as there is stake, and `RateAtMostOne` bounds the rate.
* `AddressesNeverUnset`, `PauseAlwaysFreezes`: no invariant is needed beyond the
  types; one case per message.
* `PagesAlwaysComplete`: the pages are shown to be the intervals of `limit` batches
  (`NthPage`), which divide the history.
* `QueryAlwaysHonest`: the invariant `Requests /\ Undelegated`. A request of a matured
  batch is promised the rate at closing and paid the rate at release; the two differ
  by the batch's share of the coins missing (`PromiseKept`) or in excess
  (`PromiseExceeded`), three roundings and one coin per 10^18 requested, since a
  request is no larger than its batch (`MaturedHonest`); and the shares of all batches
  stay within the coins missing or in excess (`SharesWithin`). `TimesOrdered` and `RipeMatured` relate the two comparisons of
  times. Trying to prove a first bound, two coins per batch, showed it too small for
  amounts larger than those of the run.

### Sums

`SumOf` folds a set in the order CHOOSE gives. Its lemmas in `FixedPointTheorems`
(a sum of naturals is one, a sum with a changed value, the sum of two functions,
monotonicity, sums that differ on a part of the domain, a sum of `c * f[x] + k`,
exchanging two sums) say what does not depend on that order. An induction scheme with an operator as parameter cannot be
instantiated by the provers, so each induction over the subsets of a set takes the
set of counterexamples instead and looks at one of least cardinality
(`LeastNatural`, `SubsetInduction`).

* `RequestsAlwaysConserved`: the invariant `Requests == Order /\ RequestsConserved`;
  an unbonding adds to one request and to the batch, a withdrawal removes requests
  from released batches only.

### Solvency

`ShortfallAlwaysBounded` and `AlwaysSolvent` follow the coins through
`process_withdraw_rate`. Let the matured batches be worth `u[b]`, `t` together, and
let `x` coins have arrived since the last withdrawal.

1. `ReleaseValue`: whether coins are missing, in excess or as expected, a batch is
   released with a *fair part* `w` of them, `One * t * w <= One * x * u[b] + k` with
   `k < (t - x) * t` the error of the roundings, or with one coin more if `x` or
   `u[b]` is zero (the absolute value of `from_subtraction`).
2. `SharesFit`: the fair parts of a release add up to at most `x`, if the errors of
   all batches stay below one coin; that is `SharesDistinct`.
3. `PaymentsFit`: paid one by one at the batch's rate, its requests cost no more
   than its value.
4. `OwesByBatch` turns the sum over users of what a wallet is owed into the sum over
   batches of what a batch owes; `ReleaseOwes`, `PaymentOwes` and `CloseOwes` say how
   each kind of step changes it, and `ReleaseCosts` puts 1 to 4 together.
5. `WithdrawOwes`: the hub is short by at most one coin more for every batch it
   releases, and by no more than before if coins have arrived and every batch was
   worth one.

`Balances` (requests add up, nothing is carried in `actual_unbonded_amount`,
`prev_hub_balance` is within the balance) and `Undelegated` (an undelegated batch is
worth at least a coin until its release) complete the inductive invariants
`Shortfall` and `SolventInv`. The hypothesis on the scale is discharged by
`SharesAlwaysDistinct` from bounds on the constants (`MaxBatch * MaxBatch * MaxStake`
within One: with 10^18, a hundred batches in a stake of a hundred million coins of a
million units each), which the constants of `hub_batches` satisfy. `AlwaysSolvent`
keeps the hypothesis `[]ReleaseFunded`: the code does not wait for the coins of a
batch. The lemma behind it, `SolventFollows`, needs it only at withdrawals
(`WithdrawsFunded`), which the next section uses.

### Releases in time

`process_withdraw_rate` credits whatever came in since the last withdrawal to the
batches that are ripe now, and a withdrawal that releases nothing forgets it. So a
batch can miss its own coins when a withdrawal falls between the moment it is paid and
the moment it is ripe, whichever comes first: ripe before paid is `hub_early_release`,
paid before ripe `hub_forgotten_arrivals`. `ReleaseFundedInTime`,
`ReleaseAccurateInTime` and `SolventInTime` say that these two are the only causes of a
wrong release. Nothing is assumed of the constants: block times, the chain's unbonding
time and the period are arbitrary, and the administrator may change the period at any
time. The hypothesis is about the behaviour: `WithdrawalsInTime` says that a withdrawal
is made only while `InTime` holds, that is, while of the undelegated batches not yet
released exactly the paid ones are ripe. The code does not enforce it. With the period
equal to the chain's unbonding time, which is the limit of `utility.rs:37`, it excludes
withdrawals in the very block in which an entry completes; with a longer period, those
between the payment and the end of the period. In `hub_batches`, where the period ends
one block after the payment, every withdrawal is in time. Slashing, stray transfers and
the order of all other messages are arbitrary.

The inductive invariant is `Timely`: the balances add up (`Balances`), and `InStep`
relates the history to the chain's entries:

1. `Settled`: the entry of a released batch was paid;
2. `Priced`: an entry holds some of what the batch was promised at closing;
3. what was paid for batches not yet released (`Pending`) is within the balance change
   the next withdrawal will measure (`ActualUnbonded`);
4. `Accurate`: the batches released so far are worth what was paid for them.

None of 1, 3 and 4 is inductive alone. A withdrawal resets the balance change, which
keeps 3 only because every batch that was paid is ripe and thus released by it
(`InTime`); the release it makes is accurate (`ReleaseInStep`, `ReleasedCovered`) only
because the coins of its batches have come and are among those counted, which is
`InTime` and 3; and a slashing leaves what was released alone because it spares paid
entries, which is 1. `ReleaseCovers` is the arithmetic of one release, `CoversUnion`
adds it to the earlier ones. The proof showed a first bound of `ReleaseAccurate`, two
coins per batch, too small: a value stored as a rate per token loses one more coin for
every 10^18 tokens (`ValueKept`).

### Compounding

The inductive invariant `Invariant` (its part `Progress`) has a case for every list of calls a running
transaction can have: what has been withdrawn, what each remaining call will find,
and that the state it started from was settled (`Settled`: stake adds up and is with
whitelisted validators). A removed validator's stake is about to be redelegated in
full while the list says so.

* `StakeAlwaysSplit`, `StakeAlwaysWhitelisted` are parts of it.
* `PicksAlwaysMeetClaim`: both inclusions between `pick_validator`'s loop, a
  recursive function on the set of validators not yet drawn, and its reference.
* `OutcomeAlwaysForeseen`: a transaction that ends has either run out of calls, and
  the part for the last call gives its sums, or failed at a call whose condition is
  the corresponding conjunct of `Succeeds`.
* `HubAlwaysImplemented`: the last call of a transaction is `Hub`'s
  `UpdateGlobalIndex` with all that was compounded as reward, the other calls are
  stutters, and the other actions are `Hub`'s by their first conjunct.
* `PauseAlwaysStopsCalls`, `CallsNeverUnset`: what holds of `Hub` and `HubConfig` step
  by step also holds call by call. A transaction can be sent to a paused hub; by
  `Progress` it is then still at its first call, and every outcome of that call leaves
  the ledger and the coins as they were.

### Numbers

`DivisionAlwaysClose`, `RatiosAlwaysRoundTrip`, `WideAlwaysExact`,
`StringsAlwaysExact` and `HelpersAlwaysExact` hold for all numbers of a Uint128, of any
width and scale. The first has a lower bound tighter than that of its three roundings
one by one: the divisor's truncation outweighs them.

The strings need powers of ten, which are the recursive function `PowerOfTen`. Its
equation is not free: the definition chooses some function that satisfies it, so
`PowersExist` builds one and `PowersUnique` says that two agree, each by a least
counterexample. The rest is about digits: `Digit(n, k)` is the digit of weight 10^k.

1. `DigitsSum`: the digits of `n` below `m`, times their weights, add up to `n` if
   `n < 10^m`; hence `from_dec_str` reads what `to_string` writes (`DigitsExact`).
2. `Padding` and `StringWritten`: what Display writes after the dot are the digits of
   the fraction from the first place on, up to the last that is not zero.
3. `TrailingZeros` and `FractionRead`: however many of the zeros at the end are written,
   the digits read as a number, times `fractional_factor`, are the fraction. So parsing
   gives the number back (`PartsRead`, `WholeRead`), also with zeros appended
   (`ZerosAppended`) up to `Digits` of them, and fails beyond (`TooManyDigits`).
4. `NarrowExact`: the assertion on the upper limbs fails exactly for numbers that are
   no Uint128; with 3, the three helpers are exact.

### Only model-checked

* `EventuallyPaid` and `RewardsCompounded`: liveness and its fairness are out of the
  prover's reach.

Every invariant and every other action property of a passing run is proved; of those,
`ReleaseFunded` (at withdrawals), `ReleaseAccurate` and `Solvent` under the hypotheses
given above.

## 5. Not modelled

* Plain reads (config, state, parameters, whitelist, current batch, a user's
  requests), serialisation, response attributes, formatting; tests and mocks.
* Of bignumber: `percent`, `permille`, `from_uint256`, `zero`, `one` and the
  operators by reference, which are one-line constructors around the modelled ones.
* Of the chain: the limits on redelegations in a row and on unbonding entries,
  gas, and validators that leave the active set.

Seen while modelling, without a run of their own: the comment of
`autho_compounding.rs:13` says "Only hub_contract is allowed to execute", the code
checks for the rewards contract, which is what the protocol needs; the doc of
bignumber's `from_str` lists `""` as disallowed, the code and a test accept it as
zero; coins that are still in a rewards contract when the hub migrates to another
one stay there, since only the hub's current contract is asked to hand over.

## 6. Plan

Done, in this order: `FixedPoint`, `HubConfig`, `Hub`, their runs and proofs;
`Compounding` with the validators; `Claims` and its refinement; the queries;
`BigNumber`; the proofs of the refinements, of the sums, of solvency, of the
compounding transactions and of the numbers; the releases in time and the strings.

What could come next: the limits of the staking module on redelegations and
unbonding entries.
