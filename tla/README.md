# A verification development for cfd

cfd is a C++ library that builds bitcoin and Elements (Liquid) transactions on
top of cfdcore, which does serialization, keys, scripts and signatures. The
decisions cfd itself takes are which coins to spend, what fee to pay, what
change to make, and how to put signatures on an input. This directory models
these in TLA+, checks the models with TLC on small instances and proves what
matters most of them with TLAPS. Paths below are those of the repository;
`utxo.cpp` stands for `src/cfd_utxo.cpp` and so on.

## The system

| Component | State it keeps | Operations | Models |
|---|---|---|---|
| Branch and bound search (`cfd_utxo.cpp` 570-721) | the branch, three running totals, the best selection | `SelectCoinsBnB` | `BnB` |
| Knapsack solver (`cfd_utxo.cpp` 723-895) | groups of coins, the best subset | `KnapsackSolver`, `ApproximateBestSubset` | `Knapsack` |
| Coin selection (`cfd_utxo.cpp` 230-568) | the working area in every `Utxo`, amounts by asset, fees so far | `SelectCoins` (bitcoin, assets), `SelectCoinsMinConf` | `CoinSelection` |
| Fee calculation (`cfd_fee.cpp`, `cfd_utxo.cpp` 111-128) | the rate | `GetFee`, dust threshold | `Fee`, `FeeLaws` |
| Funding, bitcoin (`cfdapi_transaction.cpp` 205-422) | the transaction being built | `FundRawTransaction`, `EstimateFee` | `FundBitcoin` |
| Funding, Elements (`cfdapi_elements_transaction.cpp` 547-962) | the transaction, amounts and surplus by asset | `FundRawTransaction`, `EstimateFee` | `FundElements` |
| Signing of an input (`cfdapi_transaction_base.cpp`, part of `cfd_transaction.cpp`) | unlocking script and witness stack | `AddMultisigSign`, `AddSign`, `UpdateWitnessStack` | `MultisigSign` |
| TransactionController | a transaction | adds and removes inputs and outputs, sets unlocking scripts and witnesses | what signing uses, in `MultisigSign` |
| ConfidentialTransactionController and the calls of `ElementsTransactionApi` (`cfd_elements_transaction.cpp`, `cfdapi_elements_transaction.cpp` 91-131, 252-545) | the transaction between two calls, the caller's output vectors | create, peg in and out, issue, reissue, fund, blind, unblind | `RawTransaction` |
| Conversion of coins (`cfdapi_coin.cpp`, `cfd_utxo.cpp` 897-1070) | the caller's `Utxo` structure | `ConvertToUtxo`, twice | `CoinConversion` |
| `CfdManager` | initialized, finalized, a handle | `Initialize`, `Finalize` | no |
| HD wallet calls (`cfdapi_hdwallet.cpp` 116-308) | none; a holder's keys go in and come out | derivation, public and plain keys | `ExtKeys`, `KeyAuthority` |
| Key and address calls and factories | - | checks around cfdcore | no |

How they interact: an application calls a funding function, which estimates a
fee, calls `SelectCoins`, and computes change and fee from its output
parameters. `SelectCoins` runs `SelectCoinsMinConf` once for each asset, the
fee asset last, and charges it with the fees of the others' coins.
`SelectCoinsMinConf` filters the coins, writes fees into them, tries the branch
and bound search and falls back to the knapsack solver. Signing calls take and
return a whole transaction, so that one input is changed by a sequence of
calls of several parties. Nothing in the modelled part runs concurrently, and
nothing is persisted; the callers' `Utxo` objects are not changed either, as
selection works on a copy.

What is hard here is not interleaving but long loops with running totals that are
never recomputed (the two searches), working areas written by one algorithm and
read by the next, quantities that are estimated before and used after a
transaction has grown, places noted before outputs are appended, comparisons one
satoshi apart (target, dust, minimal change, rounding), random choices a test
sees once, and a list that is erased from while it is iterated. `PROJECT.json`
lists these hazards line by line with the properties aimed at them.

## The modules

- **Sums** - sums of amounts over lists and over the coins a list of flags
  takes, as recursive functions; **Coins** - the fields of `Utxo` that the
  algorithms read, and the orders `std::sort` may leave.
- **BnB** - `SelectCoinsBnB`. One action is one turn of the `for` loop:
  `Abandon` (a hopeless branch), `Record` (a solution), both of which walk back
  to the last coin taken, `Include` and `Skip` (forwards). `Reject`, `Sort`,
  `GiveUp` (out of tries) and `Return` are what surrounds the loop. The
  variables have the source's names; `complete` is added and tells a loop that
  ended by `break` from one that ran out of tries.
- **Knapsack** - `KnapsackSolver` scans the pool coin by coin (`ExactCoin`,
  `ApplicableCoin`, `LargerCoin`), then `ApproximateBestSubset` runs once or
  twice (`NewRepetition`, `PassOver`, `IncludeCoin`, `ReachGoal`, `EndPass`)
  and the results are weighed (`EndFirstCall`, `EndSecondCall`, `TakeLarger`,
  `TakeSubset`). A random bit is either value. Coins are positions in the pool.
- **SelectionContract** - the abstract specification of both: one answer, worth
  what is needed after the coins' own fees, with amounts and fees reported that
  are those of one and the same set of coins; a refusal only of a pool that is
  worth too little. `BnB` and `Knapsack` are checked to implement it
  (`KeepsContract`, by `INSTANCE ... WITH`).
- **CoinSelection** - `SelectCoins` in both its forms with `SelectCoinsMinConf`.
  The two searches are single steps that answer whatever `SelectionContract`
  allows, so that the properties hold of any searches that keep it. `work` is the
  working area in the `Utxo`s: it starts with leftovers of an earlier call.
- **SelectPromise**, **SelectCoinsContract** - what `SelectCoins` owes its caller: which
  coins may answer a call (`Answers`: each asset's coins pay its target, the fee
  asset's also the transaction and the spending of everybody's coins), and when it
  may refuse (`Refuses`: a malformed call, an asset that is short). The contract is
  one step with this promise; `CoinSelection` implements it (`KeepsContract`), and
  the two funding functions select by the same `Answers` and `Refuses`. The layers
  are thus connected from below upwards: BnB and Knapsack implement
  SelectionContract, CoinSelection is built on it and implements
  SelectCoinsContract, FundBitcoin and FundElements are built on SelectPromise.
- **Fee** - rates, fees, rounding, the dust threshold; **FeeLaws** - a
  transaction that grows, or whose rate rises, and what callers expect of fees.
- **FundBitcoin**, **FundElements** - the two funding functions from `Init` (the
  call) to `done` or `throw`, one action for each part between two decisions.
  Sizes and amounts are numbers of a few units; an input listed by the caller
  is in the transaction or is not. Selection is one step, which answers or
  refuses as SelectPromise says. The fee reported is `estimate_fee`, in FundElements
  as it is when a call returns: what a call that throws has left in the output
  parameter is left out.
- **RawTransaction** - an Elements transaction as a caller builds it by calls in any
  order: created (with a pegout or pegins), issued and reissued on, funded, blinded,
  unblinded. `tx` is the caller's transaction, `ctxc` the controller a call works
  on, which is returned or, when the call throws, lost; the loops over lists are one
  turn an action, since a throw comes in the middle of them. `SetAssetIssuance`,
  `UnblindTxOut` and `UnblindIssuance` are such turns, and each also pushes what it
  has done into the caller's vector (`Report`), where a throw does not take it back.
  `Throw` stands for every `throw` of the calls, the controller's and cfdcore's
  included: that it leaves `tx` as it was is how the code is built, a call working
  on a controller of its own, and no property claims to show it. Every output remembers
  the place it was made at (`made_at`), as callers do who blind by place. The
  coins that funding selects are any, as FundElements is about them. After the write
  out of range in `BlindTransaction` nothing more is said (`pc = "wild"`).
- **CoinConversion** - both `ConvertToUtxo`s, filling a structure that may have
  been used before; `CoinSelection`'s is three functions (by descriptor, by locking
  script, and with an asset, which is copied whatever it is).
- **MultisigSign** - calls on one input. `AddMultisigSign` sorts signatures by
  the keys of the script, erasing from the list it iterates over, one loop turn
  an action (`Place`, `PassOver`, `NextPubkey`, ...); `AddSign` and
  `UpdateWitnessStack` are one step each.
- **ExtKeys** - `HDWalletApi`: a holder of seeds and extended keys calls it with any
  key it has got so far; one action for each call that can return a key (a call
  that throws changes nothing). A key is its seed, version, kind and path, as
  derivation itself is cfdcore's. **KeyAuthority** - the abstract specification:
  what a set of keys entitles its holder to. Derived keys are judged by the keys
  held at first, not by the key the call was given; `KeepsAuthority` says that
  `ExtKeys` implements it.
- **MC...** - instances for TLC. **...Proofs** - proofs, of the module of the name;
  **SumsProofs** holds the lemmas on sums that the others share, **FundBitcoinProofs**
  also has the laws of fees it builds on (FeeLaws), **WalletProofs** the proofs of
  ExtKeys and MultisigSign. Hence the `Fee...` and `Key...` in the names of the
  specifications FeeLaws and ExtKeys, which stand beside another one there.

## What is checked

| Run | States | What it shows |
|---|---|---|
| MCBnB | 26 000 | all pools of up to four coins of two sizes and three amounts, targets 0-9. The running totals are those of the branch (`RunningTotals`), what is recorded pays and exceeds by no more than `cost_of_change` (`BestIsSolution`), a tree walked to its end gives the least waste in spite of cutting and skipping, and gives a selection whenever there is one (`BestIsLeastWaste`), no branch is entered twice, a tree of n coins takes fewer than 2^(n+1) turns (`WalkCompletes`), and `SelectionContract` is kept. |
| MCKnapsack | 74 000 | all pools of up to three coins in every order, targets 0-8, every outcome of the random bits: the sum is that of the coins included, the subset pays, no small change when a larger coin is at hand, termination, `SelectionContract`. |
| MCCoinSelection | 668 000 | bitcoin and up to two assets, wallets of up to three coins, every answer the searches may give: the fee asset pays for everyone (`FeesArePaid`), and every call ends as `SelectCoinsContract` allows (`KeepsContract`): the coins of each asset pay its target, amounts and fee reported are those of the coins returned although the working area has been through two algorithms, and an asset is refused only for a reason. |
| MCFundBitcoin | 268 000 | inputs = wanted + change + fee reported, but for the dust boundary (`Balanced`); the fee pays for the finished transaction (`FeeIsSufficient`); inputs cover what was wanted. |
| MCFundElements | 299 000 | inputs cover what was wanted of every asset collected and the fee, also after the fee asset was selected again (`InputsCoverOutputs`); no part of the coins is lost (`NothingIsLost`); without change the fee asset balances to the satoshi (`ChangelessBalances`). |
| MCRawTransaction | 2 209 000 | four calls of any kind: a lock time stays in force through inputs added by the caller and by funding (`LocktimeInForce`), an output is blinded by its own key or not at all and a fee never (`KeysOnTheirOutputs`), funding writes the fee where the fee output is although it noted the place before outputs were appended (`FeeOutputIsFound`), and every issuance made and every output or issuance opened that a call hands over is in the caller's vectors (`ChangesAreTold`): a throw may leave them telling of more than was done, never of less. |
| MCMultisigSign | 261 000 | two calls of any kind and two scripts, lists of up to four signatures: each signature is placed once (`NoSignatureLost`); for a script without a key twice, signatures that can be placed as `CHECKMULTISIG` wants them are, and those that name no key follow in the order given (`SignaturesInKeyOrder`); refusal only for a foreign key, the erasing loops end; with `clear_stack`, the witness is exactly the last call's. |
| MCExtKeys | 22 000 | three calls on any keys held by then: the keys got are those that the first ones entitle to (`KeepsAuthority`), and a call for the key's network is refused only when the key does not lead there (`RefusedOnlyIfForbidden`). |
| MCFeeLaws | 201 000 | all rates below 4096 and sizes up to 12: fees only rise as a transaction or its rate does (`FeeOnlyRises`), an output that is not dust pays for its spending. |

Every property of these runs fails for at least one plausible change of the code
(`mutants` in `PROJECT.json`; the changed operators stand before the ones they
change, named `..._<change>`).

### Disagreements between code and documentation

Three runs show a comment or declaration that the code does not keep; the
findings in `PROJECT.json` quote both sides.

- **MCFundElementsChange** (`ChangeIsSurplus`) - with change of the fee asset the
  fee is not subtracted from the surplus (762, 896): change and fee output
  together exceed the inputs by the fee.
- **MCFundBitcoinDust** (`NothingIsLost`) - a surplus of exactly the dust amount is
  neither change nor part of the fee reported.
- **MCCoinConversionReuse** (`OnlyOfThisCoin`) - `memset(utxo, 0, sizeof(utxo))` clears
  as many bytes as a pointer has; a structure used again keeps sizes, script
  length or asset of the coin before.

Eleven further formulas of the modules state what a comment or declaration says
and fail in the same way. They have configurations but are not among the
project's runs (`tlc -config <name>.cfg <module>` shows the counterexample; the
module is the one that the name begins with):

| Configuration, formula | Said at | What the code does |
|---|---|---|
| MCBnBRounding, `SkippedCoinHasSameWaste` | `cfd_utxo.cpp:685` | the long term fee is rounded by itself, so coins of the same value and fee may differ in waste by 1 |
| MCKnapsackChange, `LeastChangeIsKept` | `cfd_utxo.h:370` | the second search, for the least change, is kept only if its total is smaller than the first's (813), which without luck it never is |
| MCCoinSelectionKey, `BitcoinKeyIsAccepted` | `cfd_utxo.h:252` | the empty key declared for bitcoin is thrown at (`cfd_utxo.cpp:339`) |
| MCFundBitcoinChangeless, `ChangelessIsAccepted` | `cfdapi_transaction.cpp:364` | a selection that pays without a change output is refused for the fee with one |
| MCFundBitcoinRate, `FeeRateIsMinimum` | `cfdapi_transaction.h:211` | with a target below the outputs the fee is not estimated with the coins selected |
| MCFundElementsMatch, `MatchAppendsNothing` | `cfdapi_elements_transaction.cpp:739, 770` | an asset that matches keeps its whole amount in the map and gets an output of it once another asset has change |
| MCCoinSelectionOther, `OtherAssetsIgnoreFees` | `cfd_utxo.cpp:405` | an asset that pays no fee is refused because of its inputs' fees when the first search finds nothing |
| MCFundElementsRate, `FeeRateIsMinimum` | `cfdapi_elements_transaction.h:503` | the fee output is the estimate made before any coin was selected, below the rate |
| MCMultisigSignRepeated, `SignaturesAligned` | `cfdapi_transaction_base.h:94` | in a script that has a key twice, all signatures of the key are placed at its first turn: given in the right order K2, K1, K2 they are put as K2, K2, K1, which `CHECKMULTISIG` refuses (`SignaturesInKeyOrder` is the same formula for scripts without a key twice) |
| MCRawTransactionFee, `FeeAssetsAreKept` | `cfdapi_elements_transaction.cpp:564` | the fee asset is compared with the asset of the first fee output and written into the last |
| MCFundElementsListed, `PaidAssetNeedsNoCoins` | `cfdapi_elements_transaction.cpp:667` | the amounts of the listed inputs are summed up and never used |

### Bounds

Named in the cfgs. `MaxTries` (100000 in the code) is 15: that is exactly enough
for every tree of three coins, and some pools of four run out of it, so that both
ends of the loop occur. Amounts and sizes are chosen so that fees differ, are rounded
up to 1 and are truncated, that coins are equal in value with different fees and
the reverse, and that targets fall below, on and above every sum and every
threshold. `Iterations` of the knapsack solver is 1: a repetition starts from
nothing, so that more of them only offer more subsets, and any one repetition
already may find any subset. Wallets are listed in one order where selection
takes any subset anyway. The width of the rate (2^32) is the constant `RateLimit`,
4096 in MCFeeLaws and 65536 elsewhere, as TLC computes with 32 bits.
`MaxSigns` (15) is 3, so that longer lists are refused; two calls are enough for one
to meet what another has left. In MCExtKeys `Hardened` (2^31) is 2, so that there are
two child numbers of each kind; paths are up to two steps below the root, by one
call or by several, and five holdings start with a seed, private keys, public keys
and keys of both versions.

In MCRawTransaction `MaxCalls` is 4, which is enough for creating, two calls that
append or issue, and blinding or funding what they have left; `MaxTxOuts` is 5, and
`MaxSequence` (2^32-1) is 3, so that there are sequences beside the final one and
the one below it. The three modules on selection and funding use amounts and fees
such that a coin is worth less than, as much as and more than its fee, and targets
that single coins hit, miss by 1 and exceed.

### Fairness

Only that a call that has started keeps running: `WF_vars(Next)` in `BnB` and
`Knapsack`, `WF_vars(Running)` in `MultisigSign`. The code is straight-line and
single-threaded and waits for nothing. Nothing is assumed of the random bits:
`Finishes` holds for all of them. Callers need not make calls.

## What is proved

All of it holds for every value of the constants under the assumptions the modules
name: amounts and sizes are natural numbers, `long_term_fee` is at most `fee` (as
`SelectCoinsMinConf` clamps it), lists have the types of the source. Every invariant,
action property and refinement that a passing run checks is the statement of a
theorem; the inductive invariants were checked by TLC on the same instances first.

- **SumsProofs**: how `SumTo` and `SelSum` behave when a selection is extended, cut
  back, padded, joined or taken through a list of positions, and when coins are
  rearranged. `SumTo` is a recursive function; its equations are proved from the
  existence of partial sums.
- **BnBProofs**: `TypeCorrect` (no `Amount` of the search goes below zero),
  `TotalsCorrect`, `BestCorrect`, `BestIsOptimal`, `IndexCorrect`, `BranchesCorrect`
  and `ContractKept`. The inductive invariant `IInv` adds to the checked
  invariants that the sorted pool still consists of such coins, that nothing
  is selected before the sort, and that the pool can pay. `TypeOK` alone is not
  inductive: that `curr_value -= ...` stays natural needs `RunningTotals`, as the
  total contains the coin; that `best_waste` is natural needs that no coin has a
  negative waste. `IndexInRange` follows from `RunningTotals`: when every coin is
  decided on, nothing is left available, so that the branch either pays or is
  hopeless. For the contract, the selection among the sorted coins is taken back
  through the permutation to the pool passed (`SelectionOfPool`). It has the
  hypothesis `WorthSpending`, that no coin of a pool is worth nothing, as only such
  coins come through `SelectCoinsMinConf`: on any other the search throws whatever
  the rest could pay.
  That the search finds the least waste (`BestIsOptimal`) needs a second invariant,
  `NothingMissed`: every selection left behind, one that takes a coin the branch has
  left out after the same decisions, is `Settled`, which is to say that it is out
  of range or something that wastes no more has been recorded. Walking back leaves
  behind just the selections that go on from the branch (`FirstDeparture`). If the
  branch was cut, they miss the target, exceed the range or waste more than the best
  (`HopelessSettled`, by the running totals); if it was recorded, they waste no less
  (`RecordSettled`, as no coin has a negative waste or value). A skip leaves behind
  selections that take the skipped coin and not its equal before it: with the two
  exchanged they were left behind earlier, and are worth and waste the same
  (`SkipMissesNothing`). This is the one place where coins equal in value and fee
  must be equal in waste, which rounding may break (MCBnBRounding) and which is
  a hypothesis of the property. At the end everything is left behind.
- **KnapsackProofs**: `TypeCorrect`, `TotalCorrect`, `BestCorrect`, `ChangeCorrect` and
  `ContractKept`, for any number of repetitions and any random bits. The
  invariant adds that the applicable coins are distinct and, until a larger coin is
  found, are all of the pool seen (so that a refusal is of the whole pool), that a
  larger coin pays target and least change, and that in the first pass the
  coins still to come are not included - without which `n_total` could count a coin
  twice. Every way to return is an instance of one step, `Paying`, from which both
  `NoSmallChange` and the contract's answer follow.
- **CoinSelectionProofs**: `TypeCorrect`, `FeesCorrect` and `ContractKept`, for any map of
  assets in any order that has the fee asset last and for any answers of the
  searches that SelectionContract allows. The invariant relates the amounts found so
  far and the fees accumulated (`Accounted`) to sums over the coins returned, asset
  by asset, and the working area of the asset in turn to the coins' true fees (`Priced`).
- **FundBitcoinProofs**, of fees: `FeeTypes`, `SplitCorrect`, `FeeRises` and `DustCorrect`,
  for all sizes and for all rates that the `uint32_t` stores whole
  (`MaxRateAssumption`). The product is kept apart from the division: `GetFee` is
  `FeeOf(rate * size)`, `FeeOf` is monotone and almost additive, and each step of the
  transaction adds to one factor. Of FundBitcoin: `TypeCorrect`, `BalanceCorrect`,
  `FeeCorrect` and `OutputsCovered`, for any answer that SelectPromise allows. `Amounts` says at each point of the call
  what its running amounts stand for. The fee estimated first is not that of the
  finished transaction; that it suffices nevertheless rests on the promise that the coins
  pay for their own spending and on `FeesAddUp`: the fee of the whole is at most one
  satoshi for each coin more than the fees of the parts.
- **FundElementsProofs**: `TypeCorrect`, `OutputsCovered`, `AllIsReturned`,
  `ChangelessIsExact` and `ReportedFeeCorrect`, for all requests, wallets and listed inputs and any number of
  assets. `AtEveryPoint` says what the call's maps stand for at each point:
  `amount_map` for the coins selected (`Gathered`), `diff_amount_map` for what they
  exceed the outputs by (`Compared`), the outputs appended for at least this excess
  (`Returned`), `diff_amount` for what is left of the fee asset after it was selected
  again (`FeeIsLeft`). None of it rests on the promise that `SelectCoins` pays: the
  call compares every amount again before it appends anything, and this is what the
  proof shows to be enough. `ReportedFeeIsPaid` follows from `FeeIsLeft`: what is left of the
  fee asset is at least the fee, by either estimate. `append_txout_count` is the size of a set, so that the
  assets asked for must be finitely many, which the checks at the start give.
- **RawTransactionProofs**: `TypeCorrect`, `LocktimeCorrect`, `KeysCorrect`,
  `FeeOutputCorrect` and `ChangesCorrect`, for any number of calls. The invariant is one predicate, `Good`, of
  a transaction, kept by every helper and held by both `tx` and `ctxc`: outputs are
  where they were made, no input disables the lock time, no fee output has a key.
  For `ChangesCorrect`, an action property, the invariant adds that at every turn of a
  loop all changes from `tx` to `ctxc` are told of in the vectors (`Following`): a turn
  changes one input or output and reports it, the end of the loop is where `tx` catches
  up, and after a throw there is nothing to tell of.
- **WalletProofs**, ExtKeys, for any holdings, child numbers and number of calls:
  `AuthorityKept` (the refinement of `KeyAuthority`), `RefusalsCorrect`,
  `KeyTypesCorrect` and `WatchOnly`. What entitles to a key is transitive
  (`DescendsTransitive`), every accepted derivation goes one step down
  (`DeriveGoesDown`), so that everything held is entitled to by what was held at
  first (`AllEntitled`, the inductive part); each call is then a step of
  `KeyAuthority`.
- **WalletProofs**, MultisigSign, for scripts with any number of keys, lists of any
  length and any number of calls: `SignTypesCorrect`, `SignaturesKept`,
  `SignaturesOrdered`, `SignRefusalsCorrect` and `WitnessCorrect`. It is assumed that no
  script has an invalid key and that the signatures of a list differ
  (`PubkeyListsAssumption`, `SignListsAssumption`). A script may have a key twice and
  a list several signatures for one key.
  `Moving` says, at every turn of the loops that erase from the list they iterate over,
  that what is left of the list is in its order and that each signature is in the list
  or has been placed. `KeysDone` adds that the keys gone through have no signature left and
  that those of the key in turn are all at or after the iterator; `OthersFollow` the
  same of the second loop, which does not erase. After the loops the lengths say
  that each signature was placed once (`AllPlaced`). None of the properties is
  inductive: order is kept because what is left comes after what was placed
  (`LeftComeAfter`), which needs that `erase` moves the rest down by one (`ErasedIs`).
  The loop orders signatures by the first place of their key, in any script (`InOrder`);
  if the script has no key twice and the list fits it, this is the order in which
  `CHECKMULTISIG` goes through the keys (`OrderAligns`). For other scripts it need not be,
  as MCMultisigSignRepeated shows.

So the three refinements of coin selection are theorems as well as runs, and what is
proved of FundBitcoin rests on nothing about the searches that is not proved of them,
except that the layers are connected by contracts of the same text and not by one
composed specification.

Only model-checked: liveness (`WalkCompletes`, `Finishes`, `CallsReturn`), which is out
of the prover's reach. The formulas of the section on disagreements do not hold and
have no theorem; CoinConversion has no other, and so no proof.

## Not modelled

- **cfdcore** is not in the repository and is seen through the results this code
  uses: serialization, keys, scripts, signature hashes, DER, commitments and
  proofs, mnemonics, the size estimates of inputs. Where it may throw, the models let
  it throw. An `Amount` out of range is taken to throw or to go on where the code
  would form a negative one (`AmountThrows` in `FundBitcoin`).
- **RemoveTxIn and RemoveTxOut** of both controllers (`cfd_transaction.cpp` 108-134,
  `cfd_elements_transaction.cpp` 126-132, 217-222), which no call of the Api classes
  uses. A caller who did would move the outputs behind the one removed, and the
  places noted before with them.
- **Key and address calls and factories** are single conversions by cfdcore behind
  checks of their arguments; they keep no state and take no decision of their own.
- **CfdManager** keeps a flag and a handle, without a lock. No document or test says
  which orders of `Initialize` and `Finalize` are legal or whether threads may call
  them, so that there is nothing to hold a model against.
- **Rates as `double`**, which the funding calls turn into satoshis for 1000 bytes;
  `FeeCalculator::CalculateFee`, which serves `CalculateSimpleFee` only and that is
  called by nothing in the library; logging.
- **tools/cpplint** is a style checker, copied unchanged with its own tests: no part of
  the library. It holds the only Python of the repository. The remaining build files
  and the tests have no behaviour to model; the tests were read as descriptions of
  what is expected.

## Plan

1. Written, in this order: Sums, Coins, BnB, Knapsack, SelectionContract, CoinSelection,
   Fee, FundBitcoin, FundElements, MultisigSign, KeyAuthority, ExtKeys, SelectPromise,
   SelectCoinsContract, RawTransaction, CoinConversion, and the proof modules.
2. Next proofs: the safety part of the termination that TLC checks, by a measure that
   every turn decreases (the place of the branch in the tree for `WalkCompletes`, the
   coins and passes left for `Finishes`, what is left of the list for `CallsReturn`);
   the promises of one layer as theorems about the next, in one composed statement.
3. Next models: the inputs and outputs of the bitcoin TransactionController, as
   RawTransaction has those of Elements, and signing composed with them.
