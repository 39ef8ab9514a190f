---------------------------- MODULE CoinSelection ----------------------------
(***************************************************************************)
(* CoinSelection::SelectCoins (src/cfd_utxo.cpp), for one asset and for a  *)
(* map of assets, with SelectCoinsMinConf, which both call.  The coins of  *)
(* each asset are filtered, given to the branch and bound search and, if   *)
(* it finds nothing, to the knapsack solver.  The fees of the coins of all *)
(* assets are charged to the fee asset, whose coins are selected last.     *)
(*                                                                         *)
(* SelectCoinsBnB and KnapsackSolver are one step each, answering whatever *)
(* SelectionContract lets them answer; BnB and Knapsack show that they     *)
(* keep it.  Coins are known by their position in the list passed.         *)
(***************************************************************************)
EXTENDS Sums

CONSTANTS
  Leftovers,  \* what the working area of the coins passed may hold: numbers
  NoAsset,    \* the asset id of bitcoin: the empty string
  Requests,   \* calls: [call, targets, tx_fee, option], see IsRequest
  Wallets     \* utxo lists: sequences of coins, see IsWallet

(* An option: use_bnb, use_fee (the effective fee rate is not 0), the cost *)
(* of change and the fee asset.                                            *)
IsRequest(r) ==
  /\ r.call \in {"single", "multi"}
  /\ \A a \in DOMAIN r.targets : r.targets[a] \in Nat
  /\ r.call = "single" => DOMAIN r.targets = {NoAsset}
  /\ r.tx_fee \in Nat
  /\ r.use_bnb \in BOOLEAN /\ r.use_fee \in BOOLEAN
  /\ r.cost_of_change \in Nat

(* A coin: spend and long_term are what an input spending it costs at the  *)
(* effective rate, if there is one, and at the long term rate.             *)
IsWallet(w) ==
  /\ Len(w) \in Nat
  /\ \A k \in 1 .. Len(w) :
       w[k].amount \in Nat /\ w[k].spend \in Nat /\ w[k].long_term \in Nat

ASSUME LeftoversAssumption == Leftovers \subseteq Nat
ASSUME RequestsAssumption == \A r \in Requests : IsRequest(r)
ASSUME WalletsAssumption  == \A w \in Wallets : IsWallet(w)

VARIABLES
  pc,         \* "check", "next", "filter", "bnb", "refill", "knapsack", "done",
              \* "throw" or "invalid"
  request, utxos,
  asset,      \* the asset whose coins are being selected
  todo,       \* the assets still to select for
  pool,       \* utxo_pool: positions in utxos
  work,       \* the working area of every Utxo: fee, long_term_fee, effective_value
  tx_fee_out, \* the transaction's fee and the fees of the coins selected
  result, work_selected_values, work_utxo_fee, work_searched_bnb

input     == <<request, utxos>>
collected == <<tx_fee_out, result, work_selected_values, work_utxo_fee,
               work_searched_bnb>>
vars      == <<pc, input, asset, todo, pool, work, collected>>

-----------------------------------------------------------------------------
Coins == 1 .. Len(utxos)

calculate_fee == request.use_fee
single        == request.call = "single"

(* work_target_values: the targets, and 0 for a fee asset not among them.  *)
WorkTargets ==
  DOMAIN request.targets \cup
    (IF calculate_fee /\ ~single THEN {request.fee_asset} ELSE {})
TargetOf(a) == IF a \in DOMAIN request.targets THEN request.targets[a] ELSE 0

IsFeeAsset(a) == single \/ (calculate_fee /\ a = request.fee_asset)

(* The list a target is searched in.                                       *)
CoinsOf(a) == IF single THEN Coins ELSE {k \in Coins : utxos[k].asset = a}

(* effective_fee.GetFee of the coin: nothing at rate 0.                    *)
SpendFee(k) == IF request.use_fee THEN utxos[k].spend ELSE 0

(* tx_fee_value and search_value of the running SelectCoinsMinConf: fees   *)
(* are taken from the fee asset only.                                      *)
ChargedFee_OfTx(a) == IF IsFeeAsset(a) THEN request.tx_fee ELSE 0
ChargedFee(a)      == IF IsFeeAsset(a) THEN tx_fee_out ELSE 0
search_value       == TargetOf(asset) + ChargedFee(asset)

(* What a selection from the pool is worth, costs and amounts to.          *)
Selections  == {sel \in [Coins -> BOOLEAN] : \A k \in Coins : sel[k] => k \in pool}
Value(sel)  == SelSum([k \in Coins |-> work[k].effective_value], sel)
Fees(sel)   == SelSum([k \in Coins |-> work[k].fee], sel)
Amount(sel) == SelSum([k \in Coins |-> utxos[k].amount], sel)
Whole       == [k \in Coins |-> k \in pool]

NoAmounts == [a \in {} |-> 0]

Init ==
  /\ pc = "check"
  /\ request \in Requests
  /\ utxos \in Wallets
  /\ asset = NoAsset
  /\ todo = {}
  /\ pool = {}
  /\ \E old \in Leftovers :
       work = [k \in Coins |->
                [fee |-> old, long_term_fee |-> old, effective_value |-> old]]
  /\ tx_fee_out = request.tx_fee
  /\ result = {}
  /\ work_selected_values = NoAmounts
  /\ work_utxo_fee = 0
  /\ work_searched_bnb = {}

-----------------------------------------------------------------------------
(* The checks of the two overloads.                                        *)
MixedAssets == single /\ \E j, k \in Coins : utxos[j].asset # utxos[k].asset

InvalidTargets ==
  /\ ~single
  /\ \/ DOMAIN request.targets = {}
     \/ calculate_fee /\ request.fee_asset = NoAsset
     \/ NoAsset \in WorkTargets
     \/ \E a \in WorkTargets : CoinsOf(a) = {}

RejectCall ==
  /\ pc = "check"
  /\ MixedAssets \/ InvalidTargets
  /\ pc' = "invalid"
  /\ UNCHANGED <<input, asset, todo, pool, work, collected>>

AcceptCall ==
  /\ pc = "check"
  /\ ~MixedAssets /\ ~InvalidTargets
  /\ todo' = WorkTargets
  /\ pc' = "next"
  /\ UNCHANGED <<input, asset, pool, work, collected>>

(* The map is walked in the order of the asset ids; the fee asset is last. *)
BeforeFeeAsset(a) == IsFeeAsset(a) => todo = {a}

NextAsset ==
  /\ pc = "next"
  /\ \E a \in todo :
       /\ BeforeFeeAsset(a)
       /\ asset' = a
       /\ todo' = todo \ {a}
  /\ pool' = {}
  /\ pc' = IF request.use_bnb THEN "filter" ELSE "refill"
  /\ UNCHANGED <<input, work, collected>>

Finish ==
  /\ pc = "next"
  /\ todo = {}
  /\ pc' = "done"
  /\ UNCHANGED <<input, asset, todo, pool, work, collected>>

-----------------------------------------------------------------------------
(* SelectCoinsMinConf.  Only coins worth more than spending them costs are *)
(* searched; for the branch and bound search, their value is reduced by    *)
(* that fee only if the fee is paid from this asset (consider_fee).        *)
WorthSpending(k) == utxos[k].amount > SpendFee(k)

EffectiveValue_LessTxFee(k) ==
  utxos[k].amount - SpendFee(k) - ChargedFee(asset)
EffectiveValue(k) ==
  IF IsFeeAsset(asset) THEN utxos[k].amount - SpendFee(k) ELSE utxos[k].amount

Lesser(a, b) == IF a < b THEN a ELSE b

FilterPool ==
  /\ pc = "filter"
  /\ pool' = {k \in CoinsOf(asset) : WorthSpending(k)}
  /\ work' = [k \in Coins |->
       IF k \notin CoinsOf(asset) THEN work[k]
       ELSE IF k \in pool'
       THEN [fee             |-> SpendFee(k),
             long_term_fee   |-> IF request.use_fee
                                 THEN Lesser(utxos[k].long_term, SpendFee(k))
                                 ELSE 0,
             effective_value |-> EffectiveValue(k)]
       ELSE [fee |-> 0, long_term_fee |-> 0, effective_value |-> 0]]
  /\ pc' = "bnb"
  /\ UNCHANGED <<input, asset, todo, collected>>

(* coin_selection_function: what the call for one asset adds to the        *)
(* result.                                                                 *)
Gathered(sel) == result \cup {k \in Coins : sel[k]}

Collect(sel, searched) ==
  /\ result' = Gathered(sel)
  /\ tx_fee_out' = tx_fee_out + Fees(sel)
  /\ work_selected_values' =
       [a \in DOMAIN work_selected_values \cup {asset} |->
          IF a = asset THEN Amount(sel) ELSE work_selected_values[a]]
  /\ work_utxo_fee' = work_utxo_fee + Fees(sel)
  /\ work_searched_bnb' =
       IF searched THEN work_searched_bnb \cup {asset} ELSE work_searched_bnb
  /\ pc' = "next"

(* SelectCoinsBnB refuses a pool worth too little, by an exception: the    *)
(* knapsack solver is not tried.                                           *)
BnBThrows ==
  /\ pc = "bnb"
  /\ Value(Whole) < search_value
  /\ pc' = "throw"
  /\ UNCHANGED <<input, asset, todo, pool, work, collected>>

BnBFinds ==
  /\ pc = "bnb"
  /\ Value(Whole) >= search_value
  /\ \E sel \in Selections :
       /\ \E k \in Coins : sel[k]
       /\ Value(sel) >= search_value
       /\ Value(sel) <= search_value +
            (IF request.use_fee THEN request.cost_of_change ELSE 0)
       /\ Collect(sel, TRUE)
  /\ UNCHANGED <<input, asset, todo, pool, work>>

(* There is no such selection, or kBnBMaxTotalTries ran out before one.    *)
BnBFindsNothing ==
  /\ pc = "bnb"
  /\ Value(Whole) >= search_value
  /\ pc' = "refill"
  /\ UNCHANGED <<input, asset, todo, pool, work, collected>>

(* The pool of the branch and bound search is used again as it is; without *)
(* one it is filled now, whoever pays the fee.                             *)
Refilled_StaleFee(k) ==
  [work[k] EXCEPT !.effective_value = utxos[k].amount - SpendFee(k)]
Refilled(k) ==
  [work[k] EXCEPT !.fee = SpendFee(k),
                  !.effective_value = utxos[k].amount - SpendFee(k)]

RefillPool ==
  /\ pc = "refill"
  /\ IF pool = {}
     THEN /\ pool' = {k \in CoinsOf(asset) : WorthSpending(k)}
          /\ work' = [k \in Coins |->
               IF k \in pool' THEN Refilled(k)
               ELSE IF k \in CoinsOf(asset)
               THEN [work[k] EXCEPT !.fee = SpendFee(k)]
               ELSE work[k]]
     ELSE UNCHANGED <<pool, work>>
  /\ pc' = "knapsack"
  /\ UNCHANGED <<input, asset, todo, collected>>

(* need_value > find_value: the coins found do not pay their own fees.     *)
NotEnough(sel) ==
  request.use_fee /\ search_value + Fees(sel) > Amount(sel)

KnapsackFinds ==
  /\ pc = "knapsack"
  /\ Value(Whole) >= search_value
  /\ \E sel \in Selections :
       /\ Value(sel) >= search_value
       /\ IF NotEnough(sel)
          THEN pc' = "throw" /\ UNCHANGED collected
          ELSE Collect(sel, FALSE)
  /\ UNCHANGED <<input, asset, todo, pool, work>>

KnapsackThrows ==
  /\ pc = "knapsack"
  /\ Value(Whole) < search_value
  /\ pc' = "throw"
  /\ UNCHANGED <<input, asset, todo, pool, work, collected>>

Stopped == pc \in {"done", "throw", "invalid"} /\ UNCHANGED vars

Next ==
  \/ RejectCall \/ AcceptCall \/ NextAsset \/ Finish
  \/ FilterPool \/ BnBThrows \/ BnBFinds \/ BnBFindsNothing
  \/ RefillPool \/ KnapsackFinds \/ KnapsackThrows \/ Stopped

Spec == Init /\ [][Next]_vars

-----------------------------------------------------------------------------
TypeOK ==
  /\ pc \in {"check", "next", "filter", "bnb", "refill", "knapsack", "done",
             "throw", "invalid"}
  /\ request \in Requests /\ utxos \in Wallets
  /\ todo \subseteq WorkTargets
  /\ pool \subseteq Coins
  /\ work \in [Coins -> [fee : Nat, long_term_fee : Nat, effective_value : Nat]]
  /\ tx_fee_out \in Nat
  /\ result \subseteq Coins
  /\ work_selected_values \in [DOMAIN work_selected_values -> Nat]
  /\ work_utxo_fee \in Nat
  /\ work_searched_bnb \subseteq DOMAIN work_selected_values

SpendFees  == SelSum([k \in Coins |-> SpendFee(k)], [k \in Coins |-> k \in result])

(* The coins of the fee asset pay, on top of their target, the fee of the  *)
(* transaction and the fees of all the coins selected, those of the other  *)
(* assets and their own included.                                          *)
FeesArePaid ==
  pc = "done" /\ calculate_fee =>
    \A a \in WorkTargets : IsFeeAsset(a) =>
      work_selected_values[a] >= TargetOf(a) + request.tx_fee + SpendFees

(* The call as SelectPromise describes calls.                              *)
CallMade ==
  [single  |-> single,
   coins   |-> [k \in Coins |-> [asset  |-> utxos[k].asset,
                                 amount |-> utxos[k].amount,
                                 spend  |-> SpendFee(k)]],
   targets |-> request.targets,
   tx_fee  |-> request.tx_fee,
   payers  |-> {a \in WorkTargets : IsFeeAsset(a)}]

(* A call keeps what SelectCoinsContract says of it, refused as malformed  *)
(* or by an exception of the selection alike: the coins returned pay for   *)
(* every target, and the payer's for all fees; the amounts and the fee     *)
(* reported are of these coins, whatever an earlier call or the search     *)
(* that found nothing left in their working areas; and what is refused is  *)
(* malformed or really short of coins.                                     *)
Contract ==
  INSTANCE SelectCoinsContract WITH
    status <- CASE pc = "done" -> "answered"
                [] pc \in {"throw", "invalid"} -> "refused"
                [] OTHER -> "pending",
    call <- CallMade,
    selection <- [k \in Coins |-> pc = "done" /\ k \in result],
    reported  <- IF pc = "done" THEN work_selected_values ELSE NoAmounts,
    utxo_fee  <- IF pc = "done" THEN work_utxo_fee ELSE 0

KeepsContract == Contract!Spec

(* The comment in SelectCoins says that the assets other than the fee      *)
(* asset are computed with tx_fee = 0 and without regard to fees, so that  *)
(* one is refused only if its coins do not amount to the target.           *)
OtherAssetsIgnoreFees ==
  pc = "throw" /\ ~IsFeeAsset(asset) =>
    Amount([k \in Coins |-> k \in CoinsOf(asset)]) < TargetOf(asset)

(* SelectCoins declares that for bitcoin the key of the target is the      *)
(* empty string, so that a call is not refused for having that key.        *)
BitcoinKeyIsAccepted ==
  pc = "invalid" /\ ~single /\ ~calculate_fee
    /\ DOMAIN request.targets = {NoAsset} => CoinsOf(NoAsset) = {}
=============================================================================
