---------------------------- MODULE FundElements ----------------------------
(***************************************************************************)
(* ElementsTransactionApi::FundRawTransaction (src/                        *)
(* cfdapi_elements_transaction.cpp): coins of several assets are selected  *)
(* for a transaction, a change output is appended for every asset          *)
(* collected in excess, and the fee output is set.  The assets other than  *)
(* the fee asset come first; if their outputs make the transaction dearer  *)
(* than what is left, coins of the fee asset are selected once more.       *)
(*                                                                         *)
(* CoinSelection::SelectCoins is one step: it answers or throws as         *)
(* SelectPromise says, which CoinSelection is shown to keep.               *)
(***************************************************************************)
EXTENDS Sums, Fee, FiniteSets

CONSTANTS
  Assets,
  NoAsset,     \* an empty asset id
  Requests,    \* see IsRequest
  Wallets,     \* utxos: sequences of [asset, amount, size]
  Listed,      \* selected_txin_utxos: sequences of [asset, amount, size, in_tx]
  ChangeSize   \* the size of an output to a reserve_txout_address

(* targets and tx_amount: amounts by asset, the second of the outputs;     *)
(* fee_output: the asset of the fee output, if there is one; addresses:    *)
(* the assets that reserve_txout_address knows.                            *)
IsRequest(r) ==
  /\ DOMAIN r.targets \subseteq Assets
  /\ DOMAIN r.tx_amount \subseteq Assets
  /\ r.targets \in [DOMAIN r.targets -> Nat]
  /\ r.tx_amount \in [DOMAIN r.tx_amount -> Nat]
  /\ r.fee_asset \in Assets \cup {NoAsset}
  /\ r.fee_output \in Assets \cup {NoAsset}
  /\ r.addresses \subseteq Assets
  /\ r.tx_size \in Nat /\ r.rate \in Nat /\ r.dust_amount \in Nat

ASSUME NoAssetAssumption == NoAsset \notin Assets
ASSUME RequestsAssumption == \A r \in Requests : IsRequest(r)
ASSUME WalletsAssumption ==
  \A w \in Wallets : w \in Seq([asset : Assets, amount : Nat, size : Nat])
ASSUME ListedAssumption ==
  \A l \in Listed :
    l \in Seq([asset : Assets, amount : Nat, size : Nat, in_tx : BOOLEAN])
ASSUME ChangeSizeAssumption == ChangeSize \in Nat

VARIABLES
  pc,                   \* "start", "select", "check", "append", "estimate",
                        \* "reselect", "change", "done" or "throw"
  request, utxos, selected_txin_utxos,
  fee,
  selected_coins,       \* flags on utxos
  amount_map, diff_amount_map,
  append_txout_count,
  appended,             \* change outputs: amounts by asset
  new_fee,
  lbtc_selected_coins,  \* flags on utxos
  diff_amount,
  fee_satoshi           \* the amount of the fee output

input    == <<request, utxos, selected_txin_utxos>>
amounts  == <<amount_map, diff_amount_map, append_txout_count>>
feeParts == <<new_fee, lbtc_selected_coins, diff_amount, fee_satoshi>>
vars     == <<pc, input, fee, selected_coins, amounts, appended, feeParts>>

-----------------------------------------------------------------------------
Greater(a, b) == IF a > b THEN a ELSE b
NoAmounts == [a \in {} |-> 0]
At(map, a) == IF a \in DOMAIN map THEN map[a] ELSE 0

Coins   == 1 .. Len(utxos)
use_fee == request.rate > 0
IsFeeAsset(a) == use_fee /\ a = request.fee_asset

target_values ==
  IF request.targets = NoAmounts THEN request.tx_amount ELSE request.targets

(* What coins of an asset are to pay: its outputs, or more if the caller   *)
(* asks for more.                                                          *)
DestAmount_TargetOnly(a) == At(target_values, a)
DestAmount(a) == Greater(At(request.tx_amount, a), At(target_values, a))

(* Amounts of selected coins of one asset, sizes, and what an input costs. *)
AmountOf(sel, a) ==
  SelSum([k \in Coins |-> IF utxos[k].asset = a THEN utxos[k].amount ELSE 0], sel)
SizeOf(sel) == SelSum([k \in Coins |-> utxos[k].size], sel)
SpendFee(k) == GetFee(request.rate, utxos[k].size)

ListedSize ==
  SumTo([k \in 1 .. Len(selected_txin_utxos) |-> selected_txin_utxos[k].size],
        Len(selected_txin_utxos))

(* EstimateFee of the transaction with that many change outputs more.      *)
EstimateFee(outputs, coin_size) ==
  GetFee(request.rate, request.tx_size + ChangeSize * outputs)
    + GetFee(request.rate, ListedSize + coin_size)

-----------------------------------------------------------------------------
(* A call of SelectCoins for a map of targets and a transaction fee.       *)
Promise == INSTANCE SelectPromise

Call(targets, tx_fee) ==
  [single  |-> FALSE,
   coins   |-> [k \in Coins |-> [asset  |-> utxos[k].asset,
                                 amount |-> utxos[k].amount,
                                 spend  |-> SpendFee(k)]],
   targets |-> targets,
   tx_fee  |-> tx_fee,
   payers  |-> IF use_fee THEN {request.fee_asset} ELSE {}]

-----------------------------------------------------------------------------
Init ==
  /\ pc = "start"
  /\ request \in Requests
  /\ utxos \in Wallets
  /\ selected_txin_utxos \in Listed
  /\ fee = 0
  /\ selected_coins = [k \in Coins |-> FALSE]
  /\ amount_map = NoAmounts /\ diff_amount_map = NoAmounts
  /\ append_txout_count = 0
  /\ appended = NoAmounts
  /\ new_fee = 0
  /\ lbtc_selected_coins = [k \in Coins |-> FALSE]
  /\ diff_amount = 0
  /\ fee_satoshi = 0

(* Fees need a fee asset, and a fee output there is must be of that asset. *)
WrongFeeAsset ==
  \/ request.fee_asset = NoAsset
  \/ request.fee_output \notin {NoAsset, request.fee_asset}

RejectFeeAsset ==
  /\ pc = "start"
  /\ use_fee /\ WrongFeeAsset
  /\ pc' = "throw"
  /\ UNCHANGED <<input, fee, selected_coins, amounts, appended, feeParts>>

Prepare ==
  /\ pc = "start"
  /\ ~(use_fee /\ WrongFeeAsset)
  /\ fee' = IF use_fee THEN EstimateFee(0, 0) ELSE 0
  /\ pc' = "select"
  /\ UNCHANGED <<input, selected_coins, amounts, appended, feeParts>>

SelectCoins ==
  /\ pc = "select"
  /\ LET call == Call(target_values, fee)
     IN  /\ ~Promise!Malformed(call)
         /\ selected_coins' \in Promise!Answers(call)
         /\ amount_map' =
              [a \in Promise!Asked(call) |-> AmountOf(selected_coins', a)]
  /\ pc' = "check"
  /\ UNCHANGED <<input, fee, diff_amount_map, append_txout_count, appended, feeParts>>

SelectThrows ==
  /\ pc = "select"
  /\ Promise!Refuses(Call(target_values, fee))
  /\ pc' = "throw"
  /\ UNCHANGED <<input, fee, selected_coins, amounts, appended, feeParts>>

-----------------------------------------------------------------------------
(* The amounts are compared with what is to be paid.  The difference of    *)
(* the fee asset has the fee left in it, and an amount that matches is     *)
(* left in the map.                                                        *)
NeedAmount(a) == DestAmount(a) + (IF IsFeeAsset(a) THEN fee ELSE 0)

LowAsset ==
  /\ pc = "check"
  /\ \E a \in DOMAIN amount_map : amount_map[a] < NeedAmount(a)
  /\ pc' = "throw"
  /\ UNCHANGED <<input, fee, selected_coins, amounts, appended, feeParts>>

Exceeding ==
  {a \in DOMAIN amount_map : ~IsFeeAsset(a) /\ amount_map[a] > DestAmount(a)}

CheckAmounts ==
  /\ pc = "check"
  /\ \A a \in DOMAIN amount_map : amount_map[a] >= NeedAmount(a)
  /\ diff_amount_map' =
       [a \in DOMAIN amount_map |->
          IF IsFeeAsset(a) \/ a \in Exceeding
          THEN amount_map[a] - DestAmount(a)
          ELSE amount_map[a]]
  /\ append_txout_count' = Cardinality(Exceeding)
  /\ pc' = "append"
  /\ UNCHANGED <<input, fee, selected_coins, amount_map, appended, feeParts>>

(* The assets an output is appended for.                                   *)
Appendable_First ==
  IF append_txout_count = 0 THEN {}
  ELSE {CHOOSE a \in Exceeding : TRUE}
Appendable ==
  IF append_txout_count = 0 THEN {}
  ELSE {a \in DOMAIN diff_amount_map : ~IsFeeAsset(a) /\ diff_amount_map[a] > 0}

CanAppend(a) ==
  a \in request.addresses /\ diff_amount_map[a] > request.dust_amount

AppendThrows ==
  /\ pc = "append"
  /\ \E a \in Appendable : ~CanAppend(a)
  /\ pc' = "throw"
  /\ UNCHANGED <<input, fee, selected_coins, amounts, appended, feeParts>>

AppendOutputs ==
  /\ pc = "append"
  /\ \A a \in Appendable : CanAppend(a)
  /\ appended' = [a \in Appendable |-> diff_amount_map[a]]
  /\ pc' = IF use_fee THEN "estimate" ELSE "done"
  /\ UNCHANGED <<input, fee, selected_coins, amounts, feeParts>>

-----------------------------------------------------------------------------
(* The fee is estimated again only if outputs were appended.               *)
EstimateAgain ==
  /\ pc = "estimate"
  /\ new_fee' = IF append_txout_count = 0 THEN fee
                ELSE EstimateFee(Cardinality(DOMAIN appended), SizeOf(selected_coins))
  /\ diff_amount' = diff_amount_map[request.fee_asset]
  /\ lbtc_selected_coins' = selected_coins
  /\ pc' = IF new_fee' > fee + diff_amount' THEN "reselect" ELSE "change"
  /\ UNCHANGED <<input, fee, selected_coins, amounts, appended, fee_satoshi>>

(* The fee asset alone is selected again.                                  *)
FeeTarget == [a \in {request.fee_asset} |-> At(target_values, a)]

ReselectThrows ==
  /\ pc = "reselect"
  /\ Promise!Refuses(Call(FeeTarget, new_fee))
  /\ pc' = "throw"
  /\ UNCHANGED <<input, fee, selected_coins, amounts, appended, feeParts>>

Reselect ==
  /\ pc = "reselect"
  /\ ~Promise!Malformed(Call(FeeTarget, new_fee))
  /\ lbtc_selected_coins' \in Promise!Answers(Call(FeeTarget, new_fee))
  /\ LET selected == AmountOf(lbtc_selected_coins', request.fee_asset)
         dest     == DestAmount(request.fee_asset)
     IN  IF selected >= dest + new_fee
         THEN /\ diff_amount' = selected - dest
              /\ fee' = new_fee
              /\ pc' = "change"
         ELSE /\ pc' = "throw"
              /\ UNCHANGED <<diff_amount, fee>>
  /\ UNCHANGED <<input, selected_coins, amounts, appended, new_fee, fee_satoshi>>

(* reserve_txout_address.at(fee_asset) throws std::out_of_range.           *)
NoFeeAddress ==
  /\ pc = "change"
  /\ request.fee_asset \notin request.addresses
  /\ pc' = "throw"
  /\ UNCHANGED <<input, fee, selected_coins, amounts, appended, feeParts>>

(* What would be dust is all fee; otherwise it is all change.              *)
FeeOutput_Estimate == fee
FeeOutput_ShortOfDust ==
  IF request.dust_amount > diff_amount
  THEN fee - (request.dust_amount - diff_amount) ELSE fee
FeeOutput == IF request.dust_amount > diff_amount THEN diff_amount ELSE fee

AddChange ==
  /\ pc = "change"
  /\ request.fee_asset \in request.addresses
  /\ appended' =
       IF request.dust_amount <= diff_amount /\ diff_amount > 0
       THEN [a \in DOMAIN appended \cup {request.fee_asset} |->
               IF a = request.fee_asset THEN diff_amount ELSE appended[a]]
       ELSE appended
  /\ fee_satoshi' = FeeOutput
  /\ pc' = "done"
  /\ UNCHANGED <<input, fee, selected_coins, amounts, new_fee,
                 lbtc_selected_coins, diff_amount>>

(* The output parameter, as it is when the call returns.                   *)
estimate_fee == fee

Stopped == pc \in {"done", "throw"} /\ UNCHANGED vars

Next ==
  \/ RejectFeeAsset \/ Prepare \/ SelectCoins \/ SelectThrows
  \/ LowAsset \/ CheckAmounts \/ AppendThrows \/ AppendOutputs
  \/ EstimateAgain \/ ReselectThrows \/ Reselect \/ NoFeeAddress \/ AddChange
  \/ Stopped

Spec == Init /\ [][Next]_vars

-----------------------------------------------------------------------------
TypeOK ==
  /\ pc \in {"start", "select", "check", "append", "estimate", "reselect",
             "change", "done", "throw"}
  /\ request \in Requests /\ utxos \in Wallets /\ selected_txin_utxos \in Listed
  /\ fee \in Nat /\ new_fee \in Nat /\ fee_satoshi \in Nat /\ diff_amount \in Nat
  /\ selected_coins \in [Coins -> BOOLEAN]
  /\ lbtc_selected_coins \in [Coins -> BOOLEAN]
  /\ amount_map \in [DOMAIN amount_map -> Nat]
  /\ diff_amount_map \in [DOMAIN diff_amount_map -> Nat]
  /\ DOMAIN appended \subseteq Assets /\ appended \in [DOMAIN appended -> Nat]
  /\ append_txout_count \in Nat

(* The coins that become inputs of the transaction, and what they amount   *)
(* to.                                                                     *)
Inputs ==
  [k \in Coins |-> IF IsFeeAsset(utxos[k].asset) THEN lbtc_selected_coins[k]
                   ELSE selected_coins[k]]
Wanted(a)  == Greater(At(request.tx_amount, a), At(request.targets, a))
Outputs(a) == Wanted(a) + At(appended, a) + (IF IsFeeAsset(a) THEN fee_satoshi ELSE 0)

(* The inputs of every asset asked for cover what was wanted of it; those  *)
(* of the fee asset cover the fee on top, also when they were selected     *)
(* again.                                                                  *)
InputsCoverOutputs ==
  pc = "done" =>
    \A a \in DOMAIN amount_map :
      AmountOf(Inputs, a) >=
        Wanted(a) + (IF IsFeeAsset(a) THEN fee_satoshi ELSE 0)

(* No part of the coins collected is lost: what is not wanted is change    *)
(* or, of the fee asset, fee.                                              *)
NothingIsLost ==
  pc = "done" => \A a \in DOMAIN amount_map : Outputs(a) >= AmountOf(Inputs, a)

(* Without change of the fee asset, its coins are what was wanted of it    *)
(* and the fee, to the satoshi.                                            *)
ChangelessBalances ==
  pc = "done" /\ use_fee /\ request.fee_asset \notin DOMAIN appended =>
    AmountOf(Inputs, request.fee_asset) = Outputs(request.fee_asset)

(* The fee reported is the fee that the transaction pays, or less of it by *)
(* what would have been dust: however often it was estimated, and whatever *)
(* was selected in between, the fee output is never short of it.           *)
ReportedFeeIsPaid ==
  pc = "done" /\ use_fee /\ fee_satoshi # estimate_fee =>
    estimate_fee < fee_satoshi /\ fee_satoshi < request.dust_amount

(* The comments of the comparison say that it checks whether the amount    *)
(* collected matches the outputs, and then outputs that are needed are     *)
(* appended: for an asset that matches none is.                            *)
MatchAppendsNothing ==
  pc = "done" =>
    \A a \in DOMAIN appended :
      ~IsFeeAsset(a) => AmountOf(Inputs, a) # Wanted(a)

(* The comments of the last part call diff_amount the surplus: what is     *)
(* there besides the fee.  The change of the fee asset is that surplus.    *)
ChangeIsSurplus ==
  pc = "done" /\ use_fee /\ request.fee_asset \in DOMAIN appended =>
    Outputs(request.fee_asset) = AmountOf(Inputs, request.fee_asset)

(* effective_fee_rate is declared as "effective fee rate (minimum)": the   *)
(* fee output pays that much for the finished transaction, up to the       *)
(* rounding of one satoshi for each coin.                                  *)
FeeRateIsMinimum ==
  pc = "done" /\ use_fee =>
    fee_satoshi + Len(utxos) >=
      EstimateFee(Cardinality(DOMAIN appended), SizeOf(Inputs))

(* The comment where inputs are collected says that utxos listed in        *)
(* selected_txin_utxos count as set if the transaction has them: an asset  *)
(* that they pay for needs no coins.                                       *)
TxInOf(a) ==
  SumTo([k \in 1 .. Len(selected_txin_utxos) |->
           IF selected_txin_utxos[k].in_tx /\ selected_txin_utxos[k].asset = a
           THEN selected_txin_utxos[k].amount ELSE 0],
        Len(selected_txin_utxos))

PaidAssetNeedsNoCoins ==
  pc = "done" =>
    \A a \in DOMAIN amount_map :
      ~IsFeeAsset(a) /\ TxInOf(a) >= Wanted(a) => AmountOf(Inputs, a) = 0
=============================================================================
