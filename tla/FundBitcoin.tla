----------------------------- MODULE FundBitcoin -----------------------------
(***************************************************************************)
(* TransactionApi::FundRawTransaction (src/cfdapi_transaction.cpp): coins  *)
(* are selected for a bitcoin transaction, what they amount to beyond its  *)
(* outputs and the fee goes to a change output, or to the fee where the    *)
(* change would be dust.                                                   *)
(*                                                                         *)
(* CoinSelection::SelectCoins is one step: it answers or throws as         *)
(* SelectPromise says, which CoinSelection is shown to keep.               *)
(***************************************************************************)
EXTENDS Sums, Fee

CONSTANTS
  Requests,    \* see IsRequest
  Wallets,     \* utxos: sequences of [amount, size, spend_size]
  Listed,      \* selected_txin_utxos: sequences of [amount, size, in_tx]
  ChangeSize   \* the size of an output to reserve_txout_address

(* tx_amount and tx_size: the outputs of the transaction; option_rate and  *)
(* rate: the fee rates of option_params and effective_fee_rate, which are  *)
(* the same unless option_params is given.                                 *)
IsRequest(r) ==
  /\ r.tx_amount \in Nat /\ r.tx_size \in Nat /\ r.target_value \in Nat
  /\ r.option_rate \in Nat /\ r.rate \in Nat /\ r.dust_amount \in Nat

ASSUME RequestsAssumption == \A r \in Requests : IsRequest(r)
ASSUME WalletsAssumption ==
  \A w \in Wallets :
    w \in Seq([amount : Nat, size : Nat, spend_size : Nat])
ASSUME ListedAssumption ==
  \A l \in Listed : l \in Seq([amount : Nat, size : Nat, in_tx : BOOLEAN])
ASSUME ChangeSizeAssumption == ChangeSize \in Nat

VARIABLES
  pc,              \* "start", "select", "check", "need", "change", "done" or "throw"
  request, utxos, selected_txin_utxos,
  txin_amount, target_amount, dest_amount, fee,
  selected_coins,  \* flags on utxos
  utxo_amount, diff_amount,
  fee_error,       \* the call was refused by "low fee"
  change,          \* the amount of the output added; 0 for none
  estimate_fee

input  == <<request, utxos, selected_txin_utxos>>
goal   == <<txin_amount, target_amount, dest_amount>>
coins  == <<selected_coins, utxo_amount>>
output == <<change, estimate_fee>>
vars   == <<pc, input, goal, fee, coins, diff_amount, fee_error, output>>

-----------------------------------------------------------------------------
Greater(a, b) == IF a > b THEN a ELSE b
use_fee == request.option_rate > 0

(* TxIns of the transaction itself: listed, and found in it.               *)
InTx    == [k \in 1 .. Len(selected_txin_utxos) |-> selected_txin_utxos[k].in_tx]
TxInAmount ==
  SelSum([k \in 1 .. Len(selected_txin_utxos) |-> selected_txin_utxos[k].amount], InTx)

ListedSize ==
  SumTo([k \in 1 .. Len(selected_txin_utxos) |-> selected_txin_utxos[k].size],
        Len(selected_txin_utxos))
SizeOf(sel) == SelSum([k \in 1 .. Len(utxos) |-> utxos[k].size], sel)
AmountOf(sel) == SelSum([k \in 1 .. Len(utxos) |-> utxos[k].amount], sel)

(* EstimateFee: the outputs and the inputs are each rounded.               *)
EstimateFee(tx_size, txin_size) ==
  GetFee(request.rate, tx_size) + GetFee(request.rate, txin_size)

(* The call of SelectCoins: the asset id of bitcoin is empty.              *)
SpendFee(k) == GetFee(request.option_rate, utxos[k].spend_size)

Promise == INSTANCE SelectPromise WITH NoAsset <- ""

Call ==
  [single  |-> TRUE,
   coins   |-> [k \in 1 .. Len(utxos) |-> [asset  |-> "",
                                           amount |-> utxos[k].amount,
                                           spend  |-> SpendFee(k)]],
   targets |-> [a \in {""} |-> target_amount],
   tx_fee  |-> fee,
   payers  |-> {""}]

NoCoins == [k \in 1 .. Len(utxos) |-> FALSE]

Init ==
  /\ pc = "start"
  /\ request \in Requests
  /\ utxos \in Wallets
  /\ selected_txin_utxos \in Listed
  /\ txin_amount = 0 /\ target_amount = 0 /\ dest_amount = 0 /\ fee = 0
  /\ selected_coins = NoCoins /\ utxo_amount = 0 /\ diff_amount = 0
  /\ fee_error = FALSE
  /\ change = 0 /\ estimate_fee = 0

(* A target of 0 stands for the sum of the outputs; what the inputs of the *)
(* transaction amount to need not be collected.                            *)
Collect_Unclamped(target) == target - TxInAmount
Collect(target) ==
  IF target > TxInAmount THEN target - TxInAmount ELSE 0

DestAmount_TargetOnly == request.target_value
DestAmount == Greater(request.tx_amount, request.target_value)

Prepare ==
  /\ pc = "start"
  /\ txin_amount' = TxInAmount
  /\ fee' = IF use_fee THEN EstimateFee(request.tx_size, ListedSize) ELSE 0
  /\ target_amount' =
       Collect(IF request.target_value = 0 THEN request.tx_amount
               ELSE request.target_value)
  /\ dest_amount' = DestAmount
  /\ pc' = "select"
  /\ UNCHANGED <<input, coins, diff_amount, fee_error, output>>

SkipSelection ==
  /\ pc = "select"
  /\ target_amount = 0
  /\ utxo_amount' = txin_amount
  /\ pc' = "check"
  /\ UNCHANGED <<input, goal, fee, selected_coins, diff_amount, fee_error, output>>

(* The coins selected pay for target_amount, fee and their own inputs; if  *)
(* they still do not reach dest_amount, "low BTC" is thrown.               *)
SelectCoins ==
  /\ pc = "select"
  /\ target_amount > 0
  /\ selected_coins' \in Promise!Answers(Call)
  /\ utxo_amount' = AmountOf(selected_coins') + txin_amount
  /\ pc' = IF utxo_amount' < dest_amount THEN "throw" ELSE "check"
  /\ UNCHANGED <<input, goal, fee, diff_amount, fee_error, output>>

SelectThrows ==
  /\ pc = "select"
  /\ target_amount > 0
  /\ Promise!Refuses(Call)
  /\ pc' = "throw"
  /\ UNCHANGED <<input, goal, fee, coins, diff_amount, fee_error, output>>

-----------------------------------------------------------------------------
(* The differences of amounts the code takes next can be negative, which   *)
(* the class Amount may refuse: both are possible here.                    *)
AmountThrows ==
  /\ pc = "check"
  /\ \/ utxo_amount < dest_amount
     \/ use_fee /\ utxo_amount < request.dust_amount
  /\ pc' = "throw"
  /\ UNCHANGED <<input, goal, fee, coins, diff_amount, fee_error, output>>

(* More than is needed: the change output makes the transaction larger.    *)
MoreThanNeeded == utxo_amount - request.dust_amount > dest_amount + fee

FeeWithChange_ListedOnly ==
  EstimateFee(request.tx_size + ChangeSize, ListedSize)
FeeWithChange ==
  EstimateFee(request.tx_size + ChangeSize, ListedSize + SizeOf(selected_coins))

CheckAmount ==
  /\ pc = "check"
  /\ fee' = IF use_fee /\ MoreThanNeeded THEN FeeWithChange ELSE fee
  /\ diff_amount' = utxo_amount - dest_amount
  /\ pc' = IF use_fee THEN "need" ELSE "change"
  /\ UNCHANGED <<input, goal, coins, fee_error, output>>

LowFee ==
  /\ pc = "need"
  /\ utxo_amount < dest_amount + fee
  /\ fee_error' = TRUE
  /\ pc' = "throw"
  /\ UNCHANGED <<input, goal, fee, coins, diff_amount, output>>

(* What would be dust as change is added to the fee instead.               *)
FeeTakingDust_Not == fee
FeeTakingDust == utxo_amount - dest_amount

TakeFee ==
  /\ pc = "need"
  /\ utxo_amount >= dest_amount + fee
  /\ diff_amount' = diff_amount - fee
  /\ fee' = IF request.dust_amount > diff_amount' THEN FeeTakingDust ELSE fee
  /\ pc' = "change"
  /\ UNCHANGED <<input, goal, coins, fee_error, output>>

ChangeIsDust == diff_amount <= request.dust_amount

AddChange ==
  /\ pc = "change"
  /\ ~ChangeIsDust /\ diff_amount # 0
  /\ change' = diff_amount
  /\ estimate_fee' = fee
  /\ pc' = "done"
  /\ UNCHANGED <<input, goal, fee, coins, diff_amount, fee_error>>

NoChange ==
  /\ pc = "change"
  /\ ChangeIsDust \/ diff_amount = 0
  /\ estimate_fee' = fee
  /\ pc' = "done"
  /\ UNCHANGED <<input, goal, fee, coins, diff_amount, fee_error, change>>

Stopped == pc \in {"done", "throw"} /\ UNCHANGED vars

Next ==
  \/ Prepare \/ SkipSelection \/ SelectCoins \/ SelectThrows
  \/ AmountThrows \/ CheckAmount \/ LowFee \/ TakeFee \/ AddChange \/ NoChange
  \/ Stopped

Spec == Init /\ [][Next]_vars

-----------------------------------------------------------------------------
TypeOK ==
  /\ pc \in {"start", "select", "check", "need", "change", "done", "throw"}
  /\ request \in Requests /\ utxos \in Wallets /\ selected_txin_utxos \in Listed
  /\ txin_amount \in Nat /\ target_amount \in Nat /\ dest_amount \in Nat
  /\ fee \in Nat
  /\ selected_coins \in [1 .. Len(utxos) -> BOOLEAN]
  /\ utxo_amount \in Nat /\ diff_amount \in Int
  /\ fee_error \in BOOLEAN
  /\ change \in Nat /\ estimate_fee \in Nat

(* What goes into the funded transaction and what the caller wanted to get *)
(* out of it.                                                              *)
Inputs  == TxInAmount + AmountOf(selected_coins)
Wanted  == Greater(request.tx_amount, request.target_value)
PaidFee == Inputs - Wanted - change

(* With a fee rate, what goes in is what was wanted, the change and the    *)
(* fee reported, and nothing else; the one exception is change of exactly  *)
(* the dust amount, see NothingIsLost.                                     *)
Balanced ==
  pc = "done" /\ use_fee => PaidFee - estimate_fee \in {0, request.dust_amount}

(* The fee that is really paid is that of the finished transaction, with   *)
(* its change output and the inputs selected, up to 1 satoshi an input for *)
(* rounding; where the target is not less than the outputs, and options do *)
(* not select coins at a lower rate or size.                               *)
TargetCoversOutputs ==
  request.target_value = 0 \/ request.target_value >= request.tx_amount

FinalFee ==
  EstimateFee(request.tx_size + (IF change > 0 THEN ChangeSize ELSE 0),
              ListedSize + SizeOf(selected_coins))

FeeIsSufficient ==
  pc = "done" /\ use_fee /\ TargetCoversOutputs
    /\ (\A k \in 1 .. Len(utxos) : SpendFee(k) >= GetFee(request.rate, utxos[k].size))
      => PaidFee + Len(utxos) >= FinalFee

(* The inputs cover what was wanted, whatever is preselected; without a    *)
(* fee rate, as far as the target is not less than the outputs.            *)
InputsCoverOutputs ==
  pc = "done" /\ (use_fee \/ TargetCoversOutputs) => Inputs >= Wanted

(* The comment at the last check says that change is left out if it is     *)
(* smaller than dust.  Change that is not must be put out, or reported as  *)
(* fee: nothing is lost.                                                   *)
NothingIsLost == pc = "done" /\ use_fee => PaidFee = estimate_fee

(* effective_fee_rate is declared as "effective fee rate (minimum)": the   *)
(* finished transaction pays no less.                                      *)
FeeRateIsMinimum ==
  pc = "done" /\ use_fee => PaidFee + Len(utxos) >= FinalFee

(* The comment at the second estimate says that it is made where there is  *)
(* more than needed, because an output is added then.  A selection that    *)
(* pays for the transaction without change is not refused for its fee.     *)
ChangelessIsAccepted ==
  fee_error =>
    Inputs < Wanted + EstimateFee(request.tx_size, ListedSize + SizeOf(selected_coins))
=============================================================================
