------------------------------- MODULE FeeLaws -------------------------------
(***************************************************************************)
(* What the callers of FeeCalculator rely on.  A transaction is built: it  *)
(* grows by its outputs or by its inputs, or its rate rises, by 1 a step;  *)
(* its fee is asked for at any time, for the whole or, as EstimateFee does *)
(* it, for outputs and inputs apart.                                       *)
(***************************************************************************)
EXTENDS Fee

CONSTANTS MaxRate, MaxSize   \* bounds on the rate and on either size

ASSUME MaxRateAssumption == MaxRate \in Nat /\ MaxRate < RateLimit
ASSUME MaxSizeAssumption == MaxSize \in Nat

VARIABLES rate, tx_size, txin_size

feeVars == <<rate, tx_size, txin_size>>

FeeInit == rate = 0 /\ tx_size = 0 /\ txin_size = 0

AddOutput ==
  /\ tx_size < MaxSize
  /\ tx_size' = tx_size + 1
  /\ UNCHANGED <<rate, txin_size>>

AddInput ==
  /\ txin_size < MaxSize
  /\ txin_size' = txin_size + 1
  /\ UNCHANGED <<rate, tx_size>>

RaiseRate ==
  /\ rate < MaxRate
  /\ rate' = rate + 1
  /\ UNCHANGED <<tx_size, txin_size>>

FeeNext == AddOutput \/ AddInput \/ RaiseRate

FeeSpec == FeeInit /\ [][FeeNext]_feeVars

WholeFee == GetFee(rate, tx_size + txin_size)
SplitFee == GetFee(rate, tx_size) + GetFee(rate, txin_size)

(* Rounding outputs and inputs apart, with 1 satoshi for each at least, is *)
(* never more than 1 satoshi off the fee of the whole transaction.         *)
SplitLosesLittle == SplitFee \in (WholeFee - 1) .. (WholeFee + 1)

(* A transaction that grows, or is sent at a higher rate, never gets       *)
(* cheaper, across every rounding step and the minimum of 1 satoshi.       *)
FeeOnlyRises == [][WholeFee' >= WholeFee]_feeVars

(* An output that is not dust is worth spending at the dust relay rate.    *)
DustPaysForSpending ==
  \A is_witness \in BOOLEAN :
    GetDustFeeAmount(rate, tx_size, is_witness) >=
      GetFee(DustRate(rate), SpendSize(is_witness))
=============================================================================
