--------------------------------- MODULE Fee ---------------------------------
(***************************************************************************)
(* FeeCalculator (src/cfd_fee.cpp) and the dust threshold of               *)
(* CoinSelectionOption (src/cfd_utxo.cpp).  Rates are satoshi per 1000     *)
(* virtual bytes; a division truncates.                                    *)
(***************************************************************************)
EXTENDS Integers

CONSTANT RateLimit   \* 2^32: FeeCalculator::baserate_ is a uint32_t

ASSUME RateLimitAssumption == RateLimit \in Nat \ {0}

kKiloByteSize == 1000

(* FeeCalculator keeps the rate in uint32_t and is given it as uint64_t. *)
StoredRate_Signed(rate) == rate % ((RateLimit + 1) \div 2)
StoredRate(rate) == rate % RateLimit

(* FeeCalculator::GetFee(size): the fee of a size, at least 1 satoshi. *)
GetFee(rate, size) ==
  LET fee == (StoredRate(rate) * size) \div kKiloByteSize
  IN  IF fee = 0 /\ size # 0 /\ StoredRate(rate) # 0 THEN 1 ELSE fee

(* What spending an output takes: the 148 bytes of policy.cpp, with the    *)
(* signature script (107) discounted by kWitnessScaleFactor for a witness. *)
SpendSize(is_witness) == 32 + 4 + 1 + (IF is_witness THEN 107 \div 4 ELSE 107) + 4

(* CoinSelectionOption::GetDustFeeAmount: an output is dust if its amount  *)
(* does not pay for the output and for spending it.  A rate of 0 stands    *)
(* for kDustRelayTxFeeRate.                                                *)
kDustRelayTxFeeRate == 3000
DustRate(rate) == IF rate <= 0 THEN kDustRelayTxFeeRate ELSE rate

GetDustFeeAmount_OutputOnly(dust_fee_rate, txout_size, is_witness) ==
  GetFee(DustRate(dust_fee_rate), txout_size)
GetDustFeeAmount(dust_fee_rate, txout_size, is_witness) ==
  GetFee(DustRate(dust_fee_rate), txout_size + SpendSize(is_witness))
=============================================================================
