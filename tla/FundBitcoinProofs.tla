-------------------------- MODULE FundBitcoinProofs --------------------------
(***************************************************************************)
(* Proofs about FundBitcoin, for all requests, wallets and listed inputs,  *)
(* and about the laws of fees it rests on (FeeLaws), for every rate that   *)
(* FeeCalculator can store and all sizes.                                  *)
(*                                                                         *)
(* The invariant Amounts says, point by point of the call, what its        *)
(* running totals stand for.  That the fee suffices rests on what          *)
(* SelectPromise owes, and on FeesAddUp: the fee of a size is at most 1    *)
(* satoshi more for each part than the fees of the parts.                  *)
(***************************************************************************)
EXTENDS FundBitcoin, FeeLaws, SumsProofs, TLAPS

Coins == 1 .. Len(utxos)
Inset == 1 .. Len(selected_txin_utxos)

LEMMA ElementsOfSeq ==
  ASSUME NEW S, NEW s \in Seq(S)
  PROVE  Len(s) \in Nat /\ \A k \in 1 .. Len(s) : s[k] \in S
  OBVIOUS

LEMMA LenOfList ==
  ASSUME NEW n \in Nat, NEW S, NEW f \in [1 .. n -> S]
  PROVE  Len(f) = n
  OBVIOUS

LEMMA InputTypes ==
  ASSUME request \in Requests, utxos \in Wallets, selected_txin_utxos \in Listed
  PROVE  /\ IsRequest(request)
         /\ Len(utxos) \in Nat
         /\ \A k \in Coins : /\ utxos[k].amount \in Nat
                             /\ utxos[k].size \in Nat
                             /\ utxos[k].spend_size \in Nat
         /\ Len(selected_txin_utxos) \in Nat
         /\ \A k \in Inset : /\ selected_txin_utxos[k].amount \in Nat
                             /\ selected_txin_utxos[k].size \in Nat
                             /\ selected_txin_utxos[k].in_tx \in BOOLEAN
<1>1. IsRequest(request)
  BY RequestsAssumption
<1>2. utxos \in Seq([amount : Nat, size : Nat, spend_size : Nat])
  BY WalletsAssumption
<1>3. selected_txin_utxos \in Seq([amount : Nat, size : Nat, in_tx : BOOLEAN])
  BY ListedAssumption
<1>4. /\ Len(utxos) \in Nat
      /\ \A k \in Coins : utxos[k] \in [amount : Nat, size : Nat, spend_size : Nat]
  BY <1>2, ElementsOfSeq DEF Coins
<1>5. /\ Len(selected_txin_utxos) \in Nat
      /\ \A k \in Inset :
           selected_txin_utxos[k] \in [amount : Nat, size : Nat, in_tx : BOOLEAN]
  BY <1>3, ElementsOfSeq DEF Inset
<1>6. QED
  BY <1>1, <1>4, <1>5

-----------------------------------------------------------------------------
(* Fees.  The fee of a product of rate and size: the part of GetFee that   *)
(* does not multiply.                                                      *)
FeeOf(product) == IF product \div 1000 = 0 /\ product # 0 THEN 1 ELSE product \div 1000

LEMMA Division ==
  ASSUME NEW n \in Nat
  PROVE  /\ n \div 1000 \in Nat
         /\ 1000 * (n \div 1000) <= n
         /\ n < 1000 * (n \div 1000) + 1000
  OBVIOUS

LEMMA FeeOfNat == ASSUME NEW p \in Nat PROVE FeeOf(p) \in Nat
  BY Division DEF FeeOf

LEMMA FeeOfMonotone ==
  ASSUME NEW p \in Nat, NEW q \in Nat, p <= q
  PROVE  FeeOf(p) <= FeeOf(q)
  BY Division DEF FeeOf

LEMMA FeeOfSum ==
  ASSUME NEW p \in Nat, NEW q \in Nat
  PROVE  /\ FeeOf(p + q) <= FeeOf(p) + FeeOf(q) + 1
         /\ FeeOf(p) + FeeOf(q) <= FeeOf(p + q) + 1
<1>1. p + q \in Nat
  OBVIOUS
<1>2. QED
  BY <1>1, Division DEF FeeOf

LEMMA StoredRateNat == ASSUME NEW rt \in Nat PROVE StoredRate(rt) \in Nat
  BY RateLimitAssumption DEF StoredRate

LEMMA Products ==
  ASSUME NEW r \in Nat, NEW s \in Nat, NEW t \in Nat
  PROVE  /\ r * s \in Nat /\ r * t \in Nat
         /\ r * s # 0 <=> (r # 0 /\ s # 0)
         /\ r * (s + t) = r * s + r * t
  OBVIOUS

LEMMA GetFeeOfProduct ==
  ASSUME NEW rt \in Nat, NEW size \in Nat
  PROVE  GetFee(rt, size) = FeeOf(StoredRate(rt) * size)
<1>1. StoredRate(rt) \in Nat
  BY StoredRateNat
<1>2. StoredRate(rt) * size # 0 <=> (size # 0 /\ StoredRate(rt) # 0)
  BY <1>1, Products
<1>3. QED
  BY <1>2 DEF GetFee, FeeOf, kKiloByteSize

LEMMA GetFeeNat ==
  ASSUME NEW rt \in Nat, NEW size \in Nat
  PROVE  GetFee(rt, size) \in Nat
<1>1. StoredRate(rt) * size \in Nat
  BY StoredRateNat, Products
<1>2. QED
  BY <1>1, GetFeeOfProduct, FeeOfNat

(* A larger transaction costs no less, and one made of two parts 1 satoshi *)
(* more or less than the parts at most.                                    *)
LEMMA GetFeeOfSum ==
  ASSUME NEW rt \in Nat, NEW s \in Nat, NEW t \in Nat
  PROVE  /\ GetFee(rt, s) <= GetFee(rt, s + t)
         /\ GetFee(rt, s + t) <= GetFee(rt, s) + GetFee(rt, t) + 1
         /\ GetFee(rt, s) + GetFee(rt, t) <= GetFee(rt, s + t) + 1
<1> DEFINE r == StoredRate(rt)
<1>1. r \in Nat
  BY StoredRateNat
<1> HIDE DEF r
<1>2. r * s \in Nat /\ r * t \in Nat /\ r * (s + t) = r * s + r * t
  BY <1>1, Products
<1>3. /\ FeeOf(r * s) <= FeeOf(r * s + r * t)
      /\ FeeOf(r * s + r * t) <= FeeOf(r * s) + FeeOf(r * t) + 1
      /\ FeeOf(r * s) + FeeOf(r * t) <= FeeOf(r * s + r * t) + 1
  <2> DEFINE p == r * s
             q == r * t
  <2>1. p \in Nat /\ q \in Nat /\ p + q \in Nat /\ p <= p + q
    BY <1>2
  <2> HIDE DEF p, q
  <2>2. /\ FeeOf(p) <= FeeOf(p + q) /\ FeeOf(p + q) <= FeeOf(p) + FeeOf(q) + 1
        /\ FeeOf(p) + FeeOf(q) <= FeeOf(p + q) + 1
    BY <2>1, FeeOfMonotone, FeeOfSum
  <2>3. QED
    BY <2>2 DEF p, q
<1>4. /\ GetFee(rt, s) = FeeOf(r * s) /\ GetFee(rt, t) = FeeOf(r * t)
      /\ GetFee(rt, s + t) = FeeOf(r * (s + t))
  BY GetFeeOfProduct DEF r
<1>5. QED
  BY <1>2, <1>3, <1>4

(* A higher rate costs no less, as long as it is stored whole.             *)
LEMMA GetFeeOfRate ==
  ASSUME NEW r \in Nat, r + 1 <= MaxRate, NEW s \in Nat
  PROVE  GetFee(r, s) <= GetFee(r + 1, s)
<1>1. StoredRate(r) = r /\ StoredRate(r + 1) = r + 1
  BY RateLimitAssumption, MaxRateAssumption DEF StoredRate
<1>2. r * s \in Nat /\ (r + 1) * s \in Nat /\ r * s <= (r + 1) * s
  <2>1. (r + 1) * s = r * s + s /\ r * s \in Nat
    OBVIOUS
  <2> DEFINE p == r * s
  <2>2. p \in Nat /\ (r + 1) * s = p + s
    BY <2>1
  <2> HIDE DEF p
  <2>3. p \in Nat /\ (r + 1) * s \in Nat /\ p <= (r + 1) * s
    BY <2>2
  <2>4. QED
    BY <2>3 DEF p
<1>3. GetFee(r, s) = FeeOf(r * s) /\ GetFee(r + 1, s) = FeeOf((r + 1) * s)
  <2>1. r + 1 \in Nat
    OBVIOUS
  <2>2. /\ GetFee(r, s) = FeeOf(StoredRate(r) * s)
        /\ GetFee(r + 1, s) = FeeOf(StoredRate(r + 1) * s)
    BY <2>1, GetFeeOfProduct
  <2>3. QED
    BY <1>1, <2>2
<1>4. QED
  BY <1>2, <1>3, FeeOfMonotone

-----------------------------------------------------------------------------
(* Theorems of FeeLaws.                                                    *)
FeeTypeOK ==
  /\ rate \in Nat /\ rate <= MaxRate
  /\ tx_size \in Nat /\ txin_size \in Nat

(* The types, and the bound on the rate under which it is stored whole.    *)
THEOREM FeeTypes == FeeSpec => []FeeTypeOK
<1>1. FeeInit => FeeTypeOK
  BY MaxRateAssumption DEF FeeInit, FeeTypeOK
<1>2. FeeTypeOK /\ [FeeNext]_feeVars => FeeTypeOK'
  BY MaxRateAssumption
  DEF FeeTypeOK, FeeNext, feeVars, AddOutput, AddInput, RaiseRate
<1>3. QED
  BY <1>1, <1>2, PTL DEF FeeSpec

(* EstimateFee, which rounds outputs and inputs apart, is at most 1        *)
(* satoshi off the fee of the whole transaction, at every rate and size.   *)
THEOREM SplitCorrect == FeeSpec => []SplitLosesLittle
<1>1. FeeTypeOK => SplitLosesLittle
  <2> SUFFICES ASSUME FeeTypeOK PROVE SplitLosesLittle
    OBVIOUS
  <2>1. rate \in Nat /\ tx_size \in Nat /\ txin_size \in Nat /\ tx_size + txin_size \in Nat
    BY DEF FeeTypeOK
  <2>2. /\ GetFee(rate, tx_size) \in Nat /\ GetFee(rate, txin_size) \in Nat
        /\ GetFee(rate, tx_size + txin_size) \in Nat
    BY <2>1, GetFeeNat
  <2>3. /\ GetFee(rate, tx_size + txin_size)
             <= GetFee(rate, tx_size) + GetFee(rate, txin_size) + 1
        /\ GetFee(rate, tx_size) + GetFee(rate, txin_size)
             <= GetFee(rate, tx_size + txin_size) + 1
    BY <2>1, GetFeeOfSum
  <2>4. QED
    BY <2>2, <2>3 DEF SplitLosesLittle, WholeFee, SplitFee
<1>2. QED
  BY <1>1, FeeTypes, PTL

(* A transaction never gets cheaper by growing or at a higher rate.        *)
THEOREM FeeRises == FeeSpec => FeeOnlyRises
<1>1. FeeTypeOK /\ [FeeNext]_feeVars => WholeFee' >= WholeFee
  <2> SUFFICES ASSUME FeeTypeOK, [FeeNext]_feeVars
               PROVE  WholeFee' >= WholeFee
    OBVIOUS
  <2> DEFINE s == tx_size + txin_size
  <2>1. /\ rate \in Nat /\ rate <= MaxRate /\ MaxRate \in Nat /\ s \in Nat
        /\ WholeFee = GetFee(rate, s)
        /\ WholeFee' = GetFee(rate', tx_size' + txin_size')
    BY MaxRateAssumption DEF FeeTypeOK, WholeFee
  <2>2. \/ rate' = rate /\ tx_size' + txin_size' = s
        \/ rate' = rate /\ tx_size' + txin_size' = s + 1
        \/ rate < MaxRate /\ rate' = rate + 1 /\ tx_size' + txin_size' = s
    BY DEF FeeTypeOK, FeeNext, feeVars, AddOutput, AddInput, RaiseRate
  <2> HIDE DEF s
  <2>3. GetFee(rate, s) <= GetFee(rate, s + 1)
    BY <2>1, GetFeeOfSum
  <2>4. rate < MaxRate => GetFee(rate, s) <= GetFee(rate + 1, s)
    <3>1. rate < MaxRate => rate + 1 <= MaxRate
      BY <2>1
    <3>2. QED
      BY <2>1, <3>1, GetFeeOfRate
  <2>5. /\ GetFee(rate, s) \in Nat /\ GetFee(rate, s + 1) \in Nat
        /\ GetFee(rate + 1, s) \in Nat
    <3>1. s + 1 \in Nat /\ rate + 1 \in Nat
      BY <2>1
    <3>2. QED
      BY <2>1, <3>1, GetFeeNat
  <2>6. CASE rate' = rate /\ tx_size' + txin_size' = s
    BY <2>1, <2>5, <2>6
  <2>7. CASE rate' = rate /\ tx_size' + txin_size' = s + 1
    BY <2>1, <2>3, <2>5, <2>7
  <2>8. CASE rate < MaxRate /\ rate' = rate + 1 /\ tx_size' + txin_size' = s
    BY <2>1, <2>4, <2>5, <2>8
  <2>9. QED
    BY <2>2, <2>6, <2>7, <2>8
<1>2. QED
  BY <1>1, FeeTypes, PTL DEF FeeSpec, FeeOnlyRises

(* What GetDustFeeAmount does not call dust pays for being spent at the    *)
(* dust relay rate, also at the rate it takes for 0.                       *)
THEOREM DustCorrect == FeeSpec => []DustPaysForSpending
<1>1. FeeTypeOK => DustPaysForSpending
  <2> SUFFICES ASSUME FeeTypeOK, NEW is_witness \in BOOLEAN
               PROVE  GetDustFeeAmount(rate, tx_size, is_witness) >=
                        GetFee(DustRate(rate), SpendSize(is_witness))
    BY DEF DustPaysForSpending
  <2> DEFINE d == DustRate(rate)
             s == SpendSize(is_witness)
  <2>1. d \in Nat /\ s \in Nat /\ tx_size \in Nat
    BY DEF FeeTypeOK, DustRate, SpendSize, kDustRelayTxFeeRate
  <2>2. GetDustFeeAmount(rate, tx_size, is_witness) = GetFee(d, tx_size + s)
    BY DEF GetDustFeeAmount
  <2> HIDE DEF d, s
  <2>3. tx_size + s = s + tx_size
    BY <2>1
  <2>4. GetFee(d, s) <= GetFee(d, s + tx_size)
    BY <2>1, GetFeeOfSum
  <2>5. GetFee(d, s) \in Nat /\ GetFee(d, s + tx_size) \in Nat
    <3>1. s + tx_size \in Nat
      BY <2>1
    <3>2. QED
      BY <2>1, <3>1, GetFeeNat
  <2>6. QED
    BY <2>2, <2>3, <2>4, <2>5 DEF d, s
<1>2. QED
  BY <1>1, FeeTypes, PTL

-----------------------------------------------------------------------------
(* The fee of n parts together is at most 1 satoshi a part above the fees  *)
(* of the parts: by induction on n.                                        *)
LEMMA FeesAddUp ==
  ASSUME NEW rt \in Nat, NEW s \in Nat, NEW n \in Nat, NEW f, NEW g,
         \A k \in 1 .. n : f[k] \in Nat /\ g[k] \in Nat,
         \A k \in 1 .. n : f[k] # 0 => GetFee(rt, f[k]) <= g[k]
  PROVE  GetFee(rt, s + SumTo(f, n)) <= GetFee(rt, s) + SumTo(g, n) + n
<1> DEFINE S == {m \in Nat : m <= n =>
                   GetFee(rt, s + SumTo(f, m)) <= GetFee(rt, s) + SumTo(g, m) + m}
<1>1. 0 \in S
  <2>1. SumTo(f, 0) = 0 /\ SumTo(g, 0) = 0
    BY SumToZero
  <2>2. GetFee(rt, s) \in Nat
    BY GetFeeNat
  <2>3. QED
    BY <2>1, <2>2
<1>2. ASSUME NEW m \in Nat, m \in S, m + 1 <= n PROVE m + 1 \in S
  <2>1. /\ \A k \in 1 .. m + 1 : f[k] \in Int /\ g[k] \in Int
        /\ \A k \in 1 .. m : f[k] \in Nat /\ g[k] \in Nat
        /\ f[m + 1] \in Nat /\ g[m + 1] \in Nat
        /\ f[m + 1] # 0 => GetFee(rt, f[m + 1]) <= g[m + 1]
    BY <1>2
  <2>2. SumTo(f, m + 1) = SumTo(f, m) + f[m + 1]
    BY <2>1, SumToNext
  <2>3. SumTo(g, m + 1) = SumTo(g, m) + g[m + 1]
    BY <2>1, SumToNext
  <2>4. SumTo(f, m) \in Nat /\ SumTo(g, m) \in Nat
    BY <2>1, SumToGrows
  <2>5. GetFee(rt, s + SumTo(f, m)) <= GetFee(rt, s) + SumTo(g, m) + m
    BY <1>2
  <2> DEFINE t == s + SumTo(f, m)
             e == f[m + 1]
  <2>6. t \in Nat /\ e \in Nat /\ t + e \in Nat /\ s + SumTo(f, m + 1) = t + e
    BY <2>1, <2>2, <2>4
  <2>7. e # 0 => GetFee(rt, e) <= g[m + 1]
    BY <2>1
  <2>8. GetFee(rt, t) <= GetFee(rt, s) + SumTo(g, m) + m
    BY <2>5
  <2> HIDE DEF t, e
  <2>9. GetFee(rt, t + e) <= GetFee(rt, t) + g[m + 1] + 1
    <3>1. /\ GetFee(rt, t) \in Nat /\ GetFee(rt, e) \in Nat
          /\ GetFee(rt, t + e) \in Nat
      BY <2>6, GetFeeNat
    <3>2. GetFee(rt, t + e) <= GetFee(rt, t) + GetFee(rt, e) + 1
      BY <2>6, GetFeeOfSum
    <3>3. CASE e = 0
      <4>1. t + e = t
        BY <2>6, <3>3
      <4>2. QED
        BY <2>1, <3>1, <4>1
    <3>4. CASE e # 0
      BY <2>1, <2>7, <3>1, <3>2, <3>4
    <3>5. QED
      BY <3>3, <3>4
  <2>10. GetFee(rt, s) \in Nat /\ GetFee(rt, t) \in Nat /\ GetFee(rt, t + e) \in Nat
    BY <2>6, GetFeeNat
  <2>11. GetFee(rt, t + e) <= GetFee(rt, s) + SumTo(g, m + 1) + (m + 1)
    BY <2>1, <2>3, <2>4, <2>8, <2>9, <2>10
  <2>12. QED
    BY <2>6, <2>11
<1>3. \A m \in Nat : m \in S => m + 1 \in S
  BY <1>2
<1> HIDE DEF S
<1>4. n \in S
  BY <1>1, <1>3, Induction
<1>5. QED
  BY <1>4 DEF S

-----------------------------------------------------------------------------
(* The sums of the call.                                                   *)
SpendOf(sel) == SelSum([k \in Coins |-> SpendFee(k)], sel)

LEMMA SumTypes ==
  ASSUME request \in Requests, utxos \in Wallets, selected_txin_utxos \in Listed
  PROVE  /\ TxInAmount \in Nat /\ ListedSize \in Nat
         /\ \A sel \in [Coins -> BOOLEAN] :
              SizeOf(sel) \in Nat /\ AmountOf(sel) \in Nat /\ SpendOf(sel) \in Nat
         /\ NoCoins \in [Coins -> BOOLEAN]
         /\ SizeOf(NoCoins) = 0 /\ AmountOf(NoCoins) = 0
<1>1. TxInAmount \in Nat
  <2> DEFINE f == [k \in 1 .. Len(selected_txin_utxos) |-> selected_txin_utxos[k].amount]
  <2>1. InTx \in FlagLists(Len(selected_txin_utxos))
    BY InputTypes DEF InTx, FlagLists, Inset
  <2>2. \A k \in 1 .. Len(selected_txin_utxos) : InTx[k] => f[k] \in Nat
    BY InputTypes DEF Inset
  <2> HIDE DEF f
  <2>3. SelSum(f, InTx) \in Nat
    BY <2>1, <2>2, InputTypes, SelSumNat
  <2>4. QED
    BY <2>3 DEF TxInAmount, f
<1>2. ListedSize \in Nat
  <2> DEFINE f == [k \in 1 .. Len(selected_txin_utxos) |-> selected_txin_utxos[k].size]
             n == Len(selected_txin_utxos)
  <2>1. n \in Nat /\ n <= n /\ \A k \in 1 .. n : f[k] \in Nat
    BY InputTypes DEF Inset
  <2> HIDE DEF f, n
  <2>2. SumTo(f, n) \in Nat
    BY <2>1, SumToGrows
  <2>3. QED
    BY <2>2 DEF ListedSize, f, n
<1>3. ASSUME NEW sel \in [Coins -> BOOLEAN]
      PROVE  SizeOf(sel) \in Nat /\ AmountOf(sel) \in Nat /\ SpendOf(sel) \in Nat
  <2> DEFINE f == [k \in 1 .. Len(utxos) |-> utxos[k].size]
             g == [k \in 1 .. Len(utxos) |-> utxos[k].amount]
             h == [k \in Coins |-> SpendFee(k)]
             n == Len(utxos)
  <2>1. n \in Nat /\ sel \in FlagLists(n)
    BY InputTypes DEF FlagLists, Coins
  <2>2. \A k \in Coins : SpendFee(k) \in Nat
    BY InputTypes, GetFeeNat DEF SpendFee, IsRequest
  <2>3. \A k \in 1 .. n : /\ sel[k] => f[k] \in Nat
                          /\ sel[k] => g[k] \in Nat
                          /\ sel[k] => h[k] \in Nat
    BY <2>2, InputTypes DEF Coins
  <2>4. SizeOf(sel) = SelSum(f, sel) /\ AmountOf(sel) = SelSum(g, sel)
        /\ SpendOf(sel) = SelSum(h, sel)
    BY DEF SizeOf, AmountOf, SpendOf
  <2> HIDE DEF f, g, h, n
  <2>5. SelSum(f, sel) \in Nat /\ SelSum(g, sel) \in Nat /\ SelSum(h, sel) \in Nat
    BY <2>1, <2>3, SelSumNat
  <2>6. QED
    BY <2>4, <2>5
<1>4. /\ NoCoins \in [Coins -> BOOLEAN] /\ NoCoins = NoFlags(Len(utxos))
      /\ Len(utxos) \in Nat
  BY InputTypes DEF NoCoins, Coins, NoFlags
<1>5. SizeOf(NoCoins) = 0 /\ AmountOf(NoCoins) = 0
  BY <1>4, SelSumOfNone DEF SizeOf, AmountOf
<1>6. QED
  BY <1>1, <1>2, <1>3, <1>4, <1>5

LEMMA EstimateNat ==
  ASSUME request \in Requests, NEW s \in Nat, NEW t \in Nat
  PROVE  EstimateFee(s, t) \in Nat
<1>1. request.rate \in Nat
  BY RequestsAssumption DEF IsRequest
<1>2. GetFee(request.rate, s) \in Nat /\ GetFee(request.rate, t) \in Nat
  BY <1>1, GetFeeNat
<1>3. QED
  BY <1>2 DEF EstimateFee

(* The coins are charged with no less than they cost.                      *)
SpendingIsCharged ==
  \A k \in 1 .. Len(utxos) : SpendFee(k) >= GetFee(request.rate, utxos[k].size)

(* What is charged for coins one by one makes up for them in an estimate.  *)
LEMMA EstimateOfSelection ==
  ASSUME request \in Requests, utxos \in Wallets, selected_txin_utxos \in Listed,
         SpendingIsCharged, NEW sel \in [Coins -> BOOLEAN], NEW s \in Nat, NEW t \in Nat
  PROVE  EstimateFee(s, t + SizeOf(sel))
           <= EstimateFee(s, t) + SpendOf(sel) + Len(utxos)
<1> DEFINE n == Len(utxos)
           f == Masked([k \in 1 .. Len(utxos) |-> utxos[k].size], sel)
           g == Masked([k \in Coins |-> SpendFee(k)], sel)
<1>1. n \in Nat /\ request.rate \in Nat
  BY InputTypes DEF IsRequest
<1>2. Len(sel) = n
  BY <1>1, FlagsLen DEF FlagLists, Coins
<1>3. \A k \in Coins : SpendFee(k) \in Nat /\ utxos[k].size \in Nat
  BY InputTypes, GetFeeNat DEF SpendFee, IsRequest
<1>4. \A k \in 1 .. n : /\ f[k] = IF sel[k] THEN utxos[k].size ELSE 0
                        /\ g[k] = IF sel[k] THEN SpendFee(k) ELSE 0
  BY <1>2 DEF Masked, Coins
<1>5. \A k \in 1 .. n : f[k] \in Nat /\ g[k] \in Nat
  <2>1. \A k \in 1 .. n : /\ sel[k] \in BOOLEAN
                          /\ utxos[k].size \in Nat /\ SpendFee(k) \in Nat
    BY <1>3 DEF Coins
  <2> HIDE DEF f, g
  <2>2. QED
    BY <1>4, <2>1
<1>6. \A k \in 1 .. n : f[k] # 0 => GetFee(request.rate, f[k]) <= g[k]
  <2>1. ASSUME NEW k \in 1 .. n, f[k] # 0 PROVE GetFee(request.rate, f[k]) <= g[k]
    <3>1. f[k] = utxos[k].size /\ g[k] = SpendFee(k)
      BY <1>4, <2>1
    <3>2. GetFee(request.rate, utxos[k].size) \in Nat /\ SpendFee(k) \in Nat
      BY <1>1, <1>3, GetFeeNat DEF Coins
    <3>3. SpendFee(k) >= GetFee(request.rate, utxos[k].size)
      BY DEF SpendingIsCharged
    <3>4. QED
      BY <3>1, <3>2, <3>3
  <2>2. QED
    BY <2>1
<1>7. SizeOf(sel) = SumTo(f, n) /\ SpendOf(sel) = SumTo(g, n)
  BY <1>2 DEF SizeOf, SpendOf, SelSum
<1> HIDE DEF f, g, n
<1>8. GetFee(request.rate, t + SumTo(f, n))
        <= GetFee(request.rate, t) + SumTo(g, n) + n
  BY <1>1, <1>5, <1>6, FeesAddUp
<1>9. /\ SumTo(f, n) \in Nat /\ SumTo(g, n) \in Nat
  BY <1>7, SumTypes
<1>10. /\ GetFee(request.rate, t + SumTo(f, n)) \in Nat /\ GetFee(request.rate, t) \in Nat
       /\ GetFee(request.rate, s) \in Nat
  <2>1. t + SumTo(f, n) \in Nat
    BY <1>9
  <2>2. QED
    BY <1>1, <2>1, GetFeeNat
<1>11. QED
  BY <1>1, <1>7, <1>8, <1>9, <1>10 DEF EstimateFee, n

(* SelectPromise has sums of its own, of the same definition.              *)
LEMMA SameSums ==
  ASSUME NEW f, NEW sel
  PROVE  Promise!SelSum(f, sel) = SelSum(f, sel)
<1>1. Promise!Masked(f, sel) = Masked(f, sel)
  BY DEF Promise!Masked, Masked
<1>2. ASSUME NEW g, NEW n PROVE Promise!SumTo(g, n) = SumTo(g, n)
  BY DEF Promise!SumTo, SumTo
<1>3. QED
  BY <1>1, <1>2 DEF Promise!SelSum, SelSum

(* The coins of an answer pay the target, the fee and their spending.      *)
LEMMA AnswersPay ==
  ASSUME utxos \in Wallets, request \in Requests, selected_txin_utxos \in Listed,
         NEW sel \in Promise!Answers(Call)
  PROVE  /\ sel \in [Coins -> BOOLEAN]
         /\ AmountOf(sel) >= target_amount + (fee + SpendOf(sel))
<1>1. /\ Call.single = TRUE /\ Call.targets = [a \in {""} |-> target_amount]
      /\ Call.tx_fee = fee /\ Call.payers = {""}
      /\ Call.coins = [k \in Coins |-> [asset  |-> "",
                                        amount |-> utxos[k].amount,
                                        spend  |-> SpendFee(k)]]
  BY DEF Call, Coins
<1>2. Len(utxos) \in Nat
  BY InputTypes
<1>3. Len(Call.coins) = Len(utxos)
  <2> DEFINE S == {Call.coins[k] : k \in Coins}
             c == Call.coins
  <2>1. c \in [1 .. Len(utxos) -> S]
    BY <1>1 DEF Coins
  <2> HIDE DEF S, c
  <2>2. Len(c) = Len(utxos)
    BY <1>2, <2>1, LenOfList
  <2>3. QED
    BY <2>2 DEF c
<1>4. Promise!Coins(Call) = Coins
  BY <1>3 DEF Promise!Coins, Coins
<1>5. sel \in [Coins -> BOOLEAN]
  BY <1>4 DEF Promise!Answers, Promise!Selections
<1>6. "" \in Promise!Asked(Call) /\ Promise!Target(Call, "") = target_amount
  BY <1>1 DEF Promise!Asked, Promise!Target
<1>7. Promise!CoinsOf(Call, "") = Coins
  BY <1>1, <1>4 DEF Promise!CoinsOf
<1>8. Promise!Pays(Call, sel, "")
  BY <1>6 DEF Promise!Answers
<1>9. /\ [k \in Coins |-> Call.coins[k].amount] = [k \in 1 .. Len(utxos) |-> utxos[k].amount]
      /\ [k \in Coins |-> Call.coins[k].spend] = [k \in Coins |-> SpendFee(k)]
  <2> DEFINE c == Call.coins
             r(k) == [asset |-> "", amount |-> utxos[k].amount, spend |-> SpendFee(k)]
  <2>1. \A k \in Coins : /\ Call.coins[k].amount = utxos[k].amount
                         /\ Call.coins[k].spend = SpendFee(k)
    <3>1. c = [k \in Coins |-> r(k)]
      BY <1>1
    <3>2. \A k \in Coins : /\ r(k).amount = utxos[k].amount
                           /\ r(k).spend = SpendFee(k)
      OBVIOUS
    <3> HIDE DEF c, r
    <3>3. \A k \in Coins : /\ c[k].amount = utxos[k].amount
                           /\ c[k].spend = SpendFee(k)
      BY <3>1, <3>2
    <3>4. QED
      BY <3>3 DEF c
  <2>2. QED
    BY <2>1 DEF Coins
<1>10. [k \in Coins |-> sel[k] /\ k \in Coins] = sel
  <2>1. ASSUME NEW k \in Coins PROVE (sel[k] /\ k \in Coins) = sel[k]
    BY <1>5
  <2>2. sel = [k \in Coins |-> sel[k]]
    BY <1>5
  <2>3. [k \in Coins |-> sel[k] /\ k \in Coins] = [k \in Coins |-> sel[k]]
    BY <2>1, Zenon
  <2>4. QED
    BY <2>2, <2>3
<1>11. Promise!AmountOf(Call, sel, "") = AmountOf(sel)
  BY <1>4, <1>7, <1>9, <1>10, SameSums DEF Promise!AmountOf, AmountOf
<1>12. Promise!AllFees(Call, sel) = SpendOf(sel)
  BY <1>4, <1>9, SameSums DEF Promise!AllFees, SpendOf
<1>13. QED
  BY <1>1, <1>5, <1>6, <1>8, <1>11, <1>12 DEF Promise!Pays

-----------------------------------------------------------------------------
(* What the inputs cost at the start, with the coins selected, and with an *)
(* output for change.                                                      *)
FirstFee  == EstimateFee(request.tx_size, ListedSize)
FeeOfAll  == EstimateFee(request.tx_size, ListedSize + SizeOf(selected_coins))
Sought    == IF request.target_value = 0 THEN request.tx_amount
             ELSE request.target_value

Charged   == TargetCoversOutputs /\ SpendingIsCharged

(* Once prepared, the sums are those of the call; until coins are          *)
(* selected there are none.                                                *)
Prepared ==
  /\ pc # "start" => txin_amount = TxInAmount /\ dest_amount = Wanted
  /\ pc \in {"start", "select"} => selected_coins = NoCoins
  /\ pc = "select" => target_amount = Collect(Sought)
  /\ pc \in {"select", "check"} /\ use_fee => fee = FirstFee
  /\ pc \in {"check", "need", "change"} => utxo_amount = Inputs
  /\ pc # "done" => change = 0

(* The selection has paid for itself, if what was wanted and the first fee *)
(* are paid.                                                               *)
PaidSoFar ==
  Charged /\ Inputs >= Wanted + fee => Inputs + Len(utxos) >= Wanted + FeeOfAll

Checked ==
  pc = "check" => /\ use_fee => PaidSoFar
                  /\ ~use_fee /\ TargetCoversOutputs => Inputs >= Wanted

(* Before the fee is taken it is that of a transaction with change, or     *)
(* there will be none.                                                     *)
Estimated ==
  pc = "need" => /\ use_fee /\ diff_amount = Inputs - Wanted
                 /\ \/ fee = FeeWithChange
                    \/ ~MoreThanNeeded /\ PaidSoFar

Taken ==
  pc = "change" /\ use_fee =>
    /\ \/ /\ diff_amount < request.dust_amount
          /\ fee = Inputs - Wanted
       \/ /\ diff_amount >= request.dust_amount
          /\ diff_amount = Inputs - Wanted - fee
    /\ Charged => Inputs + Len(utxos) >= Wanted + FeeOfAll
    /\ Charged /\ diff_amount > request.dust_amount => fee = FeeWithChange

Unpriced ==
  pc = "change" /\ ~use_fee =>
    /\ diff_amount = Inputs - Wanted
    /\ TargetCoversOutputs => Inputs >= Wanted

Amounts == Prepared /\ Checked /\ Estimated /\ Taken /\ Unpriced

IInv ==
  TypeOK /\ Amounts /\ Balanced /\ FeeIsSufficient /\ InputsCoverOutputs

(* Numbers for the arithmetic of the steps.                                *)
LEMMA Numbers ==
  ASSUME TypeOK
  PROVE  /\ IsRequest(request)
         /\ Len(utxos) \in Nat
         /\ Inputs \in Nat /\ Wanted \in Nat
         /\ FirstFee \in Nat /\ FeeOfAll \in Nat /\ FeeWithChange \in Nat
         /\ FeeOfAll <= FeeWithChange
<1>1. /\ request \in Requests /\ utxos \in Wallets /\ selected_txin_utxos \in Listed
      /\ selected_coins \in [Coins -> BOOLEAN]
  BY DEF TypeOK, Coins
<1>2. IsRequest(request) /\ Len(utxos) \in Nat
  BY <1>1, InputTypes
<1>3. /\ TxInAmount \in Nat /\ ListedSize \in Nat
      /\ SizeOf(selected_coins) \in Nat /\ AmountOf(selected_coins) \in Nat
  BY <1>1, SumTypes
<1>4. Inputs \in Nat /\ Wanted \in Nat
  BY <1>2, <1>3 DEF Inputs, Wanted, Greater, IsRequest
<1>5. /\ request.tx_size \in Nat /\ request.tx_size + ChangeSize \in Nat
      /\ ListedSize + SizeOf(selected_coins) \in Nat
      /\ request.rate \in Nat /\ ChangeSize \in Nat
  BY <1>2, <1>3, ChangeSizeAssumption DEF IsRequest
<1>6. FirstFee \in Nat /\ FeeOfAll \in Nat /\ FeeWithChange \in Nat
  BY <1>1, <1>3, <1>5, EstimateNat DEF FirstFee, FeeOfAll, FeeWithChange
<1>7. FeeOfAll <= FeeWithChange
  <2> DEFINE s == request.tx_size
             t == ListedSize + SizeOf(selected_coins)
             r == request.rate
  <2>1. FeeOfAll = GetFee(r, s) + GetFee(r, t)
        /\ FeeWithChange = GetFee(r, s + ChangeSize) + GetFee(r, t)
    BY DEF FeeOfAll, FeeWithChange, EstimateFee
  <2>2. s \in Nat /\ t \in Nat /\ r \in Nat /\ s + ChangeSize \in Nat
    BY <1>5
  <2> HIDE DEF s, t, r
  <2>3. GetFee(r, s) <= GetFee(r, s + ChangeSize)
    BY <1>5, <2>2, GetFeeOfSum
  <2>4. /\ GetFee(r, s) \in Nat /\ GetFee(r, t) \in Nat
        /\ GetFee(r, s + ChangeSize) \in Nat
    BY <2>2, GetFeeNat
  <2>5. QED
    BY <2>1, <2>3, <2>4
<1>8. QED
  BY <1>2, <1>4, <1>6, <1>7

(* What depends on the call's input only, and on the selection.            *)
LEMMA Stay ==
  ASSUME UNCHANGED input
  PROVE  /\ TxInAmount' = TxInAmount /\ Wanted' = Wanted /\ FirstFee' = FirstFee
         /\ Sought' = Sought /\ use_fee' = use_fee /\ NoCoins' = NoCoins
         /\ TargetCoversOutputs' = TargetCoversOutputs
         /\ Charged' = Charged
         /\ request' = request /\ utxos' = utxos
         /\ selected_txin_utxos' = selected_txin_utxos
         /\ UNCHANGED selected_coins =>
              /\ Inputs' = Inputs /\ FeeOfAll' = FeeOfAll
              /\ FeeWithChange' = FeeWithChange
  BY DEF input, TxInAmount, InTx, Wanted, FirstFee, FeeOfAll, FeeWithChange, Sought,
         use_fee, NoCoins, TargetCoversOutputs, Charged, SpendingIsCharged, SpendFee,
         Inputs, EstimateFee, ListedSize, SizeOf, AmountOf

(* Where the call has not returned, nothing is claimed of what it returns. *)
LEMMA NotDone ==
  ASSUME pc # "done"
  PROVE  Balanced /\ FeeIsSufficient /\ InputsCoverOutputs
  BY DEF Balanced, FeeIsSufficient, InputsCoverOutputs

LEMMA Starts == Init => IInv
<1> SUFFICES ASSUME Init PROVE IInv
  OBVIOUS
<1>1. TypeOK
  <2>1. /\ request \in Requests /\ utxos \in Wallets /\ selected_txin_utxos \in Listed
        /\ selected_coins = NoCoins
    BY DEF Init
  <2>2. selected_coins \in [1 .. Len(utxos) -> BOOLEAN]
    BY <2>1, SumTypes DEF Coins
  <2>3. /\ pc = "start" /\ txin_amount = 0 /\ target_amount = 0 /\ dest_amount = 0
        /\ fee = 0 /\ utxo_amount = 0 /\ diff_amount = 0
        /\ change = 0 /\ estimate_fee = 0
    BY DEF Init
  <2>4. fee_error \in BOOLEAN
    BY Zenon DEF Init
  <2>5. QED
    BY <2>1, <2>2, <2>3, <2>4 DEF TypeOK
<1>2. Amounts
  BY DEF Init, Amounts, Prepared, Checked, Estimated, Taken, Unpriced
<1>3. QED
  BY <1>1, <1>2, NotDone DEF IInv, Init

LEMMA Prepares ==
  ASSUME IInv, Prepare
  PROVE  IInv'
<1>1. TypeOK /\ Amounts
  BY DEF IInv
<1>2. /\ pc = "start" /\ pc' = "select" /\ UNCHANGED <<input, coins, diff_amount, fee_error, output>>
      /\ txin_amount' = TxInAmount /\ dest_amount' = Wanted
      /\ target_amount' = Collect(Sought)
      /\ fee' = IF use_fee THEN FirstFee ELSE 0
  BY DEF Prepare, DestAmount, Wanted, Sought, FirstFee
<1>3. /\ UNCHANGED input /\ UNCHANGED selected_coins /\ UNCHANGED <<utxo_amount, change, estimate_fee>>
  BY <1>2 DEF coins, output
<1>4. /\ TxInAmount \in Nat /\ Wanted \in Nat /\ FirstFee \in Nat /\ Sought \in Nat
      /\ Collect(Sought) \in Nat
  <2>1. TxInAmount \in Nat /\ IsRequest(request)
    BY <1>1, SumTypes, InputTypes DEF TypeOK
  <2>2. Sought \in Nat
    BY <2>1 DEF Sought, IsRequest
  <2>3. QED
    BY <1>1, <2>1, <2>2, Numbers DEF Collect
<1>5. TypeOK'
  <2>1. UNCHANGED <<request, utxos, selected_txin_utxos>>
    BY <1>2 DEF input
  <2>2. QED
    BY <1>1, <1>2, <1>3, <1>4, <2>1 DEF TypeOK
<1>6. Prepared'
  <2>1. Collect(Sought)' = Collect(Sought)
    BY <1>3, Stay DEF Collect
  <2>2. QED
    BY <1>1, <1>2, <1>3, <2>1, Stay DEF Amounts, Prepared
<1>7. Checked' /\ Estimated' /\ Taken' /\ Unpriced'
  BY <1>2 DEF Checked, Estimated, Taken, Unpriced
<1>8. Balanced' /\ FeeIsSufficient' /\ InputsCoverOutputs'
  BY <1>2 DEF Balanced, FeeIsSufficient, InputsCoverOutputs
<1>9. QED
  BY <1>5, <1>6, <1>7, <1>8 DEF IInv, Amounts

(* What was sought is what is wanted where the target covers the outputs,  *)
(* and what is collected is at least what is missing of it.                *)
LEMMA Collected ==
  ASSUME TypeOK
  PROVE  /\ Sought \in Nat /\ Collect(Sought) \in Nat
         /\ TargetCoversOutputs => Collect(Sought) + TxInAmount >= Wanted
<1>1. TxInAmount \in Nat /\ IsRequest(request)
  BY SumTypes, InputTypes DEF TypeOK
<1>2. QED
  BY <1>1 DEF Sought, Collect, Wanted, Greater, TargetCoversOutputs, IsRequest

LEMMA Skips ==
  ASSUME IInv, SkipSelection
  PROVE  IInv'
<1>1. TypeOK /\ Amounts
  BY DEF IInv
<1>2. /\ pc = "select" /\ pc' = "check" /\ target_amount = 0
      /\ utxo_amount' = txin_amount
      /\ UNCHANGED <<input, goal, fee, selected_coins, diff_amount, fee_error, output>>
  BY DEF SkipSelection
<1>3. /\ UNCHANGED <<request, utxos, selected_txin_utxos, txin_amount, target_amount,
                     dest_amount, change, estimate_fee>>
      /\ UNCHANGED input
  BY <1>2 DEF input, goal, output
<1>4. TypeOK'
  BY <1>1, <1>2, <1>3 DEF TypeOK
<1>5. /\ selected_coins = NoCoins /\ txin_amount = TxInAmount /\ dest_amount = Wanted
      /\ Collect(Sought) = 0 /\ (use_fee => fee = FirstFee) /\ change = 0
  BY <1>1, <1>2 DEF Amounts, Prepared
<1>6. SizeOf(selected_coins) = 0 /\ Inputs = TxInAmount /\ TxInAmount \in Nat
      /\ ListedSize \in Nat
  <2>1. SizeOf(NoCoins) = 0 /\ AmountOf(NoCoins) = 0 /\ TxInAmount \in Nat /\ ListedSize \in Nat
    BY <1>1, SumTypes DEF TypeOK
  <2>2. QED
    BY <1>5, <2>1 DEF Inputs
<1>7. FeeOfAll = FirstFee
  <2>1. ListedSize + SizeOf(selected_coins) = ListedSize
    BY <1>6
  <2>2. QED
    BY <2>1 DEF FeeOfAll, FirstFee
<1>8. Prepared'
  BY <1>2, <1>3, <1>5, <1>6, Stay DEF Prepared
<1>9. Checked'
  <2>1. TargetCoversOutputs => Inputs >= Wanted
    BY <1>1, <1>5, <1>6, Collected, Numbers
  <2>2. use_fee => PaidSoFar
    BY <1>1, <1>5, <1>7, Numbers DEF PaidSoFar
  <2>3. PaidSoFar' = PaidSoFar
    BY <1>2, <1>3, Stay DEF PaidSoFar
  <2>4. QED
    BY <1>2, <1>3, <2>1, <2>2, <2>3, Stay DEF Checked
<1>10. Estimated' /\ Taken' /\ Unpriced'
  BY <1>2 DEF Estimated, Taken, Unpriced
<1>11. Balanced' /\ FeeIsSufficient' /\ InputsCoverOutputs'
  BY <1>2 DEF Balanced, FeeIsSufficient, InputsCoverOutputs
<1>12. QED
  BY <1>4, <1>8, <1>9, <1>10, <1>11 DEF IInv, Amounts

LEMMA Selects ==
  ASSUME IInv, SelectCoins
  PROVE  IInv'
<1>1. TypeOK /\ Amounts
  BY DEF IInv
<1>2. /\ pc = "select" /\ selected_coins' \in Promise!Answers(Call)
      /\ utxo_amount' = AmountOf(selected_coins') + txin_amount
      /\ pc' = IF utxo_amount' < dest_amount THEN "throw" ELSE "check"
      /\ UNCHANGED <<input, goal, fee, diff_amount, fee_error, output>>
  BY DEF SelectCoins
<1>3. /\ UNCHANGED <<request, utxos, selected_txin_utxos, txin_amount, target_amount,
                     dest_amount, change, estimate_fee>>
      /\ UNCHANGED input
  BY <1>2 DEF input, goal, output
<1> DEFINE sel == selected_coins'
<1>4. /\ sel \in [Coins -> BOOLEAN]
      /\ AmountOf(sel) >= target_amount + (fee + SpendOf(sel))
  BY <1>1, <1>2, AnswersPay DEF TypeOK
<1>5. /\ TxInAmount \in Nat /\ ListedSize \in Nat
      /\ SizeOf(sel) \in Nat /\ AmountOf(sel) \in Nat /\ SpendOf(sel) \in Nat
  BY <1>1, <1>4, SumTypes DEF TypeOK
<1>6. /\ txin_amount = TxInAmount /\ dest_amount = Wanted
      /\ target_amount = Collect(Sought) /\ (use_fee => fee = FirstFee) /\ change = 0
  BY <1>1, <1>2 DEF Amounts, Prepared
<1>7. TypeOK'
  <2>1. selected_coins' \in [1 .. Len(utxos) -> BOOLEAN]
    BY <1>4 DEF Coins
  <2>2. utxo_amount' \in Nat
    BY <1>1, <1>2, <1>5 DEF TypeOK
  <2>3. QED
    BY <1>1, <1>2, <1>3, <2>1, <2>2 DEF TypeOK
<1>8. Inputs' = TxInAmount + AmountOf(sel)
  <2>1. AmountOf(selected_coins)' = AmountOf(sel) /\ TxInAmount' = TxInAmount
    BY <1>3, Stay DEF AmountOf
  <2>2. QED
    BY <2>1 DEF Inputs
<1>9. utxo_amount' = Inputs'
  BY <1>2, <1>5, <1>6, <1>8
<1>10. Prepared'
  BY <1>2, <1>3, <1>6, <1>9, Stay DEF Prepared
<1>11. Checked'
  <2>1. SUFFICES ASSUME pc' = "check"
                 PROVE  /\ use_fee' => PaidSoFar'
                        /\ ~use_fee' /\ TargetCoversOutputs' => Inputs' >= Wanted'
    BY DEF Checked
  <2>2. Inputs' \in Nat /\ Wanted' \in Nat /\ Wanted' = Wanted /\ Inputs' >= Wanted
    BY <1>2, <1>3, <1>6, <1>7, <1>9, <2>1, Numbers, Stay DEF TypeOK
  <2>3. ASSUME use_fee, Charged
        PROVE  Inputs' + Len(utxos) >= Wanted + FeeOfAll'
    <3>1. FeeOfAll' = EstimateFee(request.tx_size, ListedSize + SizeOf(sel))
      BY <1>3 DEF FeeOfAll, EstimateFee, SizeOf, ListedSize
    <3>2. request.tx_size \in Nat
      BY <1>1, Numbers DEF IsRequest
    <3>3. FeeOfAll' <= FirstFee + SpendOf(sel) + Len(utxos)
      BY <1>1, <1>4, <1>5, <2>3, <3>1, <3>2, EstimateOfSelection
      DEF TypeOK, Charged, FirstFee
    <3>4. FirstFee \in Nat /\ Len(utxos) \in Nat /\ Wanted \in Nat
      BY <1>1, Numbers
    <3>5. FeeOfAll' \in Nat
      <4>1. ListedSize + SizeOf(sel) \in Nat
        BY <1>5
      <4>2. QED
        BY <1>1, <3>1, <3>2, <4>1, EstimateNat DEF TypeOK
    <3>6. target_amount + TxInAmount >= Wanted /\ target_amount \in Nat
      BY <1>1, <1>6, <2>3, Collected DEF Charged
    <3>7. AmountOf(sel) >= target_amount + (FirstFee + SpendOf(sel))
      BY <1>4, <1>6, <2>3
    <3>8. QED
      BY <1>5, <1>8, <3>3, <3>4, <3>5, <3>6, <3>7
  <2>4. Charged' = Charged /\ use_fee' = use_fee /\ Len(utxos') = Len(utxos)
    BY <1>3, Stay
  <2>5. QED
    BY <2>2, <2>3, <2>4 DEF PaidSoFar
<1>12. Estimated' /\ Taken' /\ Unpriced'
  BY <1>2 DEF Estimated, Taken, Unpriced
<1>13. Balanced' /\ FeeIsSufficient' /\ InputsCoverOutputs'
  BY <1>2 DEF Balanced, FeeIsSufficient, InputsCoverOutputs
<1>14. QED
  BY <1>7, <1>10, <1>11, <1>12, <1>13 DEF IInv, Amounts

LEMMA Throws ==
  ASSUME IInv, SelectThrows \/ AmountThrows \/ LowFee
  PROVE  IInv'
<1>1. TypeOK /\ Amounts
  BY DEF IInv
<1>2. /\ pc' = "throw" /\ pc # "done" /\ pc # "start"
      /\ UNCHANGED <<input, goal, fee, coins, diff_amount, output>>
      /\ fee_error' \in {fee_error, TRUE}
  BY DEF SelectThrows, AmountThrows, LowFee
<1>3. /\ UNCHANGED <<request, utxos, selected_txin_utxos, txin_amount, target_amount,
                     dest_amount, change, estimate_fee, selected_coins, utxo_amount>>
      /\ UNCHANGED input
  BY <1>2 DEF input, goal, output, coins
<1>4. TypeOK'
  BY <1>1, <1>2, <1>3 DEF TypeOK
<1>5. Prepared'
  BY <1>1, <1>2, <1>3, Stay DEF Amounts, Prepared
<1>6. Checked' /\ Estimated' /\ Taken' /\ Unpriced'
  BY <1>2 DEF Checked, Estimated, Taken, Unpriced
<1>7. Balanced' /\ FeeIsSufficient' /\ InputsCoverOutputs'
  BY <1>2 DEF Balanced, FeeIsSufficient, InputsCoverOutputs
<1>8. QED
  BY <1>4, <1>5, <1>6, <1>7 DEF IInv, Amounts

LEMMA Checks ==
  ASSUME IInv, CheckAmount
  PROVE  IInv'
<1>1. TypeOK /\ Amounts
  BY DEF IInv
<1>2. /\ pc = "check"
      /\ fee' = IF use_fee /\ MoreThanNeeded THEN FeeWithChange ELSE fee
      /\ diff_amount' = utxo_amount - dest_amount
      /\ pc' = IF use_fee THEN "need" ELSE "change"
      /\ UNCHANGED <<input, goal, coins, fee_error, output>>
  BY DEF CheckAmount
<1>3. /\ UNCHANGED <<request, utxos, selected_txin_utxos, txin_amount, target_amount,
                     dest_amount, change, estimate_fee, selected_coins, utxo_amount>>
      /\ UNCHANGED input /\ UNCHANGED selected_coins
  BY <1>2 DEF input, goal, output, coins
<1>4. /\ txin_amount = TxInAmount /\ dest_amount = Wanted /\ utxo_amount = Inputs
      /\ change = 0
  BY <1>1, <1>2 DEF Amounts, Prepared
<1>5. /\ Inputs \in Nat /\ Wanted \in Nat /\ FeeWithChange \in Nat /\ fee \in Nat
  BY <1>1, Numbers DEF TypeOK
<1>6. diff_amount' = Inputs - Wanted /\ diff_amount' \in Int /\ fee' \in Nat
  BY <1>2, <1>4, <1>5
<1>7. TypeOK'
  BY <1>1, <1>2, <1>3, <1>6 DEF TypeOK
<1>8. /\ Inputs' = Inputs /\ Wanted' = Wanted /\ use_fee' = use_fee
      /\ FeeWithChange' = FeeWithChange /\ FeeOfAll' = FeeOfAll /\ Charged' = Charged
      /\ TargetCoversOutputs' = TargetCoversOutputs
  BY <1>3, Stay
<1>9. Prepared'
  BY <1>2, <1>3, <1>4, <1>8, Stay DEF Prepared
<1>10. Estimated'
  <2>1. CASE use_fee /\ MoreThanNeeded
    BY <1>2, <1>6, <1>8, <2>1 DEF Estimated
  <2>2. CASE use_fee /\ ~MoreThanNeeded
    <3>1. fee' = fee
      BY <1>2, <2>2
    <3>2. MoreThanNeeded' = MoreThanNeeded
      BY <1>3, <3>1 DEF MoreThanNeeded
    <3>3. PaidSoFar /\ PaidSoFar' = PaidSoFar
      BY <1>1, <1>2, <1>3, <1>8, <2>2, <3>1 DEF Amounts, Checked, PaidSoFar
    <3>4. QED
      BY <1>6, <1>8, <2>2, <3>2, <3>3 DEF Estimated
  <2>3. CASE ~use_fee
    BY <1>2, <2>3 DEF Estimated
  <2>4. QED
    BY <2>1, <2>2, <2>3
<1>11. Checked' /\ Taken'
  BY <1>2, <1>8 DEF Checked, Taken
<1>12. Unpriced'
  BY <1>1, <1>2, <1>6, <1>8 DEF Amounts, Checked, Unpriced
<1>13. Balanced' /\ FeeIsSufficient' /\ InputsCoverOutputs'
  BY <1>2 DEF Balanced, FeeIsSufficient, InputsCoverOutputs
<1>14. QED
  BY <1>7, <1>9, <1>10, <1>11, <1>12, <1>13 DEF IInv, Amounts

LEMMA Takes ==
  ASSUME IInv, TakeFee
  PROVE  IInv'
<1>1. TypeOK /\ Amounts
  BY DEF IInv
<1>2. /\ pc = "need" /\ utxo_amount >= dest_amount + fee
      /\ diff_amount' = diff_amount - fee
      /\ fee' = IF request.dust_amount > diff_amount' THEN utxo_amount - dest_amount ELSE fee
      /\ pc' = "change"
      /\ UNCHANGED <<input, goal, coins, fee_error, output>>
  BY DEF TakeFee, FeeTakingDust
<1>3. /\ UNCHANGED <<request, utxos, selected_txin_utxos, txin_amount, target_amount,
                     dest_amount, change, estimate_fee, selected_coins, utxo_amount>>
      /\ UNCHANGED input /\ UNCHANGED selected_coins
  BY <1>2 DEF input, goal, output, coins
<1>4. /\ txin_amount = TxInAmount /\ dest_amount = Wanted /\ utxo_amount = Inputs
      /\ change = 0 /\ use_fee /\ diff_amount = Inputs - Wanted
      /\ fee = FeeWithChange \/ (~MoreThanNeeded /\ PaidSoFar)
  BY <1>1, <1>2 DEF Amounts, Prepared, Estimated
<1>5. /\ Inputs \in Nat /\ Wanted \in Nat /\ fee \in Nat /\ Len(utxos) \in Nat
      /\ FeeWithChange \in Nat /\ FeeOfAll \in Nat /\ FeeOfAll <= FeeWithChange
      /\ request.dust_amount \in Nat
  BY <1>1, Numbers DEF TypeOK, IsRequest
<1>6. /\ Inputs >= Wanted + fee
      /\ diff_amount' = Inputs - Wanted - fee
      /\ fee' = IF request.dust_amount > diff_amount' THEN Inputs - Wanted ELSE fee
  BY <1>2, <1>4
<1>7. diff_amount' \in Int /\ fee' \in Nat
  BY <1>5, <1>6
<1>8. TypeOK'
  BY <1>1, <1>2, <1>3, <1>7 DEF TypeOK
<1>9. /\ Inputs' = Inputs /\ Wanted' = Wanted /\ use_fee' = use_fee
      /\ FeeWithChange' = FeeWithChange /\ FeeOfAll' = FeeOfAll /\ Charged' = Charged
  BY <1>3, Stay
<1>10. Prepared'
  BY <1>2, <1>3, <1>4, <1>9, Stay DEF Prepared
<1>11. Taken'
  <2>1. \/ /\ diff_amount' < request.dust_amount
           /\ fee' = Inputs - Wanted
        \/ /\ diff_amount' >= request.dust_amount
           /\ diff_amount' = Inputs - Wanted - fee'
    BY <1>5, <1>6, <1>7
  <2>2. Charged => Inputs + Len(utxos) >= Wanted + FeeOfAll
    BY <1>4, <1>5, <1>6 DEF PaidSoFar
  <2>3. diff_amount' > request.dust_amount => fee' = FeeWithChange
    BY <1>4, <1>5, <1>6 DEF MoreThanNeeded
  <2>4. QED
    BY <1>3, <1>9, <2>1, <2>2, <2>3 DEF Taken
<1>12. Checked' /\ Estimated' /\ Unpriced'
  BY <1>2, <1>4, <1>9 DEF Checked, Estimated, Unpriced
<1>13. Balanced' /\ FeeIsSufficient' /\ InputsCoverOutputs'
  BY <1>2 DEF Balanced, FeeIsSufficient, InputsCoverOutputs
<1>14. QED
  BY <1>8, <1>10, <1>11, <1>12, <1>13 DEF IInv, Amounts

LEMMA Returns ==
  ASSUME IInv, AddChange \/ NoChange
  PROVE  IInv'
<1>1. TypeOK /\ Amounts
  BY DEF IInv
<1>2. /\ pc = "change" /\ pc' = "done" /\ estimate_fee' = fee
      /\ UNCHANGED <<input, goal, fee, coins, diff_amount, fee_error>>
      /\ \/ ~ChangeIsDust /\ change' = diff_amount
         \/ (ChangeIsDust \/ diff_amount = 0) /\ change' = change
  BY DEF AddChange, NoChange
<1>3. /\ UNCHANGED <<request, utxos, selected_txin_utxos, txin_amount, target_amount,
                     dest_amount, selected_coins, utxo_amount>>
      /\ UNCHANGED input /\ UNCHANGED selected_coins
  BY <1>2 DEF input, goal, coins
<1>4. /\ Inputs \in Nat /\ Wanted \in Nat /\ fee \in Nat /\ Len(utxos) \in Nat
      /\ FeeWithChange \in Nat /\ FeeOfAll \in Nat /\ FeeOfAll <= FeeWithChange
      /\ request.dust_amount \in Nat /\ diff_amount \in Int
  BY <1>1, Numbers DEF TypeOK, IsRequest
<1>5. txin_amount = TxInAmount /\ dest_amount = Wanted /\ utxo_amount = Inputs /\ change = 0
  BY <1>1, <1>2 DEF Amounts, Prepared
<1>6. \/ diff_amount > request.dust_amount /\ change' = diff_amount
      \/ /\ change' = 0
         /\ diff_amount <= request.dust_amount \/ diff_amount = 0
  BY <1>2, <1>4, <1>5 DEF ChangeIsDust
<1>7. change' \in Nat
  BY <1>4, <1>6
<1>8. TypeOK'
  BY <1>1, <1>2, <1>3, <1>7 DEF TypeOK
<1>9. /\ Inputs' = Inputs /\ Wanted' = Wanted /\ use_fee' = use_fee
      /\ FeeWithChange' = FeeWithChange /\ FeeOfAll' = FeeOfAll /\ Charged' = Charged
      /\ TargetCoversOutputs' = TargetCoversOutputs
  BY <1>3, Stay
<1>10. PaidFee' = Inputs - Wanted - change'
  BY <1>9 DEF PaidFee
<1>11. Amounts'
  <2>1. Prepared'
    BY <1>2, <1>3, <1>5, <1>9, Stay DEF Prepared
  <2>2. QED
    BY <1>2, <2>1 DEF Amounts, Checked, Estimated, Taken, Unpriced
<1>12. CASE use_fee
  <2>1. /\ \/ diff_amount < request.dust_amount /\ fee = Inputs - Wanted
           \/ /\ diff_amount >= request.dust_amount
              /\ diff_amount = Inputs - Wanted - fee
        /\ Charged => Inputs + Len(utxos) >= Wanted + FeeOfAll
        /\ Charged /\ diff_amount > request.dust_amount => fee = FeeWithChange
    BY <1>1, <1>2, <1>12 DEF Amounts, Taken
  <2>2. Balanced'
    <3>1. PaidFee' - estimate_fee' \in {0, request.dust_amount}
      BY <1>2, <1>4, <1>6, <1>10, <2>1
    <3>2. QED
      BY <1>3, <3>1 DEF Balanced
  <2>3. FeeIsSufficient'
    <3>1. FinalFee' = IF change' > 0 THEN FeeWithChange ELSE FeeOfAll
      <4>1. CASE change' > 0
        <5>1. FinalFee' = FeeWithChange'
          BY <4>1 DEF FinalFee, FeeWithChange, EstimateFee
        <5>2. QED
          BY <1>9, <4>1, <5>1
      <4>2. CASE ~(change' > 0)
        <5>1. request'.tx_size + 0 = request'.tx_size
          BY <1>3, <1>1, Numbers DEF IsRequest
        <5>2. FinalFee' = FeeOfAll'
          BY <4>2, <5>1 DEF FinalFee, FeeOfAll, EstimateFee
        <5>3. QED
          BY <1>9, <4>2, <5>2
      <4>3. QED
        BY <4>1, <4>2
    <3>2. Charged => PaidFee' + Len(utxos) >= FinalFee'
      BY <1>4, <1>6, <1>10, <2>1, <3>1
    <3>3. Charged' => PaidFee' + Len(utxos') >= FinalFee'
      BY <1>3, <1>9, <3>2
    <3>4. QED
      BY <3>3 DEF FeeIsSufficient, Charged, SpendingIsCharged
  <2>4. InputsCoverOutputs'
    BY <1>4, <1>9, <2>1 DEF InputsCoverOutputs
  <2>5. QED
    BY <1>8, <1>11, <2>2, <2>3, <2>4 DEF IInv
<1>13. CASE ~use_fee
  <2>1. TargetCoversOutputs => Inputs >= Wanted
    BY <1>1, <1>2, <1>13 DEF Amounts, Unpriced
  <2>2. QED
    BY <1>8, <1>9, <1>11, <1>13, <2>1
    DEF IInv, Balanced, FeeIsSufficient, InputsCoverOutputs
<1>14. QED
  BY <1>12, <1>13

LEMMA Stutters ==
  ASSUME IInv, UNCHANGED vars
  PROVE  IInv'
<1>1. /\ UNCHANGED <<pc, fee, diff_amount, fee_error, txin_amount, target_amount,
                     dest_amount, change, estimate_fee, selected_coins, utxo_amount>>
      /\ UNCHANGED input /\ UNCHANGED selected_coins
      /\ UNCHANGED <<request, utxos, selected_txin_utxos>>
  BY DEF vars, input, goal, coins, output
<1>2. /\ Inputs' = Inputs /\ Wanted' = Wanted /\ use_fee' = use_fee
      /\ FeeWithChange' = FeeWithChange /\ FeeOfAll' = FeeOfAll /\ Charged' = Charged
      /\ TargetCoversOutputs' = TargetCoversOutputs
  BY <1>1, Stay
<1>3. TypeOK'
  BY <1>1 DEF IInv, TypeOK
<1>4. Amounts'
  <2>1. Collect(Sought)' = Collect(Sought)
    BY <1>1, Stay DEF Collect
  <2>2. PaidSoFar' = PaidSoFar /\ MoreThanNeeded' = MoreThanNeeded
    BY <1>1, <1>2 DEF PaidSoFar, MoreThanNeeded
  <2>3. Prepared'
    BY <1>1, <1>2, <2>1, Stay DEF IInv, Amounts, Prepared
  <2>4. Checked' /\ Estimated' /\ Taken' /\ Unpriced'
    BY <1>1, <1>2, <2>2 DEF IInv, Amounts, Checked, Estimated, Taken, Unpriced
  <2>5. QED
    BY <2>3, <2>4 DEF Amounts
<1>5. PaidFee' = PaidFee /\ FinalFee' = FinalFee
  BY <1>1, <1>2 DEF PaidFee, FinalFee, EstimateFee, ListedSize, SizeOf
<1>6. Balanced' /\ FeeIsSufficient' /\ InputsCoverOutputs'
  BY <1>1, <1>2, <1>5
  DEF IInv, Balanced, FeeIsSufficient, InputsCoverOutputs, Charged, SpendingIsCharged,
      SpendFee
<1>7. QED
  BY <1>3, <1>4, <1>6 DEF IInv

-----------------------------------------------------------------------------
THEOREM AlwaysGood == Spec => []IInv
<1>1. IInv /\ [Next]_vars => IInv'
  BY Prepares, Skips, Selects, Throws, Checks, Takes, Returns, Stutters
  DEF Next, Stopped
<1>2. QED
  BY Starts, <1>1, PTL DEF Spec

(* The amounts of the call have their types: none goes below zero, but     *)
(* for diff_amount.                                                        *)
THEOREM TypeCorrect == Spec => []TypeOK
  BY AlwaysGood, PTL DEF IInv

(* What goes in is what was wanted, the change and the fee reported, but   *)
(* for change of exactly the dust amount.                                  *)
THEOREM BalanceCorrect == Spec => []Balanced
  BY AlwaysGood, PTL DEF IInv

(* The fee paid is that of the finished transaction, but for 1 satoshi a   *)
(* coin, at every rate and for all sizes, although it was estimated before *)
(* the coins were known.                                                   *)
THEOREM FeeCorrect == Spec => []FeeIsSufficient
  BY AlwaysGood, PTL DEF IInv

(* The inputs cover what was wanted.                                       *)
THEOREM OutputsCovered == Spec => []InputsCoverOutputs
  BY AlwaysGood, PTL DEF IInv
=============================================================================
