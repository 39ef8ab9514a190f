------------------------- MODULE CoinSelectionProofs -------------------------
(***************************************************************************)
(* Proofs about CoinSelection, for every wallet, call and answer that the  *)
(* two searches may give: its types, that the payer's coins pay all fees,  *)
(* and that a call implements SelectCoinsContract.                         *)
(***************************************************************************)
EXTENDS CoinSelection, SumsProofs

(* What the caller passes has its types, and only the coins of the asset   *)
(* that pays fees, one at most, are charged.                               *)
LEMMA InputTypes ==
  ASSUME request \in Requests, utxos \in Wallets
  PROVE  /\ Len(utxos) \in Nat
         /\ \A k \in Coins : utxos[k].amount \in Nat /\ SpendFee(k) \in Nat
         /\ \A k \in Coins : utxos[k].long_term \in Nat
         /\ \A a : TargetOf(a) \in Nat
         /\ request.tx_fee \in Nat /\ request.use_fee \in BOOLEAN
         /\ \A a : CoinsOf(a) \subseteq Coins
         /\ single => WorkTargets = {NoAsset}
         /\ \A a, b \in WorkTargets : IsFeeAsset(a) /\ IsFeeAsset(b) => a = b
         /\ \A a, b \in WorkTargets : a # b => CoinsOf(a) \cap CoinsOf(b) = {}
<1>1. IsRequest(request) /\ IsWallet(utxos)
  BY RequestsAssumption, WalletsAssumption
<1>2. /\ Len(utxos) \in Nat
      /\ \A k \in Coins : utxos[k].amount \in Nat /\ SpendFee(k) \in Nat
      /\ \A k \in Coins : utxos[k].long_term \in Nat
  BY <1>1 DEF IsWallet, Coins, SpendFee
<1>3. /\ \A a : TargetOf(a) \in Nat
      /\ request.tx_fee \in Nat /\ request.use_fee \in BOOLEAN
  BY <1>1 DEF IsRequest, TargetOf
<1>4. single => WorkTargets = {NoAsset}
  BY <1>1 DEF IsRequest, single, WorkTargets
<1>5. \A a : CoinsOf(a) \subseteq Coins
  BY DEF CoinsOf
<1>6. \A a, b \in WorkTargets : IsFeeAsset(a) /\ IsFeeAsset(b) => a = b
  BY <1>4 DEF IsFeeAsset
<1>7. \A a, b \in WorkTargets : a # b => CoinsOf(a) \cap CoinsOf(b) = {}
  BY <1>4 DEF CoinsOf
<1>8. QED
  BY <1>2, <1>3, <1>4, <1>5, <1>6, <1>7

(* What is defined from the input stays while the input does.              *)
LEMMA InputStays ==
  ASSUME UNCHANGED input
  PROVE  /\ Coins' = Coins /\ single' = single
         /\ WorkTargets' = WorkTargets
         /\ \A a : /\ TargetOf(a)' = TargetOf(a)
                   /\ IsFeeAsset(a)' = IsFeeAsset(a)
                   /\ CoinsOf(a)' = CoinsOf(a)
         /\ \A k : SpendFee(k)' = SpendFee(k) /\ WorthSpending(k)' = WorthSpending(k)
         /\ CallMade' = CallMade
         /\ MixedAssets' = MixedAssets /\ InvalidTargets' = InvalidTargets
<1>1. /\ Coins' = Coins /\ single' = single /\ calculate_fee' = calculate_fee
  BY DEF input, Coins, single, calculate_fee
<1>2. WorkTargets' = WorkTargets
  BY <1>1 DEF input, WorkTargets
<1>3. \A a : /\ TargetOf(a)' = TargetOf(a)
             /\ IsFeeAsset(a)' = IsFeeAsset(a)
             /\ CoinsOf(a)' = CoinsOf(a)
  BY <1>1 DEF input, TargetOf, IsFeeAsset, CoinsOf
<1>4. \A k : SpendFee(k)' = SpendFee(k) /\ WorthSpending(k)' = WorthSpending(k)
  BY DEF input, SpendFee, WorthSpending
<1>5. CallMade' = CallMade
  BY <1>1, <1>2, <1>3, <1>4 DEF input, CallMade
<1>6. MixedAssets' = MixedAssets /\ InvalidTargets' = InvalidTargets
  BY <1>1, <1>2, <1>3 DEF input, MixedAssets, InvalidTargets
<1>7. QED
  BY <1>1, <1>2, <1>3, <1>4, <1>5, <1>6

-----------------------------------------------------------------------------
(* Sums over coins.                                                        *)
AmountIn(coins) ==
  SelSum([k \in Coins |-> utxos[k].amount], [k \in Coins |-> k \in coins])
SpendOf(coins) ==
  SelSum([k \in Coins |-> SpendFee(k)], [k \in Coins |-> k \in coins])

LEMMA CoinSums ==
  ASSUME request \in Requests, utxos \in Wallets, NEW coins
  PROVE  AmountIn(coins) \in Nat /\ SpendOf(coins) \in Nat
<1> DEFINE sel == [k \in Coins |-> k \in coins]
           f == [k \in Coins |-> utxos[k].amount]
           g == [k \in Coins |-> SpendFee(k)]
           n == Len(utxos)
<1>1. n \in Nat /\ sel \in FlagLists(n)
  BY InputTypes DEF FlagLists, Coins
<1>2. \A i \in 1 .. n : sel[i] => f[i] \in Nat
  BY InputTypes DEF Coins
<1>3. \A i \in 1 .. n : sel[i] => g[i] \in Nat
  BY InputTypes DEF Coins
<1> HIDE DEF sel, f, g, n
<1>4. SelSum(f, sel) \in Nat
  BY <1>1, <1>2, SelSumNat
<1>5. SelSum(g, sel) \in Nat
  BY <1>1, <1>3, SelSumNat
<1>6. QED
  BY <1>4, <1>5 DEF AmountIn, SpendOf, f, g, sel

LEMMA CoinSumsUnion ==
  ASSUME request \in Requests, utxos \in Wallets, NEW a, NEW b, a \cap b = {}
  PROVE  SpendOf(a \cup b) = SpendOf(a) + SpendOf(b)
<1> DEFINE x == [k \in Coins |-> k \in a]
           y == [k \in Coins |-> k \in b]
           z == [k \in Coins |-> k \in a \cup b]
           g == [k \in Coins |-> SpendFee(k)]
           n == Len(utxos)
<1>1. n \in Nat /\ x \in FlagLists(n) /\ y \in FlagLists(n) /\ z \in FlagLists(n)
  BY InputTypes DEF FlagLists, Coins
<1>2. \A i \in 1 .. n : g[i] \in Int
  BY InputTypes DEF Coins
<1>3. \A i \in 1 .. n : (z[i] <=> x[i] \/ y[i]) /\ ~(x[i] /\ y[i])
  BY DEF Coins
<1> HIDE DEF x, y, z, g, n
<1>4. SelSum(g, z) = SelSum(g, x) + SelSum(g, y)
  BY <1>1, <1>2, <1>3, SelSumUnion
<1>5. QED
  BY <1>4 DEF SpendOf, g, x, y, z

(* Sums depend on the coins of the list only.                              *)
LEMMA CoinSumsAgree ==
  ASSUME NEW a, NEW b, a \cap Coins = b \cap Coins
  PROVE  AmountIn(a) = AmountIn(b) /\ SpendOf(a) = SpendOf(b)
<1>1. [k \in Coins |-> k \in a] = [k \in Coins |-> k \in b]
  OBVIOUS
<1>2. QED
  BY <1>1 DEF AmountIn, SpendOf

LEMMA CoinSumsStay ==
  ASSUME UNCHANGED input, NEW coins
  PROVE  AmountIn(coins)' = AmountIn(coins) /\ SpendOf(coins)' = SpendOf(coins)
<1>1. /\ Coins' = Coins /\ utxos' = utxos
      /\ \A k : SpendFee(k)' = SpendFee(k)
  BY InputStays DEF input
<1>2. QED
  BY <1>1 DEF AmountIn, SpendOf

-----------------------------------------------------------------------------
(* The inductive invariant.                                                *)
Finished == DOMAIN work_selected_values
Busy     == pc \in {"filter", "bnb", "refill", "knapsack"}

(* The assets are served one by one, and the payer after all others.       *)
InTurn ==
  /\ pc = "check" => todo = {} /\ Finished = {} /\ result = {}
  /\ pc \notin {"check", "invalid"} => ~MixedAssets /\ ~InvalidTargets
  /\ pc \in {"next", "done"} => Finished = WorkTargets \ todo
  /\ pc = "done" => todo = {}
  /\ Busy => /\ asset \in WorkTargets
             /\ Finished = WorkTargets \ (todo \cup {asset})
             /\ asset \notin todo
             /\ IsFeeAsset(asset) => todo = {}
  /\ \A a \in Finished : IsFeeAsset(a) => todo = {} /\ ~Busy

(* The working areas of the pool are those of the coins that are in it:    *)
(* of what an earlier call or another asset left, nothing is used.         *)
PoolIsPriced ==
  /\ pool = {k \in CoinsOf(asset) : WorthSpending(k)}
  /\ \A k \in pool :
       /\ work[k].fee = SpendFee(k)
       /\ work[k].effective_value \in {EffectiveValue(k), utxos[k].amount - SpendFee(k)}

Priced ==
  /\ pc \in {"bnb", "knapsack"} => PoolIsPriced
  /\ pc = "refill" => pool = {} \/ PoolIsPriced

(* What is collected is of the coins collected, and pays.                  *)
Accounted ==
  /\ \A k \in result : WorthSpending(k) /\ \E a \in Finished : k \in CoinsOf(a)
  /\ \A a \in Finished : work_selected_values[a] = AmountIn(result \cap CoinsOf(a))
  /\ work_utxo_fee = SpendOf(result)
  /\ tx_fee_out = request.tx_fee + SpendOf(result)

Paid ==
  \A a \in Finished :
    work_selected_values[a] >=
      TargetOf(a) + (IF IsFeeAsset(a) THEN request.tx_fee + SpendOf(result) ELSE 0)

IInv == TypeOK /\ InTurn /\ Priced /\ Accounted /\ Paid

-----------------------------------------------------------------------------
(* What a selection from the pool is worth: its amount less its fees to    *)
(* the payer, and no more than its amount to others.                       *)
LEMMA Worth ==
  ASSUME TypeOK, PoolIsPriced, NEW sel \in Selections
  PROVE  /\ Amount(sel) = AmountIn({k \in Coins : sel[k]})
         /\ Fees(sel) = SpendOf({k \in Coins : sel[k]})
         /\ Value(sel) \in Int
         /\ Amount(sel) - Fees(sel) <= Value(sel) /\ Value(sel) <= Amount(sel)
         /\ IsFeeAsset(asset) => Value(sel) = Amount(sel) - Fees(sel)
<1> DEFINE n == Len(utxos)
           amounts == [k \in Coins |-> utxos[k].amount]
           fees    == [k \in Coins |-> work[k].fee]
           spends  == [k \in Coins |-> SpendFee(k)]
           values  == [k \in Coins |-> work[k].effective_value]
           least   == [k \in Coins |-> utxos[k].amount - SpendFee(k)]
           flags   == [k \in Coins |-> k \in {j \in Coins : sel[j]}]
<1>1. request \in Requests /\ utxos \in Wallets
  BY DEF TypeOK
<1>2. n \in Nat /\ Coins = 1 .. n
  BY <1>1, InputTypes DEF Coins
<1>3. sel \in FlagLists(n) /\ \A i \in 1 .. n : sel[i] => i \in pool
  BY <1>2 DEF Selections, FlagLists
<1>4. flags = sel
  BY <1>2, <1>3 DEF FlagLists
<1>5. \A i \in 1 .. n : sel[i] =>
        /\ amounts[i] \in Nat /\ spends[i] \in Nat
        /\ fees[i] = spends[i] /\ least[i] = amounts[i] - spends[i]
        /\ values[i] \in Int /\ least[i] <= values[i] /\ values[i] <= amounts[i]
        /\ IsFeeAsset(asset) => values[i] = least[i]
  <2> SUFFICES ASSUME NEW i \in Coins, sel[i]
               PROVE  /\ amounts[i] \in Nat /\ spends[i] \in Nat
                      /\ fees[i] = spends[i] /\ least[i] = amounts[i] - spends[i]
                      /\ values[i] \in Int /\ least[i] <= values[i] /\ values[i] <= amounts[i]
                      /\ IsFeeAsset(asset) => values[i] = least[i]
    BY <1>2
  <2>1. /\ i \in pool /\ amounts[i] = utxos[i].amount /\ spends[i] = SpendFee(i)
        /\ fees[i] = work[i].fee /\ values[i] = work[i].effective_value
        /\ least[i] = utxos[i].amount - SpendFee(i)
    BY <1>2, <1>3
  <2>2. utxos[i].amount \in Nat /\ SpendFee(i) \in Nat
    BY <1>1, InputTypes
  <2>3. /\ work[i].fee = SpendFee(i)
        /\ work[i].effective_value \in {EffectiveValue(i), utxos[i].amount - SpendFee(i)}
    BY <2>1 DEF PoolIsPriced
  <2>4. QED
    BY <2>1, <2>2, <2>3 DEF EffectiveValue
<1> HIDE DEF n, amounts, fees, spends, values, least, flags
<1>6. SelSum(fees, sel) = SelSum(spends, sel)
  <2>1. \A i \in 1 .. n : sel[i] => fees[i] \in Int /\ fees[i] = spends[i]
    BY <1>5
  <2>2. QED
    BY <1>2, <1>3, <2>1, SelSumAgree
<1>7. SelSum(least, sel) = SelSum(amounts, sel) - SelSum(spends, sel)
  <2>1. \A i \in 1 .. n : sel[i] =>
          amounts[i] \in Int /\ spends[i] \in Int /\ least[i] = amounts[i] - spends[i]
    BY <1>5
  <2>2. QED
    BY <1>2, <1>3, <2>1, SelSumMinus
<1>8. SelSum(least, sel) <= SelSum(values, sel)
  <2>1. \A i \in 1 .. n : sel[i] =>
          least[i] \in Int /\ values[i] \in Int /\ least[i] <= values[i]
    BY <1>5
  <2>2. QED
    BY <1>2, <1>3, <2>1, SelSumMonotone
<1>9. SelSum(values, sel) <= SelSum(amounts, sel)
  <2>1. \A i \in 1 .. n : sel[i] =>
          values[i] \in Int /\ amounts[i] \in Int /\ values[i] <= amounts[i]
    BY <1>5
  <2>2. QED
    BY <1>2, <1>3, <2>1, SelSumMonotone
<1>10. SelSum(values, sel) \in Int
  <2>1. \A i \in 1 .. n : sel[i] => values[i] \in Int
    BY <1>5
  <2>2. QED
    BY <1>2, <1>3, <2>1, SelSumInt
<1>11. IsFeeAsset(asset) => SelSum(values, sel) = SelSum(least, sel)
  <2>1. SUFFICES ASSUME IsFeeAsset(asset)
                 PROVE  SelSum(values, sel) = SelSum(least, sel)
    OBVIOUS
  <2>2. \A i \in 1 .. n : sel[i] => values[i] \in Int /\ values[i] = least[i]
    BY <1>5, <2>1
  <2>3. QED
    BY <1>2, <1>3, <2>2, SelSumAgree
<1>12. /\ Amount(sel) = SelSum(amounts, sel)
       /\ Value(sel) = SelSum(values, sel)
       /\ Fees(sel) = SelSum(fees, sel)
  BY DEF Amount, Value, Fees, amounts, values, fees
<1>13. /\ AmountIn({k \in Coins : sel[k]}) = SelSum(amounts, flags)
       /\ SpendOf({k \in Coins : sel[k]}) = SelSum(spends, flags)
  BY DEF AmountIn, SpendOf, amounts, spends, flags
<1>14. QED
  BY <1>4, <1>6, <1>7, <1>8, <1>9, <1>10, <1>11, <1>12, <1>13

-----------------------------------------------------------------------------
LEMMA InitIInv == Init => IInv
<1>1. SUFFICES ASSUME Init PROVE IInv
  OBVIOUS
<1>2. request \in Requests /\ utxos \in Wallets
  BY <1>1 DEF Init
<1>3. Finished = {} /\ todo = {} /\ result = {} /\ ~Busy
  BY <1>1 DEF Init, Finished, NoAmounts, Busy
<1>4. TypeOK
  <2>1. work \in [Coins -> [fee : Nat, long_term_fee : Nat, effective_value : Nat]]
    BY <1>1, LeftoversAssumption DEF Init
  <2>2. request.tx_fee \in Nat
    BY <1>2, InputTypes
  <2>3. QED
    BY <1>1, <2>1, <2>2 DEF Init, TypeOK, NoAmounts
<1>5. InTurn /\ Priced
  BY <1>1, <1>3 DEF Init, InTurn, Priced
<1>6. SpendOf({}) = 0
  <2>1. SpendOf({} \cup {}) = SpendOf({}) + SpendOf({})
    BY <1>2, CoinSumsUnion
  <2>2. SpendOf({}) \in Nat
    BY <1>2, CoinSums
  <2>3. {} \cup {} = {}
    OBVIOUS
  <2>4. SpendOf({}) = SpendOf({}) + SpendOf({})
    BY <2>1, <2>3, Zenon
  <2> DEFINE s == SpendOf({})
  <2>5. s \in Nat /\ s = s + s
    BY <2>2, <2>4
  <2> HIDE DEF s
  <2>6. s = 0
    BY <2>5
  <2>7. QED
    BY <2>6 DEF s
<1>7. request.tx_fee \in Nat
  BY <1>2, InputTypes
<1>8. Accounted /\ Paid
  BY <1>1, <1>3, <1>6, <1>7 DEF Init, Accounted, Paid
<1>9. QED
  BY <1>4, <1>5, <1>8 DEF IInv

(* A step that collects nothing keeps the accounts.                        *)
LEMMA AccountsStay ==
  ASSUME IInv, UNCHANGED <<input, collected>>
  PROVE  Finished' = Finished /\ Accounted' /\ Paid'
<1>1. /\ Finished' = Finished
      /\ result' = result /\ work_utxo_fee' = work_utxo_fee /\ tx_fee_out' = tx_fee_out
      /\ work_selected_values' = work_selected_values /\ request' = request
  BY DEF collected, input, Finished
<1>2. /\ \A a : /\ CoinsOf(a)' = CoinsOf(a) /\ TargetOf(a)' = TargetOf(a)
                /\ IsFeeAsset(a)' = IsFeeAsset(a)
      /\ \A k : WorthSpending(k)' = WorthSpending(k)
  BY InputStays
<1>3. /\ SpendOf(result)' = SpendOf(result)
      /\ \A a : AmountIn(result \cap CoinsOf(a))' = AmountIn(result \cap CoinsOf(a))
  <2>1. /\ Coins' = Coins /\ utxos' = utxos
        /\ \A k : SpendFee(k)' = SpendFee(k)
    BY InputStays DEF input
  <2>2. QED
    BY <1>1, <1>2, <2>1 DEF AmountIn, SpendOf
<1>4. Accounted'
  BY <1>1, <1>2, <1>3 DEF IInv, Accounted
<1>5. Paid'
  BY <1>1, <1>2, <1>3 DEF IInv, Paid
<1>6. QED
  BY <1>1, <1>4, <1>5

(* A selection that is worth what the search was asked for is added to the *)
(* result: it pays, and what others have paid stays.                       *)
LEMMA CollectKeeps ==
  ASSUME IInv, pc \in {"bnb", "knapsack"}, NEW sel \in Selections,
         Value(sel) >= search_value, NEW searched \in BOOLEAN,
         Collect(sel, searched), UNCHANGED <<input, asset, todo, pool, work>>
  PROVE  IInv'
<1> DEFINE chosen == {k \in Coins : sel[k]}
<1>1. /\ request \in Requests /\ utxos \in Wallets /\ PoolIsPriced /\ Busy
      /\ TypeOK
  BY DEF IInv, TypeOK, Priced, Busy
<1>2. /\ Amount(sel) = AmountIn(chosen) /\ Fees(sel) = SpendOf(chosen)
      /\ Value(sel) \in Int /\ Value(sel) <= Amount(sel)
      /\ IsFeeAsset(asset) => Value(sel) = Amount(sel) - Fees(sel)
  BY <1>1, Worth
<1>3. /\ asset \in WorkTargets /\ Finished = WorkTargets \ (todo \cup {asset})
      /\ asset \notin todo
      /\ IsFeeAsset(asset) => todo = {}
      /\ \A a \in Finished : ~IsFeeAsset(a)
      /\ ~MixedAssets /\ ~InvalidTargets
  BY <1>1 DEF IInv, InTurn, Busy
<1>4. /\ \A k \in result : WorthSpending(k) /\ \E a \in Finished : k \in CoinsOf(a)
      /\ \A a \in Finished : work_selected_values[a] = AmountIn(result \cap CoinsOf(a))
      /\ work_utxo_fee = SpendOf(result)
      /\ tx_fee_out = request.tx_fee + SpendOf(result)
  BY DEF IInv, Accounted
<1>5. chosen \subseteq CoinsOf(asset) /\ \A k \in chosen : WorthSpending(k)
  BY <1>1 DEF PoolIsPriced, Selections
<1>6. \A a \in Finished : CoinsOf(a) \cap CoinsOf(asset) = {}
  BY <1>1, <1>3, InputTypes
<1>7. result \cap CoinsOf(asset) = {} /\ result \cap chosen = {}
  BY <1>4, <1>5, <1>6
<1>8. /\ result' = result \cup chosen /\ pc' = "next"
      /\ tx_fee_out' = tx_fee_out + Fees(sel)
      /\ work_utxo_fee' = work_utxo_fee + Fees(sel)
      /\ work_selected_values' =
           [a \in Finished \cup {asset} |->
              IF a = asset THEN Amount(sel) ELSE work_selected_values[a]]
      /\ work_searched_bnb' \subseteq work_searched_bnb \cup {asset}
  BY DEF Collect, Gathered, Finished
<1>9. /\ request' = request /\ utxos' = utxos /\ todo' = todo /\ asset' = asset
      /\ pool' = pool /\ work' = work
  BY DEF input
<1>10. /\ Coins' = Coins /\ WorkTargets' = WorkTargets
       /\ \A a : /\ CoinsOf(a)' = CoinsOf(a) /\ TargetOf(a)' = TargetOf(a)
                 /\ IsFeeAsset(a)' = IsFeeAsset(a)
       /\ \A k : SpendFee(k)' = SpendFee(k) /\ WorthSpending(k)' = WorthSpending(k)
       /\ MixedAssets' = MixedAssets /\ InvalidTargets' = InvalidTargets
  BY InputStays
<1>11. Finished' = Finished \cup {asset}
  BY <1>8 DEF Finished
<1>12. SpendOf(result \cup chosen) = SpendOf(result) + SpendOf(chosen)
  BY <1>1, <1>7, CoinSumsUnion
<1>13. SpendOf(result)' = SpendOf(result \cup chosen)
  BY <1>8, <1>9, <1>10 DEF SpendOf
<1>14. \A a : AmountIn(result \cap CoinsOf(a))' = AmountIn((result \cup chosen) \cap CoinsOf(a))
  BY <1>8, <1>9, <1>10 DEF AmountIn
<1>15. /\ (result \cup chosen) \cap CoinsOf(asset) = chosen
       /\ \A a \in Finished : (result \cup chosen) \cap CoinsOf(a) = result \cap CoinsOf(a)
  BY <1>5, <1>6, <1>7
<1>16. /\ SpendOf(result) \in Nat /\ SpendOf(chosen) \in Nat
       /\ AmountIn(chosen) \in Nat /\ request.tx_fee \in Nat
       /\ \A a : TargetOf(a) \in Nat
  BY <1>1, CoinSums, InputTypes
<1> HIDE DEF chosen
<1>17. TypeOK'
  <2>1. work_selected_values' \in [DOMAIN work_selected_values' -> Nat]
    BY <1>1, <1>2, <1>8, <1>16 DEF TypeOK, Finished
  <2>2. tx_fee_out' \in Nat /\ work_utxo_fee' \in Nat
    BY <1>2, <1>4, <1>8, <1>16
  <2>3. result' \subseteq Coins /\ work_searched_bnb' \subseteq DOMAIN work_selected_values'
    BY <1>1, <1>8 DEF TypeOK, Finished, chosen
  <2>4. QED
    BY <1>1, <1>8, <1>9, <1>10, <2>1, <2>2, <2>3 DEF TypeOK
<1>18. InTurn'
  <2>1. Finished' = WorkTargets \ todo /\ ~Busy'
    BY <1>3, <1>8, <1>11 DEF Busy
  <2>2. \A a \in Finished' : IsFeeAsset(a) => todo = {}
    BY <1>3, <1>11
  <2>3. QED
    BY <1>3, <1>8, <1>9, <1>10, <2>1, <2>2 DEF InTurn
<1>19. Priced'
  BY <1>8 DEF Priced
<1>20. Accounted'
  <2>1. \A k \in result' : WorthSpending(k)' /\ \E a \in Finished' : k \in CoinsOf(a)'
    BY <1>4, <1>5, <1>8, <1>10, <1>11
  <2>2. ASSUME NEW a \in Finished'
        PROVE  work_selected_values'[a] = AmountIn(result \cap CoinsOf(a))'
    BY <1>2, <1>4, <1>8, <1>11, <1>14, <1>15, <2>2
  <2>3. work_utxo_fee' = SpendOf(result)' /\ tx_fee_out' = request.tx_fee + SpendOf(result)'
    BY <1>2, <1>4, <1>8, <1>12, <1>13, <1>16
  <2>4. QED
    BY <1>9, <2>1, <2>2, <2>3 DEF Accounted
<1>21. Paid'
  <2> SUFFICES ASSUME NEW a \in Finished'
               PROVE  work_selected_values'[a] >= TargetOf(a)
                        + (IF IsFeeAsset(a) THEN request.tx_fee + SpendOf(result)' ELSE 0)
    BY <1>9, <1>10 DEF Paid
  <2>1. CASE a = asset
    <3>1. work_selected_values'[a] = AmountIn(chosen)
      BY <1>2, <1>8, <1>11, <2>1
    <3>2. CASE IsFeeAsset(asset)
      <4>1. search_value = TargetOf(asset) + request.tx_fee + SpendOf(result)
        BY <1>4, <1>16, <3>2 DEF search_value, ChargedFee
      <4>2. QED
        BY <1>2, <1>12, <1>13, <1>16, <2>1, <3>1, <3>2, <4>1
    <3>3. CASE ~IsFeeAsset(asset)
      <4>1. search_value = TargetOf(asset)
        BY <1>16, <3>3 DEF search_value, ChargedFee
      <4>2. QED
        BY <1>2, <1>16, <2>1, <3>1, <3>3, <4>1
    <3>4. QED
      BY <3>2, <3>3
  <2>2. CASE a # asset
    <3>1. a \in Finished /\ ~IsFeeAsset(a)
      BY <1>3, <1>11, <2>2
    <3>2. work_selected_values'[a] = work_selected_values[a]
      BY <1>8, <2>2, <3>1
    <3>3. work_selected_values[a] >= TargetOf(a) + 0
      BY <3>1 DEF IInv, Paid
    <3>4. QED
      BY <3>1, <3>2, <3>3
  <2>3. QED
    BY <2>1, <2>2
<1>22. QED
  BY <1>17, <1>18, <1>19, <1>20, <1>21 DEF IInv

(* The steps that collect nothing, one by one.                             *)
LEMMA NextIInv == IInv /\ [Next]_vars => IInv'
<1> SUFFICES ASSUME IInv, [Next]_vars PROVE IInv'
  OBVIOUS
<1>1. /\ request \in Requests /\ utxos \in Wallets
      /\ TypeOK /\ InTurn /\ Priced
  BY DEF IInv, TypeOK
<1>2. ASSUME UNCHANGED input
      PROVE  /\ Coins' = Coins /\ WorkTargets' = WorkTargets
             /\ \A a : CoinsOf(a)' = CoinsOf(a) /\ IsFeeAsset(a)' = IsFeeAsset(a)
             /\ \A k : SpendFee(k)' = SpendFee(k) /\ WorthSpending(k)' = WorthSpending(k)
             /\ MixedAssets' = MixedAssets /\ InvalidTargets' = InvalidTargets
             /\ request' = request /\ utxos' = utxos
  BY <1>2, InputStays DEF input
<1>3. CASE RejectCall
  <2>1. /\ pc = "check" /\ pc' = "invalid" /\ UNCHANGED <<input, asset, todo, pool, work, collected>>
    BY <1>3 DEF RejectCall
  <2>2. Finished' = Finished /\ Accounted' /\ Paid'
    BY <2>1, AccountsStay
  <2>3. TypeOK'
    BY <1>1, <1>2, <2>1 DEF TypeOK, collected
  <2>4. InTurn' /\ Priced'
    BY <1>1, <2>1, <2>2 DEF InTurn, Priced, Busy, collected
  <2>5. QED
    BY <2>2, <2>3, <2>4 DEF IInv
<1>4. CASE AcceptCall
  <2>1. /\ pc = "check" /\ pc' = "next" /\ todo' = WorkTargets
        /\ ~MixedAssets /\ ~InvalidTargets
        /\ UNCHANGED <<input, asset, pool, work, collected>>
    BY <1>4 DEF AcceptCall
  <2>2. Finished' = Finished /\ Accounted' /\ Paid'
    BY <2>1, AccountsStay
  <2>3. TypeOK'
    BY <1>1, <1>2, <2>1 DEF TypeOK, collected
  <2>4. InTurn' /\ Priced'
    BY <1>1, <1>2, <2>1, <2>2 DEF InTurn, Priced, Busy
  <2>5. QED
    BY <2>2, <2>3, <2>4 DEF IInv
<1>5. CASE NextAsset
  <2>0. PICK a \in todo :
          (IsFeeAsset(a) => todo = {a}) /\ asset' = a /\ todo' = todo \ {a}
    BY <1>5 DEF NextAsset, BeforeFeeAsset
  <2>1. /\ pc = "next" /\ pc' \in {"filter", "refill"} /\ pool' = {}
        /\ UNCHANGED <<input, work, collected>>
    BY <1>5 DEF NextAsset
  <2>2. Finished' = Finished /\ Accounted' /\ Paid'
    BY <2>1, AccountsStay
  <2>3. TypeOK'
    BY <1>1, <1>2, <2>0, <2>1 DEF TypeOK, collected
  <2>4. InTurn'
    <3>1. /\ Finished = WorkTargets \ todo /\ todo \subseteq WorkTargets
          /\ ~MixedAssets /\ ~InvalidTargets
          /\ \A b \in Finished : ~IsFeeAsset(b)
      BY <1>1, <2>1 DEF InTurn, TypeOK
    <3>2. /\ asset' \in WorkTargets' /\ asset' \notin todo'
          /\ Finished' = WorkTargets' \ (todo' \cup {asset'})
          /\ todo' \cup {asset'} = todo
      BY <1>2, <2>0, <2>1, <2>2, <3>1
    <3>3. /\ IsFeeAsset(asset)' => todo' = {}
          /\ \A b \in Finished' : ~IsFeeAsset(b)'
      <4>1. IsFeeAsset(asset)' <=> IsFeeAsset(a)
        <5>1. request' = request
          BY <2>1 DEF input
        <5>2. QED
          BY <2>0, <5>1 DEF IsFeeAsset, single, calculate_fee
      <4>2. QED
        BY <1>2, <2>0, <2>1, <2>2, <3>1, <4>1
    <3>4. QED
      BY <1>2, <2>1, <3>1, <3>2, <3>3 DEF InTurn, Busy
  <2>5. Priced'
    BY <2>1 DEF Priced
  <2>6. QED
    BY <2>2, <2>3, <2>4, <2>5 DEF IInv
<1>6. CASE Finish
  <2>1. /\ pc = "next" /\ pc' = "done" /\ todo = {}
        /\ UNCHANGED <<input, asset, todo, pool, work, collected>>
    BY <1>6 DEF Finish
  <2>2. Finished' = Finished /\ Accounted' /\ Paid'
    BY <2>1, AccountsStay
  <2>3. TypeOK'
    BY <1>1, <1>2, <2>1 DEF TypeOK, collected
  <2>4. InTurn' /\ Priced'
    BY <1>1, <1>2, <2>1, <2>2 DEF InTurn, Priced, Busy
  <2>5. QED
    BY <2>2, <2>3, <2>4 DEF IInv
<1>7. CASE FilterPool
  <2>1. /\ pc = "filter" /\ pc' = "bnb"
        /\ pool' = {k \in CoinsOf(asset) : WorthSpending(k)}
        /\ UNCHANGED <<input, asset, todo, collected>>
    BY <1>7 DEF FilterPool
  <2>2. Finished' = Finished /\ Accounted' /\ Paid'
    BY <2>1, AccountsStay
  <2>3. \A k \in Coins : utxos[k].amount \in Nat /\ utxos[k].long_term \in Nat /\ SpendFee(k) \in Nat
    BY <1>1, InputTypes
  <2>4. /\ work' \in [Coins -> [fee : Nat, long_term_fee : Nat, effective_value : Nat]]
        /\ \A k \in pool' : /\ k \in Coins
                            /\ work'[k].fee = SpendFee(k)
                            /\ work'[k].effective_value = EffectiveValue(k)
    <3>1. \A k \in Coins : work[k] \in [fee : Nat, long_term_fee : Nat, effective_value : Nat]
      BY <1>1 DEF TypeOK
    <3>2. \A k \in pool' : k \in Coins /\ EffectiveValue(k) \in Nat
      BY <1>1, <2>1, <2>3, InputTypes DEF WorthSpending, EffectiveValue
    <3>3. /\ DOMAIN work' = Coins
          /\ work' = [k \in Coins |-> work'[k]]
          /\ \A k \in Coins : work'[k] =
               IF k \notin CoinsOf(asset) THEN work[k]
               ELSE IF k \in pool'
               THEN [fee             |-> SpendFee(k),
                     long_term_fee   |-> IF request.use_fee
                                         THEN Lesser(utxos[k].long_term, SpendFee(k))
                                         ELSE 0,
                     effective_value |-> EffectiveValue(k)]
               ELSE [fee |-> 0, long_term_fee |-> 0, effective_value |-> 0]
      BY <1>7 DEF FilterPool
    <3>4. \A k \in Coins : Lesser(utxos[k].long_term, SpendFee(k)) \in Nat
      BY <2>3 DEF Lesser
    <3>5. \A k \in Coins : work'[k] \in [fee : Nat, long_term_fee : Nat, effective_value : Nat]
      BY <2>3, <3>1, <3>2, <3>3, <3>4
    <3>6. work' \in [Coins -> [fee : Nat, long_term_fee : Nat, effective_value : Nat]]
      BY <3>3, <3>5
    <3>7. \A k \in pool' : work'[k].fee = SpendFee(k) /\ work'[k].effective_value = EffectiveValue(k)
      BY <2>1, <3>2, <3>3
    <3>8. QED
      BY <3>2, <3>6, <3>7
  <2>5. TypeOK'
    BY <1>1, <1>2, <2>1, <2>4 DEF TypeOK, collected
  <2>6. InTurn'
    BY <1>1, <1>2, <2>1, <2>2 DEF InTurn, Busy
  <2>7. PoolIsPriced'
    <3>1. /\ \A k : EffectiveValue(k)' = EffectiveValue(k)
          /\ asset' = asset
      BY <1>2, <2>1 DEF EffectiveValue
    <3>2. QED
      BY <1>2, <2>1, <2>4, <3>1 DEF PoolIsPriced
  <2>8. Priced'
    BY <2>1, <2>7 DEF Priced
  <2>9. QED
    BY <2>2, <2>5, <2>6, <2>8 DEF IInv
<1>8. CASE BnBThrows \/ KnapsackThrows
  <2>1. /\ pc \in {"bnb", "knapsack"} /\ pc' = "throw"
        /\ UNCHANGED <<input, asset, todo, pool, work, collected>>
    BY <1>8 DEF BnBThrows, KnapsackThrows
  <2>2. Finished' = Finished /\ Accounted' /\ Paid'
    BY <2>1, AccountsStay
  <2>3. TypeOK'
    BY <1>1, <1>2, <2>1 DEF TypeOK, collected
  <2>4. InTurn' /\ Priced'
    BY <1>1, <1>2, <2>1, <2>2 DEF InTurn, Priced, Busy
  <2>5. QED
    BY <2>2, <2>3, <2>4 DEF IInv
<1>9. CASE BnBFinds
  <2>1. PICK sel \in Selections : Value(sel) >= search_value /\ Collect(sel, TRUE)
    BY <1>9 DEF BnBFinds
  <2>2. pc = "bnb" /\ UNCHANGED <<input, asset, todo, pool, work>>
    BY <1>9 DEF BnBFinds
  <2>3. QED
    BY <2>1, <2>2, CollectKeeps
<1>10. CASE BnBFindsNothing
  <2>1. /\ pc = "bnb" /\ pc' = "refill"
        /\ UNCHANGED <<input, asset, todo, pool, work, collected>>
    BY <1>10 DEF BnBFindsNothing
  <2>2. Finished' = Finished /\ Accounted' /\ Paid'
    BY <2>1, AccountsStay
  <2>3. TypeOK'
    BY <1>1, <1>2, <2>1 DEF TypeOK, collected
  <2>4. InTurn'
    BY <1>1, <1>2, <2>1, <2>2 DEF InTurn, Busy
  <2>5. Priced'
    <3>1. \A k : EffectiveValue(k)' = EffectiveValue(k)
      BY <1>2, <2>1 DEF EffectiveValue
    <3>2. PoolIsPriced'
      BY <1>1, <1>2, <2>1, <3>1 DEF Priced, PoolIsPriced
    <3>3. QED
      BY <2>1, <3>2 DEF Priced
  <2>6. QED
    BY <2>2, <2>3, <2>4, <2>5 DEF IInv
<1>11. CASE RefillPool
  <2>1. /\ pc = "refill" /\ pc' = "knapsack"
        /\ UNCHANGED <<input, asset, todo, collected>>
    BY <1>11 DEF RefillPool
  <2>2. Finished' = Finished /\ Accounted' /\ Paid'
    BY <2>1, AccountsStay
  <2>3. /\ pool' \subseteq Coins
        /\ work' \in [Coins -> [fee : Nat, long_term_fee : Nat, effective_value : Nat]]
        /\ PoolIsPriced'
    <3>1. \A k : EffectiveValue(k)' = EffectiveValue(k)
      BY <1>2, <2>1 DEF EffectiveValue
    <3>2. CASE pool # {}
      <4>1. pool' = pool /\ work' = work /\ PoolIsPriced
        BY <1>1, <1>11, <2>1, <3>2 DEF RefillPool, Priced
      <4>2. QED
        BY <1>1, <1>2, <2>1, <3>1, <4>1 DEF TypeOK, PoolIsPriced
    <3>3. CASE pool = {}
      <4>1. /\ pool' = {k \in CoinsOf(asset) : WorthSpending(k)}
            /\ work' = [k \in Coins |->
                 IF k \in pool' THEN Refilled(k)
                 ELSE IF k \in CoinsOf(asset)
                 THEN [work[k] EXCEPT !.fee = SpendFee(k)]
                 ELSE work[k]]
        BY <1>11, <3>3 DEF RefillPool
      <4>2. /\ pool' \subseteq Coins
            /\ \A k \in Coins : work[k] \in [fee : Nat, long_term_fee : Nat, effective_value : Nat]
            /\ \A k \in Coins : utxos[k].amount \in Nat /\ SpendFee(k) \in Nat
        BY <1>1, <4>1, InputTypes DEF TypeOK
      <4>3. \A k \in pool' : utxos[k].amount - SpendFee(k) \in Nat
        BY <4>1, <4>2 DEF WorthSpending
      <4>4. \A k \in pool' :
              /\ Refilled(k) \in [fee : Nat, long_term_fee : Nat, effective_value : Nat]
              /\ Refilled(k).fee = SpendFee(k)
              /\ Refilled(k).effective_value = utxos[k].amount - SpendFee(k)
        BY <4>2, <4>3 DEF Refilled
      <4>5. \A k \in Coins : [work[k] EXCEPT !.fee = SpendFee(k)]
                               \in [fee : Nat, long_term_fee : Nat, effective_value : Nat]
        BY <4>2
      <4>6. work' \in [Coins -> [fee : Nat, long_term_fee : Nat, effective_value : Nat]]
        BY <4>1, <4>2, <4>4, <4>5
      <4>7. \A k \in pool' : /\ work'[k].fee = SpendFee(k)
                             /\ work'[k].effective_value = utxos[k].amount - SpendFee(k)
        BY <4>1, <4>2, <4>4
      <4>8. QED
        BY <1>2, <2>1, <4>1, <4>2, <4>6, <4>7 DEF PoolIsPriced
    <3>4. QED
      BY <3>2, <3>3
  <2>4. TypeOK'
    BY <1>1, <1>2, <2>1, <2>3 DEF TypeOK, collected
  <2>5. InTurn'
    BY <1>1, <1>2, <2>1, <2>2 DEF InTurn, Busy
  <2>6. Priced'
    BY <2>1, <2>3 DEF Priced
  <2>7. QED
    BY <2>2, <2>4, <2>5, <2>6 DEF IInv
<1>12. CASE KnapsackFinds
  <2>1. PICK sel \in Selections :
          /\ Value(sel) >= search_value
          /\ IF NotEnough(sel)
             THEN pc' = "throw" /\ UNCHANGED collected
             ELSE Collect(sel, FALSE)
    BY <1>12 DEF KnapsackFinds
  <2>2. pc = "knapsack" /\ UNCHANGED <<input, asset, todo, pool, work>>
    BY <1>12 DEF KnapsackFinds
  <2>3. CASE NotEnough(sel)
    <3>1. pc' = "throw" /\ UNCHANGED <<input, collected>>
      BY <2>1, <2>2, <2>3
    <3>2. Finished' = Finished /\ Accounted' /\ Paid'
      BY <3>1, AccountsStay
    <3>3. TypeOK'
      BY <1>1, <1>2, <2>2, <3>1 DEF TypeOK, collected
    <3>4. InTurn' /\ Priced'
      BY <1>1, <1>2, <2>2, <3>1, <3>2 DEF InTurn, Priced, Busy
    <3>5. QED
      BY <3>2, <3>3, <3>4 DEF IInv
  <2>4. CASE ~NotEnough(sel)
    BY <2>1, <2>2, <2>4, CollectKeeps
  <2>5. QED
    BY <2>3, <2>4
<1>13. CASE UNCHANGED vars
  <2>1. /\ pc' = pc /\ UNCHANGED <<input, asset, todo, pool, work, collected>>
    BY <1>13 DEF vars
  <2>2. Finished' = Finished /\ Accounted' /\ Paid'
    BY <2>1, AccountsStay
  <2>3. TypeOK'
    BY <1>1, <1>2, <2>1 DEF TypeOK, collected
  <2>4. InTurn'
    BY <1>1, <1>2, <2>1, <2>2 DEF InTurn, Busy, collected
  <2>5. Priced'
    <3>1. \A k : EffectiveValue(k)' = EffectiveValue(k)
      BY <1>2, <2>1 DEF EffectiveValue
    <3>2. PoolIsPriced' <=> PoolIsPriced
      BY <1>2, <2>1, <3>1 DEF PoolIsPriced
    <3>3. QED
      BY <1>1, <2>1, <3>2 DEF Priced
  <2>6. QED
    BY <2>2, <2>3, <2>4, <2>5 DEF IInv
<1>14. QED
  BY <1>3, <1>4, <1>5, <1>6, <1>7, <1>8, <1>9, <1>10, <1>11, <1>12, <1>13 DEF Next, Stopped

LEMMA Invariance == Spec => []IInv
BY InitIInv, NextIInv, PTL DEF Spec

(* The working areas and sums have their types; no coin of a pool is worth *)
(* a negative amount.                                                      *)
THEOREM TypeCorrect == Spec => []TypeOK
<1>1. IInv => TypeOK
  BY DEF IInv
<1>2. QED
  BY <1>1, Invariance, PTL

(* The coins of the fee asset pay the fees of all coins selected, in       *)
(* whatever order the map has the assets.                                  *)
THEOREM FeesCorrect == Spec => []FeesArePaid
<1>1. ASSUME IInv PROVE FeesArePaid
  <2>1. SpendFees = SpendOf(result)
    BY DEF SpendFees, SpendOf
  <2>2. pc = "done" => Finished = WorkTargets
    BY <1>1 DEF IInv, InTurn
  <2>3. /\ request.tx_fee \in Nat /\ SpendOf(result) \in Nat
        /\ \A a : TargetOf(a) \in Nat
    <3>1. request \in Requests /\ utxos \in Wallets
      BY <1>1 DEF IInv, TypeOK
    <3>2. QED
      BY <3>1, InputTypes, CoinSums
  <2>4. ASSUME pc = "done", NEW a \in WorkTargets, IsFeeAsset(a)
        PROVE  work_selected_values[a] >= TargetOf(a) + request.tx_fee + SpendFees
    <3>1. work_selected_values[a] >= TargetOf(a) + (request.tx_fee + SpendOf(result))
      BY <1>1, <2>2, <2>4 DEF IInv, Paid
    <3>2. TargetOf(a) + (request.tx_fee + SpendOf(result))
            = TargetOf(a) + request.tx_fee + SpendFees
      BY <2>1, <2>3
    <3>3. QED
      BY <3>1, <3>2
  <2>5. QED
    BY <2>4 DEF FeesArePaid
<1>2. QED
  BY <1>1, Invariance, PTL

-----------------------------------------------------------------------------
(* SelectPromise's terms for the call are those of this module.            *)
LEMMA PromiseTerms ==
  ASSUME request \in Requests, utxos \in Wallets
  PROVE  /\ Contract!Coins(CallMade) = Coins
         /\ Contract!Asked(CallMade) = WorkTargets
         /\ \A a : /\ Contract!Target(CallMade, a) = TargetOf(a)
                   /\ Contract!CoinsOf(CallMade, a) = CoinsOf(a)
                   /\ a \in CallMade.payers <=> a \in WorkTargets /\ IsFeeAsset(a)
         /\ Contract!Worthy(CallMade) = {k \in Coins : WorthSpending(k)}
         /\ Contract!Malformed(CallMade) <=> MixedAssets \/ InvalidTargets
         /\ CallMade.tx_fee = request.tx_fee
<1>1. /\ CallMade.single = single /\ CallMade.targets = request.targets
      /\ CallMade.tx_fee = request.tx_fee
      /\ CallMade.payers = {a \in WorkTargets : IsFeeAsset(a)}
      /\ CallMade.coins = [k \in Coins |-> [asset  |-> utxos[k].asset,
                                            amount |-> utxos[k].amount,
                                            spend  |-> SpendFee(k)]]
  BY DEF CallMade
<1>2. Len(utxos) \in Nat
  BY InputTypes
<1>3. Len(CallMade.coins) = Len(utxos)
  BY <1>1, <1>2 DEF Coins
<1>4. Contract!Coins(CallMade) = Coins
  BY <1>3 DEF Contract!Coins, Coins
<1>5. \A k \in Coins : /\ CallMade.coins[k].asset = utxos[k].asset
                       /\ CallMade.coins[k].amount = utxos[k].amount
                       /\ CallMade.coins[k].spend = SpendFee(k)
  BY <1>1
<1>6. Contract!Asked(CallMade) = WorkTargets
  BY <1>1 DEF Contract!Asked, WorkTargets, IsFeeAsset
<1>7. \A a : /\ Contract!Target(CallMade, a) = TargetOf(a)
             /\ Contract!CoinsOf(CallMade, a) = CoinsOf(a)
             /\ a \in CallMade.payers <=> a \in WorkTargets /\ IsFeeAsset(a)
  BY <1>1, <1>4, <1>5 DEF Contract!Target, TargetOf, Contract!CoinsOf, CoinsOf
<1>8. Contract!Worthy(CallMade) = {k \in Coins : WorthSpending(k)}
  BY <1>4, <1>5 DEF Contract!Worthy, WorthSpending
<1>9. Contract!Malformed(CallMade) <=> MixedAssets \/ InvalidTargets
  <2>1. CASE single
    <3>1. Contract!Malformed(CallMade) <=>
            \E j, k \in Coins : CallMade.coins[j].asset # CallMade.coins[k].asset
      BY <1>1, <1>4, <2>1 DEF Contract!Malformed
    <3>2. MixedAssets \/ InvalidTargets <=>
            \E j, k \in Coins : utxos[j].asset # utxos[k].asset
      BY <2>1 DEF MixedAssets, InvalidTargets
    <3>3. QED
      BY <1>5, <3>1, <3>2
  <2>2. CASE ~single
    BY <1>1, <1>6, <1>7, <2>2 DEF Contract!Malformed, MixedAssets, InvalidTargets, WorkTargets
  <2>3. QED
    BY <2>1, <2>2
<1>10. QED
  BY <1>1, <1>4, <1>6, <1>7, <1>8, <1>9

(* Sums is one module, whoever extends it.                                 *)
LEMMA SameSums ==
  ASSUME NEW f, NEW sel
  PROVE  Contract!SelSum(f, sel) = SelSum(f, sel)
<1>1. Contract!Masked(f, sel) = Masked(f, sel)
  BY DEF Contract!Masked, Masked
<1>2. ASSUME NEW g, NEW n PROVE Contract!SumTo(g, n) = SumTo(g, n)
  BY DEF Contract!SumTo, SumTo
<1>3. QED
  BY <1>1, <1>2 DEF Contract!SelSum, SelSum

(* The sums over a selection, too.                                         *)
LEMMA PromiseSums ==
  ASSUME request \in Requests, utxos \in Wallets, NEW sel \in [Coins -> BOOLEAN], NEW a
  PROVE  /\ Contract!AmountOf(CallMade, sel, a)
               = AmountIn({k \in Coins : sel[k]} \cap CoinsOf(a))
         /\ Contract!FeesOf(CallMade, sel, a)
               = SpendOf({k \in Coins : sel[k]} \cap CoinsOf(a))
         /\ Contract!AllFees(CallMade, sel) = SpendOf({k \in Coins : sel[k]})
<1>1. Contract!Coins(CallMade) = Coins /\ Contract!CoinsOf(CallMade, a) = CoinsOf(a)
  BY PromiseTerms
<1>2. CallMade.coins = [k \in Coins |-> [asset  |-> utxos[k].asset,
                                         amount |-> utxos[k].amount,
                                         spend  |-> SpendFee(k)]]
  BY DEF CallMade
<1>3. /\ [k \in Coins |-> CallMade.coins[k].amount] = [k \in Coins |-> utxos[k].amount]
      /\ [k \in Coins |-> CallMade.coins[k].spend] = [k \in Coins |-> SpendFee(k)]
  BY <1>2
<1>4. /\ [k \in Coins |-> sel[k] /\ k \in CoinsOf(a)]
           = [k \in Coins |-> k \in {j \in Coins : sel[j]} \cap CoinsOf(a)]
      /\ sel = [k \in Coins |-> k \in {j \in Coins : sel[j]}]
  OBVIOUS
<1>5. /\ Contract!AmountOf(CallMade, sel, a)
           = SelSum([k \in Coins |-> utxos[k].amount], [k \in Coins |-> sel[k] /\ k \in CoinsOf(a)])
      /\ Contract!FeesOf(CallMade, sel, a)
           = SelSum([k \in Coins |-> SpendFee(k)], [k \in Coins |-> sel[k] /\ k \in CoinsOf(a)])
      /\ Contract!AllFees(CallMade, sel) = SelSum([k \in Coins |-> SpendFee(k)], sel)
  BY <1>1, <1>3, SameSums DEF Contract!AmountOf, Contract!FeesOf, Contract!AllFees
<1>6. QED
  BY <1>4, <1>5 DEF AmountIn, SpendOf

-----------------------------------------------------------------------------
(* A pool worth less than is searched for is short, whether its asset pays *)
(* fees or not.                                                            *)
LEMMA ShortIsRefused ==
  ASSUME IInv, pc \in {"bnb", "knapsack"}, Value(Whole) < search_value
  PROVE  Contract!Refuses(CallMade)
<1> DEFINE whole  == {k \in Coins : k \in pool}
           worthy == [k \in Coins |-> WorthSpending(k)]
           all    == [k \in Coins |-> k \in result \/ k \in pool]
<1>1. /\ request \in Requests /\ utxos \in Wallets /\ PoolIsPriced /\ TypeOK
      /\ asset \in WorkTargets /\ Finished = WorkTargets \ (todo \cup {asset})
      /\ \A a \in Finished : ~IsFeeAsset(a)
  BY DEF IInv, TypeOK, Priced, InTurn, Busy
<1>2. IsFeeAsset(asset) => todo = {}
  BY DEF IInv, InTurn, Busy
<1>3. Whole \in Selections /\ \A k \in Coins : Whole[k] <=> k \in pool
  <2>1. \A k \in Coins : Whole[k] = (k \in pool)
    BY DEF Whole
  <2>2. Whole \in [Coins -> BOOLEAN]
    BY DEF Whole
  <2>3. QED
    BY <2>1, <2>2 DEF Selections
<1>4. {k \in Coins : Whole[k]} = pool /\ whole = pool /\ pool \subseteq CoinsOf(asset)
  BY <1>1, <1>3 DEF TypeOK, PoolIsPriced
<1>5. /\ Amount(Whole) = AmountIn(pool) /\ Fees(Whole) = SpendOf(pool)
      /\ Value(Whole) \in Int /\ Amount(Whole) - Fees(Whole) <= Value(Whole)
      /\ IsFeeAsset(asset) => Value(Whole) = Amount(Whole) - Fees(Whole)
  BY <1>1, <1>3, <1>4, Worth
<1>6. /\ \A k \in result : WorthSpending(k) /\ \E a \in Finished : k \in CoinsOf(a)
      /\ \A a \in Finished : work_selected_values[a] = AmountIn(result \cap CoinsOf(a))
      /\ tx_fee_out = request.tx_fee + SpendOf(result)
  BY DEF IInv, Accounted
<1>7. /\ AmountIn(pool) \in Nat /\ SpendOf(pool) \in Nat /\ SpendOf(result) \in Nat
      /\ request.tx_fee \in Nat /\ \A a : TargetOf(a) \in Nat
  BY <1>1, CoinSums, InputTypes
<1>8. /\ Contract!Asked(CallMade) = WorkTargets /\ Contract!Coins(CallMade) = Coins
      /\ \A a : Contract!Target(CallMade, a) = TargetOf(a)
      /\ \A a : Contract!CoinsOf(CallMade, a) = CoinsOf(a)
      /\ \A a : a \in CallMade.payers <=> (a \in WorkTargets /\ IsFeeAsset(a))
      /\ Contract!Worthy(CallMade) = {k \in Coins : WorthSpending(k)}
      /\ CallMade.tx_fee = request.tx_fee
  BY <1>1, PromiseTerms
<1>9. pool = {k \in CoinsOf(asset) : WorthSpending(k)} /\ CoinsOf(asset) \subseteq Coins
  BY <1>1, InputTypes DEF PoolIsPriced
<1>10. CASE ~IsFeeAsset(asset)
  <2>1. search_value = TargetOf(asset)
    BY <1>7, <1>10 DEF search_value, ChargedFee
  <2>2. {k \in Coins : worthy[k]} \cap CoinsOf(asset) = pool
    BY <1>9
  <2>3. worthy \in [Coins -> BOOLEAN]
    BY DEF WorthSpending
  <2>4. /\ Contract!AmountOf(CallMade, worthy, asset) = AmountIn(pool)
        /\ Contract!FeesOf(CallMade, worthy, asset) = SpendOf(pool)
    <3> HIDE DEF worthy
    <3>1. QED
      BY <1>1, <2>2, <2>3, PromiseSums
  <2>5. worthy = [k \in Contract!Coins(CallMade) |-> k \in Contract!Worthy(CallMade)]
    BY <1>8 DEF WorthSpending
  <2>6. AmountIn(pool) - SpendOf(pool) < TargetOf(asset)
    BY <1>5, <1>7, <2>1
  <2> HIDE DEF worthy
  <2>7. Contract!OtherIsShort(CallMade, asset)
    BY <1>8, <1>10, <2>4, <2>5, <2>6 DEF Contract!OtherIsShort
  <2>8. QED
    BY <1>1, <1>8, <2>7 DEF Contract!Refuses
<1>11. CASE IsFeeAsset(asset)
  <2>1. Finished = WorkTargets \ {asset}
    BY <1>1, <1>2, <1>11
  <2>2. all \in [Coins -> BOOLEAN] /\ {k \in Coins : all[k]} = result \cup pool
    BY <1>1 DEF TypeOK
  <2>3. result \cap CoinsOf(asset) = {} /\ result \cap pool = {}
    BY <1>1, <1>4, <1>6, <2>1, InputTypes
  <2>4. \A b \in Finished : (result \cup pool) \cap CoinsOf(b) = result \cap CoinsOf(b)
    BY <1>1, <1>4, <2>1, InputTypes
  <2>5. (result \cup pool) \cap CoinsOf(asset) = pool
    BY <1>4, <2>3
  <2>6. all \in Contract!Selections(CallMade)
    <3>1. ASSUME NEW k \in Coins, all[k]
          PROVE  k \in Contract!Worthy(CallMade)
                   /\ \E a \in Contract!Asked(CallMade) : k \in Contract!CoinsOf(CallMade, a)
      <4>1. k \in result \/ k \in pool
        BY <2>2, <3>1
      <4>2. CASE k \in result
        BY <1>6, <1>8, <2>1, <4>2
      <4>3. CASE k \in pool
        BY <1>1, <1>8, <1>9, <4>3
      <4>4. QED
        BY <4>1, <4>2, <4>3
    <3>2. QED
      BY <1>8, <2>2, <3>1 DEF Contract!Selections
  <2>7. /\ \A a : Contract!AmountOf(CallMade, all, a) = AmountIn((result \cup pool) \cap CoinsOf(a))
        /\ Contract!AllFees(CallMade, all) = SpendOf(result \cup pool)
    <3> HIDE DEF all
    <3>1. QED
      BY <1>1, <2>2, PromiseSums
  <2>8. \A k \in Contract!Worthy(CallMade) \cap Contract!CoinsOf(CallMade, asset) : all[k]
    BY <1>8, <1>9
  <2> HIDE DEF all
  <2>9. ASSUME NEW b \in Contract!Asked(CallMade) \ {asset}
        PROVE  Contract!Pays(CallMade, all, b)
    <3>1. b \in Finished /\ ~IsFeeAsset(b)
      BY <1>1, <1>8, <2>1, <2>9
    <3>2. work_selected_values[b] >= TargetOf(b) + 0
      BY <3>1 DEF IInv, Paid
    <3>3. Contract!AmountOf(CallMade, all, b) = work_selected_values[b]
      BY <1>6, <2>4, <2>7, <3>1
    <3>4. QED
      BY <1>8, <3>1, <3>2, <3>3 DEF Contract!Pays
  <2>10. ~Contract!Pays(CallMade, all, asset)
    <3>1. SpendOf(result \cup pool) = SpendOf(result) + SpendOf(pool)
      BY <1>1, <2>3, CoinSumsUnion
    <3>2. search_value = TargetOf(asset) + (request.tx_fee + SpendOf(result))
      BY <1>6, <1>11 DEF search_value, ChargedFee
    <3>3. Contract!AmountOf(CallMade, all, asset) = AmountIn(pool)
      BY <2>5, <2>7
    <3>4. AmountIn(pool) < TargetOf(asset) + (request.tx_fee + SpendOf(result \cup pool))
      BY <1>5, <1>7, <1>11, <3>1, <3>2
    <3>5. /\ Contract!Target(CallMade, asset) = TargetOf(asset)
          /\ asset \in CallMade.payers /\ CallMade.tx_fee = request.tx_fee
          /\ Contract!AllFees(CallMade, all) = SpendOf(result \cup pool)
      BY <1>1, <1>8, <1>11, <2>7
    <3>6. SpendOf(result \cup pool) \in Nat
      BY <1>7, <3>1
    <3>7. QED
      BY <1>7, <3>3, <3>4, <3>5, <3>6 DEF Contract!Pays
  <2>11. Contract!PayerIsShort(CallMade, asset)
    BY <1>1, <1>8, <1>11, <2>6, <2>8, <2>9, <2>10 DEF Contract!PayerIsShort
  <2>12. QED
    BY <1>1, <1>8, <2>11 DEF Contract!Refuses
<1>12. QED
  BY <1>10, <1>11

(* What the knapsack solver finds is enough, but for an asset whose coins  *)
(* pay the target and not their own fees.                                  *)
LEMMA NotEnoughIsRefused ==
  ASSUME IInv, pc = "knapsack", NEW sel \in Selections,
         Value(sel) >= search_value, NotEnough(sel)
  PROVE  Contract!Refuses(CallMade)
<1> DEFINE chosen == {k \in Coins : sel[k]}
<1>1. /\ request \in Requests /\ utxos \in Wallets /\ PoolIsPriced /\ TypeOK
      /\ asset \in WorkTargets
  BY DEF IInv, TypeOK, Priced, InTurn, Busy
<1>2. /\ Amount(sel) = AmountIn(chosen) /\ Fees(sel) = SpendOf(chosen)
      /\ Value(sel) \in Int /\ Value(sel) <= Amount(sel)
      /\ IsFeeAsset(asset) => Value(sel) = Amount(sel) - Fees(sel)
  BY <1>1, Worth
<1>3. /\ AmountIn(chosen) \in Nat /\ SpendOf(chosen) \in Nat
      /\ \A a : TargetOf(a) \in Nat
  BY <1>1, CoinSums, InputTypes
<1>4. search_value \in Int /\ (~IsFeeAsset(asset) => search_value = TargetOf(asset))
  BY <1>1, <1>3 DEF search_value, ChargedFee, TypeOK
<1>5. search_value + SpendOf(chosen) > AmountIn(chosen)
  BY <1>2 DEF NotEnough
<1>6. ~IsFeeAsset(asset)
  BY <1>2, <1>3, <1>4, <1>5
<1>7. AmountIn(chosen) >= TargetOf(asset) /\ AmountIn(chosen) < TargetOf(asset) + SpendOf(chosen)
  BY <1>2, <1>3, <1>4, <1>5, <1>6
<1>8. /\ Contract!Asked(CallMade) = WorkTargets /\ Contract!Coins(CallMade) = Coins
      /\ \A a : Contract!Target(CallMade, a) = TargetOf(a)
      /\ \A a : Contract!CoinsOf(CallMade, a) = CoinsOf(a)
      /\ \A a : a \in CallMade.payers <=> (a \in WorkTargets /\ IsFeeAsset(a))
      /\ Contract!Worthy(CallMade) = {k \in Coins : WorthSpending(k)}
  BY <1>1, PromiseTerms
<1>9. /\ sel \in [Coins -> BOOLEAN]
      /\ \A k \in Coins : sel[k] => WorthSpending(k) /\ k \in CoinsOf(asset)
      /\ chosen \cap CoinsOf(asset) = chosen
  BY <1>1 DEF Selections, PoolIsPriced
<1>10. sel \in Contract!Selections(CallMade)
  BY <1>1, <1>8, <1>9 DEF Contract!Selections
<1>11. /\ Contract!AmountOf(CallMade, sel, asset) = AmountIn(chosen)
       /\ Contract!FeesOf(CallMade, sel, asset) = SpendOf(chosen)
  BY <1>1, <1>9, PromiseSums
<1> HIDE DEF chosen
<1>12. Contract!OtherIsShort(CallMade, asset)
  BY <1>6, <1>7, <1>8, <1>10, <1>11 DEF Contract!OtherIsShort
<1>13. QED
  BY <1>1, <1>8, <1>12 DEF Contract!Refuses

-----------------------------------------------------------------------------
(* What the contract sees of a state.                                      *)
Status    == CASE pc = "done" -> "answered"
               [] pc \in {"throw", "invalid"} -> "refused"
               [] OTHER -> "pending"
Selection == [k \in Coins |-> pc = "done" /\ k \in result]
Reported  == IF pc = "done" THEN work_selected_values ELSE NoAmounts
UtxoFee   == IF pc = "done" THEN work_utxo_fee ELSE 0

LEMMA InitContract == Init => Contract!Init
<1>1. SUFFICES ASSUME Init PROVE Contract!Init
  OBVIOUS
<1>2. request \in Requests /\ utxos \in Wallets /\ pc = "check"
  BY <1>1 DEF Init
<1>3. Status = "pending"
  BY <1>2 DEF Status
<1>4. Contract!Coins(CallMade) = Coins
  BY <1>2, PromiseTerms
<1>5. Selection = [k \in Coins |-> FALSE]
  BY <1>2 DEF Selection
<1>6. Reported = [a \in {} |-> 0] /\ UtxoFee = 0
  BY <1>2 DEF Reported, UtxoFee, NoAmounts
<1>7. Contract!IsCall(CallMade)
  <2>1. /\ IsRequest(request)
        /\ \A k \in Coins : utxos[k].amount \in Nat /\ SpendFee(k) \in Nat
        /\ single => WorkTargets = {NoAsset}
    BY <1>2, InputTypes, RequestsAssumption
  <2>2. /\ CallMade.single = single /\ CallMade.targets = request.targets
        /\ CallMade.tx_fee = request.tx_fee
        /\ CallMade.payers = {a \in WorkTargets : IsFeeAsset(a)}
    BY DEF CallMade
  <2>3. /\ 1 .. Len(CallMade.coins) = Coins
        /\ \A k \in Coins : /\ CallMade.coins[k].amount = utxos[k].amount
                            /\ CallMade.coins[k].spend = SpendFee(k)
    <3>1. 1 .. Len(CallMade.coins) = Coins
      BY <1>4 DEF Contract!Coins
    <3>2. QED
      BY <3>1 DEF CallMade
  <2>4. single => DOMAIN request.targets = {NoAsset} /\ CallMade.payers = {NoAsset}
    BY <2>1, <2>2 DEF IsRequest, single, IsFeeAsset
  <2>5. QED
    BY <2>1, <2>2, <2>3, <2>4 DEF IsRequest, Contract!IsCall
<1>8. QED
  BY <1>3, <1>4, <1>5, <1>6, <1>7 DEF Contract!Init, Status, Selection, Reported, UtxoFee

(* Until a call ends, the contract sees no step.                           *)
LEMMA UnseenStep ==
  ASSUME UNCHANGED input, Status = "pending", Status' = "pending"
  PROVE  UNCHANGED <<Status, CallMade, Selection, Reported, UtxoFee>>
<1>1. Coins' = Coins /\ CallMade' = CallMade
  BY InputStays
<1>2. pc # "done" /\ pc' # "done"
  BY DEF Status
<1>3. Selection' = Selection /\ Reported' = Reported /\ UtxoFee' = UtxoFee
  BY <1>1, <1>2 DEF Selection, Reported, UtxoFee, NoAmounts
<1>4. QED
  BY <1>1, <1>3

(* A call that throws is refused for a reason.                             *)
LEMMA RefusedStep ==
  ASSUME UNCHANGED input, Status = "pending", Status' = "refused",
         Contract!Refuses(CallMade)
  PROVE  Contract!Refuse
<1>1. Coins' = Coins /\ CallMade' = CallMade
  BY InputStays
<1>2. pc # "done" /\ pc' # "done"
  BY DEF Status
<1>3. Selection' = Selection /\ Reported' = Reported /\ UtxoFee' = UtxoFee
  BY <1>1, <1>2 DEF Selection, Reported, UtxoFee, NoAmounts
<1>4. QED
  BY <1>1, <1>3 DEF Contract!Refuse, Status, Selection, Reported, UtxoFee

(* The coins collected when all assets are served are an answer.           *)
LEMMA AnsweredStep ==
  ASSUME IInv, Finish
  PROVE  Contract!Answer
<1>1. /\ request \in Requests /\ utxos \in Wallets /\ TypeOK
      /\ ~MixedAssets /\ ~InvalidTargets
  BY DEF IInv, TypeOK, InTurn, Finish
<1>2. /\ pc = "next" /\ pc' = "done" /\ Finished = WorkTargets /\ UNCHANGED input
      /\ UNCHANGED collected
  BY DEF IInv, InTurn, Finish
<1>3. Coins' = Coins /\ CallMade' = CallMade
  BY <1>2, InputStays
<1>4. Status = "pending" /\ Status' = "answered"
  BY <1>2 DEF Status
<1>5. /\ Selection' = [k \in Coins |-> k \in result]
      /\ Reported' = work_selected_values /\ UtxoFee' = work_utxo_fee
  BY <1>2, <1>3 DEF Selection, Reported, UtxoFee, collected
<1> DEFINE sel == [k \in Coins |-> k \in result]
<1>6. sel \in [Coins -> BOOLEAN] /\ {k \in Coins : sel[k]} = result
  <2>1. result \subseteq Coins
    BY <1>1 DEF TypeOK
  <2>2. sel \in [Coins -> BOOLEAN] /\ \A k \in Coins : sel[k] = (k \in result)
    OBVIOUS
  <2>3. QED
    BY <2>1, <2>2
<1>7. /\ Contract!Asked(CallMade) = WorkTargets /\ Contract!Coins(CallMade) = Coins
      /\ \A a : Contract!Target(CallMade, a) = TargetOf(a)
      /\ \A a : Contract!CoinsOf(CallMade, a) = CoinsOf(a)
      /\ \A a : a \in CallMade.payers <=> (a \in WorkTargets /\ IsFeeAsset(a))
      /\ Contract!Worthy(CallMade) = {k \in Coins : WorthSpending(k)}
      /\ CallMade.tx_fee = request.tx_fee
  BY <1>1, PromiseTerms
<1>8. /\ \A k \in result : WorthSpending(k) /\ \E a \in Finished : k \in CoinsOf(a)
      /\ \A a \in Finished : work_selected_values[a] = AmountIn(result \cap CoinsOf(a))
      /\ work_utxo_fee = SpendOf(result)
  BY DEF IInv, Accounted
<1>9. /\ \A a : Contract!AmountOf(CallMade, sel, a) = AmountIn(result \cap CoinsOf(a))
      /\ Contract!AllFees(CallMade, sel) = SpendOf(result)
  <2> HIDE DEF sel
  <2>1. QED
    BY <1>1, <1>6, PromiseSums
<1>10. \A k \in Coins : sel[k] => k \in result
  BY <1>6
<1> HIDE DEF sel
<1>11. sel \in Contract!Selections(CallMade)
  BY <1>2, <1>6, <1>7, <1>8, <1>10 DEF Contract!Selections
<1>12. ASSUME NEW a \in WorkTargets PROVE Contract!Pays(CallMade, sel, a)
  <2>1. work_selected_values[a] >= TargetOf(a)
          + (IF IsFeeAsset(a) THEN request.tx_fee + SpendOf(result) ELSE 0)
    BY <1>2 DEF IInv, Paid
  <2>2. QED
    BY <1>2, <1>7, <1>8, <1>9, <2>1 DEF Contract!Pays
<1>13. sel \in Contract!Answers(CallMade)
  BY <1>7, <1>11, <1>12 DEF Contract!Answers
<1>14. Reported' = [a \in Contract!Asked(CallMade) |-> Contract!AmountOf(CallMade, sel, a)]
  <2>1. work_selected_values = [a \in WorkTargets |-> work_selected_values[a]]
    BY <1>1, <1>2 DEF TypeOK, Finished
  <2>2. QED
    BY <1>2, <1>5, <1>7, <1>8, <1>9, <2>1
<1>15. UtxoFee' = Contract!AllFees(CallMade, sel)
  BY <1>5, <1>8, <1>9
<1>16. ~Contract!Malformed(CallMade)
  BY <1>1, PromiseTerms
<1>17. Selection' = sel
  BY <1>5 DEF sel
<1>18. QED
  BY <1>3, <1>4, <1>13, <1>14, <1>15, <1>16, <1>17
     DEF Contract!Answer, Status, Selection, Reported, UtxoFee

LEMMA NextContract ==
  IInv /\ [Next]_vars => [Contract!Next]_(Contract!vars)
<1> SUFFICES ASSUME IInv, [Next]_vars
             PROVE  Contract!Next \/ UNCHANGED <<Status, CallMade, Selection, Reported, UtxoFee>>
  BY DEF Contract!vars, Status, Selection, Reported, UtxoFee
<1>1. CASE RejectCall
  <2>1. /\ UNCHANGED input /\ Status = "pending" /\ Status' = "refused"
        /\ MixedAssets \/ InvalidTargets
    BY <1>1 DEF RejectCall, Status
  <2>2. request \in Requests /\ utxos \in Wallets
    BY DEF IInv, TypeOK
  <2>3. Contract!Refuses(CallMade)
    BY <2>1, <2>2, PromiseTerms DEF Contract!Refuses
  <2>4. QED
    BY <2>1, <2>3, RefusedStep DEF Contract!Next
<1>2. CASE \/ AcceptCall \/ NextAsset \/ FilterPool \/ BnBFinds
           \/ BnBFindsNothing \/ RefillPool
  <2>1. UNCHANGED input /\ Status = "pending" /\ Status' = "pending"
    <3>1. UNCHANGED input
      BY <1>2 DEF AcceptCall, NextAsset, FilterPool, BnBFinds, BnBFindsNothing, RefillPool
    <3>2. /\ pc \in {"check", "next", "filter", "bnb", "refill"}
          /\ pc' \in {"next", "filter", "bnb", "refill", "knapsack"}
      BY <1>2 DEF AcceptCall, NextAsset, FilterPool, BnBFinds, BnBFindsNothing, RefillPool, Collect
    <3>3. QED
      BY <3>1, <3>2 DEF Status
  <2>2. QED
    BY <2>1, UnseenStep
<1>3. CASE Finish
  BY <1>3, AnsweredStep DEF Contract!Next
<1>4. CASE BnBThrows \/ KnapsackThrows
  <2>1. /\ UNCHANGED input /\ Status = "pending" /\ Status' = "refused"
        /\ pc \in {"bnb", "knapsack"} /\ Value(Whole) < search_value
    BY <1>4 DEF BnBThrows, KnapsackThrows, Status
  <2>2. QED
    BY <2>1, ShortIsRefused, RefusedStep DEF Contract!Next
<1>5. CASE KnapsackFinds
  <2>1. PICK sel \in Selections :
          /\ Value(sel) >= search_value
          /\ IF NotEnough(sel)
             THEN pc' = "throw" /\ UNCHANGED collected
             ELSE Collect(sel, FALSE)
    BY <1>5 DEF KnapsackFinds
  <2>2. pc = "knapsack" /\ UNCHANGED input
    BY <1>5 DEF KnapsackFinds
  <2>3. CASE NotEnough(sel)
    <3>1. Status = "pending" /\ Status' = "refused"
      BY <2>1, <2>2, <2>3 DEF Status
    <3>2. QED
      BY <2>1, <2>2, <2>3, <3>1, NotEnoughIsRefused, RefusedStep DEF Contract!Next
  <2>4. CASE ~NotEnough(sel)
    <3>1. Status = "pending" /\ Status' = "pending"
      BY <2>1, <2>2, <2>4 DEF Status, Collect
    <3>2. QED
      BY <2>2, <3>1, UnseenStep
  <2>5. QED
    BY <2>3, <2>4
<1>6. CASE UNCHANGED vars
  <2>1. /\ UNCHANGED input /\ pc' = pc /\ result' = result
        /\ work_selected_values' = work_selected_values /\ work_utxo_fee' = work_utxo_fee
    BY <1>6 DEF vars, collected
  <2>2. Coins' = Coins /\ CallMade' = CallMade
    BY <2>1, InputStays
  <2>3. QED
    BY <2>1, <2>2 DEF Status, Selection, Reported, UtxoFee, NoAmounts
<1>7. QED
  BY <1>1, <1>2, <1>3, <1>4, <1>5, <1>6 DEF Next, Stopped

(* A call of SelectCoins, with its two overloads and two searches, is one  *)
(* that SelectCoinsContract allows: what the funding functions are         *)
(* modelled on holds of the selection that they call.                      *)
THEOREM ContractKept == Spec => KeepsContract
<1>1. Init => Contract!Init
  BY InitContract
<1>2. IInv /\ [Next]_vars => [Contract!Next]_(Contract!vars)
  BY NextContract
<1>3. QED
  BY <1>1, <1>2, Invariance, PTL DEF Spec, KeepsContract, Contract!Spec
=============================================================================
