------------------------------ MODULE BnBProofs ------------------------------
(***************************************************************************)
(* Proofs about SelectCoinsBnB, for every pool, target and number of tries.*)
(***************************************************************************)
EXTENDS BnB, SumsProofs

(* Every coin of the sorted pool came through SelectCoinsMinConf.          *)
CoinsOK ==
  \A k \in 1 .. N :
    p_utxos[k] \in Coin /\ p_utxos[k].long_term_fee <= p_utxos[k].fee

(* Nothing is selected before the search starts.                           *)
Untouched ==
  pc = "start" =>
    /\ curr_selection = <<>> /\ curr_value = 0 /\ curr_waste = 0
    /\ best_selection = <<>>

(* A search is only begun with coins that can pay the target.              *)
Affordable == pc = "search" => SumTo(Eff, N) >= actual_target

(* The inductive invariant.                                                *)
IInv ==
  /\ TypeOK
  /\ CoinsOK
  /\ Untouched
  /\ Affordable
  /\ RunningTotals
  /\ BestIsSolution

-----------------------------------------------------------------------------
(* Reading the sorted pool.                                                *)
LEMMA CoinColumns ==
  ASSUME p_utxos \in Seq(Coin), CoinsOK
  PROVE  /\ N \in Nat
         /\ \A k \in 1 .. N : /\ Eff[k] = p_utxos[k].effective_value
                              /\ Waste[k] = CoinWaste(k)
                              /\ Eff[k] \in Nat /\ Eff[k] \in Int
                              /\ Waste[k] \in Nat /\ Waste[k] \in Int
                              /\ Amounts[k] \in Nat /\ Fees[k] \in Nat
<1>1. N \in Nat
  BY DEF N
<1>2. ASSUME NEW k \in 1 .. N
      PROVE  /\ Eff[k] = p_utxos[k].effective_value
             /\ Waste[k] = CoinWaste(k)
             /\ Eff[k] \in Nat /\ Eff[k] \in Int
             /\ Waste[k] \in Nat /\ Waste[k] \in Int
             /\ Amounts[k] \in Nat /\ Fees[k] \in Nat
  <2>1. /\ p_utxos[k].effective_value \in Nat
        /\ p_utxos[k].amount \in Nat
        /\ p_utxos[k].fee \in Nat
        /\ p_utxos[k].long_term_fee \in Nat
        /\ p_utxos[k].long_term_fee <= p_utxos[k].fee
    BY DEF CoinsOK, Coin
  <2>2. QED
    BY <2>1 DEF Eff, EffectiveValues, N, Waste, Amounts, Fees, CoinWaste
<1>3. QED
  BY <1>1, <1>2

(* The choice of LastIncluded is always possible.                          *)
LEMMA LastIncludedExists ==
  ASSUME NEW sel \in Seq(BOOLEAN)
  PROVE  LET last == LastIncluded(sel)
         IN  /\ last \in 0 .. Len(sel)
             /\ last # 0 => sel[last]
             /\ \A j \in last + 1 .. Len(sel) : ~sel[j]
<1> DEFINE T == {k \in 0 .. Len(sel) : \A j \in k + 1 .. Len(sel) : ~sel[j]}
<1>1. Len(sel) \in T
  OBVIOUS
<1>2. PICK k \in T : \A j \in T : k <= j
  <2>1. T \subseteq Nat
    OBVIOUS
  <2> HIDE DEF T
  <2>2. QED
    BY <1>1, <2>1, LeastElement
<1>3. k # 0 => sel[k]
  <2>1. SUFFICES ASSUME k # 0, ~sel[k] PROVE FALSE
    OBVIOUS
  <2>2. k - 1 \in 0 .. Len(sel)
    BY <2>1
  <2>3. \A j \in (k - 1) + 1 .. Len(sel) : ~sel[j]
    BY <2>1
  <2>4. QED
    BY <1>2, <2>2, <2>3
<1>4. QED
  BY <1>3 DEF LastIncluded

(* Whatever order std::sort leaves, the coins are those of the pool and    *)
(* their effective values have the same sum.                               *)
LEMMA SortKeepsCoins ==
  ASSUME NEW pool \in Pools, NEW sorted \in SortsOf(pool)
  PROVE  IsPool(sorted) /\ PoolTotal(sorted) = PoolTotal(pool)
<1> DEFINE n == Len(pool)
           f == EffectiveValues(pool)
<1>1. /\ pool \in Seq(Coin) /\ n \in Nat
      /\ \A k \in 1 .. n : pool[k] \in Coin /\ pool[k].long_term_fee <= pool[k].fee
  BY PoolsAssumption DEF IsPool
<1>2. PICK p \in Rearrangements(n) : sorted = [k \in 1 .. n |-> pool[p[k]]]
  BY DEF SortsOf, DescendingOrders
<1>3. p \in [1 .. n -> 1 .. n]
  BY <1>2 DEF Rearrangements
<1>4. sorted \in [1 .. n -> Coin]
  BY <1>1, <1>2, <1>3
<1>5. sorted \in Seq(Coin) /\ Len(sorted) = n
  BY <1>1, <1>4
<1>6. IsPool(sorted)
  BY <1>1, <1>2, <1>3, <1>5 DEF IsPool
<1>7. EffectiveValues(sorted) = [k \in 1 .. n |-> f[p[k]]]
  BY <1>2, <1>3, <1>5 DEF EffectiveValues
<1>8. \A k \in 1 .. n : f[k] \in Int
  BY <1>1 DEF Coin, EffectiveValues
<1>9. SumTo([k \in 1 .. n |-> f[p[k]]], n) = SumTo(f, n)
  <2> HIDE DEF f
  <2>1. QED
    BY <1>1, <1>2, <1>8, SumToRearranged
<1>10. QED
  BY <1>5, <1>6, <1>7, <1>9 DEF PoolTotal

-----------------------------------------------------------------------------
(* The initial states satisfy the invariant.                               *)
LEMMA InitIInv == Init => IInv
<1> SUFFICES ASSUME Init PROVE IInv
  OBVIOUS
<1>1. TypeOK
  <2>1. PICK target \in Targets, fees \in TxFees : actual_target = fees + target
    BY DEF Init
  <2>2. actual_target \in Nat
    <3>1. target \in Nat /\ fees \in Nat
      BY BoundsAssumption
    <3>2. QED
      BY <2>1, <3>1
  <2>3. 0 \in 0 .. MaxTries /\ 0 \in Nat /\ MaxAmount \in Nat
    BY BoundsAssumption
  <2>4. <<>> \in Seq(Coin) /\ <<>> \in Seq(BOOLEAN)
    OBVIOUS
  <2>5. QED
    BY <2>2, <2>3, <2>4 DEF Init, TypeOK
<1>2. CoinsOK
  BY DEF Init, CoinsOK, N
<1>3. QED
  BY <1>1, <1>2
     DEF Init, IInv, Untouched, Affordable, RunningTotals, BestIsSolution

(* The search starts with the sums of an empty selection.                  *)
LEMMA SortStep == IInv /\ Sort => IInv'
<1> SUFFICES ASSUME IInv, Sort PROVE IInv'
  OBVIOUS
<1>1. /\ utxos \in Pools /\ p_utxos' \in SortsOf(utxos)
      /\ curr_selection = <<>> /\ curr_value = 0 /\ curr_waste = 0
      /\ best_selection = <<>>
      /\ UNCHANGED <<curr_selection, curr_value, curr_waste, best_selection>>
      /\ pc' = "search"
  BY DEF IInv, TypeOK, Untouched, Sort, best
<1>2. /\ p_utxos' \in Seq(Coin)
      /\ CoinsOK'
      /\ SumTo(Eff', N') = PoolTotal(utxos)
  <2>1. IsPool(p_utxos') /\ PoolTotal(p_utxos') = PoolTotal(utxos)
    BY <1>1, SortKeepsCoins
  <2>2. p_utxos' \in Seq(Coin)
    BY <2>1 DEF IsPool
  <2>3. CoinsOK'
    BY <2>1, <2>2 DEF IsPool, CoinsOK, N
  <2>4. QED
    BY <2>1, <2>2, <2>3 DEF PoolTotal, Eff, N
<1>3. \A i \in 1 .. N' : Eff'[i] \in Nat
  <2>1. \A i \in 1 .. Len(p_utxos') : p_utxos'[i].effective_value \in Nat
    BY <1>2 DEF Coin, CoinsOK, N
  <2>2. QED
    BY <2>1 DEF Eff, EffectiveValues, N
<1>4. N' \in Nat
  BY <1>2 DEF N
<1>5. PoolTotal(utxos) \in Nat
  BY <1>2, <1>3, <1>4, SumToGrows
<1>6. TypeOK'
  BY <1>1, <1>2, <1>5 DEF IInv, TypeOK, Sort, input, best, output
<1>7. /\ SelSum(Eff', <<>>) = 0
      /\ SelSum(Waste', <<>>) = 0
      /\ SumTo(Eff', 0) = 0
      /\ Len(<<>>) = 0
  BY SumToZero DEF SelSum
<1>8. RunningTotals'
  BY <1>1, <1>2, <1>4, <1>5, <1>7 DEF RunningTotals, Sort
<1>9. Affordable'
  BY <1>2 DEF Affordable, Sort, input
<1>10. QED
  BY <1>1, <1>2, <1>6, <1>8, <1>9 DEF IInv, Untouched, BestIsSolution

(* The search only moves forward to a coin that is there: past the last    *)
(* one nothing is left to reach the target with.                           *)
LEMMA ForwardHasCoin ==
  ASSUME IInv, pc = "search", ~HopelessBranch, curr_value < actual_target
  PROVE  Len(curr_selection) < N
<1>1. /\ ~CannotReachTarget
      /\ Len(curr_selection) \in Nat /\ Len(curr_selection) <= N /\ N \in Nat
      /\ curr_value \in Nat /\ actual_target \in Nat
      /\ curr_available_value = SumTo(Eff, N) - SumTo(Eff, Len(curr_selection))
  BY CoinColumns DEF HopelessBranch, IInv, TypeOK, RunningTotals
<1>2. SUFFICES ASSUME Len(curr_selection) = N PROVE FALSE
  BY <1>1
<1>3. \A k \in 1 .. N : Eff[k] \in Int
  BY CoinColumns DEF IInv, TypeOK
<1>4. SumTo(Eff, N) \in Int
  BY <1>1, <1>3, SumToInt
<1>5. curr_available_value = 0
  BY <1>1, <1>2, <1>4
<1>6. QED
  BY <1>1, <1>5 DEF CannotReachTarget

(* Going one coin deeper, with the coin taken or left out.                 *)
LEMMA ForwardStep ==
  ASSUME IInv, Forward, NEW b \in BOOLEAN,
         curr_selection' = Append(curr_selection, b),
         curr_value' = curr_value
           + IF b THEN p_utxos[NextCoin].effective_value ELSE 0,
         curr_waste' = curr_waste + IF b THEN CoinWaste(NextCoin) ELSE 0
  PROVE  IInv'
<1> DEFINE n == Len(curr_selection)
<1>1. /\ pc = "search" /\ pc' = "search"
      /\ tries < MaxTries /\ tries' = tries + 1
      /\ ~CannotReachTarget /\ curr_value < actual_target
      /\ curr_available_value' =
           curr_available_value - p_utxos[NextCoin].effective_value
      /\ UNCHANGED <<utxos, actual_target, cost_of_change, p_utxos,
                     best_selection, best_waste, complete,
                     select_value, utxo_fee_value>>
  BY DEF Forward, Searching, HopelessBranch, input, best, output
<1>2. /\ curr_selection \in Seq(BOOLEAN) /\ n \in Nat /\ n <= N
      /\ curr_value \in Nat /\ curr_waste \in Nat
      /\ curr_available_value \in Nat /\ actual_target \in Nat
      /\ curr_value = SelSum(Eff, curr_selection)
      /\ curr_waste = SelSum(Waste, curr_selection)
      /\ curr_available_value = SumTo(Eff, N) - SumTo(Eff, n)
  BY <1>1 DEF IInv, TypeOK, RunningTotals
<1>3. /\ N \in Nat
      /\ \A k \in 1 .. N : /\ Eff[k] = p_utxos[k].effective_value
                           /\ Waste[k] = CoinWaste(k)
                           /\ Eff[k] \in Nat /\ Eff[k] \in Int
                           /\ Waste[k] \in Nat /\ Waste[k] \in Int
  BY CoinColumns DEF IInv, TypeOK
<1>4. n + 1 <= N
  <2>1. n < N
    BY ForwardHasCoin DEF Forward, Searching
  <2>2. QED
    BY <1>2, <1>3, <2>1
<1>5. /\ NextCoin = n + 1 /\ NextCoin \in 1 .. N
      /\ \A i \in 1 .. n + 1 : i \in 1 .. N
  BY <1>2, <1>3, <1>4 DEF NextCoin
<1>6. /\ Eff[NextCoin] = p_utxos[NextCoin].effective_value
      /\ Waste[NextCoin] = CoinWaste(NextCoin)
      /\ Eff[NextCoin] \in Nat /\ Waste[NextCoin] \in Nat
  BY <1>3, <1>5
<1>7. /\ Len(curr_selection') = n + 1
      /\ curr_selection' \in Seq(BOOLEAN)
  BY <1>2
<1>8. /\ SelSum(Eff, curr_selection') = curr_value'
      /\ SelSum(Waste, curr_selection') = curr_waste'
  <2>1. /\ \A i \in 1 .. n + 1 : Eff[i] \in Int
        /\ \A i \in 1 .. n + 1 : Waste[i] \in Int
    BY <1>3, <1>5
  <2>2. /\ SelSum(Eff, Append(curr_selection, b))
             = SelSum(Eff, curr_selection) + IF b THEN Eff[n + 1] ELSE 0
        /\ SelSum(Waste, Append(curr_selection, b))
             = SelSum(Waste, curr_selection) + IF b THEN Waste[n + 1] ELSE 0
    BY <1>2, <2>1, SelSumAppend
  <2>3. QED
    BY <1>2, <1>5, <1>6, <2>2
<1>9. /\ curr_available_value' = SumTo(Eff, N) - SumTo(Eff, n + 1)
      /\ curr_available_value' \in Nat
  <2>1. \A i \in 1 .. n + 1 : Eff[i] \in Int
    BY <1>3, <1>5
  <2>2. SumTo(Eff, n + 1) = SumTo(Eff, n) + Eff[n + 1]
    BY <1>2, <2>1, SumToNext
  <2>3. SumTo(Eff, n) \in Int /\ SumTo(Eff, N) \in Int
    <3>1. /\ \A i \in 1 .. n : Eff[i] \in Int
          /\ \A i \in 1 .. N : Eff[i] \in Int
      BY <1>3, <2>1
    <3>2. QED
      BY <1>2, <1>3, <3>1, SumToInt
  <2>4. SumTo(Eff, n + 1) <= SumTo(Eff, N)
    <3>1. n + 1 \in Nat /\ \A i \in 1 .. N : Eff[i] \in Nat
      BY <1>2, <1>3
    <3>2. QED
      BY <1>3, <1>4, <3>1, SumToGrows
  <2>5. curr_available_value' = curr_available_value - Eff[n + 1]
    BY <1>1, <1>5, <1>6
  <2>6. Eff[n + 1] \in Nat
    BY <1>5, <1>6
  <2>7. curr_available_value = SumTo(Eff, N) - SumTo(Eff, n)
    BY <1>2
  <2> HIDE DEF n
  <2>8. QED
    BY <2>2, <2>3, <2>4, <2>5, <2>6, <2>7
<1>10. curr_value' \in Nat /\ curr_waste' \in Nat
  BY <1>2, <1>6
<1>11. Eff' = Eff /\ Waste' = Waste /\ N' = N
  BY <1>1 DEF Eff, Waste, N
<1>12. TypeOK'
  BY <1>1, <1>7, <1>9, <1>10, BoundsAssumption DEF IInv, TypeOK
<1>13. RunningTotals'
  BY <1>1, <1>4, <1>7, <1>8, <1>9, <1>11 DEF RunningTotals
<1>14. CoinsOK' /\ Untouched' /\ Affordable' /\ BestIsSolution'
  <2>1. CoinsOK' /\ Untouched' /\ Affordable'
    BY <1>1, <1>11 DEF IInv, CoinsOK, Untouched, Affordable
  <2>2. BestIsSolution'
    BY <1>1, <1>11 DEF IInv, BestIsSolution, InRange, WasteOf
  <2>3. QED
    BY <2>1, <2>2
<1>15. QED
  BY <1>12, <1>13, <1>14 DEF IInv

(* Walking back to the last coin taken, whatever becomes of the best.      *)
LEMMA WalkBackStep ==
  ASSUME IInv, Searching, WalkBack, UNCHANGED <<input, p_utxos, output>>,
         best_selection' \in Seq(BOOLEAN), best_waste' \in Nat,
         BestIsSolution'
  PROVE  IInv'
<1> DEFINE n == Len(curr_selection)
           last == LastIncluded(curr_selection)
<1>1. /\ pc = "search" /\ tries < MaxTries
      /\ curr_available_value' = curr_available_value + PoppedValue(last)
      /\ UNCHANGED <<utxos, actual_target, cost_of_change, p_utxos,
                     select_value, utxo_fee_value>>
  BY DEF Searching, WalkBack, input, output
<1>2. /\ curr_selection \in Seq(BOOLEAN) /\ n \in Nat /\ n <= N
      /\ curr_value \in Nat /\ curr_waste \in Nat
      /\ curr_available_value \in Nat
      /\ curr_value = SelSum(Eff, curr_selection)
      /\ curr_waste = SelSum(Waste, curr_selection)
      /\ curr_available_value = SumTo(Eff, N) - SumTo(Eff, n)
  BY <1>1 DEF IInv, TypeOK, RunningTotals
<1>3. /\ N \in Nat
      /\ \A k \in 1 .. N : /\ Eff[k] = p_utxos[k].effective_value
                           /\ Waste[k] = CoinWaste(k)
                           /\ Eff[k] \in Nat /\ Eff[k] \in Int
                           /\ Waste[k] \in Nat /\ Waste[k] \in Int
  BY CoinColumns DEF IInv, TypeOK
<1>4. /\ last \in 0 .. n
      /\ last # 0 => curr_selection[last]
      /\ \A j \in last + 1 .. n : ~curr_selection[j]
  BY <1>2, LastIncludedExists
<1>5. Eff' = Eff /\ Waste' = Waste /\ N' = N
  BY <1>1 DEF Eff, Waste, N
<1>6. \A k \in Nat : k <= N => /\ SumTo(Eff, k) \in Nat
                              /\ SumTo(Eff, k) <= SumTo(Eff, N)
  BY <1>3, SumToGrows
<1>7. /\ curr_available_value' = SumTo(Eff, N) - SumTo(Eff, last)
      /\ curr_available_value' \in Nat
  <2>1. last \in Nat /\ last <= N
    BY <1>2, <1>3, <1>4
  <2>2. /\ SumTo(Eff, last) \in Nat /\ SumTo(Eff, last) <= SumTo(Eff, N)
        /\ SumTo(Eff, n) \in Nat /\ SumTo(Eff, N) \in Nat
    BY <1>2, <1>3, <1>6, <2>1
  <2>3. curr_available_value' = curr_available_value
                                  + (SumTo(Eff, n) - SumTo(Eff, last))
    BY <1>1 DEF PoppedValue
  <2>4. curr_available_value = SumTo(Eff, N) - SumTo(Eff, n)
    BY <1>2
  <2> HIDE DEF n, last
  <2>5. QED
    BY <2>2, <2>3, <2>4
<1>8. CoinsOK' /\ (pc' \in {"search", "solution"} => Untouched')
  BY <1>1, <1>5 DEF IInv, CoinsOK, Untouched
<1>9. CASE last = 0
  <2>1. /\ curr_selection' = <<>> /\ complete' = TRUE /\ pc' = "solution"
        /\ UNCHANGED <<curr_value, curr_waste, tries>>
    BY <1>9 DEF WalkBack
  <2>2. TypeOK'
    BY <1>1, <1>7, <2>1 DEF IInv, TypeOK
  <2>3. RunningTotals' /\ Affordable'
    BY <2>1 DEF RunningTotals, Affordable
  <2>4. QED
    BY <1>8, <2>1, <2>2, <2>3 DEF IInv
<1>10. CASE last # 0
  <2>1. /\ curr_selection' = LeaveOut(last)
        /\ curr_value' = curr_value - p_utxos[last].effective_value
        /\ curr_waste' = curr_waste - WasteTakenBack(last)
        /\ tries' = tries + 1
        /\ pc' = "search" /\ complete' = complete
    BY <1>1, <1>10 DEF WalkBack
  <2>2. last \in 1 .. n /\ last \in 1 .. N
    BY <1>2, <1>3, <1>4, <1>10
  <2>3. /\ curr_selection' \in Seq(BOOLEAN) /\ Len(curr_selection') = last
        /\ ~curr_selection'[last]
        /\ \A i \in 1 .. last - 1 : curr_selection'[i] = curr_selection[i]
    <3>1. \A i \in 1 .. last : curr_selection[i] \in BOOLEAN
      BY <1>2, <2>2
    <3>2. LeaveOut(last) \in [1 .. last -> BOOLEAN]
      BY <3>1 DEF LeaveOut
    <3>3. LeaveOut(last) \in Seq(BOOLEAN) /\ Len(LeaveOut(last)) = last
      BY <2>2, <3>2
    <3>4. ~LeaveOut(last)[last]
      <4>1. last \in 1 .. last
        BY <2>2
      <4> HIDE DEF last
      <4>2. LeaveOut(last)[last] = (curr_selection[last] /\ last # last)
        BY <4>1, Zenon DEF LeaveOut
      <4>3. QED
        BY <4>2
    <3>5. \A i \in 1 .. last - 1 : LeaveOut(last)[i] = curr_selection[i]
      BY <2>2, <3>1 DEF LeaveOut
    <3>6. QED
      BY <2>1, <3>3, <3>4, <3>5
  <2>4. /\ SelSum(Eff, curr_selection') = SelSum(Eff, curr_selection) - Eff[last]
        /\ SelSum(Waste, curr_selection')
             = SelSum(Waste, curr_selection) - Waste[last]
    <3>1. /\ \A i \in 1 .. n : Eff[i] \in Int
          /\ \A i \in 1 .. n : Waste[i] \in Int
      BY <1>2, <1>3
    <3>2. ASSUME NEW out \in Seq(BOOLEAN), out = curr_selection'
          PROVE  /\ SelSum(Eff, out) = SelSum(Eff, curr_selection) - Eff[last]
                 /\ SelSum(Waste, out)
                      = SelSum(Waste, curr_selection) - Waste[last]
      <4>1. /\ Len(out) = last /\ ~out[Len(out)]
            /\ Len(out) \in 1 .. n /\ curr_selection[Len(out)]
            /\ \A i \in 1 .. Len(out) - 1 : out[i] = curr_selection[i]
            /\ \A i \in Len(out) + 1 .. n : ~curr_selection[i]
        BY <1>4, <1>10, <2>2, <2>3, <3>2
      <4> HIDE DEF last
      <4>2. QED
        BY <1>2, <3>1, <4>1, SelSumLeaveOut
    <3>3. QED
      BY <2>3, <3>2
  <2>5. /\ curr_value' = SelSum(Eff, curr_selection')
        /\ curr_waste' = SelSum(Waste, curr_selection')
    BY <1>2, <1>3, <2>1, <2>2, <2>4 DEF WasteTakenBack
  <2>6. curr_value' \in Nat /\ curr_waste' \in Nat
    <3>1. ASSUME NEW out \in Seq(BOOLEAN), out = curr_selection'
          PROVE  SelSum(Eff, out) \in Nat /\ SelSum(Waste, out) \in Nat
      <4>1. /\ \A i \in 1 .. Len(out) : Eff[i] \in Nat
            /\ \A i \in 1 .. Len(out) : Waste[i] \in Nat
        BY <1>2, <1>3, <2>2, <2>3, <3>1
      <4>2. QED
        BY <4>1, SelSumBounds
    <3>2. QED
      BY <2>3, <2>5, <3>1
  <2>7. TypeOK'
    BY <1>1, <1>7, <2>1, <2>3, <2>6, BoundsAssumption DEF IInv, TypeOK
  <2>8. RunningTotals'
    BY <1>3, <1>5, <1>7, <2>1, <2>2, <2>3, <2>5 DEF RunningTotals
  <2>9. Affordable'
    BY <1>1, <1>5 DEF IInv, Affordable
  <2>10. QED
    BY <1>8, <2>1, <2>7, <2>8, <2>9 DEF IInv
<1>11. QED
  BY <1>9, <1>10

(* A hopeless branch is left and the best solution stays as it was.        *)
LEMMA AbandonStep == IInv /\ Abandon => IInv'
<1> SUFFICES ASSUME IInv, Abandon PROVE IInv'
  OBVIOUS
<1>1. /\ Searching /\ WalkBack
      /\ UNCHANGED <<input, p_utxos, best, output>>
  BY DEF Abandon
<1>2. UNCHANGED <<p_utxos, actual_target, cost_of_change, best_selection, best_waste>>
  BY <1>1 DEF best, input
<1>3. Eff' = Eff /\ Waste' = Waste /\ N' = N
  BY <1>2 DEF Eff, Waste, N
<1>4. BestIsSolution'
  BY <1>2, <1>3 DEF IInv, BestIsSolution, InRange, WasteOf
<1>5. best_selection' \in Seq(BOOLEAN) /\ best_waste' \in Nat
  BY <1>2 DEF IInv, TypeOK
<1>6. QED
  BY <1>1, <1>4, <1>5, WalkBackStep

(* A branch in range becomes the best if it wastes no more.                *)
LEMMA RecordStep == IInv /\ Record => IInv'
<1> SUFFICES ASSUME IInv, Record PROVE IInv'
  OBVIOUS
<1> DEFINE pad == Padded(curr_selection)
<1>1. /\ Searching /\ WalkBack /\ ~ExceedsRange
      /\ curr_value >= actual_target
      /\ UNCHANGED <<input, p_utxos, output>>
  BY DEF Record, HopelessBranch
<1>2. UNCHANGED <<p_utxos, actual_target, cost_of_change>>
  BY <1>1 DEF input
<1>3. Eff' = Eff /\ Waste' = Waste /\ N' = N
  BY <1>2 DEF Eff, Waste, N
<1>4. /\ curr_selection \in Seq(BOOLEAN) /\ Len(curr_selection) <= N
      /\ curr_value = SelSum(Eff, curr_selection)
      /\ curr_waste = SelSum(Waste, curr_selection)
      /\ curr_value \in Nat /\ curr_waste \in Nat
      /\ actual_target \in Nat /\ cost_of_change \in Nat
  BY <1>1, BoundsAssumption DEF Searching, IInv, TypeOK, RunningTotals
<1>5. /\ N \in Nat
      /\ \A k \in 1 .. N : Eff[k] \in Int /\ Waste[k] \in Int
  BY CoinColumns DEF IInv, TypeOK
<1>6. CASE Improves
  <2>1. /\ best_selection' = pad
        /\ best_waste' = curr_waste + Excess
    BY <1>6 DEF Record
  <2>2. /\ pad \in Seq(BOOLEAN) /\ Len(pad) = N
        /\ \A i \in 1 .. Len(curr_selection) : pad[i] = curr_selection[i]
        /\ \A i \in Len(curr_selection) + 1 .. N : ~pad[i]
    <3>1. pad \in [1 .. N -> BOOLEAN]
      <4>1. \A i \in 1 .. Len(curr_selection) : curr_selection[i] \in BOOLEAN
        BY <1>4
      <4>2. QED
        BY <4>1, Zenon DEF Padded
    <3>2. pad \in Seq(BOOLEAN) /\ Len(pad) = N
      BY <1>5, <3>1
    <3>3. \A i \in 1 .. N : pad[i] = IF i \in 1 .. Len(curr_selection)
                                    THEN curr_selection[i] ELSE FALSE
      BY DEF Padded
    <3>4. /\ \A i \in 1 .. Len(curr_selection) : i \in 1 .. N
          /\ \A i \in Len(curr_selection) + 1 .. N :
               i \in 1 .. N /\ i \notin 1 .. Len(curr_selection)
      BY <1>4, <1>5
    <3>5. QED
      BY <3>2, <3>3, <3>4
  <2>3. /\ SelSum(Eff, pad) = curr_value
        /\ SelSum(Waste, pad) = curr_waste
    <3> HIDE DEF pad
    <3>1. /\ \A i \in 1 .. Len(pad) : Eff[i] \in Int
          /\ \A i \in 1 .. Len(pad) : Waste[i] \in Int
      BY <1>5, <2>2
    <3>2. QED
      BY <1>4, <2>2, <3>1, SelSumPadded
  <2> HIDE DEF pad
  <2>4. best_waste' \in Nat
    BY <1>1, <1>4, <2>1 DEF Excess
  <2>5. BestIsSolution'
    <3>1. curr_value \in actual_target .. actual_target + cost_of_change
      BY <1>1, <1>4 DEF ExceedsRange
    <3>2. best_waste' = curr_waste + curr_value - actual_target
      BY <1>4, <2>1 DEF Excess
    <3>3. QED
      BY <1>2, <1>3, <2>1, <2>2, <2>3, <3>1, <3>2
         DEF BestIsSolution, InRange, WasteOf
  <2>6. best_selection' \in Seq(BOOLEAN)
    BY <2>1, <2>2
  <2>7. QED
    BY <1>1, <2>4, <2>5, <2>6, WalkBackStep
<1>7. CASE ~Improves
  <2>1. UNCHANGED <<best_selection, best_waste>>
    BY <1>7 DEF Record, best
  <2>2. BestIsSolution'
    BY <1>2, <1>3, <2>1 DEF IInv, BestIsSolution, InRange, WasteOf
  <2>3. best_selection' \in Seq(BOOLEAN) /\ best_waste' \in Nat
    BY <2>1 DEF IInv, TypeOK
  <2>4. QED
    BY <1>1, <2>2, <2>3, WalkBackStep
<1>8. QED
  BY <1>6, <1>7

(* The remaining steps do not touch the search.                            *)
LEMMA QuietStep ==
  ASSUME IInv,
         UNCHANGED <<input, p_utxos, search, best, tries>>,
         pc' \in {"solution", "done", "throw"}, complete' = complete,
         select_value' \in Nat, utxo_fee_value' \in Nat
  PROVE  IInv'
<1>1. UNCHANGED <<utxos, actual_target, cost_of_change, p_utxos,
                  curr_selection, curr_value, curr_available_value, curr_waste,
                  best_selection, best_waste>>
  BY DEF input, search, best
<1>2. Eff' = Eff /\ Waste' = Waste /\ N' = N
  BY <1>1 DEF Eff, Waste, N
<1>3. TypeOK'
  BY <1>1 DEF IInv, TypeOK
<1>4. CoinsOK' /\ Untouched' /\ Affordable' /\ RunningTotals'
  BY <1>1, <1>2
     DEF IInv, CoinsOK, Untouched, Affordable, RunningTotals
<1>5. BestIsSolution'
  BY <1>1, <1>2 DEF IInv, BestIsSolution, InRange, WasteOf
<1>6. QED
  BY <1>3, <1>4, <1>5 DEF IInv

LEMMA ReturnStep == IInv /\ Return => IInv'
<1> SUFFICES ASSUME IInv, Return PROVE IInv'
  OBVIOUS
<1>1. select_value' \in Nat /\ utxo_fee_value' \in Nat
  <2>1. CASE best_selection # <<>>
    <3>1. best_selection \in Seq(BOOLEAN) /\ Len(best_selection) = N
      BY <2>1 DEF IInv, TypeOK, BestIsSolution
    <3>2. /\ \A k \in 1 .. Len(best_selection) : Amounts[k] \in Nat
          /\ \A k \in 1 .. Len(best_selection) : Fees[k] \in Nat
      BY <3>1, CoinColumns DEF IInv, TypeOK
    <3>3. /\ SelSum(Amounts, best_selection) \in Nat
          /\ SelSum(Fees, best_selection) \in Nat
      BY <3>1, <3>2, SelSumBounds
    <3>4. QED
      BY <2>1, <3>3 DEF Return
  <2>2. CASE best_selection = <<>>
    BY <2>2 DEF Return, output, IInv, TypeOK
  <2>3. QED
    BY <2>1, <2>2
<1>2. QED
  BY <1>1, QuietStep DEF Return

-----------------------------------------------------------------------------
(* Every step keeps the inductive invariant.                               *)
LEMMA StepIInv == IInv /\ [Next]_vars => IInv'
<1> SUFFICES ASSUME IInv, [Next]_vars PROVE IInv'
  OBVIOUS
<1>1. CASE Reject
  <2>1. select_value' \in Nat /\ utxo_fee_value' \in Nat
    BY <1>1 DEF Reject, output, IInv, TypeOK
  <2>2. QED
    BY <1>1, <2>1, QuietStep DEF Reject
<1>2. CASE Sort
  BY <1>2, SortStep
<1>3. CASE Abandon
  BY <1>3, AbandonStep
<1>4. CASE Record
  BY <1>4, RecordStep
<1>5. CASE Skip
  <2>1. /\ Forward
        /\ curr_selection' = Append(curr_selection, FALSE)
        /\ curr_value' = curr_value + 0
        /\ curr_waste' = curr_waste + 0
    BY <1>5 DEF Skip, IInv, TypeOK
  <2>2. QED
    BY <2>1, ForwardStep
<1>6. CASE Include
  <2>1. /\ Forward
        /\ curr_selection' = Append(curr_selection, TRUE)
        /\ curr_value' = curr_value + p_utxos[NextCoin].effective_value
        /\ curr_waste' = curr_waste + CoinWaste(NextCoin)
    BY <1>6 DEF Include
  <2>2. QED
    BY <2>1, ForwardStep
<1>7. CASE GiveUp
  <2>1. select_value' \in Nat /\ utxo_fee_value' \in Nat
    BY <1>7 DEF GiveUp, output, IInv, TypeOK
  <2>2. QED
    BY <1>7, <2>1, QuietStep DEF GiveUp
<1>8. CASE Return
  BY <1>8, ReturnStep
<1>9. CASE UNCHANGED vars
  <2>1. UNCHANGED <<pc, utxos, actual_target, cost_of_change, p_utxos,
                    curr_selection, curr_value, curr_available_value,
                    curr_waste, best_selection, best_waste, tries, complete,
                    select_value, utxo_fee_value>>
    BY <1>9 DEF vars, input, search, best, output
  <2>2. Eff' = Eff /\ Waste' = Waste /\ N' = N
    BY <2>1 DEF Eff, EffectiveValues, N, Waste, N
  <2>3. TypeOK'
    BY <2>1 DEF IInv, TypeOK
  <2>4. CoinsOK' /\ Untouched' /\ Affordable' /\ RunningTotals'
    BY <2>1, <2>2
       DEF IInv, CoinsOK, Untouched, Affordable, RunningTotals
  <2>5. BestIsSolution'
    BY <2>1, <2>2 DEF IInv, BestIsSolution, InRange, WasteOf
  <2>6. QED
    BY <2>3, <2>4, <2>5 DEF IInv
<1>10. CASE Stopped
  BY <1>9, <1>10 DEF Stopped
<1>11. QED
  BY <1>1, <1>2, <1>3, <1>4, <1>5, <1>6, <1>7, <1>8, <1>9, <1>10 DEF Next

(* The inductive invariant holds of every search, whatever the pool is.     *)
THEOREM Invariance == Spec => []IInv
<1>1. Init => IInv
  BY InitIInv
<1>2. IInv /\ [Next]_vars => IInv'
  BY StepIInv
<1>3. QED
  BY <1>1, <1>2, PTL DEF Spec

(* The state always has the types the code gives it; in particular none of *)
(* the Amounts of the search is ever driven below zero.                    *)
THEOREM TypeCorrect == Spec => []TypeOK
<1>1. IInv => TypeOK
  BY DEF IInv
<1>2. QED
  BY <1>1, Invariance, PTL

(* The running totals are what a recount of the branch gives.              *)
THEOREM TotalsCorrect == Spec => []RunningTotals
<1>1. IInv => RunningTotals
  BY DEF IInv
<1>2. QED
  BY <1>1, Invariance, PTL

(* What has been recorded pays the target and at most cost_of_change more. *)
THEOREM BestCorrect == Spec => []BestIsSolution
<1>1. IInv => BestIsSolution
  BY DEF IInv
<1>2. QED
  BY <1>1, Invariance, PTL

(* No coin is read that is not there.                                      *)
THEOREM IndexCorrect == Spec => []IndexInRange
<1>1. IInv => IndexInRange
  <2> SUFFICES ASSUME IInv, pc = "search" PROVE IndexInRange
    BY DEF IndexInRange
  <2>1. /\ N \in Nat /\ Len(curr_selection) \in Nat /\ Len(curr_selection) <= N
        /\ curr_value \in Nat /\ actual_target \in Nat /\ best_waste \in Nat
        /\ curr_waste = SelSum(Waste, curr_selection)
        /\ curr_available_value = SumTo(Eff, N) - SumTo(Eff, Len(curr_selection))
    BY CoinColumns DEF IInv, TypeOK, RunningTotals
  <2>2. ASSUME ~HopelessBranch, curr_value < actual_target
        PROVE  Len(curr_selection) < N
    BY <2>2, ForwardHasCoin
  <2>3. ASSUME curr_waste > best_waste PROVE N > 0
    <3>1. SUFFICES ASSUME N = 0 PROVE FALSE
      BY <2>1
    <3>2. curr_waste = 0
      BY <2>1, <3>1, SumToZero DEF SelSum
    <3>3. QED
      BY <2>1, <2>3, <3>2
  <2>4. QED
    BY <2>2, <2>3 DEF IndexInRange
<1>2. QED
  BY <1>1, Invariance, PTL

-----------------------------------------------------------------------------
(* A turn goes one decision deeper, or turns a decision to take a coin.    *)
Onwards ==
  pc = "search" /\ curr_selection' # curr_selection /\ ~complete' =>
    \/ /\ Len(curr_selection') = Len(curr_selection) + 1
       /\ \A k \in 1 .. Len(curr_selection) :
             curr_selection'[k] = curr_selection[k]
    \/ \E k \in 1 .. Len(curr_selection) :
         /\ k = Len(curr_selection')
         /\ curr_selection[k] /\ ~curr_selection'[k]
         /\ \A j \in 1 .. (k - 1) :
               curr_selection'[j] = curr_selection[j]

LEMMA NextOnwards == IInv /\ [Next]_vars => Onwards
<1> SUFFICES ASSUME IInv, [Next]_vars, pc = "search",
                    curr_selection' # curr_selection, ~complete'
             PROVE  Onwards
  BY DEF Onwards
<1> DEFINE n == Len(curr_selection)
<1>1. curr_selection \in Seq(BOOLEAN) /\ n \in Nat
  BY DEF IInv, TypeOK
<1>2. CASE Skip \/ Include
  <2>1. PICK b : curr_selection' = Append(curr_selection, b)
    BY <1>2 DEF Skip, Include
  <2>2. /\ Len(curr_selection') = n + 1
        /\ \A k \in 1 .. n : curr_selection'[k] = curr_selection[k]
    BY <1>1, <2>1
  <2>3. QED
    BY <2>2 DEF Onwards
<1>3. CASE Abandon \/ Record
  <2> DEFINE last == LastIncluded(curr_selection)
  <2>1. last \in 0 .. n /\ (last # 0 => curr_selection[last])
    BY <1>1, LastIncludedExists
  <2>2. WalkBack
    BY <1>3 DEF Abandon, Record
  <2>3. last # 0 /\ curr_selection' = LeaveOut(last)
    BY <2>2 DEF WalkBack
  <2> HIDE DEF last
  <2>4. LeaveOut(last) = [k \in 1 .. last |-> curr_selection[k] /\ k # last]
    BY DEF LeaveOut
  <2>5. /\ last \in 1 .. n /\ last \in 1 .. last
        /\ \A j \in 1 .. (last - 1) : j \in 1 .. last /\ j # last /\ j \in 1 .. n
    BY <1>1, <2>1, <2>3
  <2>6. Len(curr_selection') = last
    BY <2>3, <2>4, <2>5
  <2>7. ~curr_selection'[last]
    <3>1. curr_selection'[last] = (curr_selection[last] /\ last # last)
      BY <2>3, <2>4, <2>5, Zenon
    <3>2. QED
      BY <3>1
  <2>8. ASSUME NEW j \in 1 .. (last - 1) PROVE curr_selection'[j] = curr_selection[j]
    <3>1. curr_selection[j] \in BOOLEAN
      BY <1>1, <2>5
    <3>2. curr_selection'[j] = (curr_selection[j] /\ j # last)
      BY <2>3, <2>4, <2>5, Zenon
    <3>3. QED
      BY <2>5, <3>1, <3>2
  <2>9. QED
    BY <2>1, <2>3, <2>5, <2>6, <2>7, <2>8 DEF Onwards
<1>4. CASE UNCHANGED vars \/ Reject \/ Sort \/ GiveUp \/ Return
  BY <1>4 DEF vars, Reject, Sort, GiveUp, Return, search
<1>5. QED
  BY <1>2, <1>3, <1>4 DEF Next, Stopped

(* The search never comes back to a branch that it has left.               *)
THEOREM BranchesCorrect == Spec => NoBranchTwice
<1>1. IInv /\ [Next]_vars => Onwards
  BY NextOnwards
<1>2. Spec => [][Onwards]_vars
  BY <1>1, Invariance, PTL DEF Spec
<1>3. QED
  BY <1>2 DEF NoBranchTwice, Onwards

-----------------------------------------------------------------------------
(* What the search owes a selection that it will not come to any more: if  *)
(* it is one to return, then a selection was recorded that wastes no more. *)
Settled(sel) ==
  InRange(sel) /\ WasteOf(sel) <= MaxAmount =>
    best_waste <= WasteOf(sel) /\ (N > 0 => best_selection # <<>>)

(* A selection is left behind when the branch has left out a coin of it    *)
(* after the same decisions: the search takes a coin before it leaves it   *)
(* out, and never comes back.                                              *)
Agree(sel, branch, n) == \A j \in 1 .. n : sel[j] = branch[j]

LeftBehind(sel, branch) ==
  \E k \in 1 .. Len(branch) :
    sel[k] /\ ~branch[k] /\ Agree(sel, branch, k - 1)

(* As long as nothing is recorded, anything would be an improvement.       *)
NoneYet ==
  best_selection = <<>> => best_waste = MaxAmount \/ (pc # "start" /\ N = 0)

(* Whatever is left behind is settled, also what was cut off or skipped.   *)
NothingMissed ==
  SameFeeSameWaste =>
    /\ pc = "search" =>
         \A sel \in FlagLists(N) :
           LeftBehind(sel, curr_selection) => Settled(sel)
    /\ complete => \A sel \in FlagLists(N) : Settled(sel)

(* The tree is walked to its end only once the loop is left.               *)
Unfinished == pc \in {"start", "search"} => ~complete

OInv == NoneYet /\ NothingMissed /\ Unfinished

(* A selection that agrees with a branch up to its last coin taken goes on *)
(* from the branch, or takes one of the coins it has left out since.       *)
LEMMA FirstDeparture ==
  ASSUME NEW branch \in Seq(BOOLEAN), NEW n \in Nat, Len(branch) <= n,
         NEW sel \in FlagLists(n), NEW m \in 0 .. Len(branch),
         Agree(sel, branch, m), \A j \in m + 1 .. Len(branch) : ~branch[j]
  PROVE  LeftBehind(sel, branch) \/ Agree(sel, branch, Len(branch))
<1> DEFINE T == {k \in 1 .. Len(branch) : sel[k] # branch[k]}
<1>1. SUFFICES ASSUME ~Agree(sel, branch, Len(branch)) PROVE LeftBehind(sel, branch)
  OBVIOUS
<1>2. T # {} /\ T \subseteq Nat
  BY <1>1 DEF Agree
<1>3. PICK k \in T : \A j \in T : k <= j
  <2> HIDE DEF T
  <2>1. QED
    BY <1>2, LeastElement
<1>4. k \in 1 .. Len(branch) /\ sel[k] # branch[k]
  OBVIOUS
<1>5. Agree(sel, branch, k - 1)
  <2>1. ASSUME NEW j \in 1 .. k - 1 PROVE sel[j] = branch[j]
    <3>1. j \in 1 .. Len(branch) /\ ~(k <= j)
      BY <1>4
    <3>2. QED
      BY <1>3, <3>1
  <2>2. QED
    BY <2>1 DEF Agree
<1>6. k \notin 1 .. m
  BY <1>4 DEF Agree
<1>7. ~branch[k]
  <2>1. k \in m + 1 .. Len(branch)
    BY <1>4, <1>6
  <2>2. QED
    BY <2>1
<1>8. sel[k]
  <2>1. sel[k] \in BOOLEAN /\ branch[k] \in BOOLEAN
    BY <1>4 DEF FlagLists
  <2>2. QED
    BY <1>4, <1>7, <2>1
<1>9. QED
  BY <1>4, <1>5, <1>7, <1>8 DEF LeftBehind

(* What the running totals say of every selection on the branch.           *)
LEMMA OnTheBranch ==
  ASSUME IInv, pc = "search", NEW sel \in FlagLists(N),
         Agree(sel, curr_selection, Len(curr_selection))
  PROVE  /\ SelSum(Eff, sel) \in Nat /\ SelSum(Waste, sel) \in Nat
         /\ curr_value <= SelSum(Eff, sel)
         /\ SelSum(Eff, sel) <= curr_value + curr_available_value
         /\ curr_waste <= SelSum(Waste, sel)
<1> DEFINE n == Len(curr_selection)
<1>1. /\ curr_selection \in Seq(BOOLEAN) /\ n <= N
      /\ curr_value = SelSum(Eff, curr_selection)
      /\ curr_waste = SelSum(Waste, curr_selection)
      /\ curr_available_value = SumTo(Eff, N) - SumTo(Eff, n)
      /\ curr_available_value \in Nat
  BY DEF IInv, TypeOK, RunningTotals
<1>2. /\ N \in Nat
      /\ \A i \in 1 .. N : Eff[i] \in Nat
      /\ \A i \in 1 .. N : Waste[i] \in Nat
  BY CoinColumns DEF IInv, TypeOK
<1>3. \A i \in 1 .. n : sel[i] = curr_selection[i]
  BY DEF Agree
<1>4. /\ SelSum(Eff, sel) \in Nat /\ SelSum(Eff, curr_selection) \in Nat
      /\ SelSum(Eff, curr_selection) <= SelSum(Eff, sel)
      /\ SelSum(Eff, sel) - SelSum(Eff, curr_selection)
           <= SumTo(Eff, N) - SumTo(Eff, n)
  BY <1>1, <1>2, <1>3, SelSumExtended
<1>5. /\ SelSum(Waste, sel) \in Nat /\ SelSum(Waste, curr_selection) \in Nat
      /\ SelSum(Waste, curr_selection) <= SelSum(Waste, sel)
  BY <1>1, <1>2, <1>3, SelSumExtended
<1>6. SelSum(Eff, sel) - curr_value <= curr_available_value
  BY <1>1, <1>4
<1>7. curr_value \in Nat
  BY <1>1, <1>4
<1>8. QED
  BY <1>1, <1>4, <1>5, <1>6, <1>7

(* A branch is cut off only when nothing on it can be better.              *)
LEMMA HopelessSettled ==
  ASSUME IInv, NoneYet, pc = "search", HopelessBranch, NEW sel \in FlagLists(N),
         Agree(sel, curr_selection, Len(curr_selection))
  PROVE  Settled(sel)
<1>1. /\ SelSum(Eff, sel) \in Nat /\ SelSum(Waste, sel) \in Nat
      /\ curr_value <= SelSum(Eff, sel)
      /\ SelSum(Eff, sel) <= curr_value + curr_available_value
      /\ curr_waste <= SelSum(Waste, sel)
  BY OnTheBranch
<1>2. /\ actual_target \in Nat /\ cost_of_change \in Nat
      /\ curr_value \in Nat /\ curr_available_value \in Nat
      /\ curr_waste \in Nat /\ best_waste \in Nat /\ MaxAmount \in Nat
  BY BoundsAssumption DEF IInv, TypeOK
<1>3. SUFFICES ASSUME InRange(sel), WasteOf(sel) <= MaxAmount
               PROVE  best_waste <= WasteOf(sel) /\ (N > 0 => best_selection # <<>>)
  BY DEF Settled
<1>4. /\ actual_target <= SelSum(Eff, sel)
      /\ SelSum(Eff, sel) <= actual_target + cost_of_change
      /\ WasteOf(sel) = SelSum(Waste, sel) + SelSum(Eff, sel) - actual_target
  BY <1>1, <1>2, <1>3 DEF InRange, WasteOf
<1>5. ~CannotReachTarget /\ ~ExceedsRange
  BY <1>1, <1>2, <1>4 DEF CannotReachTarget, ExceedsRange
<1>6. curr_waste > best_waste
  BY <1>5 DEF HopelessBranch, TooWasteful
<1>7. best_waste < WasteOf(sel)
  BY <1>1, <1>2, <1>4, <1>6
<1>8. best_waste < MaxAmount
  BY <1>1, <1>2, <1>3, <1>4, <1>7
<1>9. N > 0 => best_selection # <<>>
  <2>1. N \in Nat
    BY CoinColumns DEF IInv, TypeOK
  <2>2. QED
    BY <1>2, <1>8, <2>1 DEF NoneYet
<1>10. QED
  BY <1>1, <1>2, <1>4, <1>7, <1>9

(* A recorded branch wastes least among all the selections on it.          *)
LEMMA RecordSettled ==
  ASSUME IInv, NoneYet, Record, NEW sel \in FlagLists(N),
         Agree(sel, curr_selection, Len(curr_selection))
  PROVE  Settled(sel)'
<1>1. /\ pc = "search" /\ curr_value >= actual_target
      /\ UNCHANGED <<p_utxos, actual_target, cost_of_change>>
  BY DEF Record, Searching, input
<1>2. Eff' = Eff /\ Waste' = Waste /\ N' = N
  BY <1>1 DEF Eff, Waste, N
<1>3. /\ SelSum(Eff, sel) \in Nat /\ SelSum(Waste, sel) \in Nat
      /\ curr_value <= SelSum(Eff, sel)
      /\ curr_waste <= SelSum(Waste, sel)
  BY <1>1, OnTheBranch
<1>4. /\ actual_target \in Nat /\ curr_value \in Nat /\ curr_waste \in Nat
      /\ best_waste \in Nat /\ MaxAmount \in Nat /\ N \in Nat
  BY BoundsAssumption, CoinColumns DEF IInv, TypeOK
<1>5. SUFFICES ASSUME WasteOf(sel) <= MaxAmount
               PROVE  best_waste' <= WasteOf(sel) /\ (N > 0 => best_selection' # <<>>)
  BY <1>1, <1>2 DEF Settled, WasteOf
<1>6. WasteOf(sel) = SelSum(Waste, sel) + SelSum(Eff, sel) - actual_target
  BY DEF WasteOf
<1>7. curr_waste + Excess <= WasteOf(sel)
  BY <1>3, <1>4, <1>6 DEF Excess
<1>8. CASE Improves
  <2>1. best_selection' = Padded(curr_selection) /\ best_waste' = curr_waste + Excess
    BY <1>8 DEF Record
  <2>2. N > 0 => Padded(curr_selection) # <<>>
    <3>1. DOMAIN Padded(curr_selection) = 1 .. N
      BY DEF Padded
    <3>2. N > 0 => 1 \in 1 .. N
      BY <1>4
    <3>3. DOMAIN <<>> = {}
      OBVIOUS
    <3>4. QED
      BY <3>1, <3>2, <3>3
  <2>3. QED
    BY <1>7, <2>1, <2>2
<1>9. CASE ~Improves
  <2>1. best_selection' = best_selection /\ best_waste' = best_waste
    BY <1>9 DEF Record, best
  <2>2. best_waste < curr_waste + Excess
    BY <1>4, <1>9 DEF Improves, Excess
  <2>3. best_waste < WasteOf(sel) /\ best_waste < MaxAmount
    BY <1>3, <1>4, <1>5, <1>6, <1>7, <2>2 DEF Excess
  <2>4. N > 0 => best_selection # <<>>
    BY <1>4, <2>3 DEF NoneYet
  <2>5. best_waste <= WasteOf(sel)
    BY <1>3, <1>4, <1>6, <2>3
  <2>6. QED
    BY <2>1, <2>4, <2>5
<1>10. QED
  BY <1>8, <1>9

(* The best solution only ever improves.                                   *)
BestImproves ==
  /\ best_waste' <= best_waste
  /\ best_selection # <<>> => best_selection' # <<>>

LEMMA RecordImproves ==
  ASSUME IInv, NoneYet, Record
  PROVE  BestImproves /\ NoneYet'
<1>1. pc = "search" /\ UNCHANGED p_utxos /\ WalkBack
  BY DEF Record, Searching
<1>2. N' = N /\ N \in Nat /\ pc' \in {"search", "solution"}
  BY <1>1, CoinColumns DEF N, IInv, TypeOK, WalkBack
<1>3. best_waste \in Nat
  BY DEF IInv, TypeOK
<1>4. CASE Improves
  <2>1. best_selection' = Padded(curr_selection) /\ best_waste' = curr_waste + Excess
    BY <1>4 DEF Record
  <2>2. best_waste' <= best_waste
    BY <1>4, <2>1 DEF Improves
  <2>3. DOMAIN best_selection' = 1 .. N /\ DOMAIN <<>> = {}
    BY <2>1 DEF Padded
  <2>4. N > 0 => best_selection' # <<>>
    <3>1. N > 0 => 1 \in 1 .. N
      BY <1>2
    <3>2. QED
      BY <2>3, <3>1
  <2>5. best_selection # <<>> => N > 0
    BY <1>2 DEF IInv, TypeOK, BestIsSolution
  <2>6. N > 0 \/ N = 0
    BY <1>2
  <2>7. NoneYet'
    BY <1>2, <2>4, <2>6 DEF NoneYet
  <2>8. QED
    BY <2>2, <2>4, <2>5, <2>7 DEF BestImproves
<1>5. CASE ~Improves
  <2>1. best_selection' = best_selection /\ best_waste' = best_waste
    BY <1>5 DEF Record, best
  <2>2. QED
    BY <1>1, <1>2, <1>3, <2>1 DEF BestImproves, NoneYet
<1>6. QED
  BY <1>4, <1>5

(* What is settled stays settled.                                          *)
LEMMA SettledStays ==
  ASSUME IInv, best_waste' \in Nat, BestImproves,
         UNCHANGED <<p_utxos, actual_target, cost_of_change>>,
         NEW sel \in FlagLists(N), Settled(sel)
  PROVE  Settled(sel)'
<1>1. Eff' = Eff /\ Waste' = Waste /\ N' = N
  BY DEF Eff, Waste, N
<1>2. InRange(sel)' = InRange(sel) /\ WasteOf(sel)' = WasteOf(sel)
  BY <1>1 DEF InRange, WasteOf
<1>3. WasteOf(sel) \in Int
  <2>1. /\ N \in Nat
        /\ \A i \in 1 .. N : Eff[i] \in Int
        /\ \A i \in 1 .. N : Waste[i] \in Int
    BY CoinColumns DEF IInv, TypeOK
  <2>2. SelSum(Eff, sel) \in Int /\ SelSum(Waste, sel) \in Int
    BY <2>1, SelSumInt
  <2>3. QED
    BY <2>2 DEF WasteOf, IInv, TypeOK
<1>4. best_waste \in Nat
  BY DEF IInv, TypeOK
<1>5. SUFFICES ASSUME InRange(sel), WasteOf(sel) <= MaxAmount
               PROVE  best_waste' <= WasteOf(sel) /\ (N > 0 => best_selection' # <<>>)
  BY <1>1, <1>2 DEF Settled
<1>6. best_waste <= WasteOf(sel) /\ (N > 0 => best_selection # <<>>)
  BY <1>5 DEF Settled
<1>7. QED
  BY <1>3, <1>4, <1>6 DEF BestImproves

(* Walking back leaves behind only the branch it comes from.               *)
LEMMA WalkBackMissesNothing ==
  ASSUME IInv, NothingMissed, Unfinished, Searching, WalkBack, UNCHANGED p_utxos,
         \A sel \in FlagLists(N) : Settled(sel) => Settled(sel)',
         \A sel \in FlagLists(N) :
           Agree(sel, curr_selection, Len(curr_selection)) => Settled(sel)'
  PROVE  NothingMissed'
<1> DEFINE n == Len(curr_selection)
           last == LastIncluded(curr_selection)
<1>1. /\ curr_selection \in Seq(BOOLEAN) /\ n \in Nat /\ n <= N /\ N \in Nat
      /\ pc = "search"
  BY CoinColumns DEF Searching, IInv, TypeOK, RunningTotals
<1>2. /\ last \in 0 .. n
      /\ last # 0 => curr_selection[last]
      /\ \A j \in last + 1 .. n : ~curr_selection[j]
  BY <1>1, LastIncludedExists
<1>3. N' = N /\ SameFeeSameWaste' = SameFeeSameWaste
  BY DEF N, SameFeeSameWaste, Waste
<1>4. SUFFICES ASSUME SameFeeSameWaste
               PROVE  /\ pc' = "search" =>
                           \A sel \in FlagLists(N) :
                             LeftBehind(sel, curr_selection') => Settled(sel)'
                      /\ complete' => \A sel \in FlagLists(N) : Settled(sel)'
  <2>1. FlagLists(N') = FlagLists(N)
    BY <1>3
  <2>2. QED
    BY <1>3, <2>1 DEF NothingMissed
<1>5. ASSUME NEW sel \in FlagLists(N), Agree(sel, curr_selection, last)
      PROVE  Settled(sel)'
  <2>1. LeftBehind(sel, curr_selection) \/ Agree(sel, curr_selection, n)
    BY <1>1, <1>2, <1>5, FirstDeparture
  <2>2. LeftBehind(sel, curr_selection) => Settled(sel)
    BY <1>1, <1>4 DEF NothingMissed
  <2>3. QED
    BY <2>1, <2>2
<1>6. CASE last = 0
  <2>1. pc' = "solution"
    BY <1>6 DEF WalkBack
  <2>2. \A sel \in FlagLists(N) : Agree(sel, curr_selection, last)
    BY <1>6 DEF Agree
  <2>3. QED
    BY <1>5, <2>1, <2>2
<1>7. CASE last # 0
  <2>1. /\ curr_selection' = LeaveOut(last) /\ pc' = "search"
        /\ complete' = complete /\ ~complete
    BY <1>1, <1>7 DEF WalkBack, Unfinished
  <2>2. last \in 1 .. n
    BY <1>1, <1>2, <1>7
  <2>3. Len(LeaveOut(last)) = last
    BY <2>2 DEF LeaveOut
  <2>4. ASSUME NEW j \in 1 .. last
        PROVE  LeaveOut(last)[j] = (curr_selection[j] /\ j # last)
    <3> HIDE DEF last
    <3>1. QED
      BY Zenon DEF LeaveOut
  <2>5. ASSUME NEW sel \in FlagLists(N), LeftBehind(sel, LeaveOut(last))
        PROVE  Settled(sel)'
    <3>1. PICK k \in 1 .. last :
            /\ sel[k] /\ ~LeaveOut(last)[k]
            /\ Agree(sel, LeaveOut(last), k - 1)
      BY <2>3, <2>5 DEF LeftBehind
    <3>2. /\ k \in 1 .. n /\ curr_selection[k] \in BOOLEAN /\ sel[k] \in BOOLEAN
          /\ \A j \in 1 .. k - 1 : /\ j \in 1 .. last /\ j # last
                                   /\ curr_selection[j] \in BOOLEAN
      BY <1>1, <2>2 DEF FlagLists
    <3> HIDE DEF last
    <3>3. ASSUME NEW j \in 1 .. k - 1 PROVE sel[j] = curr_selection[j]
      <4>1. sel[j] = LeaveOut(last)[j]
        BY <3>1 DEF Agree
      <4>2. LeaveOut(last)[j] = (curr_selection[j] /\ j # last)
        BY <2>4, <3>2
      <4>3. QED
        BY <3>2, <4>1, <4>2
    <3>4. CASE k = last
      <4>1. curr_selection[last]
        BY <1>2, <1>7 DEF last
      <4>2. \A j \in 1 .. last : sel[j] = curr_selection[j]
        <5>1. \A j \in 1 .. last : j \in 1 .. k - 1 \/ j = last
          BY <2>2, <3>4
        <5>2. sel[last] = TRUE /\ curr_selection[last] = TRUE
          BY <3>1, <3>2, <3>4, <4>1
        <5>3. QED
          BY <3>3, <5>1, <5>2
      <4>3. QED
        BY <1>5, <4>2 DEF Agree
    <3>5. CASE k # last
      <4>1. ~curr_selection[k]
        BY <2>4, <3>1, <3>5
      <4>2. LeftBehind(sel, curr_selection)
        BY <3>1, <3>2, <3>3, <4>1 DEF LeftBehind, Agree
      <4>3. QED
        BY <1>1, <1>4, <4>2 DEF NothingMissed
    <3>6. QED
      BY <3>4, <3>5
  <2>6. QED
    BY <2>1, <2>5
<1>8. QED
  BY <1>6, <1>7

(* Taking a coin leaves nothing behind.                                    *)
LEMMA IncludeMissesNothing ==
  ASSUME IInv, Include, NEW sel \in FlagLists(N), LeftBehind(sel, curr_selection')
  PROVE  LeftBehind(sel, curr_selection)
<1> DEFINE n == Len(curr_selection)
<1>1. /\ curr_selection \in Seq(BOOLEAN) /\ n \in Nat
      /\ curr_selection' = Append(curr_selection, TRUE)
  BY DEF IInv, TypeOK, Include
<1>2. /\ Len(curr_selection') = n + 1 /\ curr_selection'[n + 1]
      /\ \A j \in 1 .. n : curr_selection'[j] = curr_selection[j]
  BY <1>1
<1>3. PICK k \in 1 .. n + 1 : /\ sel[k] /\ ~curr_selection'[k]
                              /\ Agree(sel, curr_selection', k - 1)
  BY <1>2 DEF LeftBehind
<1>4. k \in 1 .. n /\ \A j \in 1 .. k - 1 : j \in 1 .. n
  BY <1>1, <1>2, <1>3
<1>5. Agree(sel, curr_selection, k - 1)
  BY <1>2, <1>3, <1>4 DEF Agree
<1>6. QED
  BY <1>2, <1>3, <1>4, <1>5 DEF LeftBehind

(* Skipping a coin leaves behind only selections that take it in place of  *)
(* its equal before it: to take that one instead wastes the same.          *)
LEMMA SkipMissesNothing ==
  ASSUME IInv, SameFeeSameWaste, Skip,
         \A sel \in FlagLists(N) : LeftBehind(sel, curr_selection) => Settled(sel),
         NEW sel \in FlagLists(N), LeftBehind(sel, curr_selection')
  PROVE  Settled(sel)
<1> DEFINE n == Len(curr_selection)
<1>1. /\ curr_selection \in Seq(BOOLEAN) /\ n \in Nat /\ pc = "search"
      /\ curr_selection' = Append(curr_selection, FALSE)
      /\ curr_selection # <<>> /\ ~curr_selection[n]
      /\ p_utxos[n + 1].effective_value = p_utxos[n + 1 - 1].effective_value
      /\ p_utxos[n + 1].fee = p_utxos[n + 1 - 1].fee
  BY DEF IInv, TypeOK, Skip, Forward, Searching, SameAsOmitted, NextCoin
<1>2. n \in 1 .. N /\ n + 1 \in 1 .. N /\ N \in Nat
  <2>1. Len(curr_selection) < N
    BY ForwardHasCoin DEF Skip, Forward, Searching
  <2>2. n > 0 /\ N \in Nat
    BY <1>1, CoinColumns DEF IInv, TypeOK
  <2>3. QED
    BY <1>1, <2>1, <2>2
<1>3. /\ Len(curr_selection') = n + 1
      /\ \A j \in 1 .. n : curr_selection'[j] = curr_selection[j]
  BY <1>1
<1>4. PICK k \in 1 .. n + 1 : /\ sel[k] /\ ~curr_selection'[k]
                              /\ Agree(sel, curr_selection', k - 1)
  BY <1>3 DEF LeftBehind
<1>5. \A j \in 1 .. k - 1 : j \in 1 .. n /\ sel[j] = curr_selection[j]
  BY <1>3, <1>4 DEF Agree
<1>6. CASE k \in 1 .. n
  BY <1>3, <1>4, <1>5, <1>6 DEF LeftBehind, Agree
<1>7. CASE k = n + 1
  <2> DEFINE moved == [i \in 1 .. N |-> i = n \/ (sel[i] /\ i # n + 1)]
  <2>1. sel[n + 1] /\ ~sel[n] /\ \A j \in 1 .. n - 1 : sel[j] = curr_selection[j]
    <3>1. n \in 1 .. k - 1 /\ \A j \in 1 .. n - 1 : j \in 1 .. k - 1
      BY <1>2, <1>7
    <3>2. QED
      BY <1>1, <1>4, <1>5, <1>7, <3>1
  <2>2. moved \in FlagLists(N) /\ moved[n] /\ ~moved[n + 1]
    <3>1. \A i \in 1 .. N : moved[i] = (i = n \/ (sel[i] /\ i # n + 1))
      OBVIOUS
    <3>2. moved \in FlagLists(N)
      BY DEF FlagLists
    <3> HIDE DEF moved
    <3>3. moved[n]
      BY <1>2, <3>1
    <3>4. n + 1 # n
      BY <1>1
    <3>5. moved[n + 1] = (n + 1 = n \/ (sel[n + 1] /\ n + 1 # n + 1))
      BY <1>2, <3>1
    <3>6. ~moved[n + 1]
      BY <3>4, <3>5
    <3>7. QED
      BY <3>2, <3>3, <3>6
  <2>3. \A i \in 1 .. N : i # n /\ i # n + 1 => moved[i] = sel[i]
    BY DEF FlagLists
  <2> HIDE DEF moved
  <2>4. LeftBehind(moved, curr_selection)
    <3>1. \A j \in 1 .. n - 1 : j \in 1 .. N /\ j # n /\ j # n + 1
      BY <1>2
    <3>2. Agree(moved, curr_selection, n - 1)
      BY <2>1, <2>3, <3>1 DEF Agree
    <3>3. n \in 1 .. n
      BY <1>2
    <3>4. QED
      BY <1>1, <2>2, <3>2, <3>3 DEF LeftBehind
  <2>5. Settled(moved)
    BY <2>2, <2>4
  <2>6. /\ \A i \in 1 .. N : Eff[i] \in Int /\ Eff[i] = p_utxos[i].effective_value
        /\ \A i \in 1 .. N : Waste[i] \in Int
    BY CoinColumns DEF IInv, TypeOK
  <2>7. Eff[n] = Eff[n + 1] /\ Waste[n] = Waste[n + 1]
    <3>1. n + 1 - 1 = n
      BY <1>1
    <3>2. /\ p_utxos[n + 1].effective_value = p_utxos[n].effective_value
          /\ p_utxos[n + 1].fee = p_utxos[n].fee
      BY <1>1, <3>1
    <3>3. Waste[n + 1] = Waste[n]
      BY <1>2, <3>2 DEF SameFeeSameWaste
    <3>4. QED
      BY <1>2, <2>6, <3>2, <3>3
  <2>8. SelSum(Eff, moved) = SelSum(Eff, sel)
    BY <1>2, <2>1, <2>2, <2>3, <2>6, <2>7, SelSumMoved
  <2>9. SelSum(Waste, moved) = SelSum(Waste, sel)
    BY <1>2, <2>1, <2>2, <2>3, <2>6, <2>7, SelSumMoved
  <2>10. QED
    BY <2>5, <2>8, <2>9 DEF Settled, InRange, WasteOf
<1>8. QED
  BY <1>4, <1>6, <1>7

LEMMA InitOInv == Init => OInv
BY DEF Init, OInv, NoneYet, NothingMissed, Unfinished

LEMMA StepOInv == IInv /\ IInv' /\ OInv /\ [Next]_vars => OInv'
<1> SUFFICES ASSUME IInv, IInv', OInv, [Next]_vars PROVE OInv'
  OBVIOUS
<1>0. best_waste' \in Nat /\ best_waste \in Nat
  BY DEF IInv, TypeOK
<1>1. CASE Abandon \/ Record
  <2>1. /\ Searching /\ WalkBack /\ pc = "search" /\ pc' \in {"search", "solution"}
        /\ UNCHANGED <<p_utxos, actual_target, cost_of_change>>
    BY <1>1 DEF Abandon, Record, Searching, WalkBack, input
  <2>2. BestImproves /\ NoneYet'
    <3>1. CASE Record
      BY <3>1, RecordImproves DEF OInv
    <3>2. CASE Abandon
      <4>1. UNCHANGED <<best_selection, best_waste>> /\ N' = N
        BY <2>1, <3>2 DEF Abandon, best, N
      <4>2. QED
        BY <1>0, <2>1, <4>1 DEF BestImproves, NoneYet, OInv
    <3>3. QED
      BY <1>1, <3>1, <3>2
  <2>3. \A sel \in FlagLists(N) : Settled(sel) => Settled(sel)'
    BY <1>0, <2>1, <2>2, SettledStays
  <2>4. \A sel \in FlagLists(N) :
          Agree(sel, curr_selection, Len(curr_selection)) => Settled(sel)'
    <3>1. CASE Record
      BY <3>1, RecordSettled DEF OInv
    <3>2. CASE Abandon
      BY <2>1, <2>3, <3>2, HopelessSettled DEF OInv, Abandon
    <3>3. QED
      BY <1>1, <3>1, <3>2
  <2>5. NothingMissed'
    BY <2>1, <2>3, <2>4, WalkBackMissesNothing DEF OInv
  <2>6. Unfinished'
    BY <1>1, <2>1 DEF Abandon, Record, WalkBack, OInv, Unfinished
  <2>7. QED
    BY <2>2, <2>5, <2>6 DEF OInv
<1>2. CASE Skip \/ Include
  <2>1. /\ pc = "search" /\ pc' = "search" /\ complete' = complete
        /\ UNCHANGED <<p_utxos, actual_target, cost_of_change,
                       best_selection, best_waste>>
    BY <1>2 DEF Skip, Include, Forward, Searching, input, best
  <2>2. N' = N /\ SameFeeSameWaste' = SameFeeSameWaste
    BY <2>1 DEF N, SameFeeSameWaste, Waste
  <2>3. NoneYet'
    BY <2>1, <2>2 DEF OInv, NoneYet
  <2>4. BestImproves
    BY <1>0, <2>1 DEF BestImproves
  <2>5. \A sel \in FlagLists(N) : Settled(sel) => Settled(sel)'
    BY <1>0, <2>1, <2>4, SettledStays
  <2>6. ASSUME SameFeeSameWaste, NEW sel \in FlagLists(N),
               LeftBehind(sel, curr_selection')
        PROVE  Settled(sel)'
    <3>1. \A s \in FlagLists(N) : LeftBehind(s, curr_selection) => Settled(s)
      BY <2>1, <2>6 DEF OInv, NothingMissed
    <3>2. Settled(sel)
      <4>1. CASE Include
        BY <2>6, <3>1, <4>1, IncludeMissesNothing
      <4>2. CASE Skip
        BY <2>6, <3>1, <4>2, SkipMissesNothing
      <4>3. QED
        BY <1>2, <4>1, <4>2
    <3>3. QED
      BY <2>5, <3>2
  <2>7. NothingMissed'
    <3>1. SameFeeSameWaste => ~complete'
      BY <2>1 DEF OInv, Unfinished
    <3>2. FlagLists(N') = FlagLists(N)
      BY <2>2
    <3>3. QED
      BY <2>1, <2>2, <2>6, <3>1, <3>2 DEF NothingMissed
  <2>8. Unfinished'
    BY <2>1 DEF OInv, Unfinished
  <2>9. QED
    BY <2>3, <2>7, <2>8 DEF OInv
<1>3. CASE Sort
  <2>1. /\ pc = "start" /\ pc' = "search" /\ complete' = complete
        /\ curr_selection = <<>>
        /\ UNCHANGED <<curr_selection, best_selection, best_waste>>
    BY <1>3 DEF Sort, best, IInv, Untouched
  <2>2. best_waste = MaxAmount
    BY <2>1 DEF OInv, NoneYet, IInv, Untouched
  <2>3. NoneYet'
    BY <2>1, <2>2 DEF NoneYet
  <2>4. ~complete
    BY <2>1 DEF OInv, Unfinished
  <2>5. \A sel : ~LeftBehind(sel, curr_selection')
    BY <2>1 DEF LeftBehind
  <2>6. QED
    BY <2>1, <2>3, <2>4, <2>5 DEF OInv, NothingMissed, Unfinished
<1>4. CASE Reject \/ GiveUp \/ Return \/ UNCHANGED vars
  <2>1. /\ complete' = complete
        /\ UNCHANGED <<p_utxos, actual_target, cost_of_change, curr_selection,
                       best_selection, best_waste>>
        /\ pc' = "search" => pc = "search"
        /\ pc' = "start" => pc = "start"
    BY <1>4 DEF Reject, GiveUp, Return, vars, input, search, best
  <2>2. N' = N /\ SameFeeSameWaste' = SameFeeSameWaste
    BY <2>1 DEF N, SameFeeSameWaste, Waste
  <2>3. NoneYet'
    BY <1>4, <2>1, <2>2 DEF OInv, NoneYet, Reject, GiveUp, Return, vars
  <2>4. BestImproves
    BY <1>0, <2>1 DEF BestImproves
  <2>5. \A sel \in FlagLists(N) : Settled(sel) => Settled(sel)'
    BY <1>0, <2>1, <2>4, SettledStays
  <2>6. FlagLists(N') = FlagLists(N)
    BY <2>2
  <2>7. NothingMissed'
    BY <2>1, <2>2, <2>5, <2>6 DEF OInv, NothingMissed
  <2>8. Unfinished'
    BY <2>1 DEF OInv, Unfinished
  <2>9. QED
    BY <2>3, <2>7, <2>8 DEF OInv
<1>5. QED
  BY <1>1, <1>2, <1>3, <1>4 DEF Next, Stopped

(* A search that comes to the end of the tree returns a selection that no  *)
(* selection in range undercuts, and returns one whenever there is one:    *)
(* neither the branches cut off nor the equal coins skipped cost a better  *)
(* solution, as long as equal coins waste the same.                        *)
THEOREM BestIsOptimal == Spec => []BestIsLeastWaste
<1>1. OInv => BestIsLeastWaste
  <2>1. SUFFICES ASSUME OInv, complete, SameFeeSameWaste,
                        NEW sel \in [1 .. N -> BOOLEAN],
                        InRange(sel), WasteOf(sel) <= MaxAmount
                 PROVE  best_waste <= WasteOf(sel) /\ (N > 0 => best_selection # <<>>)
    BY DEF BestIsLeastWaste
  <2>2. Settled(sel)
    BY <2>1 DEF OInv, NothingMissed, FlagLists
  <2>3. QED
    BY <2>1, <2>2 DEF Settled
<1>2. Init => OInv
  BY InitOInv
<1>3. IInv /\ IInv' /\ OInv /\ [Next]_vars => OInv'
  BY StepOInv
<1>4. QED
  BY <1>1, <1>2, <1>3, Invariance, PTL DEF Spec

-----------------------------------------------------------------------------
(* SelectCoinsMinConf hands over coins that are worth more than their fee. *)
(* A coin worth nothing makes the search throw, whatever the others pay.   *)
WorthSpending ==
  \A pool \in Pools : \A k \in 1 .. Len(pool) : pool[k].effective_value > 0

(* The search is about the pool that was passed, in another order, and     *)
(* puts nothing out before the end.                                        *)
Faithful ==
  /\ pc \in {"search", "solution"} => p_utxos \in SortsOf(utxos)
  /\ pc # "done" => select_value = 0 /\ utxo_fee_value = 0

LEMMA StepFaithful == Faithful /\ [Next]_vars => Faithful'
<1> SUFFICES ASSUME Faithful, [Next]_vars PROVE Faithful'
  OBVIOUS
<1>1. CASE Reject
  BY <1>1 DEF Reject, output, Faithful
<1>2. CASE Sort
  BY <1>2 DEF Sort, input, output, Faithful
<1>3. CASE Abandon \/ Record \/ Skip \/ Include \/ GiveUp
  <2>1. /\ pc = "search" /\ pc' \in {"search", "solution"}
        /\ UNCHANGED <<input, p_utxos, output>>
    BY <1>3 DEF Abandon, Record, WalkBack, Skip, Include, Forward, GiveUp, Searching
  <2>2. SortsOf(utxos)' = SortsOf(utxos)
    BY <2>1 DEF SortsOf, input
  <2>3. QED
    BY <2>1, <2>2 DEF output, Faithful
<1>4. CASE Return
  BY <1>4 DEF Return, Faithful
<1>5. CASE UNCHANGED vars
  <2>1. UNCHANGED <<pc, utxos, p_utxos, select_value, utxo_fee_value>>
    BY <1>5 DEF vars, input, output
  <2>2. SortsOf(utxos)' = SortsOf(utxos)
    BY <2>1 DEF SortsOf
  <2>3. QED
    BY <2>1, <2>2 DEF Faithful
<1>6. QED
  BY <1>1, <1>2, <1>3, <1>4, <1>5 DEF Next, Stopped

(* Sums and Coins are one module each, whoever extends them.               *)
LEMMA SameSums ==
  /\ \A f, sel : Contract!SelSum(f, sel) = SelSum(f, sel)
  /\ \A pool : Contract!IsPool(pool) <=> IsPool(pool)
  /\ \A pool : Contract!EffectiveValues(pool) = EffectiveValues(pool)
  /\ \A pool : Contract!PoolTotal(pool) = PoolTotal(pool)
<1>1. ASSUME NEW g, NEW n PROVE Contract!SumTo(g, n) = SumTo(g, n)
  BY DEF Contract!SumTo, SumTo
<1>2. ASSUME NEW f, NEW sel PROVE Contract!SelSum(f, sel) = SelSum(f, sel)
  <2>1. Contract!Masked(f, sel) = Masked(f, sel)
    BY DEF Contract!Masked, Masked
  <2>2. QED
    BY <1>1, <2>1 DEF Contract!SelSum, SelSum
<1>3. \A pool : Contract!IsPool(pool) <=> IsPool(pool)
  BY DEF Contract!IsPool, IsPool, Contract!Coin, Coin
<1>4. ASSUME NEW pool PROVE Contract!EffectiveValues(pool) = EffectiveValues(pool)
  BY DEF Contract!EffectiveValues, EffectiveValues
<1>5. \A pool : Contract!PoolTotal(pool) = PoolTotal(pool)
  BY <1>1, <1>4 DEF Contract!PoolTotal, PoolTotal
<1>6. QED
  BY <1>2, <1>3, <1>4, <1>5

(* What the contract sees of the search.                                   *)
TakesCoins == \E k \in 1 .. Len(best_selection) : best_selection[k]

Status == CASE pc = "throw" -> "refused"
            [] pc = "done"  ->
                 IF \E k \in 1 .. Len(best_selection) : best_selection[k]
                 THEN "answered" ELSE "nothing"
            [] OTHER -> "pending"

LEMMA StatusOf ==
  /\ pc \notin {"done", "throw"} => Status = "pending"
  /\ pc' \notin {"done", "throw"} => Status' = "pending"
  /\ pc' = "throw" => Status' = "refused"
  /\ pc' = "done" /\ TakesCoins' => Status' = "answered"
  /\ pc' = "done" /\ ~TakesCoins' => Status' = "nothing"
BY DEF Status, TakesCoins

LEMMA InitContract ==
  ASSUME Init
  PROVE  Contract!Init /\ Faithful
<1>1. pc = "start" /\ select_value = 0 /\ utxo_fee_value = 0 /\ utxos \in Pools
  BY DEF Init
<1>2. Contract!IsPool(utxos) /\ actual_target \in Nat
  BY <1>1, PoolsAssumption, SameSums, InitIInv DEF IInv, TypeOK
<1>3. Status = "pending"
  BY <1>1, StatusOf
<1>4. QED
  BY <1>1, <1>2, <1>3 DEF Contract!Init, Status, Faithful

(* A selection among the sorted coins is one among the coins passed.       *)
LEMMA SelectionOfPool ==
  ASSUME IInv, p_utxos \in SortsOf(utxos), NEW flags \in FlagLists(N)
  PROVE  \E sel \in FlagLists(Len(utxos)) :
           /\ SelSum(Eff, flags) = SelSum(EffectiveValues(utxos), sel)
           /\ SelSum(Amounts, flags)
                = SelSum([k \in 1 .. Len(utxos) |-> utxos[k].amount], sel)
           /\ SelSum(Fees, flags)
                = SelSum([k \in 1 .. Len(utxos) |-> utxos[k].fee], sel)
<1> DEFINE m == Len(utxos)
           am == [k \in 1 .. m |-> utxos[k].amount]
           fe == [k \in 1 .. m |-> utxos[k].fee]
<1>1. IsPool(utxos) /\ utxos \in Seq(Coin)
  BY PoolsAssumption DEF IInv, TypeOK, IsPool
<1>2. /\ m \in Nat
      /\ \A k \in 1 .. m : utxos[k] \in Coin
  BY <1>1
<1>3. PICK p \in DescendingOrders(m, EffectiveValues(utxos)) :
        p_utxos = [k \in 1 .. m |-> utxos[p[k]]]
  BY DEF SortsOf
<1>4. p \in Rearrangements(m)
  BY <1>3 DEF DescendingOrders
<1>5. (\A k \in 1 .. m : p[k] \in 1 .. m) /\ Distinct(p, m)
  BY <1>2, <1>4, InjectiveOrder
<1>6. N = m /\ \A k \in 1 .. m : p_utxos[k] = utxos[p[k]]
  BY <1>2, <1>3 DEF N
<1>7. \A v \in 1 .. m : /\ EffectiveValues(utxos)[v] = utxos[v].effective_value
                        /\ EffectiveValues(utxos)[v] \in Int
                        /\ am[v] = utxos[v].amount /\ am[v] \in Int
                        /\ fe[v] = utxos[v].fee /\ fe[v] \in Int
  BY <1>2 DEF EffectiveValues, Coin
<1>8. \A k \in 1 .. m : /\ Eff[k] = EffectiveValues(utxos)[p[k]]
                        /\ Amounts[k] = am[p[k]]
                        /\ Fees[k] = fe[p[k]]
  <2>1. \A k \in 1 .. m : /\ Eff[k] = p_utxos[k].effective_value
                          /\ Amounts[k] = p_utxos[k].amount
                          /\ Fees[k] = p_utxos[k].fee
    BY <1>6 DEF Eff, EffectiveValues, Amounts, Fees, N
  <2> HIDE DEF m, am, fe
  <2>2. QED
    BY <1>5, <1>6, <1>7, <2>1
<1> DEFINE ev == EffectiveValues(utxos)
           sel == Flagged(m, p, flags, m)
<1>9. sel \in FlagLists(m) /\ flags \in FlagLists(m)
  BY <1>6 DEF Flagged, FlagLists
<1> HIDE DEF m, am, fe, ev
<1>10. /\ SelSum(Eff, flags) = SelSum(ev, sel)
       /\ SelSum(Amounts, flags) = SelSum(am, sel)
       /\ SelSum(Fees, flags) = SelSum(fe, sel)
  <2>1. /\ \A v \in 1 .. m : ev[v] \in Int /\ am[v] \in Int /\ fe[v] \in Int
        /\ \A k \in 1 .. m : Eff[k] = ev[p[k]] /\ Amounts[k] = am[p[k]] /\ Fees[k] = fe[p[k]]
    BY <1>7, <1>8 DEF ev
  <2>2. SelSum(Eff, flags) = SelSum(ev, sel)
    BY <1>2, <1>5, <1>9, <2>1, SelSumThrough
  <2>3. SelSum(Amounts, flags) = SelSum(am, sel)
    BY <1>2, <1>5, <1>9, <2>1, SelSumThrough
  <2>4. SelSum(Fees, flags) = SelSum(fe, sel)
    BY <1>2, <1>5, <1>9, <2>1, SelSumThrough
  <2>5. QED
    BY <2>2, <2>3, <2>4
<1> HIDE DEF sel
<1>11. QED
  BY <1>9, <1>10 DEF m, am, fe, ev

LEMMA ReturnAnswers ==
  ASSUME IInv, Faithful, Return
  PROVE  Contract!Answer \/ Contract!FindNothing
<1>1. /\ pc = "solution" /\ pc' = "done"
      /\ UNCHANGED <<utxos, actual_target, p_utxos, best_selection>>
      /\ select_value = 0 /\ utxo_fee_value = 0 /\ p_utxos \in SortsOf(utxos)
  BY DEF Return, Faithful, input, best
<1>2. Status = "pending"
  BY <1>1, StatusOf
<1>3. CASE TakesCoins
  <2>1. best_selection \in Seq(BOOLEAN) /\ best_selection # <<>>
    BY <1>3 DEF TakesCoins, IInv, TypeOK
  <2>2. /\ Len(best_selection) = N /\ InRange(best_selection)
        /\ select_value' = SelSum(Amounts, best_selection)
        /\ utxo_fee_value' = SelSum(Fees, best_selection)
    BY <2>1 DEF Return, IInv, BestIsSolution
  <2>3. best_selection \in FlagLists(N)
    BY <2>1, <2>2 DEF FlagLists
  <2>4. SelSum(Eff, best_selection) >= actual_target
    BY <2>2, BoundsAssumption DEF InRange, IInv, TypeOK
  <2>5. PICK sel \in FlagLists(Len(utxos)) :
           /\ SelSum(Eff, best_selection) = SelSum(EffectiveValues(utxos), sel)
           /\ SelSum(Amounts, best_selection)
                = SelSum([k \in 1 .. Len(utxos) |-> utxos[k].amount], sel)
           /\ SelSum(Fees, best_selection)
                = SelSum([k \in 1 .. Len(utxos) |-> utxos[k].fee], sel)
    BY <1>1, <2>3, SelectionOfPool
  <2>6. sel \in Contract!Choices(utxos)
    BY DEF Contract!Choices, FlagLists
  <2>7. Contract!ValueOf(utxos, sel) >= actual_target
    BY <2>4, <2>5, SameSums DEF Contract!ValueOf
  <2>8. /\ select_value' = Contract!AmountOf(utxos, sel)
        /\ utxo_fee_value' = Contract!FeeOf(utxos, sel)
    BY <2>2, <2>5, SameSums DEF Contract!AmountOf, Contract!FeeOf
  <2>9. Status' = "answered"
    BY <1>1, <1>3, StatusOf DEF TakesCoins
  <2>10. QED
    BY <1>1, <1>2, <2>6, <2>7, <2>8, <2>9 DEF Contract!Answer, Status
<1>4. CASE ~TakesCoins
  <2>1. UNCHANGED <<select_value, utxo_fee_value>>
    <3>1. CASE best_selection = <<>>
      BY <3>1 DEF Return, output
    <3>2. CASE best_selection # <<>>
      <4>1. best_selection \in Seq(BOOLEAN) /\ Len(best_selection) = N /\ N \in Nat
        BY <3>2 DEF IInv, TypeOK, BestIsSolution
      <4>2. best_selection = NoFlags(N)
        BY <1>4, <4>1 DEF TakesCoins, NoFlags
      <4>3. SelSum(Amounts, best_selection) = 0 /\ SelSum(Fees, best_selection) = 0
        BY <4>1, <4>2, SelSumOfNone
      <4>4. QED
        BY <1>1, <3>2, <4>3 DEF Return
    <3>3. QED
      BY <3>1, <3>2
  <2>2. Status' = "nothing"
    BY <1>1, <1>4, StatusOf DEF TakesCoins
  <2>3. QED
    BY <1>1, <1>2, <2>1, <2>2 DEF Contract!FindNothing, Status
<1>5. QED
  BY <1>3, <1>4

LEMMA RejectRefuses ==
  ASSUME WorthSpending, IInv, Reject
  PROVE  Contract!Refuse
<1>1. /\ pc = "start" /\ pc' = "throw"
      /\ UNCHANGED <<utxos, actual_target, select_value, utxo_fee_value>>
  BY DEF Reject, input, output
<1>2. \A k \in 1 .. Len(utxos) : utxos[k].effective_value > 0
  BY DEF WorthSpending, IInv, TypeOK
<1>3. PoolTotal(utxos) < actual_target
  BY <1>2 DEF Reject
<1>4. Contract!PoolTotal(utxos) < actual_target
  BY <1>3, SameSums
<1>5. Status = "pending" /\ Status' = "refused"
  BY <1>1, StatusOf
<1>6. QED
  BY <1>1, <1>4, <1>5 DEF Contract!Refuse, Status

(* The steps of the search are invisible.                                  *)
LEMMA SearchUnseen ==
  ASSUME Sort \/ Abandon \/ Record \/ Skip \/ Include \/ GiveUp \/ UNCHANGED vars
  PROVE  UNCHANGED Contract!vars
<1>1. UNCHANGED <<utxos, actual_target, select_value, utxo_fee_value>>
  BY DEF Sort, Abandon, Record, Skip, Include, Forward, GiveUp, vars, input, output
<1>2. \/ pc \notin {"done", "throw"} /\ pc' \notin {"done", "throw"}
      \/ pc' = pc /\ best_selection' = best_selection
  BY DEF Sort, Abandon, Record, WalkBack, Skip, Include, Forward, GiveUp, Searching,
         vars, best
<1>3. Status' = Status
  <2>1. CASE pc \notin {"done", "throw"} /\ pc' \notin {"done", "throw"}
    BY <2>1, StatusOf
  <2>2. CASE pc' = pc /\ best_selection' = best_selection
    BY <2>2 DEF Status
  <2>3. QED
    BY <1>2, <2>1, <2>2
<1>4. QED
  BY <1>1, <1>3 DEF Contract!vars, Status

LEMMA NextContract ==
  ASSUME WorthSpending
  PROVE  IInv /\ Faithful /\ [Next]_vars => [Contract!Next]_(Contract!vars)
<1> SUFFICES ASSUME IInv, Faithful, [Next]_vars PROVE [Contract!Next]_(Contract!vars)
  OBVIOUS
<1>1. CASE Return
  BY <1>1, ReturnAnswers DEF Contract!Next
<1>2. CASE Reject
  BY <1>2, RejectRefuses DEF Contract!Next
<1>3. CASE Sort \/ Abandon \/ Record \/ Skip \/ Include \/ GiveUp \/ UNCHANGED vars
  BY <1>3, SearchUnseen
<1>4. QED
  BY <1>1, <1>2, <1>3 DEF Next, Stopped

(* The search keeps the contract of a selection: what it returns is worth  *)
(* the target and comes with the sums over exactly these coins, and it     *)
(* refuses only a pool that is worth too little.                           *)
THEOREM ContractKept ==
  ASSUME WorthSpending
  PROVE  Spec => KeepsContract
<1>1. Init => Contract!Init /\ Faithful
  BY InitContract
<1>2. Faithful /\ [Next]_vars => Faithful'
  BY StepFaithful
<1>3. IInv /\ Faithful /\ [Next]_vars => [Contract!Next]_(Contract!vars)
  BY NextContract
<1>4. QED
  BY <1>1, <1>2, <1>3, Invariance, PTL DEF Spec, KeepsContract, Contract!Spec
=============================================================================
