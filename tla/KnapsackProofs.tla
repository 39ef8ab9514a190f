--------------------------- MODULE KnapsackProofs ---------------------------
(***************************************************************************)
(* Proofs about KnapsackSolver and ApproximateBestSubset, for every pool,  *)
(* target, least change, number of repetitions and outcome of the random   *)
(* bits: what the running total and the best subset are, that no small     *)
(* change is made where a larger coin is at hand, and that the solver      *)
(* implements SelectionContract.                                           *)
(***************************************************************************)
EXTENDS Knapsack, SumsProofs, TLAPS

N       == Len(utxos)
Pool    == 1 .. N
Values  == EffectiveValues(utxos)
AmountsOfPool == [k \in 1 .. Len(utxos) |-> utxos[k].amount]
FeesOfPool    == [k \in 1 .. Len(utxos) |-> utxos[k].fee]

(* The applicable coins are distinct; while the pool is scanned they come  *)
(* from the part seen, and are all of it until a larger coin is found.     *)
GroupsOK ==
  /\ Distinct(applicable_groups, Size)
  /\ pc = "scan" =>
       /\ \A k \in 1 .. Size : applicable_groups[k] < index
       /\ lowest_larger = 0 => /\ Size = index - 1
                               /\ \A k \in 1 .. Size : applicable_groups[k] = k

(* A larger coin pays the target and the least change.                     *)
LargerPays ==
  lowest_larger # 0 =>
    utxos[lowest_larger].effective_value >= n_target + min_change

(* In the first pass the coins still to come are not included; the second  *)
(* call is made only where the coins can pay its goal.                     *)
PassOK ==
  /\ pc = "approximate" => call \in {1, 2}
  /\ pc = "approximate" /\ n_pass = 0 => \A k \in i .. Size : ~vf_includes[k]

(* Nothing is put out before the end.                                      *)
NoOutputYet ==
  pc # "done" => select_value = 0 /\ utxo_fee = 0

IInv ==
  TypeOK /\ GroupsOK /\ LargerPays /\ PassOK /\ NoOutputYet
    /\ RunningTotal /\ BestIsSubset /\ NoSmallChange

-----------------------------------------------------------------------------
(* The pool and the columns of the applicable coins.                       *)
LEMMA PoolTypes ==
  ASSUME TypeOK
  PROVE  /\ IsPool(utxos) /\ N \in Nat
         /\ \A k \in Pool : /\ utxos[k].effective_value \in Nat
                            /\ utxos[k].amount \in Nat /\ utxos[k].fee \in Nat
         /\ n_target \in Nat /\ min_change \in Nat
<1>1. IsPool(utxos)
  BY PoolsAssumption DEF TypeOK
<1>2. utxos \in Seq(Coin)
  BY <1>1 DEF IsPool
<1>3. N \in Nat /\ \A k \in Pool : utxos[k] \in Coin
  BY <1>2 DEF N, Pool
<1>4. n_target \in Nat /\ min_change \in Nat
  BY BoundsAssumption DEF TypeOK
<1>5. QED
  BY <1>1, <1>3, <1>4 DEF Coin

LEMMA ColumnTypes ==
  ASSUME TypeOK
  PROVE  /\ Size \in Nat
         /\ \A k \in 1 .. Size :
              /\ applicable_groups[k] \in Pool
              /\ Eff[k] = Values[applicable_groups[k]]
              /\ Amounts[k] = AmountsOfPool[applicable_groups[k]]
              /\ Fees[k] = FeesOfPool[applicable_groups[k]]
              /\ Eff[k] \in Nat /\ Amounts[k] \in Nat /\ Fees[k] \in Nat
         /\ \A v \in Pool : /\ Values[v] = utxos[v].effective_value
                            /\ AmountsOfPool[v] = utxos[v].amount
                            /\ FeesOfPool[v] = utxos[v].fee
<1>1. applicable_groups \in Seq(Pool)
  BY DEF TypeOK, Pool, N
<1>2. Size \in Nat /\ \A k \in 1 .. Size : applicable_groups[k] \in Pool
  BY <1>1 DEF Size
<1>3. \A v \in Pool : /\ Values[v] = utxos[v].effective_value
                      /\ AmountsOfPool[v] = utxos[v].amount
                      /\ FeesOfPool[v] = utxos[v].fee
  BY DEF Pool, N, Values, EffectiveValues, AmountsOfPool, FeesOfPool
<1>4. \A k \in 1 .. Size :
        /\ Eff[k] = utxos[applicable_groups[k]].effective_value
        /\ Amounts[k] = utxos[applicable_groups[k]].amount
        /\ Fees[k] = utxos[applicable_groups[k]].fee
  BY DEF Eff, Amounts, Fees
<1>5. QED
  BY <1>2, <1>3, <1>4, PoolTypes

LEMMA TotalType ==
  ASSUME TypeOK
  PROVE  n_effective_total \in Nat
<1>1. Size \in Nat /\ Size <= Size /\ \A k \in 1 .. Size : Eff[k] \in Nat
  BY ColumnTypes
<1>2. QED
  BY <1>1, SumToGrows DEF n_effective_total

(* A selection of applicable coins has the sums of the coins returned.     *)
Taking(flags) == [k \in Pool |-> \E j \in 1 .. Size : flags[j] /\ applicable_groups[j] = k]

LEMMA SumsOfFlagged ==
  ASSUME TypeOK, GroupsOK, NEW flags \in FlagLists(Size)
  PROVE  /\ SelSum(Eff, flags) = SelSum(Values, Taking(flags))
         /\ SelSum(Amounts, flags) = SelSum(AmountsOfPool, Taking(flags))
         /\ SelSum(Fees, flags) = SelSum(FeesOfPool, Taking(flags))
<1>1. Taking(flags) = Flagged(N, applicable_groups, flags, Size)
  BY DEF Taking, Flagged, Pool
<1>2. /\ N \in Nat /\ Size \in Nat /\ Distinct(applicable_groups, Size)
      /\ \A k \in 1 .. Size : applicable_groups[k] \in 1 .. N
  BY PoolTypes, ColumnTypes DEF GroupsOK, Pool
<1>3. \A v \in 1 .. N : Values[v] \in Int /\ AmountsOfPool[v] \in Int /\ FeesOfPool[v] \in Int
  BY PoolTypes, ColumnTypes DEF Pool
<1>4. \A k \in 1 .. Size :
        /\ Eff[k] = Values[applicable_groups[k]]
        /\ Amounts[k] = AmountsOfPool[applicable_groups[k]]
        /\ Fees[k] = FeesOfPool[applicable_groups[k]]
  BY ColumnTypes
<1> DEFINE g == applicable_groups
           n == Size
           m == N
<1> HIDE DEF g, n, m
<1>5. /\ m \in Nat /\ n \in Nat /\ Distinct(g, n) /\ \A k \in 1 .. n : g[k] \in 1 .. m
      /\ flags \in FlagLists(n)
      /\ \A v \in 1 .. m : Values[v] \in Int /\ AmountsOfPool[v] \in Int /\ FeesOfPool[v] \in Int
      /\ \A k \in 1 .. n : /\ Eff[k] = Values[g[k]]
                           /\ Amounts[k] = AmountsOfPool[g[k]]
                           /\ Fees[k] = FeesOfPool[g[k]]
  BY <1>2, <1>3, <1>4 DEF g, n, m
<1>6. SelSum(Eff, flags) = SelSum(Values, Flagged(m, g, flags, n))
  BY <1>5, SelSumThrough
<1>7. SelSum(Amounts, flags) = SelSum(AmountsOfPool, Flagged(m, g, flags, n))
  BY <1>5, SelSumThrough
<1>8. SelSum(Fees, flags) = SelSum(FeesOfPool, Flagged(m, g, flags, n))
  BY <1>5, SelSumThrough
<1>9. QED
  BY <1>1, <1>6, <1>7, <1>8 DEF g, n, m

(* One coin alone.                                                         *)
OnlyCoin(k) == [j \in Pool |-> j = k]

LEMMA SumOfOne ==
  ASSUME NEW n \in Nat, NEW f, \A v \in 1 .. n : f[v] \in Int, NEW k \in 1 .. n
  PROVE  SelSum(f, [j \in 1 .. n |-> j = k]) = f[k]
<1> DEFINE one == [NoFlags(n) EXCEPT ![k] = TRUE]
<1>1. NoFlags(n) \in FlagLists(n) /\ ~NoFlags(n)[k]
  BY DEF NoFlags, FlagLists
<1>2. SelSum(f, one) = SelSum(f, NoFlags(n)) + f[k]
  BY <1>1, SelSumInclude
<1>3. SelSum(f, NoFlags(n)) = 0 /\ f[k] \in Int
  BY SelSumOfNone
<1>4. one = [j \in 1 .. n |-> j = k]
  BY DEF NoFlags
<1>5. QED
  BY <1>2, <1>3, <1>4

LEMMA SumsOfCoin ==
  ASSUME TypeOK, NEW k \in Pool
  PROVE  /\ SelSum(Values, OnlyCoin(k)) = utxos[k].effective_value
         /\ SelSum(AmountsOfPool, OnlyCoin(k)) = utxos[k].amount
         /\ SelSum(FeesOfPool, OnlyCoin(k)) = utxos[k].fee
<1>1. /\ N \in Nat /\ k \in 1 .. N
      /\ \A v \in 1 .. N : Values[v] \in Int /\ AmountsOfPool[v] \in Int /\ FeesOfPool[v] \in Int
  BY PoolTypes, ColumnTypes DEF Pool
<1>2. OnlyCoin(k) = [j \in 1 .. N |-> j = k]
  BY DEF OnlyCoin, Pool
<1>3. /\ SelSum(Values, [j \in 1 .. N |-> j = k]) = Values[k]
      /\ SelSum(AmountsOfPool, [j \in 1 .. N |-> j = k]) = AmountsOfPool[k]
      /\ SelSum(FeesOfPool, [j \in 1 .. N |-> j = k]) = FeesOfPool[k]
  BY <1>1, SumOfOne
<1>4. QED
  BY <1>2, <1>3, ColumnTypes

-----------------------------------------------------------------------------
(* What depends on the pool and the applicable coins only.                 *)
LEMMA Unmoved ==
  ASSUME UNCHANGED <<input, scan>>
  PROVE  /\ utxos' = utxos /\ n_target' = n_target /\ min_change' = min_change
         /\ index' = index /\ lowest_larger' = lowest_larger
         /\ applicable_groups' = applicable_groups
         /\ N' = N /\ Pool' = Pool /\ Values' = Values
         /\ Size' = Size /\ Eff' = Eff /\ Amounts' = Amounts /\ Fees' = Fees
         /\ n_effective_total' = n_effective_total
         /\ LargerPays' = LargerPays
  BY DEF input, scan, N, Pool, Values, Size, Eff, Amounts, Fees, n_effective_total,
         LargerPays

(* The call returns coins that pay the target, and reports what they are   *)
(* worth and their fees; a coin larger than needed is at hand or change is *)
(* none or no less than min_change.                                        *)
Paying ==
  /\ pc \notin {"done", "throw"} /\ pc' = "done"
  /\ UNCHANGED <<input, scan, best, approx>>
  /\ ret_utxos' \subseteq Pool
  /\ ReturnedValue' \in Nat /\ ReturnedValue' >= n_target
  /\ select_value' = SelSum(AmountsOfPool, Returned')
  /\ utxo_fee' = SelSum(FeesOfPool, Returned')
  /\ lowest_larger # 0 =>
       ReturnedValue' = n_target \/ ReturnedValue' >= n_target + min_change

LEMMA SameFlags ==
  ASSUME NEW S, NEW f \in [S -> BOOLEAN], NEW g \in [S -> BOOLEAN],
         \A k \in S : f[k] <=> g[k]
  PROVE  f = g
  OBVIOUS

LEMMA CoinPays ==
  ASSUME TypeOK, NEW k \in Pool, pc \notin {"done", "throw"}, ReturnCoin(k),
         UNCHANGED <<input, scan, best, approx>>,
         utxos[k].effective_value = n_target
           \/ utxos[k].effective_value >= n_target + min_change
  PROVE  Paying
<1>1. /\ pc' = "done" /\ ret_utxos' = {k}
      /\ select_value' = utxos[k].amount /\ utxo_fee' = utxos[k].fee
  BY DEF ReturnCoin
<1>2. Returned' = OnlyCoin(k)
  <2>1. Returned' = [j \in Pool |-> j \in {k}]
    BY <1>1, Unmoved DEF Returned, Pool, N
  <2>2. \A j : (j \in {k}) = (j = k)
    OBVIOUS
  <2>3. QED
    BY <2>1, <2>2 DEF OnlyCoin
<1>3. ReturnedValue' = SelSum(Values, OnlyCoin(k))
  <2>1. ReturnedValue' = SelSum(Values', Returned')
    BY DEF ReturnedValue, Values
  <2>2. QED
    BY <1>2, <2>1, Unmoved
<1>4. /\ ReturnedValue' = utxos[k].effective_value
      /\ select_value' = SelSum(AmountsOfPool, Returned')
      /\ utxo_fee' = SelSum(FeesOfPool, Returned')
  BY <1>1, <1>2, <1>3, SumsOfCoin
<1>5. QED
  BY <1>1, <1>4, PoolTypes DEF Paying

LEMMA FlaggedPay ==
  ASSUME TypeOK, GroupsOK, NEW flags \in FlagLists(Size), pc \notin {"done", "throw"},
         ReturnFlagged(flags), UNCHANGED <<input, scan, best, approx>>,
         SelSum(Eff, flags) >= n_target,
         lowest_larger # 0 =>
           SelSum(Eff, flags) = n_target \/ SelSum(Eff, flags) >= n_target + min_change
  PROVE  Paying
<1>1. /\ pc' = "done"
      /\ ret_utxos' = {applicable_groups[k] : k \in {j \in 1 .. Size : flags[j]}}
      /\ select_value' = SelSum(Amounts, flags) /\ utxo_fee' = SelSum(Fees, flags)
  BY DEF ReturnFlagged, FeesOf
<1>2. ret_utxos' \subseteq Pool
  BY <1>1, ColumnTypes
<1>3. Returned' = Taking(flags)
  <2>1. Returned' = [k \in Pool |-> k \in ret_utxos']
    BY Unmoved DEF Returned, Pool, N
  <2>2. /\ Returned' \in [Pool -> BOOLEAN]
        /\ \A k \in Pool : Returned'[k] <=> k \in ret_utxos'
    <3> DEFINE r == Returned'
    <3>1. r = [k \in Pool |-> k \in ret_utxos']
      BY <2>1
    <3> HIDE DEF r
    <3>2. \A k \in Pool : r[k] = (k \in ret_utxos')
      BY <3>1
    <3>3. \A k \in Pool : r[k] <=> k \in ret_utxos'
      BY <3>2
    <3>4. r \in [Pool -> BOOLEAN]
      BY <3>1
    <3>5. QED
      BY <3>3, <3>4 DEF r
  <2>3. /\ Taking(flags) \in [Pool -> BOOLEAN]
        /\ \A k \in Pool : Taking(flags)[k] <=>
             \E j \in 1 .. Size : flags[j] /\ applicable_groups[j] = k
    BY DEF Taking
  <2>4. \A k \in Pool : k \in ret_utxos' <=>
          \E j \in 1 .. Size : flags[j] /\ applicable_groups[j] = k
    <3>1. \A k : k \in ret_utxos' <=>
            \E j \in {j \in 1 .. Size : flags[j]} : k = applicable_groups[j]
      BY <1>1
    <3>2. QED
      BY <3>1, Zenon
  <2>5. \A k \in Pool : Returned'[k] <=> Taking(flags)[k]
    BY <2>2, <2>3, <2>4, Zenon
  <2>6. QED
    BY <2>2, <2>3, <2>5, SameFlags
<1>4. ReturnedValue' = SelSum(Eff, flags)
  <2>1. ReturnedValue' = SelSum(Values', Returned')
    BY DEF ReturnedValue, Values
  <2>2. QED
    BY <1>3, <2>1, Unmoved, SumsOfFlagged
<1>5. /\ select_value' = SelSum(AmountsOfPool, Returned')
      /\ utxo_fee' = SelSum(FeesOfPool, Returned')
  BY <1>1, <1>3, SumsOfFlagged
<1>6. SelSum(Eff, flags) \in Nat
  <2>1. Size \in Nat /\ \A k \in 1 .. Size : flags[k] => Eff[k] \in Nat
    BY ColumnTypes
  <2>2. QED
    BY <2>1, SelSumNat
<1>7. QED
  BY <1>1, <1>2, <1>4, <1>5, <1>6 DEF Paying

(* Each way to return pays.                                                *)
LEMMA ReturnsPay ==
  ASSUME IInv, ExactCoin \/ AllApplicable \/ OnlyLarger \/ TakeLarger \/ TakeSubset
  PROVE  Paying
<1>1. TypeOK /\ GroupsOK /\ LargerPays /\ BestIsSubset
  BY DEF IInv
<1>2. CASE ExactCoin
  <2>1. /\ pc \notin {"done", "throw"} /\ index \in Pool /\ utxos[index].effective_value = n_target
        /\ ReturnCoin(index) /\ UNCHANGED <<input, scan, best, approx>>
    BY <1>1, <1>2, PoolTypes DEF ExactCoin, Scanning, TypeOK, Pool, N
  <2>2. QED
    BY <1>1, <2>1, CoinPays
<1>3. CASE AllApplicable
  <2>1. /\ pc \notin {"done", "throw"} /\ ReturnFlagged(AllFlags(Size))
        /\ UNCHANGED <<input, scan, best, approx>> /\ n_effective_total = n_target
    BY <1>3 DEF AllApplicable, Scanned, Flags, AllFlags
  <2>2. Size \in Nat /\ \A k \in 1 .. Size : Eff[k] \in Int
    BY <1>1, ColumnTypes
  <2>3. SelSum(Eff, AllFlags(Size)) = n_target
    BY <2>1, <2>2, SelSumOfAll DEF n_effective_total
  <2>4. AllFlags(Size) \in FlagLists(Size) /\ n_target >= n_target
    BY <1>1, PoolTypes DEF AllFlags, FlagLists
  <2>5. QED
    BY <1>1, <2>1, <2>3, <2>4, FlaggedPay
<1>4. CASE OnlyLarger
  <2>1. /\ pc \notin {"done", "throw"} /\ lowest_larger # 0 /\ ReturnCoin(lowest_larger)
        /\ UNCHANGED <<input, scan, best, approx>>
    BY <1>4 DEF OnlyLarger, Scanned
  <2>2. lowest_larger \in Pool
    BY <1>1, <2>1, PoolTypes DEF TypeOK, Pool, N
  <2>3. QED
    BY <1>1, <2>1, <2>2, CoinPays DEF LargerPays
<1>5. CASE TakeLarger
  <2>1. /\ pc \notin {"done", "throw"} /\ lowest_larger # 0 /\ ReturnCoin(lowest_larger)
        /\ UNCHANGED <<input, scan, best, approx>>
    BY <1>5 DEF TakeLarger, PreferLarger
  <2>2. lowest_larger \in Pool
    BY <1>1, <2>1, PoolTypes DEF TypeOK, Pool, N
  <2>3. QED
    BY <1>1, <2>1, <2>2, CoinPays DEF LargerPays
<1>6. CASE TakeSubset
  <2>1. /\ pc = "decide" /\ ReturnFlagged(vf_best) /\ ~PreferLarger
        /\ UNCHANGED <<input, scan, best, approx>>
    BY <1>6 DEF TakeSubset
  <2>2. /\ Len(vf_best) = Size /\ n_best = SelSum(Eff, vf_best) /\ n_best >= n_target
    BY <1>1, <2>1 DEF BestIsSubset
  <2>3. vf_best \in FlagLists(Size)
    BY <1>1, <2>2 DEF TypeOK, FlagLists
  <2>4. lowest_larger # 0 => n_best = n_target \/ n_best >= n_target + min_change
    <3>1. n_best \in Nat /\ n_target \in Nat /\ min_change \in Nat
      BY <1>1, PoolTypes DEF TypeOK
    <3>2. QED
      BY <2>1, <3>1 DEF PreferLarger, TooLittleChange
  <2>5. QED
    BY <1>1, <2>1, <2>2, <2>3, <2>4, FlaggedPay
<1>7. QED
  BY <1>2, <1>3, <1>4, <1>5, <1>6

(* A call that returns ends in a good state.                               *)
LEMMA PayingKeeps ==
  ASSUME IInv, Paying
  PROVE  IInv'
<1>1. TypeOK /\ GroupsOK /\ LargerPays
  BY DEF IInv
<1>2. /\ pc' = "done" /\ UNCHANGED <<input, scan, best, approx>>
      /\ ret_utxos' \subseteq Pool
  BY DEF Paying
<1>3. select_value' \in Nat /\ utxo_fee' \in Nat
  <2>1. /\ N \in Nat
        /\ \A k \in 1 .. N : AmountsOfPool[k] \in Nat /\ FeesOfPool[k] \in Nat
    BY <1>1, PoolTypes, ColumnTypes DEF Pool
  <2>2. Returned' \in FlagLists(N)
    BY <1>2, Unmoved DEF Returned, FlagLists, N
  <2>3. SelSum(AmountsOfPool, Returned') \in Nat /\ SelSum(FeesOfPool, Returned') \in Nat
    BY <2>1, <2>2, SelSumNat
  <2>4. QED
    BY <2>3 DEF Paying
<1>4. TypeOK'
  <2>1. /\ UNCHANGED <<utxos, n_target, min_change, index, lowest_larger, applicable_groups,
                       vf_best, n_best, call, vf_try, n_try, n_rep, n_pass, i, vf_includes,
                       n_total, is_reached_target>>
        /\ Size' = Size
    BY <1>2, Unmoved DEF best, approx
  <2>2. ret_utxos' \subseteq 1 .. Len(utxos)
    BY <1>2 DEF Pool, N
  <2>3. QED
    BY <1>1, <1>2, <1>3, <2>1, <2>2 DEF TypeOK
<1>5. GroupsOK'
  BY <1>1, <1>2, Unmoved DEF GroupsOK
<1>6. LargerPays'
  BY <1>1, <1>2, Unmoved
<1>7. PassOK' /\ NoOutputYet' /\ RunningTotal' /\ BestIsSubset'
  BY <1>2 DEF PassOK, NoOutputYet, RunningTotal, BestIsSubset
<1>8. NoSmallChange'
  BY <1>2, Unmoved DEF Paying, NoSmallChange
<1>9. QED
  BY <1>4, <1>5, <1>6, <1>7, <1>8 DEF IInv

-----------------------------------------------------------------------------
(* Scanning.                                                               *)
LEMMA StartsGood == Init => IInv
<1> SUFFICES ASSUME Init PROVE IInv
  OBVIOUS
<1>1. TypeOK
  <2>1. utxos \in Pools /\ n_target \in Targets /\ min_change \in MinChanges
    BY DEF Init
  <2>2. IsPool(utxos) /\ utxos \in Seq(Coin) /\ Len(utxos) \in Nat
    BY <2>1, PoolsAssumption DEF IsPool
  <2>3. /\ pc = "scan" /\ index = 1 /\ lowest_larger = 0 /\ applicable_groups = <<>>
        /\ vf_best = <<>> /\ n_best = 0 /\ call = 0 /\ vf_try = <<>> /\ n_try = 0
        /\ n_rep = 0 /\ n_pass = 0 /\ i = 1 /\ vf_includes = <<>> /\ n_total = 0
        /\ ret_utxos = {} /\ select_value = 0 /\ utxo_fee = 0
    BY DEF Init
  <2>4. is_reached_target \in BOOLEAN
    BY Zenon DEF Init
  <2>5. Size = 0
    BY <2>3 DEF Size
  <2>6. /\ index \in 1 .. Len(utxos) + 1 /\ lowest_larger \in 0 .. Len(utxos)
        /\ n_rep \in 0 .. Iterations /\ i \in 1 .. Size + 1
    BY <2>2, <2>3, <2>5, BoundsAssumption
  <2>7. /\ applicable_groups \in Seq(1 .. Len(utxos)) /\ vf_best \in Seq(BOOLEAN)
        /\ vf_try \in Seq(BOOLEAN) /\ vf_includes \in Seq(BOOLEAN)
    BY <2>3
  <2>8. QED
    BY <2>1, <2>3, <2>4, <2>6, <2>7 DEF TypeOK
<1>2. GroupsOK /\ LargerPays /\ PassOK /\ NoOutputYet
  BY DEF Init, GroupsOK, LargerPays, PassOK, NoOutputYet, Size, Distinct
<1>3. RunningTotal /\ BestIsSubset /\ NoSmallChange
  BY DEF Init, RunningTotal, BestIsSubset, NoSmallChange
<1>4. QED
  BY <1>1, <1>2, <1>3 DEF IInv

(* Where neither a subset is searched nor anything returned.               *)
LEMMA Elsewhere ==
  ASSUME pc' \in {"scan", "throw"}, NoOutputYet, pc # "done", UNCHANGED output
  PROVE  PassOK' /\ RunningTotal' /\ BestIsSubset' /\ NoSmallChange' /\ NoOutputYet'
  BY DEF PassOK, RunningTotal, BestIsSubset, NoSmallChange, NoOutputYet, output

LEMMA ApplicableKeeps ==
  ASSUME IInv, ApplicableCoin
  PROVE  IInv'
<1>1. TypeOK /\ GroupsOK /\ LargerPays /\ NoOutputYet
  BY DEF IInv
<1>2. /\ pc = "scan" /\ pc' = "scan" /\ index <= Len(utxos)
      /\ applicable_groups' = Append(applicable_groups, index) /\ index' = index + 1
      /\ UNCHANGED <<input, lowest_larger, best, approx, output>>
  BY DEF ApplicableCoin, Scanning, Position
<1>3. UNCHANGED <<utxos, n_target, min_change, lowest_larger, vf_best, n_best, call,
                  vf_try, n_try, n_rep, n_pass, i, vf_includes, n_total,
                  is_reached_target, ret_utxos, select_value, utxo_fee>>
  BY <1>2 DEF input, best, approx, output
<1>4. /\ index \in 1 .. Len(utxos) /\ index' \in 1 .. Len(utxos) + 1
      /\ applicable_groups \in Seq(1 .. Len(utxos)) /\ Size \in Nat
  BY <1>1, <1>2, PoolTypes, ColumnTypes DEF TypeOK, N
<1>5. /\ applicable_groups' \in Seq(1 .. Len(utxos)) /\ Size' = Size + 1
      /\ \A k \in 1 .. Size : applicable_groups'[k] = applicable_groups[k]
      /\ applicable_groups'[Size + 1] = index
  BY <1>2, <1>4 DEF Size
<1>6. TypeOK'
  <2>1. i' \in 1 .. Size' + 1
    BY <1>1, <1>3, <1>4, <1>5 DEF TypeOK
  <2>2. QED
    BY <1>1, <1>2, <1>3, <1>4, <1>5, <2>1 DEF TypeOK
<1>7. GroupsOK'
  <2>1. /\ \A j, k \in 1 .. Size : applicable_groups[j] = applicable_groups[k] => j = k
        /\ \A k \in 1 .. Size : applicable_groups[k] < index
        /\ lowest_larger = 0 => /\ Size = index - 1
                                /\ \A k \in 1 .. Size : applicable_groups[k] = k
    BY <1>1, <1>2 DEF GroupsOK, Distinct
  <2>2. \A k \in 1 .. Size + 1 : k \in 1 .. Size \/ k = Size + 1
    BY <1>4
  <2>3. \A k \in 1 .. Size : applicable_groups[k] \in Int /\ applicable_groups[k] # index
    BY <1>1, <1>4, <2>1, ColumnTypes DEF Pool
  <2>4. Distinct(applicable_groups', Size')
    BY <1>5, <2>1, <2>2, <2>3 DEF Distinct
  <2>5. \A k \in 1 .. Size' : applicable_groups'[k] < index'
    <3>1. ASSUME NEW k \in 1 .. Size PROVE applicable_groups'[k] < index'
      <4>1. /\ applicable_groups'[k] = applicable_groups[k]
            /\ applicable_groups[k] \in Int /\ applicable_groups[k] < index
        BY <1>5, <2>1, <2>3
      <4>2. QED
        BY <1>2, <1>4, <4>1
    <3>2. applicable_groups'[Size + 1] < index'
      BY <1>2, <1>4, <1>5
    <3>3. Size' = Size + 1
      BY <1>5
    <3>4. QED
      BY <2>2, <3>1, <3>2, <3>3
  <2>6. lowest_larger' = 0 => /\ Size' = index' - 1
                             /\ \A k \in 1 .. Size' : applicable_groups'[k] = k
    BY <1>2, <1>3, <1>4, <1>5, <2>1, <2>2
  <2>7. QED
    BY <2>4, <2>5, <2>6 DEF GroupsOK
<1>8. LargerPays'
  BY <1>1, <1>3 DEF LargerPays
<1>9. QED
  BY <1>1, <1>2, <1>6, <1>7, <1>8, Elsewhere DEF IInv

LEMMA LargerKeeps ==
  ASSUME IInv, LargerCoin
  PROVE  IInv'
<1>1. TypeOK /\ GroupsOK /\ LargerPays /\ NoOutputYet
  BY DEF IInv
<1>2. /\ pc = "scan" /\ pc' = "scan" /\ index <= Len(utxos) /\ index' = index + 1
      /\ ~(utxos[index].effective_value < n_target + min_change)
      /\ lowest_larger' \in {index, lowest_larger}
      /\ lowest_larger = 0 => lowest_larger' = index
      /\ UNCHANGED <<input, applicable_groups, best, approx, output>>
  BY DEF LargerCoin, Scanning, IsApplicable
<1>3. UNCHANGED <<utxos, n_target, min_change, applicable_groups, vf_best, n_best, call,
                  vf_try, n_try, n_rep, n_pass, i, vf_includes, n_total,
                  is_reached_target, ret_utxos, select_value, utxo_fee>>
  BY <1>2 DEF input, best, approx, output
<1>4. /\ index \in 1 .. Len(utxos) /\ index' \in 1 .. Len(utxos) + 1
      /\ lowest_larger' \in 0 .. Len(utxos) /\ Size' = Size
  BY <1>1, <1>2, <1>3, PoolTypes DEF TypeOK, N, Size
<1>5. TypeOK'
  BY <1>1, <1>2, <1>3, <1>4 DEF TypeOK
<1>6. lowest_larger' # 0
  BY <1>1, <1>2, <1>4
<1>7. GroupsOK'
  <2>1. \A k \in 1 .. Size : applicable_groups[k] < index /\ applicable_groups[k] \in Int
    BY <1>1, <1>2, ColumnTypes DEF GroupsOK, Pool
  <2>2. \A k \in 1 .. Size : applicable_groups[k] < index'
    BY <1>2, <1>4, <2>1
  <2>3. QED
    BY <1>1, <1>3, <1>4, <1>6, <2>2 DEF GroupsOK
<1>8. LargerPays'
  <2>1. utxos[index].effective_value >= n_target + min_change
    BY <1>1, <1>2, <1>4, PoolTypes DEF Pool, N
  <2>2. CASE lowest_larger' = index
    BY <1>3, <2>1, <2>2 DEF LargerPays
  <2>3. CASE lowest_larger' = lowest_larger
    BY <1>1, <1>3, <2>3 DEF LargerPays
  <2>4. QED
    BY <1>2, <2>2, <2>3
<1>9. QED
  BY <1>1, <1>2, <1>5, <1>7, <1>8, Elsewhere DEF IInv

LEMMA FundsKeeps ==
  ASSUME IInv, InsufficientFunds
  PROVE  IInv'
<1>1. TypeOK /\ GroupsOK /\ LargerPays /\ NoOutputYet
  BY DEF IInv
<1>2. pc = "scan" /\ pc' = "throw" /\ UNCHANGED <<input, scan, best, approx, output>>
  BY DEF InsufficientFunds, Scanned
<1>3. UNCHANGED <<utxos, n_target, min_change, applicable_groups, index, lowest_larger,
                  vf_best, n_best, call, vf_try, n_try, n_rep, n_pass, i, vf_includes,
                  n_total, is_reached_target, ret_utxos, select_value, utxo_fee, Size>>
  BY <1>2, Unmoved DEF best, approx, output
<1>4. TypeOK'
  BY <1>1, <1>2, <1>3 DEF TypeOK
<1>5. GroupsOK' /\ LargerPays'
  BY <1>1, <1>2, <1>3, Unmoved DEF GroupsOK
<1>6. QED
  BY <1>1, <1>2, <1>4, <1>5, Elsewhere DEF IInv

(* It is refused only where all the coins together are worth too little.   *)
LEMMA RefusedIsPoor ==
  ASSUME IInv, InsufficientFunds
  PROVE  PoolTotal(utxos) < n_target
<1>1. TypeOK /\ GroupsOK
  BY DEF IInv
<1>2. /\ pc = "scan" /\ index > Len(utxos) /\ lowest_larger = 0
      /\ n_effective_total < n_target
  BY DEF InsufficientFunds, Scanned, Insufficient
<1>3. /\ Size = index - 1 /\ \A k \in 1 .. Size : applicable_groups[k] = k
  BY <1>1, <1>2 DEF GroupsOK
<1>4. Size = N
  BY <1>1, <1>2, <1>3, PoolTypes DEF TypeOK, N
<1>5. N \in Nat /\ \A k \in 1 .. N : Eff[k] \in Int /\ Eff[k] = Values[k]
  BY <1>1, <1>3, <1>4, PoolTypes, ColumnTypes
<1>6. SumTo(Eff, N) = SumTo(Values, N)
  BY <1>5, SumToAgree
<1>7. QED
  BY <1>2, <1>4, <1>6 DEF n_effective_total, PoolTotal, Values, N

-----------------------------------------------------------------------------
(* The first call starts with all the coins, in another order.             *)
LEMMA SortKeeps ==
  ASSUME IInv, SortApplicable
  PROVE  IInv'
<1>1. TypeOK /\ GroupsOK /\ LargerPays /\ NoOutputYet
  BY DEF IInv
<1>2. /\ pc = "scan" /\ pc' = "approximate" /\ ~(n_effective_total < n_target)
      /\ StartCall(1)
      /\ UNCHANGED <<input, index, lowest_larger, best, output>>
  BY DEF SortApplicable, Scanned, Insufficient
<1>3. PICK p \in DescendingOrders(Size, Eff) :
        applicable_groups' = [k \in 1 .. Size |-> applicable_groups[p[k]]]
  BY DEF SortApplicable
<1>4. /\ call' = 1 /\ vf_try' = AllFlags(Size) /\ n_try' = n_effective_total
      /\ n_rep' = 0 /\ n_pass' = 2
      /\ UNCHANGED <<i, vf_includes, n_total, is_reached_target>>
  BY <1>2 DEF StartCall, Flags, AllFlags
<1>5. UNCHANGED <<utxos, n_target, min_change, index, lowest_larger, vf_best, n_best,
                  ret_utxos, select_value, utxo_fee>>
  BY <1>2 DEF input, best, output
<1>6. /\ Size \in Nat /\ p \in Rearrangements(Size)
      /\ \A k \in 1 .. Size : p[k] \in 1 .. Size
      /\ Distinct(p, Size)
  BY <1>1, <1>3, ColumnTypes, InjectiveOrder DEF DescendingOrders
<1>7. /\ applicable_groups' \in Seq(1 .. Len(utxos)) /\ Size' = Size
      /\ \A k \in 1 .. Size : applicable_groups'[k] = applicable_groups[p[k]]
  <2>1. \A k \in 1 .. Size : applicable_groups[p[k]] \in 1 .. Len(utxos)
    BY <1>1, <1>6, ColumnTypes DEF Pool, N
  <2>2. applicable_groups' \in [1 .. Size -> 1 .. Len(utxos)]
    BY <1>3, <2>1
  <2>3. applicable_groups' \in Seq(1 .. Len(utxos)) /\ Len(applicable_groups') = Size
    BY <1>6, <2>2
  <2>4. QED
    BY <1>3, <2>3 DEF Size
<1>8. /\ AllFlags(Size) \in FlagLists(Size) /\ AllFlags(Size) \in Seq(BOOLEAN)
      /\ Len(AllFlags(Size)) = Size
  BY <1>6 DEF AllFlags, FlagLists
<1>9. TypeOK'
  <2>1. n_try' \in Nat /\ n_rep' \in 0 .. Iterations /\ i' \in 1 .. Size' + 1
    BY <1>1, <1>4, <1>7, TotalType, BoundsAssumption DEF TypeOK
  <2>2. vf_try' \in Seq(BOOLEAN)
    BY <1>4, <1>8
  <2>3. QED
    BY <1>1, <1>2, <1>4, <1>5, <1>7, <2>1, <2>2 DEF TypeOK
<1>10. GroupsOK'
  <2>1. Distinct(applicable_groups', Size')
    <3>1. SUFFICES ASSUME NEW j \in 1 .. Size, NEW k \in 1 .. Size,
                          applicable_groups'[j] = applicable_groups'[k]
                   PROVE  j = k
      BY <1>7 DEF Distinct
    <3>2. applicable_groups[p[j]] = applicable_groups[p[k]]
      BY <1>7, <3>1
    <3>3. p[j] = p[k]
      BY <1>1, <1>6, <3>2 DEF GroupsOK, Distinct
    <3>4. QED
      BY <1>6, <3>3 DEF Distinct
  <2>2. QED
    BY <1>2, <2>1 DEF GroupsOK
<1>11. LargerPays' /\ PassOK' /\ NoOutputYet' /\ RunningTotal' /\ NoSmallChange'
  BY <1>1, <1>2, <1>4, <1>5
  DEF LargerPays, PassOK, NoOutputYet, RunningTotal, NoSmallChange
<1>12. SelSum(Eff', AllFlags(Size)) = n_effective_total
  <2> DEFINE f == Eff
             n == Size
  <2>1. \A k \in 1 .. n : f[k] \in Int
    BY <1>1, ColumnTypes
  <2>2. Eff' = [k \in 1 .. n |-> f[p[k]]]
    BY <1>5, <1>6, <1>7 DEF Eff
  <2> HIDE DEF f, n
  <2>3. n \in Nat /\ p \in Rearrangements(n)
    BY <1>6 DEF n
  <2>4. SumTo([k \in 1 .. n |-> f[p[k]]], n) = SumTo(f, n)
    BY <2>1, <2>3, SumToRearranged
  <2>5. \A k \in 1 .. n : [j \in 1 .. n |-> f[p[j]]][k] \in Int
    <3>1. \A k \in 1 .. n : p[k] \in 1 .. n
      BY <1>6 DEF n
    <3>2. QED
      BY <2>1, <3>1
  <2>6. SelSum([k \in 1 .. n |-> f[p[k]]], AllFlags(n)) = SumTo([k \in 1 .. n |-> f[p[k]]], n)
    BY <2>3, <2>5, SelSumOfAll
  <2>7. QED
    BY <2>2, <2>4, <2>6 DEF n_effective_total, f, n
<1>13. BestIsSubset'
  <2>1. Goal' = n_target
    BY <1>4, <1>5 DEF Goal
  <2>2. n_try' >= n_target
    BY <1>1, <1>2, <1>4, TotalType, PoolTypes
  <2>3. QED
    BY <1>2, <1>4, <1>7, <1>8, <1>12, <2>1, <2>2 DEF BestIsSubset
<1>14. QED
  BY <1>9, <1>10, <1>11, <1>13 DEF IInv

-----------------------------------------------------------------------------
(* The turns of ApproximateBestSubset change its own variables.            *)
LEMMA InApproximation ==
  ASSUME IInv, pc = "approximate", pc' \in {"approximate", "decide"},
         UNCHANGED <<input, scan, output>>
  PROVE  GroupsOK' /\ LargerPays' /\ NoOutputYet' /\ NoSmallChange'
<1>1. GroupsOK /\ LargerPays /\ NoOutputYet
  BY DEF IInv
<1>2. QED
  BY <1>1, Unmoved DEF GroupsOK, NoOutputYet, NoSmallChange, output

LEMMA TurnOfPass ==
  ASSUME IInv, pc = "approximate", pc' = "approximate",
         UNCHANGED <<input, scan, best, output, call>>,
         TypeOK', PassOK', RunningTotal',
         Len(vf_try') = Size, n_try' = SelSum(Eff, vf_try'), n_try' >= Goal
  PROVE  IInv'
<1>1. BestIsSubset
  BY DEF IInv
<1>2. Goal' = Goal
  BY Unmoved DEF Goal
<1>3. BestIsSubset'
  BY <1>1, <1>2, Unmoved DEF BestIsSubset, best
<1>4. QED
  BY <1>3, InApproximation DEF IInv

LEMMA RepetitionKeeps ==
  ASSUME IInv, NewRepetition
  PROVE  IInv'
<1>1. TypeOK /\ PassOK /\ BestIsSubset
  BY DEF IInv
<1>2. /\ pc = "approximate" /\ n_rep < Iterations
      /\ n_rep' = n_rep + 1 /\ n_pass' = 0 /\ i' = 1
      /\ vf_includes' = NoFlags(Size) /\ n_total' = 0 /\ is_reached_target' = FALSE
      /\ UNCHANGED <<pc, input, scan, best, call, vf_try, n_try, output>>
  BY DEF NewRepetition, Between, RepeatMore, Flags, NoFlags
<1>3. Size \in Nat /\ Size' = Size /\ Eff' = Eff
  BY <1>1, <1>2, ColumnTypes, Unmoved
<1>4. /\ NoFlags(Size) \in Seq(BOOLEAN) /\ Len(NoFlags(Size)) = Size
      /\ SelSum(Eff, NoFlags(Size)) = 0
  BY <1>3, SelSumOfNone DEF NoFlags
<1>5. TypeOK'
  <2>1. UNCHANGED <<pc, utxos, n_target, min_change, applicable_groups, index,
                    lowest_larger, vf_best, n_best, call, vf_try, n_try,
                    ret_utxos, select_value, utxo_fee>>
    BY <1>2 DEF input, scan, best, output
  <2>2. n_rep' \in 0 .. Iterations /\ i' \in 1 .. Size' + 1
    BY <1>1, <1>2, <1>3, BoundsAssumption DEF TypeOK
  <2>3. is_reached_target' \in BOOLEAN
    BY <1>2, Zenon
  <2>4. QED
    BY <1>1, <1>2, <1>4, <2>1, <2>2, <2>3 DEF TypeOK
<1>6. PassOK'
  BY <1>1, <1>2, <1>3 DEF PassOK, NoFlags
<1>7. RunningTotal'
  BY <1>2, <1>3, <1>4 DEF RunningTotal
<1>8. QED
  BY <1>1, <1>2, <1>5, <1>6, <1>7, TurnOfPass DEF BestIsSubset

LEMMA PassOverKeeps ==
  ASSUME IInv, PassOver
  PROVE  IInv'
<1>1. TypeOK /\ PassOK /\ BestIsSubset /\ RunningTotal
  BY DEF IInv
<1>2. /\ pc = "approximate" /\ n_pass < 2 /\ i <= Size /\ i' = i + 1
      /\ UNCHANGED <<pc, input, scan, best, call, vf_try, n_try, n_rep, n_pass,
                     vf_includes, n_total, is_reached_target, output>>
  BY DEF PassOver, InPass
<1>3. Size \in Nat /\ Size' = Size /\ Eff' = Eff
  BY <1>1, <1>2, ColumnTypes, Unmoved
<1>4. TypeOK'
  <2>1. UNCHANGED <<utxos, n_target, min_change, applicable_groups, index,
                    lowest_larger, vf_best, n_best, ret_utxos, select_value, utxo_fee>>
    BY <1>2 DEF input, scan, best, output
  <2>2. i' \in 1 .. Size' + 1
    BY <1>1, <1>2, <1>3 DEF TypeOK
  <2>3. QED
    BY <1>1, <1>2, <1>3, <2>1, <2>2 DEF TypeOK
<1>5. PassOK'
  <2>1. \A k \in i' .. Size : k \in i .. Size
    BY <1>1, <1>2 DEF TypeOK
  <2>2. QED
    BY <1>1, <1>2, <1>3, <2>1 DEF PassOK
<1>6. RunningTotal'
  BY <1>1, <1>2, <1>3 DEF RunningTotal
<1>7. QED
  BY <1>1, <1>2, <1>4, <1>5, <1>6, TurnOfPass DEF BestIsSubset

(* What a coin adds that the toss puts in: it has not been in before.      *)
LEMMA CoinAdds ==
  ASSUME IInv, InPass, TRUE \in Tosses
  PROVE  /\ i \in 1 .. Size /\ Size \in Nat /\ vf_includes \in FlagLists(Size)
         /\ ~vf_includes[i] /\ Eff[i] \in Nat
         /\ StillIncluded \in FlagLists(Size)
         /\ SelSum(Eff, StillIncluded) = n_total + Eff[i]
<1>1. TypeOK /\ PassOK /\ RunningTotal
  BY DEF IInv
<1>2. pc = "approximate" /\ n_pass < 2 /\ i <= Size
  BY DEF InPass
<1>3. /\ i \in 1 .. Size /\ Size \in Nat
      /\ \A k \in 1 .. Size : Eff[k] \in Nat
  BY <1>1, <1>2, ColumnTypes DEF TypeOK
<1>4. Len(vf_includes) = Size /\ n_total = SelSum(Eff, vf_includes)
  BY <1>1, <1>2 DEF RunningTotal
<1>5. vf_includes \in FlagLists(Size)
  BY <1>1, <1>4 DEF TypeOK, FlagLists
<1>6. ~vf_includes[i]
  <2>1. CASE n_pass = 0
    <3>1. i \in i .. Size
      BY <1>3
    <3>2. QED
      BY <1>1, <1>2, <2>1, <3>1 DEF PassOK
  <2>2. CASE n_pass # 0
    <3>1. TRUE = ~vf_includes[i]
      BY <2>2 DEF Tosses
    <3>2. QED
      BY <3>1
  <2>3. QED
    BY <2>1, <2>2
<1>7. StillIncluded \in FlagLists(Size)
  BY <1>5 DEF StillIncluded, FlagLists
<1>8. SelSum(Eff, StillIncluded) = SelSum(Eff, vf_includes) + Eff[i]
  <2>1. \A k \in 1 .. Size : Eff[k] \in Int
    BY <1>3
  <2>2. QED
    BY <1>3, <1>5, <1>6, <2>1, SelSumInclude DEF StillIncluded
<1>9. QED
  BY <1>3, <1>4, <1>5, <1>6, <1>7, <1>8

LEMMA IncludeKeeps ==
  ASSUME IInv, IncludeCoin
  PROVE  IInv'
<1>1. TypeOK /\ PassOK /\ BestIsSubset /\ RunningTotal
  BY DEF IInv
<1>2. /\ pc = "approximate" /\ n_pass < 2 /\ InPass /\ TRUE \in Tosses
      /\ n_total' = n_total + Eff[i] /\ vf_includes' = StillIncluded /\ i' = i + 1
      /\ UNCHANGED <<pc, input, scan, best, call, vf_try, n_try, n_rep, n_pass,
                     is_reached_target, output>>
  BY DEF IncludeCoin, InPass, StillIncluded
<1>3. /\ i \in 1 .. Size /\ Size \in Nat /\ vf_includes \in FlagLists(Size)
      /\ Eff[i] \in Nat /\ StillIncluded \in FlagLists(Size)
      /\ SelSum(Eff, StillIncluded) = n_total + Eff[i]
  BY <1>2, CoinAdds
<1>4. Size' = Size /\ Eff' = Eff
  BY <1>2, Unmoved
<1>5. Len(vf_includes') = Size /\ vf_includes' \in Seq(BOOLEAN)
  BY <1>2, <1>3 DEF FlagLists
<1>6. TypeOK'
  <2>1. UNCHANGED <<utxos, n_target, min_change, applicable_groups, index,
                    lowest_larger, vf_best, n_best, ret_utxos, select_value, utxo_fee>>
    BY <1>2 DEF input, scan, best, output
  <2>2. i' \in 1 .. Size' + 1 /\ n_total' \in Nat
    BY <1>1, <1>2, <1>3, <1>4 DEF TypeOK
  <2>3. QED
    BY <1>1, <1>2, <1>4, <1>5, <2>1, <2>2 DEF TypeOK
<1>7. PassOK'
  <2>1. \A k \in i' .. Size : k \in i .. Size /\ vf_includes'[k] = vf_includes[k]
    <3>1. \A k \in i' .. Size : k \in i .. Size /\ k \in 1 .. Size /\ k # i
      BY <1>2, <1>3
    <3>2. \A k \in 1 .. Size : k # i => StillIncluded[k] = vf_includes[k]
      BY <1>3 DEF StillIncluded, FlagLists
    <3>3. QED
      BY <1>2, <3>1, <3>2
  <2>2. QED
    BY <1>1, <1>2, <1>4, <2>1 DEF PassOK
<1>8. RunningTotal'
  BY <1>2, <1>3, <1>4, <1>5 DEF RunningTotal
<1>9. QED
  BY <1>1, <1>2, <1>6, <1>7, <1>8, TurnOfPass DEF BestIsSubset

LEMMA ReachKeeps ==
  ASSUME IInv, ReachGoal
  PROVE  IInv'
<1>1. TypeOK /\ PassOK /\ BestIsSubset /\ RunningTotal
  BY DEF IInv
<1>2. /\ pc = "approximate" /\ n_pass < 2 /\ InPass /\ TRUE \in Tosses
      /\ n_total + Eff[i] >= Goal /\ is_reached_target' = TRUE
      /\ \/ n_try' = n_total + Eff[i] /\ vf_try' = StillIncluded
         \/ UNCHANGED <<n_try, vf_try>>
      /\ vf_includes' = TakenOut /\ i' = i + 1
      /\ UNCHANGED <<pc, input, scan, best, call, n_rep, n_pass, n_total, output>>
  BY DEF ReachGoal, InPass
<1>3. /\ i \in 1 .. Size /\ Size \in Nat /\ vf_includes \in FlagLists(Size)
      /\ ~vf_includes[i] /\ Eff[i] \in Nat /\ StillIncluded \in FlagLists(Size)
      /\ SelSum(Eff, StillIncluded) = n_total + Eff[i]
  BY <1>2, CoinAdds
<1>4. Size' = Size /\ Eff' = Eff
  BY <1>2, Unmoved
<1>5. vf_includes' = vf_includes
  BY <1>2, <1>3 DEF TakenOut, FlagLists
<1>6. /\ Len(vf_try') = Size /\ vf_try' \in Seq(BOOLEAN)
      /\ n_try' = SelSum(Eff, vf_try') /\ n_try' >= Goal
  <2>1. CASE n_try' = n_total + Eff[i] /\ vf_try' = StillIncluded
    BY <1>2, <1>3, <2>1 DEF FlagLists
  <2>2. CASE UNCHANGED <<n_try, vf_try>>
    BY <1>1, <1>2, <2>2 DEF BestIsSubset, TypeOK
  <2>3. QED
    BY <1>2, <2>1, <2>2
<1>7. TypeOK'
  <2>1. UNCHANGED <<utxos, n_target, min_change, applicable_groups, index,
                    lowest_larger, vf_best, n_best, ret_utxos, select_value, utxo_fee>>
    BY <1>2 DEF input, scan, best, output
  <2>2. i' \in 1 .. Size' + 1 /\ n_try' \in Nat
    BY <1>1, <1>2, <1>3, <1>4 DEF TypeOK
  <2>3. is_reached_target' \in BOOLEAN
    BY <1>2, Zenon
  <2>4. QED
    BY <1>1, <1>2, <1>4, <1>5, <1>6, <2>1, <2>2, <2>3 DEF TypeOK
<1>8. PassOK'
  <2>1. \A k \in i' .. Size : k \in i .. Size
    BY <1>2, <1>3
  <2>2. QED
    BY <1>1, <1>2, <1>4, <1>5, <2>1 DEF PassOK
<1>9. RunningTotal'
  BY <1>1, <1>2, <1>4, <1>5 DEF RunningTotal
<1>10. QED
  BY <1>2, <1>6, <1>7, <1>8, <1>9, TurnOfPass

LEMMA PassKeeps ==
  ASSUME IInv, EndPass
  PROVE  IInv'
<1>1. TypeOK /\ PassOK /\ BestIsSubset /\ RunningTotal
  BY DEF IInv
<1>2. /\ pc = "approximate" /\ n_pass < 2 /\ n_pass' \in {2, n_pass + 1} /\ i' = 1
      /\ UNCHANGED <<pc, input, scan, best, call, vf_try, n_try, n_rep,
                     vf_includes, n_total, is_reached_target, output>>
  BY DEF EndPass, PassAfter
<1>3. Size \in Nat /\ Size' = Size /\ Eff' = Eff
  BY <1>1, <1>2, ColumnTypes, Unmoved
<1>4. n_pass' \in 1 .. 2
  BY <1>1, <1>2 DEF TypeOK
<1>5. TypeOK'
  <2>1. UNCHANGED <<utxos, n_target, min_change, applicable_groups, index,
                    lowest_larger, vf_best, n_best, ret_utxos, select_value, utxo_fee>>
    BY <1>2 DEF input, scan, best, output
  <2>2. i' \in 1 .. Size' + 1 /\ n_pass' \in 0 .. 2
    BY <1>2, <1>3, <1>4
  <2>3. QED
    BY <1>1, <1>2, <1>3, <2>1, <2>2 DEF TypeOK
<1>6. PassOK'
  BY <1>1, <1>2, <1>4 DEF PassOK
<1>7. RunningTotal'
  BY <1>1, <1>2, <1>3 DEF RunningTotal
<1>8. QED
  BY <1>1, <1>2, <1>5, <1>6, <1>7, TurnOfPass DEF BestIsSubset

-----------------------------------------------------------------------------
(* The end of a call: its best subset pays the target.                     *)
LEMMA FirstCallKeeps ==
  ASSUME IInv, EndFirstCall
  PROVE  IInv'
<1>1. TypeOK /\ BestIsSubset
  BY DEF IInv
<1>2. /\ pc = "approximate" /\ call = 1 /\ n_pass = 2
      /\ vf_best' = vf_try /\ n_best' = n_try
      /\ UNCHANGED <<input, scan, output>>
  BY DEF EndFirstCall, Between
<1>3. /\ Size \in Nat /\ Size' = Size /\ Eff' = Eff
      /\ n_target \in Nat /\ min_change \in Nat /\ n_effective_total \in Nat
      /\ n_target' = n_target /\ min_change' = min_change
  BY <1>1, <1>2, ColumnTypes, TotalType, PoolTypes, Unmoved
<1>4. /\ Len(vf_best') = Size /\ n_best' = SelSum(Eff, vf_best') /\ n_best' >= n_target
      /\ vf_best' \in Seq(BOOLEAN) /\ n_best' \in Nat
  BY <1>1, <1>2 DEF BestIsSubset, Goal, TypeOK
<1>5. UNCHANGED <<utxos, n_target, min_change, applicable_groups, index,
                  lowest_larger, ret_utxos, select_value, utxo_fee>>
  BY <1>2 DEF input, scan, output
<1>6. CASE pc' = "decide" /\ UNCHANGED approx
  <2>1. UNCHANGED <<call, vf_try, n_try, n_rep, n_pass, i, vf_includes, n_total,
                    is_reached_target>>
    BY <1>6 DEF approx
  <2>2. TypeOK'
    BY <1>1, <1>3, <1>4, <1>5, <1>6, <2>1 DEF TypeOK
  <2>3. PassOK' /\ RunningTotal'
    BY <1>6 DEF PassOK, RunningTotal
  <2>4. BestIsSubset'
    BY <1>3, <1>4, <1>6 DEF BestIsSubset
  <2>5. QED
    BY <1>2, <1>6, <2>2, <2>3, <2>4, InApproximation DEF IInv
<1>7. CASE /\ StartCall(2) /\ UNCHANGED pc
           /\ n_effective_total >= n_target + min_change
  <2>1. /\ call' = 2 /\ vf_try' = AllFlags(Size) /\ n_try' = n_effective_total
        /\ n_rep' = 0 /\ n_pass' = 2
        /\ UNCHANGED <<i, vf_includes, n_total, is_reached_target>>
    BY <1>7 DEF StartCall, Flags, AllFlags
  <2>2. /\ AllFlags(Size) \in Seq(BOOLEAN) /\ Len(AllFlags(Size)) = Size
    BY <1>3 DEF AllFlags
  <2>3. SelSum(Eff, AllFlags(Size)) = n_effective_total
    <3>1. \A k \in 1 .. Size : Eff[k] \in Int
      BY <1>1, ColumnTypes
    <3>2. QED
      BY <1>3, <3>1, SelSumOfAll DEF n_effective_total
  <2>4. TypeOK'
    <3>1. /\ vf_try' \in Seq(BOOLEAN) /\ n_try' \in Nat /\ n_rep' \in 0 .. Iterations
          /\ call' \in 0 .. 2 /\ n_pass' \in 0 .. 2
      BY <1>3, <2>1, <2>2, BoundsAssumption
    <3>2. UNCHANGED <<pc, i, vf_includes, n_total, is_reached_target>>
      BY <1>7, <2>1
    <3>3. QED
      BY <1>1, <1>3, <1>4, <1>5, <3>1, <3>2 DEF TypeOK
  <2>5. PassOK' /\ RunningTotal'
    BY <2>1 DEF PassOK, RunningTotal
  <2>6. BestIsSubset'
    <3>1. Goal' = n_target + min_change
      BY <1>3, <2>1 DEF Goal
    <3>2. Len(vf_try') = Size /\ n_try' = SelSum(Eff, vf_try') /\ n_try' >= Goal'
      BY <1>7, <2>1, <2>2, <2>3, <3>1
    <3>3. QED
      BY <1>3, <1>4, <3>2 DEF BestIsSubset
  <2>7. QED
    BY <1>2, <1>7, <2>4, <2>5, <2>6, InApproximation DEF IInv
<1>8. QED
  BY <1>6, <1>7 DEF EndFirstCall

LEMMA SecondCallKeeps ==
  ASSUME IInv, EndSecondCall
  PROVE  IInv'
<1>1. TypeOK /\ BestIsSubset
  BY DEF IInv
<1>2. /\ pc = "approximate" /\ call = 2 /\ pc' = "decide"
      /\ (vf_best' = vf_try /\ n_best' = n_try) \/ UNCHANGED best
      /\ UNCHANGED <<input, scan, approx, output>>
  BY DEF EndSecondCall, Between
<1>3. /\ Size' = Size /\ Eff' = Eff /\ n_target' = n_target
      /\ n_target \in Nat /\ min_change \in Nat
  BY <1>1, <1>2, PoolTypes, Unmoved
<1>4. UNCHANGED <<utxos, n_target, min_change, applicable_groups, index,
                  lowest_larger, ret_utxos, select_value, utxo_fee,
                  call, vf_try, n_try, n_rep, n_pass, i, vf_includes, n_total,
                  is_reached_target>>
  BY <1>2 DEF input, scan, output, approx
<1>5. /\ Len(vf_best') = Size /\ n_best' = SelSum(Eff, vf_best') /\ n_best' >= n_target
      /\ vf_best' \in Seq(BOOLEAN) /\ n_best' \in Nat
  <2>1. CASE vf_best' = vf_try /\ n_best' = n_try
    <3>1. /\ Len(vf_try) = Size /\ n_try = SelSum(Eff, vf_try)
          /\ n_try >= n_target + min_change
          /\ vf_try \in Seq(BOOLEAN) /\ n_try \in Nat
      BY <1>1, <1>2 DEF BestIsSubset, Goal, TypeOK
    <3>2. QED
      BY <1>3, <2>1, <3>1
  <2>2. CASE UNCHANGED best
    BY <1>1, <1>2, <2>2 DEF BestIsSubset, TypeOK, best
  <2>3. QED
    BY <1>2, <2>1, <2>2
<1>6. TypeOK'
  BY <1>1, <1>2, <1>3, <1>4, <1>5 DEF TypeOK
<1>7. PassOK' /\ RunningTotal'
  BY <1>2 DEF PassOK, RunningTotal
<1>8. BestIsSubset'
  BY <1>2, <1>3, <1>5 DEF BestIsSubset
<1>9. QED
  BY <1>2, <1>6, <1>7, <1>8, InApproximation DEF IInv

LEMMA StutterKeeps ==
  ASSUME IInv, UNCHANGED vars
  PROVE  IInv'
<1>1. UNCHANGED <<pc, utxos, n_target, min_change, applicable_groups, index,
                  lowest_larger, ret_utxos, select_value, utxo_fee, vf_best, n_best,
                  call, vf_try, n_try, n_rep, n_pass, i, vf_includes, n_total,
                  is_reached_target>>
  BY DEF vars, input, scan, best, output, approx
<1>2. UNCHANGED <<input, scan>>
  BY DEF vars
<1>3. Size' = Size /\ Eff' = Eff /\ LargerPays' = LargerPays
  BY <1>2, Unmoved
<1>4. TypeOK'
  BY <1>1, <1>3 DEF IInv, TypeOK
<1>5. GroupsOK' /\ LargerPays' /\ PassOK' /\ NoOutputYet'
  BY <1>1, <1>3 DEF IInv, GroupsOK, PassOK, NoOutputYet
<1>6. RunningTotal' /\ BestIsSubset'
  BY <1>1, <1>3 DEF IInv, RunningTotal, BestIsSubset, Goal
<1>7. ReturnedValue' = ReturnedValue
  BY <1>1 DEF ReturnedValue, Returned
<1>8. NoSmallChange'
  BY <1>1, <1>7 DEF IInv, NoSmallChange
<1>9. QED
  BY <1>4, <1>5, <1>6, <1>8 DEF IInv

-----------------------------------------------------------------------------
LEMMA StepsKeep == IInv /\ [Next]_vars => IInv'
<1> SUFFICES ASSUME IInv, [Next]_vars PROVE IInv'
  OBVIOUS
<1>1. CASE ExactCoin \/ AllApplicable \/ OnlyLarger \/ TakeLarger \/ TakeSubset
  BY <1>1, ReturnsPay, PayingKeeps
<1>2. CASE \/ ApplicableCoin \/ LargerCoin \/ InsufficientFunds \/ SortApplicable
           \/ NewRepetition \/ PassOver \/ IncludeCoin \/ ReachGoal \/ EndPass
           \/ EndFirstCall \/ EndSecondCall
  BY <1>2, ApplicableKeeps, LargerKeeps, FundsKeeps, SortKeeps, RepetitionKeeps,
     PassOverKeeps, IncludeKeeps, ReachKeeps, PassKeeps, FirstCallKeeps, SecondCallKeeps
<1>3. CASE UNCHANGED vars
  BY <1>3, StutterKeeps
<1>4. QED
  BY <1>1, <1>2, <1>3 DEF Next, Stopped

THEOREM AlwaysGood == Spec => []IInv
  BY StartsGood, StepsKeep, PTL DEF Spec

(* The types of the solver's state: no position is out of the pool.        *)
THEOREM TypeCorrect == Spec => []TypeOK
  BY AlwaysGood, PTL DEF IInv

(* The running total is the value of the coins included, however often     *)
(* coins are put in and taken out.                                         *)
THEOREM TotalCorrect == Spec => []RunningTotal
  BY AlwaysGood, PTL DEF IInv

(* The best subset and its value belong together, and it pays.             *)
THEOREM BestCorrect == Spec => []BestIsSubset
  BY AlwaysGood, PTL DEF IInv

(* With a larger coin at hand, change is none or no less than min_change.  *)
THEOREM ChangeCorrect == Spec => []NoSmallChange
  BY AlwaysGood, PTL DEF IInv

-----------------------------------------------------------------------------
(* Sums and Coins are one module each, whoever extends them.               *)
LEMMA SameSums ==
  /\ \A f, sel : Contract!SelSum(f, sel) = SelSum(f, sel)
  /\ \A pool : Contract!IsPool(pool) <=> IsPool(pool)
  /\ \A pool : Contract!EffectiveValues(pool) = EffectiveValues(pool)
  /\ \A pool : Contract!PoolTotal(pool) = PoolTotal(pool)
<1>1. ASSUME NEW g, NEW n PROVE Contract!SumTo(g, n) = SumTo(g, n)
  BY DEF Contract!SumTo, SumTo
<1>2. ASSUME NEW f, NEW sel PROVE Contract!SelSum(f, sel) = SelSum(f, sel)
  <2>1. Contract!Masked(f, sel) = Masked(f, sel)
    BY DEF Contract!Masked, Masked
  <2>2. QED
    BY <1>1, <2>1 DEF Contract!SelSum, SelSum
<1>3. \A pool : Contract!IsPool(pool) <=> IsPool(pool)
  BY DEF Contract!IsPool, IsPool, Contract!Coin, Coin
<1>4. ASSUME NEW pool PROVE Contract!EffectiveValues(pool) = EffectiveValues(pool)
  BY DEF Contract!EffectiveValues, EffectiveValues
<1>5. \A pool : Contract!PoolTotal(pool) = PoolTotal(pool)
  BY <1>1, <1>4 DEF Contract!PoolTotal, PoolTotal
<1>6. QED
  BY <1>2, <1>3, <1>4, <1>5

(* What the contract sees of the solver.                                   *)
Status == CASE pc = "done"  -> "answered"
            [] pc = "throw" -> "refused"
            [] OTHER        -> "pending"

LEMMA StatusOf ==
  /\ pc = "done" => Status = "answered"
  /\ pc = "throw" => Status = "refused"
  /\ pc \notin {"done", "throw"} => Status = "pending"
  /\ pc' = "done" => Status' = "answered"
  /\ pc' = "throw" => Status' = "refused"
  /\ pc' \notin {"done", "throw"} => Status' = "pending"
BY DEF Status

LEMMA InitContract ==
  ASSUME Init
  PROVE  Contract!Init
<1>1. TypeOK /\ pc = "scan" /\ select_value = 0 /\ utxo_fee = 0
  BY StartsGood DEF Init, IInv
<1>2. Contract!IsPool(utxos) /\ n_target \in Nat
  BY <1>1, PoolTypes, SameSums
<1>3. Status = "pending"
  BY <1>1, StatusOf
<1>4. QED
  BY <1>1, <1>2, <1>3 DEF Contract!Init, Status

(* A return is the answer of the contract.                                 *)
LEMMA PayingAnswers ==
  ASSUME IInv, Paying
  PROVE  Contract!Answer
<1>1. /\ pc \notin {"done", "throw"} /\ pc' = "done" /\ UNCHANGED <<utxos, n_target>>
      /\ ReturnedValue' >= n_target /\ Values' = Values
      /\ select_value' = SelSum(AmountsOfPool, Returned')
      /\ utxo_fee' = SelSum(FeesOfPool, Returned')
  BY Unmoved DEF Paying
<1>3. Status = "pending" /\ Status' = "answered"
  BY <1>1, StatusOf
<1>4. Returned' \in Contract!Choices(utxos)
  <2>1. Returned' = [k \in 1 .. Len(utxos) |-> k \in ret_utxos']
    BY <1>1 DEF Returned
  <2>2. QED
    BY <2>1 DEF Contract!Choices
<1>5. ReturnedValue' = Contract!ValueOf(utxos, Returned')
  <2>1. ReturnedValue' = SelSum(EffectiveValues(utxos), Returned')
    BY <1>1 DEF ReturnedValue
  <2>2. QED
    BY <2>1, SameSums DEF Contract!ValueOf
<1>6. select_value' = Contract!AmountOf(utxos, Returned')
  BY <1>1, SameSums DEF Contract!AmountOf, AmountsOfPool
<1>7. utxo_fee' = Contract!FeeOf(utxos, Returned')
  BY <1>1, SameSums DEF Contract!FeeOf, FeesOfPool
<1>8. \E sel \in Contract!Choices(utxos) :
        /\ Contract!ValueOf(utxos, sel) >= n_target
        /\ select_value' = Contract!AmountOf(utxos, sel)
        /\ utxo_fee' = Contract!FeeOf(utxos, sel)
  <2> DEFINE r == Returned'
  <2>1. /\ r \in Contract!Choices(utxos)
        /\ Contract!ValueOf(utxos, r) >= n_target
        /\ select_value' = Contract!AmountOf(utxos, r)
        /\ utxo_fee' = Contract!FeeOf(utxos, r)
    BY <1>1, <1>4, <1>5, <1>6, <1>7
  <2> HIDE DEF r
  <2>2. QED
    BY <2>1
<1>9. QED
  BY <1>1, <1>3, <1>8 DEF Contract!Answer, Status

LEMMA FundsRefuse ==
  ASSUME IInv, InsufficientFunds
  PROVE  Contract!Refuse
<1>1. /\ pc = "scan" /\ pc' = "throw"
      /\ UNCHANGED <<utxos, n_target, select_value, utxo_fee>>
  BY DEF InsufficientFunds, Scanned, input, output
<1>2. Contract!PoolTotal(utxos) < n_target
  BY RefusedIsPoor, SameSums
<1>3. Status = "pending" /\ Status' = "refused"
  BY <1>1, StatusOf
<1>4. QED
  BY <1>1, <1>2, <1>3 DEF Contract!Refuse, Status

(* The other steps are invisible.                                          *)
LEMMA OthersUnseen ==
  ASSUME \/ ApplicableCoin \/ LargerCoin \/ SortApplicable
         \/ NewRepetition \/ PassOver \/ IncludeCoin \/ ReachGoal \/ EndPass
         \/ EndFirstCall \/ EndSecondCall \/ UNCHANGED vars
  PROVE  UNCHANGED Contract!vars
<1>1. UNCHANGED <<utxos, n_target, select_value, utxo_fee>>
  BY DEF ApplicableCoin, LargerCoin, SortApplicable, NewRepetition, PassOver, IncludeCoin,
         ReachGoal, EndPass, EndFirstCall, EndSecondCall, vars, input, output
<1>2. \/ pc \notin {"done", "throw"} /\ pc' \notin {"done", "throw"}
      \/ pc' = pc
  BY DEF ApplicableCoin, LargerCoin, SortApplicable, NewRepetition, PassOver, IncludeCoin,
         ReachGoal, EndPass, EndFirstCall, EndSecondCall, vars, Scanning, Scanned, Between,
         InPass
<1>3. Status' = Status
  <2>1. CASE pc \notin {"done", "throw"} /\ pc' \notin {"done", "throw"}
    BY <2>1, StatusOf
  <2>2. CASE pc' = pc
    BY <2>2 DEF Status
  <2>3. QED
    BY <1>2, <2>1, <2>2
<1>4. QED
  BY <1>1, <1>3 DEF Contract!vars, Status

LEMMA NextContract == IInv /\ [Next]_vars => [Contract!Next]_(Contract!vars)
<1> SUFFICES ASSUME IInv, [Next]_vars PROVE [Contract!Next]_(Contract!vars)
  OBVIOUS
<1>1. CASE ExactCoin \/ AllApplicable \/ OnlyLarger \/ TakeLarger \/ TakeSubset
  BY <1>1, ReturnsPay, PayingAnswers DEF Contract!Next
<1>2. CASE InsufficientFunds
  BY <1>2, FundsRefuse DEF Contract!Next
<1>3. CASE \/ ApplicableCoin \/ LargerCoin \/ SortApplicable
           \/ NewRepetition \/ PassOver \/ IncludeCoin \/ ReachGoal \/ EndPass
           \/ EndFirstCall \/ EndSecondCall \/ UNCHANGED vars
  BY <1>3, OthersUnseen
<1>4. QED
  BY <1>1, <1>2, <1>3 DEF Next, Stopped

(* The solver keeps the contract of a selection: one answer, worth what is *)
(* needed, with the sums over exactly the coins returned; it refuses only  *)
(* a pool that is worth too little.                                        *)
THEOREM ContractKept == Spec => KeepsContract
<1>1. Init => Contract!Init
  BY InitContract
<1>2. IInv /\ [Next]_vars => [Contract!Next]_(Contract!vars)
  BY NextContract
<1>3. QED
  BY <1>1, <1>2, AlwaysGood, PTL DEF Spec, KeepsContract, Contract!Spec
=============================================================================
