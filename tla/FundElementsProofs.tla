------------------------- MODULE FundElementsProofs -------------------------
(***************************************************************************)
(* Proofs about FundElements, for all requests, wallets and listed inputs  *)
(* and any number of assets.  The invariant says, point by point of the    *)
(* call, what its maps stand for: amount_map for the coins selected,       *)
(* diff_amount_map for what they exceed the outputs by, appended for the   *)
(* change, diff_amount for what is left of the fee asset.  None of it      *)
(* rests on the promise that SelectCoins pays: the call compares every     *)
(* amount again.                                                           *)
(***************************************************************************)
EXTENDS FundElements, SumsProofs, FiniteSetTheorems, TLAPS

(* The terms of the invariant, of a request r, a wallet w and a selection. *)
TargetsOf(r) == IF r.targets = NoAmounts THEN r.tx_amount ELSE r.targets
Goal(r, a)   == Greater(At(r.tx_amount, a), At(TargetsOf(r), a))
ForFee(r, a) == r.rate > 0 /\ a = r.fee_asset
AskedOf(r)   == DOMAIN TargetsOf(r) \cup (IF r.rate > 0 THEN {r.fee_asset} ELSE {})

Amounts(w, a)  == [k \in 1 .. Len(w) |-> IF w[k].asset = a THEN w[k].amount ELSE 0]
Total(w, sel, a) == SelSum(Amounts(w, a), sel)

(* The fee asset is known where fees are paid.                             *)
FeeAssetKnown(r) == r.rate > 0 => r.fee_asset \in Assets

(* amount_map is what the selected coins amount to, of the assets asked    *)
(* for, which are finitely many.                                           *)
Gathered(r, w, sel, map) ==
  /\ AskedOf(r) \subseteq Assets /\ IsFiniteSet(AskedOf(r))
  /\ map = [a \in AskedOf(r) |-> Total(w, sel, a)]

Above(r, map) == {a \in AskedOf(r) : ~ForFee(r, a) /\ map[a] > Goal(r, a)}
Enough(r, map) == \A a \in AskedOf(r) : map[a] >= Goal(r, a)

(* Once compared, amounts suffice, with the fee in that of the fee asset.  *)
Compared(r, map, diff, count, f) ==
  /\ Enough(r, map)
  /\ \A a \in AskedOf(r) : ForFee(r, a) => map[a] >= Goal(r, a) + f
  /\ diff = [a \in AskedOf(r) |->
               IF ForFee(r, a) \/ map[a] > Goal(r, a) THEN map[a] - Goal(r, a)
               ELSE map[a]]
  /\ count = Cardinality(Above(r, map))

(* What is appended is at least the excess of every asset but the fee's.   *)
Returned(r, map, app) ==
  /\ Enough(r, map)
  /\ DOMAIN app \subseteq AskedOf(r)
  /\ app \in [DOMAIN app -> Nat]
  /\ \A a \in DOMAIN app : ~ForFee(r, a)
  /\ \A a \in Above(r, map) : a \in DOMAIN app /\ app[a] >= map[a] - Goal(r, a)

(* What is left of the fee asset, and pays the fee.                        *)
FeeIsLeft(r, w, sel, diff, f) ==
  diff = Total(w, sel, r.fee_asset) - Goal(r, r.fee_asset) /\ diff >= f

AtEveryPoint ==
  /\ pc \notin {"start", "throw"} => FeeAssetKnown(request)
  /\ pc \in {"check", "append", "estimate", "reselect", "change"} =>
       Gathered(request, utxos, selected_coins, amount_map)
  /\ pc \in {"append", "estimate", "reselect"} =>
       Compared(request, amount_map, diff_amount_map, append_txout_count, fee)
  /\ pc \in {"estimate", "reselect", "change"} =>
       request.rate > 0 /\ Returned(request, amount_map, appended)
  /\ pc = "change" => FeeIsLeft(request, utxos, lbtc_selected_coins, diff_amount, fee)
  /\ pc # "done" => fee_satoshi = 0

(* What holds of the finished transaction, in the same terms.              *)
InputsOf(r, w, sel, lsel) ==
  [k \in 1 .. Len(w) |-> IF ForFee(r, w[k].asset) THEN lsel[k] ELSE sel[k]]

Settled(r, w, ins, map, app, paid) ==
  /\ \A a \in DOMAIN map :
       /\ Total(w, ins, a) >= Goal(r, a) + (IF ForFee(r, a) THEN paid ELSE 0)
       /\ Goal(r, a) + At(app, a) + (IF ForFee(r, a) THEN paid ELSE 0) >= Total(w, ins, a)
  /\ r.rate > 0 /\ r.fee_asset \notin DOMAIN app =>
       Total(w, ins, r.fee_asset) = Goal(r, r.fee_asset) + At(app, r.fee_asset) + paid

IInv == TypeOK /\ AtEveryPoint /\ InputsCoverOutputs /\ NothingIsLost /\ ChangelessBalances

-----------------------------------------------------------------------------
LEMMA ElementsOfSeq ==
  ASSUME NEW S, NEW s \in Seq(S)
  PROVE  Len(s) \in Nat /\ \A k \in 1 .. Len(s) : s[k] \in S
  OBVIOUS

(* The inputs of the call are well-formed.                                 *)
LEMMA InputTypes ==
  ASSUME NEW r \in Requests, NEW w \in Wallets
  PROVE  /\ IsRequest(r)
         /\ Len(w) \in Nat
         /\ \A k \in 1 .. Len(w) : /\ w[k].asset \in Assets
                                   /\ w[k].amount \in Nat
                                   /\ w[k].size \in Nat
<1>1. w \in Seq([asset : Assets, amount : Nat, size : Nat])
  BY WalletsAssumption
<1>2. Len(w) \in Nat /\ \A k \in 1 .. Len(w) : w[k] \in [asset : Assets, amount : Nat, size : Nat]
  BY <1>1, ElementsOfSeq
<1>3. QED
  BY <1>2, RequestsAssumption

LEMMA TotalNat ==
  ASSUME NEW w \in Wallets, NEW sel \in [1 .. Len(w) -> BOOLEAN], NEW a,
         NEW r \in Requests
  PROVE  Total(w, sel, a) \in Nat
<1> DEFINE n == Len(w)
           f == Amounts(w, a)
<1>1. n \in Nat /\ sel \in FlagLists(n) /\ \A k \in 1 .. n : f[k] \in Nat
  BY InputTypes DEF FlagLists, Amounts
<1> HIDE DEF n, f
<1>2. SelSum(f, sel) \in Nat
  BY <1>1, SelSumNat
<1>3. QED
  BY <1>2 DEF Total, f

(* What is wanted is the same with the targets given as with those that    *)
(* stand for none.                                                         *)
LEMMA GoalIsWanted ==
  ASSUME NEW r \in Requests, NEW w \in Wallets, NEW a
  PROVE  /\ Goal(r, a) \in Nat
         /\ Goal(r, a) = Greater(At(r.tx_amount, a), At(r.targets, a))
<1>1. /\ r.targets \in [DOMAIN r.targets -> Nat]
      /\ r.tx_amount \in [DOMAIN r.tx_amount -> Nat]
  BY InputTypes DEF IsRequest
<1>2. At(r.tx_amount, a) \in Nat /\ At(r.targets, a) \in Nat
  BY <1>1 DEF At
<1>3. At(NoAmounts, a) = 0
  BY DEF At, NoAmounts
<1>4. QED
  BY <1>2, <1>3 DEF Goal, TargetsOf, Greater

(* The total of an asset is about the flags on its coins only.             *)
LEMMA TotalOfInputs ==
  ASSUME NEW r \in Requests, NEW w \in Wallets,
         NEW sel \in [1 .. Len(w) -> BOOLEAN], NEW lsel \in [1 .. Len(w) -> BOOLEAN], NEW a
  PROVE  Total(w, InputsOf(r, w, sel, lsel), a)
           = IF ForFee(r, a) THEN Total(w, lsel, a) ELSE Total(w, sel, a)
<1> DEFINE n == Len(w)
           ins == InputsOf(r, w, sel, lsel)
           f == Amounts(w, a)
           s == IF ForFee(r, a) THEN lsel ELSE sel
<1>1. n \in Nat /\ ins \in FlagLists(n) /\ s \in FlagLists(n)
  BY InputTypes DEF FlagLists, InputsOf
<1>2. Len(ins) = n /\ Len(s) = n
  BY <1>1, FlagsLen
<1>3. ASSUME NEW k \in 1 .. n
      PROVE  (IF ins[k] THEN f[k] ELSE 0) = (IF s[k] THEN f[k] ELSE 0)
  <2>1. CASE w[k].asset = a
    BY <2>1 DEF InputsOf
  <2>2. CASE w[k].asset # a
    <3>1. f[k] = 0
      BY <2>2 DEF Amounts
    <3>2. QED
      BY <3>1
  <2>3. QED
    BY <2>1, <2>2
<1> HIDE DEF n, f, s, ins
<1>4. Masked(f, ins) = Masked(f, s)
  BY <1>2, <1>3 DEF Masked
<1>5. SelSum(f, ins) = SelSum(f, s)
  BY <1>2, <1>4 DEF SelSum
<1>6. QED
  BY <1>5 DEF Total, f, s, ins

-----------------------------------------------------------------------------
(* Fees are amounts.                                                       *)
LEMMA GetFeeNat ==
  ASSUME NEW rate \in Nat, NEW size \in Nat
  PROVE  GetFee(rate, size) \in Nat
<1>1. StoredRate(rate) \in Nat
  BY RateLimitAssumption DEF StoredRate
<1>2. StoredRate(rate) * size \in Nat
  BY <1>1
<1>3. (StoredRate(rate) * size) \div 1000 \in Nat
  BY <1>2
<1>4. QED
  BY <1>3 DEF GetFee, kKiloByteSize

LEMMA SizesNat ==
  ASSUME request \in Requests, utxos \in Wallets, selected_txin_utxos \in Listed
  PROVE  /\ ListedSize \in Nat
         /\ \A sel \in [Coins -> BOOLEAN] : SizeOf(sel) \in Nat
<1>1. ListedSize \in Nat
  <2> DEFINE f == [k \in 1 .. Len(selected_txin_utxos) |-> selected_txin_utxos[k].size]
             n == Len(selected_txin_utxos)
  <2>1. selected_txin_utxos \in Seq([asset : Assets, amount : Nat, size : Nat, in_tx : BOOLEAN])
    BY ListedAssumption
  <2>2. /\ n \in Nat
        /\ \A k \in 1 .. n : selected_txin_utxos[k] \in
             [asset : Assets, amount : Nat, size : Nat, in_tx : BOOLEAN]
    BY <2>1, ElementsOfSeq
  <2>3. n <= n /\ \A k \in 1 .. n : f[k] \in Nat
    BY <2>2
  <2> HIDE DEF f, n
  <2>4. SumTo(f, n) \in Nat
    BY <2>2, <2>3, SumToGrows
  <2>5. QED
    BY <2>4 DEF ListedSize, f, n
<1>2. ASSUME NEW sel \in [Coins -> BOOLEAN] PROVE SizeOf(sel) \in Nat
  <2> DEFINE f == [k \in Coins |-> utxos[k].size]
             n == Len(utxos)
  <2>1. n \in Nat /\ sel \in FlagLists(n) /\ \A k \in 1 .. n : sel[k] => f[k] \in Nat
    BY InputTypes DEF FlagLists, Coins
  <2> HIDE DEF f, n
  <2>2. SelSum(f, sel) \in Nat
    BY <2>1, SelSumNat
  <2>3. QED
    BY <2>2 DEF SizeOf, f
<1>3. QED
  BY <1>1, <1>2

LEMMA EstimateNat ==
  ASSUME request \in Requests, utxos \in Wallets, selected_txin_utxos \in Listed,
         NEW outputs \in Nat, NEW size \in Nat
  PROVE  EstimateFee(outputs, size) \in Nat
<1>1. request.rate \in Nat /\ request.tx_size \in Nat /\ ListedSize \in Nat
  BY InputTypes, SizesNat DEF IsRequest
<1>2. request.tx_size + ChangeSize * outputs \in Nat /\ ListedSize + size \in Nat
  BY <1>1, ChangeSizeAssumption
<1>3. /\ GetFee(request.rate, request.tx_size + ChangeSize * outputs) \in Nat
      /\ GetFee(request.rate, ListedSize + size) \in Nat
  BY <1>1, <1>2, GetFeeNat
<1>4. QED
  BY <1>3 DEF EstimateFee

-----------------------------------------------------------------------------
(* The calls of SelectCoins.                                               *)
LEMMA CallFields ==
  ASSUME utxos \in Wallets, request \in Requests, NEW t, NEW f
  PROVE  /\ Promise!Coins(Call(t, f)) = Coins
         /\ \A k \in Coins : Call(t, f).coins[k].asset = utxos[k].asset
         /\ Call(t, f).single = FALSE
         /\ Promise!Asked(Call(t, f))
              = DOMAIN t \cup (IF request.rate > 0 THEN {request.fee_asset} ELSE {})
<1> DEFINE c == Call(t, f)
           cs == c.coins
           r(k) == [asset |-> utxos[k].asset, amount |-> utxos[k].amount,
                    spend |-> SpendFee(k)]
           S == {r(k) : k \in Coins}
<1>1. /\ cs = [k \in Coins |-> r(k)]
      /\ c.single = FALSE /\ c.targets = t
      /\ c.payers = IF use_fee THEN {request.fee_asset} ELSE {}
  BY DEF Call
<1>2. \A k \in Coins : r(k).asset = utxos[k].asset
  OBVIOUS
<1>3. Len(utxos) \in Nat /\ cs \in [1 .. Len(utxos) -> S]
  BY <1>1, InputTypes DEF Coins
<1>4. Promise!Asked(c) = DOMAIN t \cup (IF request.rate > 0 THEN {request.fee_asset} ELSE {})
  BY <1>1 DEF Promise!Asked, use_fee
<1> HIDE DEF cs, r, S
<1>5. Len(cs) = Len(utxos)
  BY <1>3
<1>6. Promise!Coins(c) = Coins
  BY <1>5 DEF Promise!Coins, Coins, cs
<1>7. \A k \in Coins : cs[k].asset = utxos[k].asset
  BY <1>1, <1>2
<1>8. QED
  BY <1>1, <1>4, <1>6, <1>7 DEF cs

LEMMA AnswerIsSelection ==
  ASSUME utxos \in Wallets, request \in Requests, NEW t, NEW f,
         NEW sel \in Promise!Answers(Call(t, f))
  PROVE  sel \in [1 .. Len(utxos) -> BOOLEAN]
  BY CallFields DEF Promise!Answers, Promise!Selections, Coins

(* An asset asked for is that of a coin: the assets are finitely many.     *)
LEMMA AskedIsFinite ==
  ASSUME utxos \in Wallets, request \in Requests, FeeAssetKnown(request), NEW f,
         ~Promise!Malformed(Call(target_values, f))
  PROVE  /\ Promise!Asked(Call(target_values, f)) = AskedOf(request)
         /\ AskedOf(request) \subseteq Assets
         /\ IsFiniteSet(AskedOf(request))
<1> DEFINE c == Call(target_values, f)
           A == AskedOf(request)
           n == Len(utxos)
<1>1. Promise!Asked(c) = A
  BY CallFields DEF AskedOf, TargetsOf, target_values
<1>2. A \subseteq Assets
  <2>1. DOMAIN request.targets \subseteq Assets /\ DOMAIN request.tx_amount \subseteq Assets
    BY InputTypes DEF IsRequest
  <2>2. QED
    BY <2>1 DEF AskedOf, TargetsOf, FeeAssetKnown
<1>3. \A a \in A : \E k \in 1 .. n : utxos[k].asset = a
  <2>1. \A a \in A : Promise!CoinsOf(c, a) # {}
    BY <1>1, CallFields DEF Promise!Malformed
  <2>2. ASSUME NEW a PROVE Promise!CoinsOf(c, a) = {k \in Coins : utxos[k].asset = a}
    <3>1. /\ Promise!Coins(c) = Coins /\ c.single = FALSE
          /\ \A k \in Coins : c.coins[k].asset = utxos[k].asset
      BY CallFields
    <3> HIDE DEF c
    <3>2. QED
      BY <3>1 DEF Promise!CoinsOf
  <2>3. QED
    BY <2>1, <2>2 DEF Coins
<1>4. IsFiniteSet(A)
  <2> DEFINE first == [a \in A |-> CHOOSE k \in 1 .. n : utxos[k].asset = a]
  <2>1. \A a \in A : first[a] \in 1 .. n /\ utxos[first[a]].asset = a
    BY <1>3
  <2> HIDE DEF A, c
  <2>2. first \in [A -> 1 .. n]
    BY <2>1
  <2>3. \A a, b \in A : first[a] = first[b] => a = b
    BY <2>1
  <2> HIDE DEF first
  <2>4. first \in Injection(A, 1 .. n)
    BY <2>2, <2>3 DEF Injection, IsInjective
  <2>5. n \in Int
    BY InputTypes
  <2>6. IsFiniteSet(1 .. n)
    BY <2>5, FS_Interval
  <2>7. QED
    BY <2>4, <2>6, FS_Injection
<1>5. QED
  BY <1>1, <1>2, <1>4
-----------------------------------------------------------------------------
(* The operators of the call in the terms of the invariant.                *)
LEMMA Terms ==
  /\ \A a : DestAmount(a) = Goal(request, a)
  /\ \A a : IsFeeAsset(a) = ForFee(request, a)
  /\ \A sel, a : AmountOf(sel, a) = Total(utxos, sel, a)
  /\ use_fee = (request.rate > 0)
  BY DEF DestAmount, target_values, Goal, TargetsOf, IsFeeAsset, ForFee, use_fee,
         AmountOf, Total, Amounts, Coins

(* What is settled is what the properties ask for.                         *)
LEMMA SettledIsCorrect ==
  ASSUME request' \in Requests, utxos' \in Wallets,
         Settled(request', utxos', InputsOf(request', utxos', selected_coins', lbtc_selected_coins'),
                 amount_map', appended', fee_satoshi')
  PROVE  InputsCoverOutputs' /\ NothingIsLost' /\ ChangelessBalances'
<1> DEFINE ins == InputsOf(request', utxos', selected_coins', lbtc_selected_coins')
<1>1. \A a : Wanted(a)' = Goal(request', a)
  BY GoalIsWanted DEF Wanted
<1>2. \A a : IsFeeAsset(a)' = ForFee(request', a)
  BY DEF IsFeeAsset, use_fee, ForFee
<1>3. Inputs' = ins
  BY DEF Inputs, InputsOf, IsFeeAsset, use_fee, ForFee, Coins
<1>4. \A a : AmountOf(Inputs, a)' = Total(utxos', ins, a)
  BY <1>3 DEF AmountOf, Total, Amounts, Coins
<1>5. \A a : Outputs(a)' = Goal(request', a) + At(appended', a)
                              + (IF ForFee(request', a) THEN fee_satoshi' ELSE 0)
  BY <1>1, <1>2 DEF Outputs, At
<1>6. use_fee' = (request'.rate > 0)
  BY DEF use_fee
<1> HIDE DEF ins
<1>7. InputsCoverOutputs'
  BY <1>1, <1>2, <1>4 DEF InputsCoverOutputs, Settled, ins
<1>8. NothingIsLost'
  BY <1>4, <1>5 DEF NothingIsLost, Settled, ins
<1>9. ChangelessBalances'
  <2>1. ASSUME request'.rate > 0, request'.fee_asset \notin DOMAIN appended'
        PROVE  AmountOf(Inputs, request.fee_asset)' = Outputs(request.fee_asset)'
    <3>1. ForFee(request', request'.fee_asset)
      BY <2>1 DEF ForFee
    <3>2. Outputs(request.fee_asset)' = Goal(request', request'.fee_asset)
            + At(appended', request'.fee_asset) + fee_satoshi'
      BY <1>5, <3>1
    <3>3. QED
      BY <1>4, <2>1, <3>2 DEF Settled, ins
  <2>2. QED
    BY <1>6, <2>1 DEF ChangelessBalances
<1>10. QED
  BY <1>7, <1>8, <1>9

(* A call that is not done owes nothing yet.                               *)
LEMMA OwesNothingYet ==
  ASSUME pc' # "done"
  PROVE  InputsCoverOutputs' /\ NothingIsLost' /\ ChangelessBalances'
  BY DEF InputsCoverOutputs, NothingIsLost, ChangelessBalances

-----------------------------------------------------------------------------
LEMMA Starts == Init => IInv
<1> SUFFICES ASSUME Init PROVE IInv
  OBVIOUS
<1>1. /\ pc = "start" /\ request \in Requests /\ utxos \in Wallets
      /\ selected_txin_utxos \in Listed
      /\ fee = 0 /\ new_fee = 0 /\ diff_amount = 0 /\ fee_satoshi = 0
      /\ append_txout_count = 0
      /\ selected_coins = [k \in Coins |-> FALSE]
      /\ lbtc_selected_coins = [k \in Coins |-> FALSE]
      /\ amount_map = NoAmounts /\ diff_amount_map = NoAmounts /\ appended = NoAmounts
  BY DEF Init
<1>2. NoAmounts \in [DOMAIN NoAmounts -> Nat] /\ DOMAIN NoAmounts \subseteq Assets
  BY DEF NoAmounts
<1>3. TypeOK
  BY <1>1, <1>2 DEF TypeOK
<1>4. AtEveryPoint
  BY <1>1 DEF AtEveryPoint
<1>5. InputsCoverOutputs /\ NothingIsLost /\ ChangelessBalances
  BY <1>1 DEF InputsCoverOutputs, NothingIsLost, ChangelessBalances
<1>6. QED
  BY <1>3, <1>4, <1>5 DEF IInv

LEMMA Throws ==
  ASSUME IInv,
         \/ RejectFeeAsset \/ SelectThrows \/ LowAsset \/ AppendThrows
         \/ ReselectThrows \/ NoFeeAddress
  PROVE  IInv'
<1>1. /\ pc' = "throw" /\ pc # "done"
      /\ UNCHANGED <<input, fee, selected_coins, amounts, appended, feeParts>>
  BY DEF RejectFeeAsset, SelectThrows, LowAsset, AppendThrows, ReselectThrows, NoFeeAddress
<1>2. UNCHANGED <<request, utxos, selected_txin_utxos, fee, selected_coins, amount_map,
                  diff_amount_map, append_txout_count, appended, new_fee,
                  lbtc_selected_coins, diff_amount, fee_satoshi>>
  BY <1>1 DEF input, amounts, feeParts
<1>3. TypeOK'
  BY <1>1, <1>2 DEF IInv, TypeOK, Coins
<1>4. AtEveryPoint'
  BY <1>1, <1>2 DEF IInv, AtEveryPoint
<1>5. QED
  BY <1>1, <1>3, <1>4, OwesNothingYet DEF IInv

LEMMA Prepares ==
  ASSUME IInv, Prepare
  PROVE  IInv'
<1>1. /\ pc = "start" /\ pc' = "select" /\ ~(use_fee /\ WrongFeeAsset)
      /\ fee' = IF use_fee THEN EstimateFee(0, 0) ELSE 0
      /\ UNCHANGED <<request, utxos, selected_txin_utxos, selected_coins, amount_map,
                     diff_amount_map, append_txout_count, appended, new_fee,
                     lbtc_selected_coins, diff_amount, fee_satoshi>>
  BY DEF Prepare, input, amounts, feeParts
<1>2. request \in Requests /\ utxos \in Wallets /\ selected_txin_utxos \in Listed
  BY DEF IInv, TypeOK
<1>3. fee' \in Nat
  BY <1>1, <1>2, EstimateNat
<1>4. TypeOK'
  BY <1>1, <1>3 DEF IInv, TypeOK, Coins
<1>5. FeeAssetKnown(request)
  BY <1>1, <1>2, InputTypes DEF FeeAssetKnown, WrongFeeAsset, use_fee, IsRequest
<1>6. AtEveryPoint'
  BY <1>1, <1>5 DEF IInv, AtEveryPoint
<1>7. QED
  BY <1>1, <1>4, <1>6, OwesNothingYet DEF IInv

LEMMA Selects ==
  ASSUME IInv, SelectCoins
  PROVE  IInv'
<1> DEFINE c == Call(target_values, fee)
<1>1. /\ pc = "select" /\ pc' = "check"
      /\ ~Promise!Malformed(c)
      /\ selected_coins' \in Promise!Answers(c)
      /\ amount_map' = [a \in Promise!Asked(c) |-> AmountOf(selected_coins', a)]
      /\ UNCHANGED <<request, utxos, selected_txin_utxos, fee, diff_amount_map,
                     append_txout_count, appended, new_fee, lbtc_selected_coins,
                     diff_amount, fee_satoshi>>
  BY DEF SelectCoins, input, feeParts
<1>2. request \in Requests /\ utxos \in Wallets /\ FeeAssetKnown(request)
  BY <1>1 DEF IInv, TypeOK, AtEveryPoint
<1>3. selected_coins' \in [1 .. Len(utxos) -> BOOLEAN]
  BY <1>1, <1>2, AnswerIsSelection
<1>4. /\ Promise!Asked(c) = AskedOf(request)
      /\ AskedOf(request) \subseteq Assets /\ IsFiniteSet(AskedOf(request))
  BY <1>1, <1>2, AskedIsFinite
<1> HIDE DEF c
<1>5. amount_map' = [a \in AskedOf(request) |-> Total(utxos, selected_coins', a)]
  BY <1>1, <1>4, Terms
<1>6. amount_map' \in [DOMAIN amount_map' -> Nat]
  <2>1. \A a \in AskedOf(request) : Total(utxos, selected_coins', a) \in Nat
    BY <1>2, <1>3, TotalNat
  <2>2. QED
    BY <1>5, <2>1
<1>7. TypeOK'
  BY <1>1, <1>3, <1>6 DEF IInv, TypeOK, Coins
<1>8. AtEveryPoint'
  BY <1>1, <1>4, <1>5 DEF IInv, AtEveryPoint, Gathered
<1>9. QED
  BY <1>1, <1>7, <1>8, OwesNothingYet DEF IInv
LEMMA Compares ==
  ASSUME IInv, CheckAmounts
  PROVE  IInv'
<1> DEFINE A == AskedOf(request)
           G(a) == Goal(request, a)
<1>1. /\ pc = "check" /\ pc' = "append"
      /\ \A a \in DOMAIN amount_map : amount_map[a] >= NeedAmount(a)
      /\ diff_amount_map' = [a \in DOMAIN amount_map |->
           IF IsFeeAsset(a) \/ a \in Exceeding THEN amount_map[a] - DestAmount(a)
           ELSE amount_map[a]]
      /\ append_txout_count' = Cardinality(Exceeding)
      /\ UNCHANGED <<request, utxos, selected_txin_utxos, fee, selected_coins, amount_map,
                     appended, new_fee, lbtc_selected_coins, diff_amount, fee_satoshi>>
  BY DEF CheckAmounts, input, feeParts
<1>2. /\ request \in Requests /\ utxos \in Wallets /\ fee \in Nat
      /\ amount_map \in [DOMAIN amount_map -> Nat]
      /\ Gathered(request, utxos, selected_coins, amount_map)
      /\ FeeAssetKnown(request)
  BY <1>1 DEF IInv, TypeOK, AtEveryPoint
<1>3. DOMAIN amount_map = A /\ IsFiniteSet(A) /\ A \subseteq Assets
  BY <1>2 DEF Gathered
<1>4. \A a \in A : amount_map[a] \in Nat /\ G(a) \in Nat
  BY <1>2, <1>3, GoalIsWanted
<1>5. Exceeding = Above(request, amount_map)
  BY <1>3, Terms DEF Exceeding, Above
<1>6. \A a \in A : /\ amount_map[a] >= G(a)
                   /\ ForFee(request, a) => amount_map[a] >= G(a) + fee
  <2>1. \A a \in A : amount_map[a] >= G(a) + (IF ForFee(request, a) THEN fee ELSE 0)
    BY <1>1, <1>3, Terms DEF NeedAmount
  <2> HIDE DEF A, G
  <2>2. QED
    BY <1>2, <1>4, <2>1
<1>7. \A a \in A : (IsFeeAsset(a) \/ a \in Exceeding) = (ForFee(request, a) \/ amount_map[a] > G(a))
  BY <1>5, Terms DEF Above
<1>8. diff_amount_map' = [a \in A |-> IF ForFee(request, a) \/ amount_map[a] > G(a)
                                      THEN amount_map[a] - G(a) ELSE amount_map[a]]
  BY <1>1, <1>3, <1>7, Terms
<1>9. Compared(request, amount_map, diff_amount_map', append_txout_count', fee)
  BY <1>1, <1>5, <1>6, <1>8 DEF Compared, Enough
<1>10. diff_amount_map' \in [DOMAIN diff_amount_map' -> Nat]
  <2> HIDE DEF A, G
  <2>1. \A a \in A : diff_amount_map'[a] \in Nat
    BY <1>4, <1>6, <1>8
  <2>2. QED
    BY <1>8, <2>1
<1>11. append_txout_count' \in Nat
  <2>1. IsFiniteSet(Exceeding)
    <3>1. Exceeding \in SUBSET A
      BY <1>5 DEF Above
    <3>2. QED
      BY <1>3, <3>1, FS_Subset
  <2>2. QED
    BY <1>1, <2>1, FS_CardinalityType
<1>12. TypeOK'
  BY <1>1, <1>10, <1>11 DEF IInv, TypeOK, Coins
<1>13. AtEveryPoint'
  BY <1>1, <1>2, <1>9 DEF IInv, AtEveryPoint
<1>14. QED
  BY <1>1, <1>12, <1>13, OwesNothingYet DEF IInv

(* What has been gathered and appended settles all assets but the fee's.   *)
LEMMA OthersAreSettled ==
  ASSUME NEW r \in Requests, NEW w \in Wallets,
         NEW sel \in [1 .. Len(w) -> BOOLEAN], NEW lsel \in [1 .. Len(w) -> BOOLEAN],
         NEW map, NEW app, Gathered(r, w, sel, map), Returned(r, map, app),
         NEW a \in AskedOf(r), ~ForFee(r, a)
  PROVE  /\ Total(w, InputsOf(r, w, sel, lsel), a) >= Goal(r, a)
         /\ Goal(r, a) + At(app, a) >= Total(w, InputsOf(r, w, sel, lsel), a)
<1>1. Total(w, InputsOf(r, w, sel, lsel), a) = map[a]
  BY TotalOfInputs DEF Gathered
<1>2. map[a] \in Nat /\ Goal(r, a) \in Nat
  BY GoalIsWanted, TotalNat DEF Gathered
<1>3. map[a] >= Goal(r, a)
  BY DEF Returned, Enough
<1>4. At(app, a) \in Nat
  BY DEF At, Returned
<1>5. map[a] > Goal(r, a) => At(app, a) >= map[a] - Goal(r, a)
  BY DEF Returned, Above, At
<1>6. QED
  BY <1>1, <1>2, <1>3, <1>4, <1>5

LEMMA Appends ==
  ASSUME IInv, AppendOutputs
  PROVE  IInv'
<1> DEFINE A == AskedOf(request)
           G(a) == Goal(request, a)
<1>1. /\ pc = "append" /\ pc' = IF use_fee THEN "estimate" ELSE "done"
      /\ appended' = [a \in Appendable |-> diff_amount_map[a]]
      /\ UNCHANGED <<request, utxos, selected_txin_utxos, fee, selected_coins, amount_map,
                     diff_amount_map, append_txout_count, new_fee, lbtc_selected_coins,
                     diff_amount, fee_satoshi>>
  BY DEF AppendOutputs, input, amounts, feeParts
<1>2. /\ request \in Requests /\ utxos \in Wallets /\ fee \in Nat
      /\ selected_coins \in [1 .. Len(utxos) -> BOOLEAN]
      /\ lbtc_selected_coins \in [1 .. Len(utxos) -> BOOLEAN]
      /\ amount_map \in [DOMAIN amount_map -> Nat]
      /\ diff_amount_map \in [DOMAIN diff_amount_map -> Nat]
      /\ Gathered(request, utxos, selected_coins, amount_map)
      /\ Compared(request, amount_map, diff_amount_map, append_txout_count, fee)
      /\ FeeAssetKnown(request) /\ fee_satoshi = 0
  BY <1>1 DEF IInv, TypeOK, AtEveryPoint, Coins
<1>3. /\ DOMAIN amount_map = A /\ IsFiniteSet(A) /\ A \subseteq Assets
      /\ DOMAIN diff_amount_map = A
      /\ \A a \in A : amount_map[a] > G(a) => diff_amount_map[a] = amount_map[a] - G(a)
  BY <1>2 DEF Gathered, Compared
<1>4. \A a \in A : amount_map[a] \in Nat /\ G(a) \in Nat /\ diff_amount_map[a] \in Nat
  BY <1>2, <1>3, GoalIsWanted
<1>5. Appendable \subseteq A /\ \A a \in Appendable : ~ForFee(request, a)
  BY <1>3, Terms DEF Appendable
<1>6. Above(request, amount_map) \subseteq Appendable
  <2>1. SUFFICES ASSUME NEW a \in Above(request, amount_map) PROVE a \in Appendable
    OBVIOUS
  <2>2. a \in A /\ ~ForFee(request, a) /\ amount_map[a] > G(a)
    BY <2>1 DEF Above
  <2>3. diff_amount_map[a] > 0
    <3>1. /\ diff_amount_map[a] = amount_map[a] - G(a) /\ amount_map[a] \in Nat /\ G(a) \in Nat
          /\ amount_map[a] > G(a)
      BY <1>3, <1>4, <2>2
    <3> HIDE DEF G
    <3>2. QED
      BY <3>1
  <2>4. append_txout_count # 0
    <3>1. Above(request, amount_map) \in SUBSET A
      BY DEF Above
    <3>2. IsFiniteSet(Above(request, amount_map))
      BY <1>3, <3>1, FS_Subset
    <3>3. Cardinality(Above(request, amount_map)) # 0
      BY <2>1, <3>2, FS_EmptySet
    <3>4. QED
      BY <1>2, <3>3 DEF Compared
  <2>5. QED
    BY <1>3, <2>2, <2>3, <2>4, Terms DEF Appendable
<1>7. appended' \in [DOMAIN appended' -> Nat] /\ DOMAIN appended' = Appendable
  BY <1>1, <1>4, <1>5
<1>8. Returned(request, amount_map, appended')
  <2>1. \A a \in Above(request, amount_map) : appended'[a] >= amount_map[a] - G(a)
    <3>1. SUFFICES ASSUME NEW a \in Above(request, amount_map)
                   PROVE  appended'[a] >= amount_map[a] - G(a)
      OBVIOUS
    <3>2. /\ appended'[a] = diff_amount_map[a] /\ diff_amount_map[a] = amount_map[a] - G(a)
          /\ diff_amount_map[a] \in Nat
      BY <1>1, <1>3, <1>4, <1>6 DEF Above
    <3>3. QED
      BY <3>2
  <2>2. QED
    BY <1>2, <1>5, <1>6, <1>7, <2>1 DEF Returned, Compared
<1>9. TypeOK'
  BY <1>1, <1>3, <1>5, <1>7 DEF IInv, TypeOK, Coins
<1>10. CASE use_fee
  <2>1. pc' = "estimate" /\ request.rate > 0
    BY <1>1, <1>10, Terms
  <2>2. AtEveryPoint'
    BY <1>1, <1>2, <1>8, <2>1 DEF AtEveryPoint
  <2>3. QED
    BY <1>9, <2>1, <2>2, OwesNothingYet DEF IInv
<1>11. CASE ~use_fee
  <2> DEFINE ins == InputsOf(request, utxos, selected_coins, lbtc_selected_coins)
  <2>1. pc' = "done" /\ ~(request.rate > 0) /\ \A a : ~ForFee(request, a)
    BY <1>1, <1>11, Terms DEF ForFee
  <2>2. \A a \in A : /\ Total(utxos, ins, a) >= G(a)
                     /\ G(a) + At(appended', a) >= Total(utxos, ins, a)
    BY <1>2, <1>8, <2>1, OthersAreSettled
  <2>3. \A a \in A : G(a) + 0 = G(a) /\ (G(a) + At(appended', a)) + 0 = G(a) + At(appended', a)
    <3>1. \A a \in A : G(a) \in Nat /\ At(appended', a) \in Nat
      BY <1>4, <1>7 DEF At
    <3> HIDE DEF G
    <3>2. QED
      BY <3>1
  <2>4. Settled(request, utxos, ins, amount_map, appended', fee_satoshi)
    BY <1>3, <2>1, <2>2, <2>3 DEF Settled
  <2>5. InputsCoverOutputs' /\ NothingIsLost' /\ ChangelessBalances'
    BY <1>1, <1>2, <2>4, SettledIsCorrect
  <2>6. AtEveryPoint'
    BY <1>1, <1>2, <2>1 DEF AtEveryPoint
  <2>7. QED
    BY <1>9, <2>5, <2>6 DEF IInv
<1>12. QED
  BY <1>10, <1>11
LEMMA EstimatesAgain ==
  ASSUME IInv, EstimateAgain
  PROVE  IInv'
<1> DEFINE a == request.fee_asset
<1>1. /\ pc = "estimate"
      /\ new_fee' = IF append_txout_count = 0 THEN fee
                    ELSE EstimateFee(Cardinality(DOMAIN appended), SizeOf(selected_coins))
      /\ diff_amount' = diff_amount_map[a]
      /\ lbtc_selected_coins' = selected_coins
      /\ pc' = IF new_fee' > fee + diff_amount' THEN "reselect" ELSE "change"
      /\ UNCHANGED <<request, utxos, selected_txin_utxos, fee, selected_coins, amount_map,
                     diff_amount_map, append_txout_count, appended, fee_satoshi>>
  BY DEF EstimateAgain, input, amounts
<1>2. /\ request \in Requests /\ utxos \in Wallets /\ selected_txin_utxos \in Listed
      /\ fee \in Nat /\ selected_coins \in [1 .. Len(utxos) -> BOOLEAN]
      /\ amount_map \in [DOMAIN amount_map -> Nat]
      /\ diff_amount_map \in [DOMAIN diff_amount_map -> Nat]
      /\ Gathered(request, utxos, selected_coins, amount_map)
      /\ Compared(request, amount_map, diff_amount_map, append_txout_count, fee)
      /\ request.rate > 0 /\ Returned(request, amount_map, appended)
      /\ FeeAssetKnown(request) /\ fee_satoshi = 0
  BY <1>1 DEF IInv, TypeOK, AtEveryPoint, Coins
<1>3. a \in AskedOf(request) /\ ForFee(request, a)
  BY <1>2 DEF AskedOf, ForFee
<1>4. /\ diff_amount' = amount_map[a] - Goal(request, a)
      /\ amount_map[a] >= Goal(request, a) + fee
      /\ amount_map[a] = Total(utxos, selected_coins, a)
      /\ diff_amount' \in Nat
  BY <1>1, <1>2, <1>3 DEF Compared, Gathered
<1>5. amount_map[a] \in Nat /\ Goal(request, a) \in Nat
  BY <1>2, <1>3, GoalIsWanted DEF Gathered
<1>6. FeeIsLeft(request, utxos, selected_coins, diff_amount', fee)
  <2>1. diff_amount' >= fee
    BY <1>2, <1>4, <1>5
  <2>2. QED
    BY <1>4, <2>1 DEF FeeIsLeft
<1>7. new_fee' \in Nat
  <2>1. IsFiniteSet(DOMAIN appended)
    <3>1. DOMAIN appended \in SUBSET AskedOf(request) /\ IsFiniteSet(AskedOf(request))
      BY <1>2 DEF Returned, Gathered
    <3>2. QED
      BY <3>1, FS_Subset
  <2>2. Cardinality(DOMAIN appended) \in Nat /\ SizeOf(selected_coins) \in Nat
    BY <1>2, <2>1, FS_CardinalityType, SizesNat DEF Coins
  <2>3. QED
    BY <1>1, <1>2, <2>2, EstimateNat
<1>8. TypeOK'
  BY <1>1, <1>2, <1>4, <1>7 DEF IInv, TypeOK, Coins
<1>9. AtEveryPoint'
  BY <1>1, <1>2, <1>6 DEF AtEveryPoint
<1>10. QED
  BY <1>1, <1>8, <1>9, OwesNothingYet DEF IInv

LEMMA Reselects ==
  ASSUME IInv, Reselect
  PROVE  IInv'
<1> DEFINE a == request.fee_asset
           selected == AmountOf(lbtc_selected_coins', a)
           dest == DestAmount(a)
<1>1. /\ pc = "reselect"
      /\ lbtc_selected_coins' \in Promise!Answers(Call(FeeTarget, new_fee))
      /\ \/ /\ selected >= dest + new_fee
            /\ diff_amount' = selected - dest /\ fee' = new_fee /\ pc' = "change"
         \/ pc' = "throw" /\ diff_amount' = diff_amount /\ fee' = fee
      /\ UNCHANGED <<request, utxos, selected_txin_utxos, selected_coins, amount_map,
                     diff_amount_map, append_txout_count, appended, new_fee, fee_satoshi>>
  BY DEF Reselect, input, amounts
<1>2. /\ request \in Requests /\ utxos \in Wallets /\ fee \in Nat /\ new_fee \in Nat
      /\ diff_amount \in Nat
      /\ Gathered(request, utxos, selected_coins, amount_map)
      /\ request.rate > 0 /\ Returned(request, amount_map, appended)
      /\ FeeAssetKnown(request) /\ fee_satoshi = 0
  BY <1>1 DEF IInv, TypeOK, AtEveryPoint
<1>3. lbtc_selected_coins' \in [1 .. Len(utxos) -> BOOLEAN]
  BY <1>1, <1>2, AnswerIsSelection
<1>4. /\ selected = Total(utxos, lbtc_selected_coins', a) /\ dest = Goal(request, a)
      /\ selected \in Nat /\ dest \in Nat
  BY <1>2, <1>3, Terms, TotalNat, GoalIsWanted
<1> HIDE DEF selected, dest
<1>5. pc' = "change" => /\ FeeIsLeft(request, utxos, lbtc_selected_coins', diff_amount', fee')
                        /\ diff_amount' \in Nat
  <2>1. SUFFICES ASSUME pc' = "change"
                 PROVE  /\ FeeIsLeft(request, utxos, lbtc_selected_coins', diff_amount', fee')
                        /\ diff_amount' \in Nat
    OBVIOUS
  <2>2. selected >= dest + new_fee /\ diff_amount' = selected - dest /\ fee' = new_fee
    BY <1>1, <2>1
  <2>3. diff_amount' \in Nat /\ diff_amount' >= fee'
    BY <1>2, <1>4, <2>2
  <2>4. QED
    BY <1>4, <2>2, <2>3 DEF FeeIsLeft
<1>6. fee' \in Nat /\ diff_amount' \in Nat
  BY <1>1, <1>2, <1>5
<1>7. TypeOK'
  BY <1>1, <1>3, <1>6 DEF IInv, TypeOK, Coins
<1>8. AtEveryPoint'
  BY <1>1, <1>2, <1>5 DEF AtEveryPoint
<1>9. QED
  BY <1>1, <1>7, <1>8, OwesNothingYet DEF IInv

LEMMA AddsChange ==
  ASSUME IInv, AddChange
  PROVE  IInv'
<1> DEFINE f == request.fee_asset
           G(a) == Goal(request, a)
           ins == InputsOf(request, utxos, selected_coins, lbtc_selected_coins)
           some == request.dust_amount <= diff_amount /\ diff_amount > 0
<1>1. /\ pc = "change" /\ pc' = "done"
      /\ appended' = IF some
                     THEN [a \in DOMAIN appended \cup {f} |->
                             IF a = f THEN diff_amount ELSE appended[a]]
                     ELSE appended
      /\ fee_satoshi' = IF request.dust_amount > diff_amount THEN diff_amount ELSE fee
      /\ UNCHANGED <<request, utxos, selected_txin_utxos, fee, selected_coins, amount_map,
                     diff_amount_map, append_txout_count, new_fee, lbtc_selected_coins,
                     diff_amount>>
  BY DEF AddChange, FeeOutput, input, amounts
<1>2. /\ request \in Requests /\ utxos \in Wallets /\ fee \in Nat /\ diff_amount \in Nat
      /\ selected_coins \in [1 .. Len(utxos) -> BOOLEAN]
      /\ lbtc_selected_coins \in [1 .. Len(utxos) -> BOOLEAN]
      /\ Gathered(request, utxos, selected_coins, amount_map)
      /\ request.rate > 0 /\ Returned(request, amount_map, appended)
      /\ FeeAssetKnown(request)
      /\ FeeIsLeft(request, utxos, lbtc_selected_coins, diff_amount, fee)
  BY <1>1 DEF IInv, TypeOK, AtEveryPoint, Coins
<1>3. request.dust_amount \in Nat
  BY <1>2, InputTypes DEF IsRequest
<1>4. /\ f \in AskedOf(request) /\ f \in Assets /\ ForFee(request, f)
      /\ \A a : ForFee(request, a) => a = f
      /\ DOMAIN amount_map = AskedOf(request)
      /\ DOMAIN appended \subseteq AskedOf(request) /\ f \notin DOMAIN appended
      /\ appended \in [DOMAIN appended -> Nat]
      /\ AskedOf(request) \subseteq Assets
  BY <1>2 DEF AskedOf, ForFee, FeeAssetKnown, Gathered, Returned
<1>5. /\ Total(utxos, ins, f) = Total(utxos, lbtc_selected_coins, f)
      /\ Total(utxos, lbtc_selected_coins, f) \in Nat /\ G(f) \in Nat
      /\ diff_amount = Total(utxos, ins, f) - G(f) /\ diff_amount >= fee
  BY <1>2, <1>4, TotalOfInputs, TotalNat, GoalIsWanted DEF FeeIsLeft
<1>6. /\ some => At(appended', f) = diff_amount /\ f \in DOMAIN appended'
      /\ ~some => At(appended', f) = 0
      /\ \A a : a # f => At(appended', a) = At(appended, a)
      /\ DOMAIN appended' \subseteq AskedOf(request)
      /\ appended' \in [DOMAIN appended' -> Nat]
  <2>1. CASE some
    <3>1. appended' = [a \in DOMAIN appended \cup {f} |->
                         IF a = f THEN diff_amount ELSE appended[a]]
      BY <1>1, <2>1
    <3> HIDE DEF some, f
    <3>2. QED
      BY <1>2, <1>4, <2>1, <3>1 DEF At
  <2>2. CASE ~some
    BY <1>1, <1>4, <2>2 DEF At
  <2>3. QED
    BY <2>1, <2>2
<1>7. /\ Total(utxos, ins, f) >= G(f) + fee_satoshi'
      /\ G(f) + At(appended', f) + fee_satoshi' >= Total(utxos, ins, f)
      /\ ~some => Total(utxos, ins, f) = G(f) + At(appended', f) + fee_satoshi'
      /\ fee_satoshi' \in Nat
  <2>1. CASE some
    <3>1. fee_satoshi' = fee /\ At(appended', f) = diff_amount
      BY <1>1, <1>2, <1>3, <1>6, <2>1
    <3> HIDE DEF G, ins, f
    <3>2. QED
      BY <1>2, <1>5, <2>1, <3>1
  <2>2. CASE ~some
    <3>1. fee_satoshi' = diff_amount /\ At(appended', f) = 0
      BY <1>1, <1>2, <1>3, <1>5, <1>6, <2>2
    <3> HIDE DEF G, ins, f
    <3>2. QED
      BY <1>2, <1>5, <2>2, <3>1
  <2>3. QED
    BY <2>1, <2>2
<1>8. \A a \in AskedOf(request) : a # f =>
        /\ Total(utxos, ins, a) >= G(a) + 0
        /\ G(a) + At(appended', a) + 0 >= Total(utxos, ins, a)
  <2>1. SUFFICES ASSUME NEW a \in AskedOf(request), a # f
                 PROVE  /\ Total(utxos, ins, a) >= G(a) + 0
                        /\ G(a) + At(appended', a) + 0 >= Total(utxos, ins, a)
    OBVIOUS
  <2>2. /\ Total(utxos, ins, a) >= G(a)
        /\ G(a) + At(appended, a) >= Total(utxos, ins, a)
    BY <1>2, <1>4, <2>1, OthersAreSettled
  <2>3. G(a) \in Nat /\ At(appended, a) \in Nat /\ At(appended', a) = At(appended, a)
    BY <1>2, <1>4, <1>6, <2>1, GoalIsWanted DEF At
  <2> HIDE DEF G, ins, f
  <2>4. QED
    BY <2>2, <2>3
<1>9. Settled(request, utxos, ins, amount_map, appended', fee_satoshi')
  <2>1. f \notin DOMAIN appended' => ~some
    BY <1>6
  <2> HIDE DEF some, ins
  <2>2. QED
    BY <1>4, <1>7, <1>8, <2>1 DEF Settled
<1>10. InputsCoverOutputs' /\ NothingIsLost' /\ ChangelessBalances'
  BY <1>1, <1>2, <1>9, SettledIsCorrect
<1>11. TypeOK'
  BY <1>1, <1>4, <1>6, <1>7 DEF IInv, TypeOK, Coins
<1>12. AtEveryPoint'
  BY <1>1, <1>2 DEF AtEveryPoint
<1>13. QED
  BY <1>10, <1>11, <1>12 DEF IInv

LEMMA Stutters ==
  ASSUME IInv, UNCHANGED vars
  PROVE  IInv'
<1>1. UNCHANGED <<pc, request, utxos, selected_txin_utxos, fee, selected_coins, amount_map,
                  diff_amount_map, append_txout_count, appended, new_fee,
                  lbtc_selected_coins, diff_amount, fee_satoshi>>
  BY DEF vars, input, amounts, feeParts
<1>2. TypeOK' /\ AtEveryPoint'
  BY <1>1 DEF IInv, TypeOK, AtEveryPoint, Coins
<1>3. /\ Inputs' = Inputs
      /\ \A a : IsFeeAsset(a)' = IsFeeAsset(a) /\ Wanted(a)' = Wanted(a)
      /\ \A a : Outputs(a)' = Outputs(a)
      /\ \A a : AmountOf(Inputs, a)' = AmountOf(Inputs, a)
  BY <1>1 DEF Inputs, IsFeeAsset, use_fee, Wanted, Outputs, AmountOf, At, Coins
<1>4. InputsCoverOutputs' /\ NothingIsLost'
  BY <1>1, <1>3 DEF IInv, InputsCoverOutputs, NothingIsLost
<1>5. ChangelessBalances'
  <2>1. /\ AmountOf(Inputs, request.fee_asset)' = AmountOf(Inputs, request.fee_asset)
        /\ Outputs(request.fee_asset)' = Outputs(request.fee_asset)
    BY <1>1 DEF Inputs, IsFeeAsset, use_fee, Wanted, Outputs, AmountOf, At, Coins
  <2>2. QED
    BY <1>1, <2>1 DEF IInv, ChangelessBalances, use_fee
<1>6. QED
  BY <1>2, <1>4, <1>5 DEF IInv

-----------------------------------------------------------------------------
(* The invariant holds at every point of every call.                       *)
THEOREM AlwaysGood == Spec => []IInv
<1>1. IInv /\ [Next]_vars => IInv'
  BY Throws, Prepares, Selects, Compares, Appends, EstimatesAgain, Reselects, AddsChange,
     Stutters
  DEF Next, Stopped
<1>2. QED
  BY Starts, <1>1, PTL DEF Spec

(* The amounts and maps of the call have their types: no difference of     *)
(* amounts is ever negative.                                               *)
THEOREM TypeCorrect == Spec => []TypeOK
  BY AlwaysGood, PTL DEF IInv

(* The inputs of every asset cover what was wanted of it, and the fee of   *)
(* the fee asset, also when that asset was selected once more.             *)
THEOREM OutputsCovered == Spec => []InputsCoverOutputs
  BY AlwaysGood, PTL DEF IInv

(* No part of the coins collected is lost, of any asset: all is output,    *)
(* change or fee, although an asset's difference may never have been taken.*)
THEOREM AllIsReturned == Spec => []NothingIsLost
  BY AlwaysGood, PTL DEF IInv

(* Where the fee asset gets no change it balances to the satoshi.          *)
THEOREM ChangelessIsExact == Spec => []ChangelessBalances
  BY AlwaysGood, PTL DEF IInv

(* The fee reported is never more than the fee output pays: what is left   *)
(* of the fee asset is at least the fee, by either estimate.               *)
THEOREM ReportedFeeCorrect == Spec => []ReportedFeeIsPaid
<1>1. Init => ReportedFeeIsPaid
  BY DEF Init, ReportedFeeIsPaid
<1>2. IInv /\ ReportedFeeIsPaid /\ [Next]_vars => ReportedFeeIsPaid'
  <2> SUFFICES ASSUME IInv, ReportedFeeIsPaid, [Next]_vars
               PROVE  ReportedFeeIsPaid'
    OBVIOUS
  <2>1. CASE UNCHANGED vars
    BY <2>1 DEF vars, input, feeParts, ReportedFeeIsPaid, estimate_fee, use_fee
  <2>2. CASE AddChange
    <3>1. /\ pc = "change" /\ request' = request /\ fee' = fee
          /\ fee_satoshi' = IF request.dust_amount > diff_amount THEN diff_amount ELSE fee
      BY <2>2 DEF AddChange, FeeOutput, input
    <3>2. /\ request \in Requests /\ fee \in Nat /\ diff_amount \in Nat
          /\ diff_amount >= fee
      BY <3>1 DEF IInv, TypeOK, AtEveryPoint, FeeIsLeft
    <3>3. request.dust_amount \in Nat
      <4>1. request \in Requests
        BY <3>2
      <4>2. QED
        BY <4>1, RequestsAssumption DEF IsRequest
    <3>4. QED
      BY <3>1, <3>2, <3>3 DEF ReportedFeeIsPaid, estimate_fee
  <2>3. CASE AppendOutputs
    BY <2>3 DEF AppendOutputs, input, ReportedFeeIsPaid, use_fee
  <2>4. ASSUME \/ RejectFeeAsset \/ Prepare \/ SelectCoins \/ SelectThrows
               \/ LowAsset \/ CheckAmounts \/ AppendThrows
               \/ EstimateAgain \/ ReselectThrows \/ Reselect \/ NoFeeAddress
        PROVE  pc' # "done"
    BY <2>4 DEF RejectFeeAsset, Prepare, SelectCoins, SelectThrows, LowAsset, CheckAmounts,
                AppendThrows, EstimateAgain, ReselectThrows, Reselect, NoFeeAddress
  <2>5. QED
    BY <2>1, <2>2, <2>3, <2>4 DEF Next, Stopped, ReportedFeeIsPaid
<1>3. QED
  BY AlwaysGood, <1>1, <1>2, PTL DEF Spec
=============================================================================
