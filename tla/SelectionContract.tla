------------------------- MODULE SelectionContract --------------------------
(***************************************************************************)
(* What SelectCoinsMinConf may rely on when it calls SelectCoinsBnB or     *)
(* KnapsackSolver, whatever the algorithm does inside: one answer, given   *)
(* at once.  The coins answered are worth what is needed after their own   *)
(* fees, and the two output parameters are the sums over exactly these     *)
(* coins; a call is refused only if the whole pool is worth too little.    *)
(***************************************************************************)
EXTENDS Coins

VARIABLES status, utxos, needed, select_value, utxo_fee

vars == <<status, utxos, needed, select_value, utxo_fee>>

Choices(pool) == [1 .. Len(pool) -> BOOLEAN]

ValueOf(pool, sel)  == SelSum(EffectiveValues(pool), sel)
AmountOf(pool, sel) == SelSum([k \in 1 .. Len(pool) |-> pool[k].amount], sel)
FeeOf(pool, sel)    == SelSum([k \in 1 .. Len(pool) |-> pool[k].fee], sel)

Init ==
  /\ status = "pending"
  /\ IsPool(utxos)
  /\ needed \in Nat
  /\ select_value = 0
  /\ utxo_fee = 0

Answer ==
  /\ status = "pending"
  /\ status' = "answered"
  /\ \E sel \in Choices(utxos) :
       /\ ValueOf(utxos, sel) >= needed
       /\ select_value' = AmountOf(utxos, sel)
       /\ utxo_fee' = FeeOf(utxos, sel)
  /\ UNCHANGED <<utxos, needed>>

FindNothing ==
  /\ status = "pending"
  /\ status' = "nothing"
  /\ UNCHANGED <<utxos, needed, select_value, utxo_fee>>

Refuse ==
  /\ status = "pending"
  /\ PoolTotal(utxos) < needed
  /\ status' = "refused"
  /\ UNCHANGED <<utxos, needed, select_value, utxo_fee>>

Next == Answer \/ FindNothing \/ Refuse

Spec == Init /\ [][Next]_vars
=============================================================================
