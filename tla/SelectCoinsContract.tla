------------------------- MODULE SelectCoinsContract -------------------------
(***************************************************************************)
(* A call of CoinSelection::SelectCoins as its caller sees it: one step    *)
(* that answers or refuses as SelectPromise says.  What is reported of the *)
(* coins - the amount by asset and the fee for spending them - is about    *)
(* exactly the coins returned.                                             *)
(***************************************************************************)
EXTENDS SelectPromise

VARIABLES
  status,     \* "pending", "answered" or "refused"
  call,
  selection,  \* the coins returned: flags on call.coins
  reported,   \* the output parameter map_select_value
  utxo_fee    \* the output parameter utxo_fee_value

vars == <<status, call, selection, reported, utxo_fee>>

Init ==
  /\ status = "pending"
  /\ IsCall(call)
  /\ selection = [k \in Coins(call) |-> FALSE]
  /\ reported = [a \in {} |-> 0]
  /\ utxo_fee = 0

Answer ==
  /\ status = "pending"
  /\ ~Malformed(call)
  /\ selection' \in Answers(call)
  /\ reported' = [a \in Asked(call) |-> AmountOf(call, selection', a)]
  /\ utxo_fee' = AllFees(call, selection')
  /\ status' = "answered"
  /\ UNCHANGED call

Refuse ==
  /\ status = "pending"
  /\ Refuses(call)
  /\ status' = "refused"
  /\ UNCHANGED <<call, selection, reported, utxo_fee>>

Next == Answer \/ Refuse

Spec == Init /\ [][Next]_vars
=============================================================================
