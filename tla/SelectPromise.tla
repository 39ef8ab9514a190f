---------------------------- MODULE SelectPromise ----------------------------
(***************************************************************************)
(* What CoinSelection::SelectCoins (src/cfd_utxo.cpp) owes a caller: which *)
(* coins it may answer a call with, and when it may refuse.  CoinSelection *)
(* is shown to keep this; FundBitcoin and FundElements rely on it.         *)
(*                                                                         *)
(* A call c is a record of                                                 *)
(*   single   whether it is made for one asset and not for a map of them,  *)
(*   coins    a sequence of [asset, amount, spend], spend being what an    *)
(*            input spending the coin costs,                               *)
(*   targets  amounts by asset; of a call for one asset, under NoAsset,    *)
(*   tx_fee   the fee of the transaction, and                              *)
(*   payers   the assets whose coins pay fees: one or none.                *)
(***************************************************************************)
EXTENDS Sums

CONSTANT NoAsset   \* the empty asset id

IsCall(c) ==
  /\ \A k \in 1 .. Len(c.coins) : c.coins[k].amount \in Nat /\ c.coins[k].spend \in Nat
  /\ \A a \in DOMAIN c.targets : c.targets[a] \in Nat
  /\ c.single => DOMAIN c.targets = {NoAsset} /\ c.payers = {NoAsset}
  /\ c.tx_fee \in Nat

Coins(c)     == 1 .. Len(c.coins)
Asked(c)     == DOMAIN c.targets \cup c.payers
Target(c, a) == IF a \in DOMAIN c.targets THEN c.targets[a] ELSE 0

CoinsOf(c, a) == IF c.single THEN Coins(c) ELSE {k \in Coins(c) : c.coins[k].asset = a}
Worthy(c)     == {k \in Coins(c) : c.coins[k].amount > c.coins[k].spend}

(* A list with coins of two assets where one is expected; no target, an    *)
(* empty asset id, an asset without coins.                                 *)
Malformed(c) ==
  IF c.single
  THEN \E j, k \in Coins(c) : c.coins[j].asset # c.coins[k].asset
  ELSE \/ DOMAIN c.targets = {}
       \/ NoAsset \in Asked(c)
       \/ \E a \in Asked(c) : CoinsOf(c, a) = {}

(* Coins taken together: flags on the list.                                *)
Selections(c) ==
  {sel \in [Coins(c) -> BOOLEAN] :
     \A k \in Coins(c) :
       sel[k] => k \in Worthy(c) /\ \E a \in Asked(c) : k \in CoinsOf(c, a)}

AmountOf(c, sel, a) ==
  SelSum([k \in Coins(c) |-> c.coins[k].amount],
         [k \in Coins(c) |-> sel[k] /\ k \in CoinsOf(c, a)])
FeesOf(c, sel, a) ==
  SelSum([k \in Coins(c) |-> c.coins[k].spend],
         [k \in Coins(c) |-> sel[k] /\ k \in CoinsOf(c, a)])
AllFees(c, sel) == SelSum([k \in Coins(c) |-> c.coins[k].spend], sel)

(* The coins of an asset pay its target; those of the payer also the       *)
(* transaction and the spending of all the coins selected.                 *)
Pays(c, sel, a) ==
  AmountOf(c, sel, a) >=
    Target(c, a) + (IF a \in c.payers THEN c.tx_fee + AllFees(c, sel) ELSE 0)

Answers(c) == {sel \in Selections(c) : \A a \in Asked(c) : Pays(c, sel, a)}

(* An asset that is no payer is short if its coins, less what spending     *)
(* them costs, do not pay the target, or if some of them pay the target    *)
(* but not their own spending besides.                                     *)
OtherIsShort(c, a) ==
  /\ a \notin c.payers
  /\ \/ LET all == [k \in Coins(c) |-> k \in Worthy(c)]
        IN  AmountOf(c, all, a) - FeesOf(c, all, a) < Target(c, a)
     \/ \E sel \in Selections(c) :
          /\ AmountOf(c, sel, a) >= Target(c, a)
          /\ AmountOf(c, sel, a) < Target(c, a) + FeesOf(c, sel, a)

(* The payer is short if all its coins do not pay for it and for the coins *)
(* that have been selected of the other assets.                            *)
PayerIsShort(c, a) ==
  /\ a \in c.payers
  /\ \E sel \in Selections(c) :
       /\ \A k \in Worthy(c) \cap CoinsOf(c, a) : sel[k]
       /\ \A b \in Asked(c) \ {a} : Pays(c, sel, b)
       /\ ~Pays(c, sel, a)

Refuses(c) ==
  \/ Malformed(c)
  \/ \E a \in Asked(c) : OtherIsShort(c, a) \/ PayerIsShort(c, a)
=============================================================================
