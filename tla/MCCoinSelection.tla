--------------------------- MODULE MCCoinSelection ---------------------------
(***************************************************************************)
(* Instances of CoinSelection for TLC: one fee asset, one other asset and  *)
(* bitcoin, wallets of up to MCMaxCoins coins.                             *)
(***************************************************************************)
EXTENDS CoinSelection

CONSTANTS Lbtc, Token, MCMaxCoins, MCAmounts, MCMaxTarget

MCTargets ==
  UNION {[as -> 0 .. MCMaxTarget] :
           as \in {{}, {NoAsset}, {Lbtc}, {Token}, {Lbtc, Token}}}

MCRequests ==
  {r \in [call : {"single", "multi"}, targets : MCTargets, tx_fee : {0, 1},
          use_bnb : BOOLEAN, use_fee : BOOLEAN, cost_of_change : {1},
          fee_asset : {NoAsset, Lbtc}] :
     /\ r.call = "single" => DOMAIN r.targets = {NoAsset}
     /\ r.call = "single" => r.fee_asset = NoAsset}

(* A coin of amount 4 is spent by an input that costs 2, others cost 1.    *)
MCCoin(a, n) ==
  [asset |-> a, amount |-> n, spend |-> IF n = 4 THEN 2 ELSE 1, long_term |-> 1]

MCCoins(assets) == {MCCoin(a, n) : a \in assets, n \in MCAmounts}

(* Wallets of bitcoin, and wallets of the two assets in one order of them, *)
(* for the coins of each are searched alone.                               *)
MCWallets ==
  UNION {[1 .. n -> MCCoins({NoAsset})] : n \in 0 .. 2} \cup
  {w \in UNION {[1 .. n -> MCCoins({Lbtc, Token})] : n \in 0 .. MCMaxCoins} :
     \A k \in 1 .. (Len(w) - 1) :
       \/ w[k].asset = w[k + 1].asset /\ w[k].amount <= w[k + 1].amount
       \/ w[k].asset = Lbtc /\ w[k + 1].asset = Token}
=============================================================================
