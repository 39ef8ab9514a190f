--------------------------- MODULE MCFundElements ---------------------------
(***************************************************************************)
(* Instances of FundElements for TLC: the fee asset and another one, a     *)
(* transaction of up to one output of each, wallets of up to MCMaxCoins    *)
(* coins.  An output costs more than the estimate before, so that the fee  *)
(* asset may have to be selected again.                                    *)
(***************************************************************************)
EXTENDS FundElements

CONSTANTS Lbtc, Token, MCMaxCoins, MCAmounts, MCRates, MCDust

MCAssets == {Lbtc, Token}

MCMaps(lbtc, token) ==
  {NoAmounts, [a \in {Lbtc} |-> lbtc], [a \in {Token} |-> token],
   [a \in MCAssets |-> IF a = Lbtc THEN lbtc ELSE token]}

(* One asks for less of the fee asset than the transaction puts out.       *)
MCOutputs == MCMaps(3, 4) \cup {[a \in {Lbtc} |-> 11]}

(* The fee asset and the asset of the fee output.                          *)
MCFeeAssets == {<<Lbtc, NoAsset>>, <<Lbtc, Token>>, <<NoAsset, NoAsset>>}

MCRequests ==
  {[targets |-> t, tx_amount |-> o, fee_asset |-> f[1], fee_output |-> f[2],
    addresses |-> d, tx_size |-> 2, rate |-> r, dust_amount |-> MCDust] :
     t \in MCMaps(4, 2), o \in MCOutputs, f \in MCFeeAssets,
     d \in SUBSET MCAssets \ {{}}, r \in MCRates}

MCCoin == {[asset |-> a, amount |-> n, size |-> 2] : a \in MCAssets, n \in MCAmounts}

(* Wallets in one order: the selection takes any coins of an asset.        *)
MCWallets ==
  {w \in UNION {[1 .. n -> MCCoin] : n \in 0 .. MCMaxCoins} :
     \A k \in 1 .. (Len(w) - 1) :
       \/ w[k].asset = w[k + 1].asset /\ w[k].amount <= w[k + 1].amount
       \/ w[k].asset = Lbtc /\ w[k + 1].asset = Token}

MCListed ==
  {<<>>, <<[asset |-> Token, amount |-> 4, size |-> 1, in_tx |-> TRUE]>>}
=============================================================================
