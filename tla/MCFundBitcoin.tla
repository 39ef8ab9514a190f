---------------------------- MODULE MCFundBitcoin ----------------------------
(***************************************************************************)
(* Instances of FundBitcoin for TLC: a transaction of one or no outputs    *)
(* and no or one input of its own, wallets of up to MCMaxCoins coins.  The *)
(* rate is 1 satoshi per unit of size, or such that fees are rounded.      *)
(***************************************************************************)
EXTENDS FundBitcoin

CONSTANTS MCMaxCoins, MCAmounts, MCSizes, MCRates, MCTxAmounts, MCTargets, MCDusts

MCRequests ==
  {[tx_amount |-> a, tx_size |-> 2 + a, target_value |-> t, option_rate |-> o,
    rate |-> r, dust_amount |-> d] :
     a \in MCTxAmounts, t \in MCTargets, o \in MCRates, r \in MCRates,
     d \in MCDusts}

MCCoin == {[amount |-> a, size |-> s, spend_size |-> s] : a \in MCAmounts, s \in MCSizes}

(* The selection may take coins in any order: one order of them is enough. *)
MCWallets ==
  {w \in UNION {[1 .. n -> MCCoin] : n \in 0 .. MCMaxCoins} :
     \A k \in 1 .. (Len(w) - 1) :
       \/ w[k].amount < w[k + 1].amount
       \/ w[k].amount = w[k + 1].amount /\ w[k].size <= w[k + 1].size}

MCListed ==
  {<<>>} \cup
  {<<[amount |-> a, size |-> 2, in_tx |-> i]>> : a \in {2, 9}, i \in BOOLEAN}
=============================================================================
