------------------------------- MODULE MCBnB --------------------------------
(***************************************************************************)
(* Instances of BnB for TLC: pools of up to MCMaxCoins coins of the        *)
(* amounts MCAmounts, with the fees that SelectCoinsMinConf gives coins of *)
(* the sizes MCSizes at the rates MCRate and MCLongTermRate.               *)
(***************************************************************************)
EXTENDS BnB, Fee

CONSTANTS MCMaxCoins, MCAmounts, MCSizes, MCRate, MCLongTermRate, MCMaxTarget

Lesser(a, b) == IF a < b THEN a ELSE b

MCCoin(amount, size) ==
  LET fee == GetFee(MCRate, size)
  IN  [amount |-> amount, effective_value |-> amount - fee, fee |-> fee,
       long_term_fee |-> Lesser(GetFee(MCLongTermRate, size), fee)]

(* SelectCoinsMinConf lets in only coins worth more than their fee. *)
MCCoins ==
  {coin \in {MCCoin(a, s) : a \in MCAmounts, s \in MCSizes} :
     coin.amount > coin.fee}

(* Pools in one order of amounts only: the code sorts them anyway. *)
MCPools ==
  {pool \in UNION {[1 .. n -> MCCoins] : n \in 0 .. MCMaxCoins} :
     \A k \in 1 .. (Len(pool) - 1) :
       \/ pool[k].amount < pool[k + 1].amount
       \/ /\ pool[k].amount = pool[k + 1].amount
          /\ pool[k].fee <= pool[k + 1].fee}

MCTargets == 0 .. MCMaxTarget
MCTxFees  == {0, 1}
MCCosts   == {0, 2}
=============================================================================
