----------------------------- MODULE MCKnapsack -----------------------------
(***************************************************************************)
(* Instances of Knapsack for TLC: pools of up to MCMaxCoins coins of the   *)
(* effective values MCValues.  A coin of an even value is spent by an      *)
(* input that costs more.                                                  *)
(***************************************************************************)
EXTENDS Knapsack

CONSTANTS MCMaxCoins, MCValues, MCMaxTarget

MCCoin(value) ==
  LET fee == IF value % 2 = 0 THEN 2 ELSE 1
  IN  [amount |-> value + fee, effective_value |-> value, fee |-> fee,
       long_term_fee |-> 1]

(* The order of a pool matters: the scan goes through it as it is.         *)
MCPools ==
  UNION {[1 .. n -> {MCCoin(v) : v \in MCValues}] : n \in 0 .. MCMaxCoins}

MCTargets == 0 .. MCMaxTarget
=============================================================================
