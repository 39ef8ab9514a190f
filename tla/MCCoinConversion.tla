-------------------------- MODULE MCCoinConversion --------------------------
(***************************************************************************)
(* An instance of CoinConversion for TLC, with the sizes that              *)
(* EstimateTxInSize gives without a redeem script.                         *)
(***************************************************************************)
EXTENDS CoinConversion

MCEstimateWitness == [p2wpkh |-> 108, p2wsh |-> 75]
MCEstimateUscript == [p2sh |-> 74, p2pkh |-> 107]
=============================================================================
