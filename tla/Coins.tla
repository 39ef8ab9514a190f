-------------------------------- MODULE Coins --------------------------------
(***************************************************************************)
(* The coins the selection algorithms work on: the fields of struct Utxo   *)
(* they read (amount, and the working area fee, long_term_fee and          *)
(* effective_value), and the order std::sort puts a list of them in.       *)
(***************************************************************************)
EXTENDS Sums

Coin == [amount : Nat, effective_value : Nat, fee : Nat, long_term_fee : Nat]

(* A pool: what SelectCoinsMinConf hands to the algorithms.  It clamps     *)
(* long_term_fee to fee.                                                   *)
IsPool(pool) ==
  /\ pool \in Seq(Coin)
  /\ \A k \in 1 .. Len(pool) : pool[k].long_term_fee <= pool[k].fee

EffectiveValues(pool) == [k \in 1 .. Len(pool) |-> pool[k].effective_value]
PoolTotal(pool) == SumTo(EffectiveValues(pool), Len(pool))

(* The orders of n things std::sort may produce with `a > b` on their      *)
(* values: it puts equal values in any order.                              *)
DescendingOrders(n, value) ==
  {p \in Rearrangements(n) :
     \A a, b \in 1 .. n : a < b => value[p[a]] >= value[p[b]]}
=============================================================================
