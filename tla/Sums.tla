-------------------------------- MODULE Sums --------------------------------
(***************************************************************************)
(* Sums of satoshi amounts over lists of coins.  The source accumulates    *)
(* them in loops (`value += utxo->amount`); here they are recursive        *)
(* functions, so that modules that use them stay within reach of TLAPS.    *)
(***************************************************************************)
EXTENDS Integers, Sequences

(* f[1] + ... + f[n], for a function or sequence f. *)
SumTo(f, n) ==
  LET s[i \in 0 .. n] == IF i = 0 THEN 0 ELSE s[i - 1] + f[i]
  IN  s[n]

(* The part of f a sequence of flags selects: f where it is TRUE, else 0. *)
Masked(f, sel) == [k \in 1 .. Len(sel) |-> IF sel[k] THEN f[k] ELSE 0]

(* The sum of f over the positions a sequence of flags selects. *)
SelSum(f, sel) == SumTo(Masked(f, sel), Len(sel))

(* The ways to put n things into an order: each takes exactly one place. *)
Rearrangements(n) ==
  {p \in [1 .. n -> 1 .. n] :
     \A v \in 1 .. n :
       \E k \in 1 .. n : p[k] = v /\ \A j \in 1 .. n : p[j] = v => j = k}

=============================================================================
