------------------------------ MODULE Knapsack ------------------------------
(***************************************************************************)
(* CoinSelection::KnapsackSolver and ApproximateBestSubset                 *)
(* (src/cfd_utxo.cpp): the solver used when the branch and bound search    *)
(* finds nothing.  It splits the pool into coins below                     *)
(* n_target + min_change, from which a random search picks a subset, and   *)
(* the smallest of the others, which may pay on its own.                   *)
(*                                                                         *)
(* Coins are known by their position in utxos.  An action is one turn of a *)
(* loop of the source, or the code between two loops.                      *)
(***************************************************************************)
EXTENDS Coins

CONSTANTS
  Pools,        \* the pools SelectCoinsMinConf may pass
  Targets,      \* values of target_value
  MinChanges,   \* values of min_change
  Iterations    \* kApproximateBestSubsetIterations (100000 in the code)

ASSUME PoolsAssumption == \A pool \in Pools : IsPool(pool)
ASSUME BoundsAssumption ==
  Targets \subseteq Nat /\ MinChanges \subseteq Nat /\ Iterations \in Nat

VARIABLES
  pc,                \* "scan", "approximate", "decide", "done" or "throw"
  utxos, n_target, min_change,
  index,             \* the coin the scan looks at
  lowest_larger,     \* a position; 0 for nullptr
  applicable_groups, \* positions, in the order of the vector
  vf_best, n_best,   \* KnapsackSolver: the subset to use and its value
  call,              \* which call of ApproximateBestSubset runs: 1 or 2
  vf_try, n_try,     \* its output parameters *vf_best and *n_best
  n_rep, n_pass, i,  \* its loop counters
  vf_includes, n_total, is_reached_target,
  ret_utxos,         \* the positions returned
  select_value, utxo_fee

input  == <<utxos, n_target, min_change>>
scan   == <<index, lowest_larger, applicable_groups>>
best   == <<vf_best, n_best>>
approx == <<call, vf_try, n_try, n_rep, n_pass, i, vf_includes, n_total,
            is_reached_target>>
output == <<ret_utxos, select_value, utxo_fee>>
vars   == <<pc, input, scan, best, approx, output>>

Size   == Len(applicable_groups)
Flags(n, value) == [k \in 1 .. n |-> value]

(* Columns of the applicable coins, and the sum n_effective_total.         *)
Eff     == [k \in 1 .. Size |-> utxos[applicable_groups[k]].effective_value]
Amounts == [k \in 1 .. Size |-> utxos[applicable_groups[k]].amount]
Fees    == [k \in 1 .. Size |-> utxos[applicable_groups[k]].fee]
n_effective_total == SumTo(Eff, Size)

Init ==
  /\ pc = "scan"
  /\ utxos \in Pools /\ n_target \in Targets /\ min_change \in MinChanges
  /\ index = 1 /\ lowest_larger = 0 /\ applicable_groups = <<>>
  /\ vf_best = <<>> /\ n_best = 0
  /\ call = 0 /\ vf_try = <<>> /\ n_try = 0
  /\ n_rep = 0 /\ n_pass = 0 /\ i = 1
  /\ vf_includes = <<>> /\ n_total = 0 /\ is_reached_target = FALSE
  /\ ret_utxos = {} /\ select_value = 0 /\ utxo_fee = 0

-----------------------------------------------------------------------------
(* What the call returns: one coin, or the applicable coins that are flagged. *)
ReturnCoin(k) ==
  /\ pc' = "done"
  /\ ret_utxos' = {k}
  /\ select_value' = utxos[k].amount
  /\ utxo_fee' = utxos[k].fee

FeesOf(flags) == SelSum(Fees, flags)

ReturnFlagged(flags) ==
  /\ pc' = "done"
  /\ ret_utxos' = {applicable_groups[k] : k \in {j \in 1 .. Size : flags[j]}}
  /\ select_value' = SelSum(Amounts, flags)
  /\ utxo_fee' = FeesOf(flags)

Scanning == pc = "scan" /\ index <= Len(utxos)

(* A coin that is worth the target exactly is the answer.                  *)
ExactCoin ==
  /\ Scanning
  /\ utxos[index].effective_value = n_target
  /\ ReturnCoin(index)
  /\ UNCHANGED <<input, scan, best, approx>>

IsApplicable(coin) == coin.effective_value < n_target + min_change

Position_FromZero == index - 1
Position == index

ApplicableCoin ==
  /\ Scanning
  /\ utxos[index].effective_value # n_target
  /\ IsApplicable(utxos[index])
  /\ applicable_groups' = Append(applicable_groups, Position)
  /\ index' = index + 1
  /\ UNCHANGED <<pc, input, lowest_larger, best, approx, output>>

(* A larger coin; the one of the smallest amount is remembered.            *)
LargerCoin ==
  /\ Scanning
  /\ utxos[index].effective_value # n_target
  /\ ~IsApplicable(utxos[index])
  /\ lowest_larger' =
       IF lowest_larger = 0 \/ utxos[index].amount < utxos[lowest_larger].amount
       THEN index ELSE lowest_larger
  /\ index' = index + 1
  /\ UNCHANGED <<pc, input, applicable_groups, best, approx, output>>

-----------------------------------------------------------------------------
Scanned == pc = "scan" /\ index > Len(utxos)

AllApplicable ==
  /\ Scanned
  /\ n_effective_total = n_target
  /\ ReturnFlagged(Flags(Size, TRUE))
  /\ UNCHANGED <<input, scan, best, approx>>

(* The applicable coins cannot pay: a larger one must.                     *)
Insufficient_ForChange == n_effective_total <= n_target + min_change
Insufficient == n_effective_total < n_target

OnlyLarger ==
  /\ Scanned
  /\ n_effective_total # n_target
  /\ Insufficient
  /\ lowest_larger # 0
  /\ ReturnCoin(lowest_larger)
  /\ UNCHANGED <<input, scan, best, approx>>

InsufficientFunds ==
  /\ Scanned
  /\ n_effective_total # n_target
  /\ Insufficient
  /\ lowest_larger = 0
  /\ pc' = "throw"
  /\ UNCHANGED <<input, scan, best, approx, output>>

(* The start of ApproximateBestSubset: all coins are the best known.       *)
StartCall(c) ==
  /\ call' = c
  /\ vf_try' = Flags(Size, TRUE)
  /\ n_try' = n_effective_total
  /\ n_rep' = 0
  /\ n_pass' = 2
  /\ UNCHANGED <<i, vf_includes, n_total, is_reached_target>>

SortApplicable ==
  /\ Scanned
  /\ n_effective_total # n_target
  /\ ~Insufficient
  /\ \E p \in DescendingOrders(Size, Eff) :
       applicable_groups' = [k \in 1 .. Size |-> applicable_groups[p[k]]]
  /\ StartCall(1)
  /\ pc' = "approximate"
  /\ UNCHANGED <<input, index, lowest_larger, best, output>>

-----------------------------------------------------------------------------
(* n_target_value of the running call.                                     *)
Goal == IF call = 1 THEN n_target ELSE n_target + min_change

(* n_pass = 2 between two repetitions, where the loop condition is tested. *)
Between    == pc = "approximate" /\ n_pass = 2
RepeatMore == n_rep < Iterations /\ n_try # Goal
InPass     == pc = "approximate" /\ n_pass < 2 /\ i <= Size

NewRepetition ==
  /\ Between
  /\ RepeatMore
  /\ n_rep' = n_rep + 1
  /\ n_pass' = 0
  /\ i' = 1
  /\ vf_includes' = Flags(Size, FALSE)
  /\ n_total' = 0
  /\ is_reached_target' = FALSE
  /\ UNCHANGED <<pc, input, scan, best, call, vf_try, n_try, output>>

(* rand_bool: a coin toss in the first pass, what is left in the second.   *)
Tosses == IF n_pass = 0 THEN BOOLEAN ELSE {~vf_includes[i]}

PassOver ==
  /\ InPass
  /\ FALSE \in Tosses
  /\ i' = i + 1
  /\ UNCHANGED <<pc, input, scan, best, call, vf_try, n_try, n_rep, n_pass,
                 vf_includes, n_total, is_reached_target, output>>

IncludeCoin ==
  /\ InPass
  /\ TRUE \in Tosses
  /\ n_total + Eff[i] < Goal
  /\ n_total' = n_total + Eff[i]
  /\ vf_includes' = [vf_includes EXCEPT ![i] = TRUE]
  /\ i' = i + 1
  /\ UNCHANGED <<pc, input, scan, best, call, vf_try, n_try, n_rep, n_pass,
                 is_reached_target, output>>

(* The coin reaches the goal: the subset is kept if it is the smallest so  *)
(* far, and the coin is taken out again.                                   *)
TakenOut_Not == [vf_includes EXCEPT ![i] = TRUE]
TakenOut == [vf_includes EXCEPT ![i] = FALSE]
StillIncluded_TooLate == vf_includes
StillIncluded == [vf_includes EXCEPT ![i] = TRUE]
Smaller(value) == value < n_try
ReachGoal ==
  /\ InPass
  /\ TRUE \in Tosses
  /\ n_total + Eff[i] >= Goal
  /\ is_reached_target' = TRUE
  /\ IF Smaller(n_total + Eff[i])
     THEN /\ n_try' = n_total + Eff[i]
          /\ vf_try' = StillIncluded
     ELSE UNCHANGED <<n_try, vf_try>>
  /\ vf_includes' = TakenOut
  /\ i' = i + 1
  /\ UNCHANGED <<pc, input, scan, best, call, n_rep, n_pass, n_total, output>>

(* The second pass is run only if the first did not reach the goal.        *)
PassAfter_Same == IF is_reached_target THEN 2 ELSE n_pass
PassAfter == IF is_reached_target THEN 2 ELSE n_pass + 1

EndPass ==
  /\ pc = "approximate" /\ n_pass < 2 /\ i > Size
  /\ n_pass' = PassAfter
  /\ i' = 1
  /\ UNCHANGED <<pc, input, scan, best, call, vf_try, n_try, n_rep,
                 vf_includes, n_total, is_reached_target, output>>

(* The first call aims at the target.  If it misses it and the coins allow *)
(* it, a second call aims at the target and the least change.              *)
EndFirstCall ==
  /\ Between /\ ~RepeatMore /\ call = 1
  /\ vf_best' = vf_try
  /\ n_best' = n_try
  /\ IF n_try # n_target /\ n_effective_total >= n_target + min_change
     THEN StartCall(2) /\ UNCHANGED pc
     ELSE pc' = "decide" /\ UNCHANGED approx
  /\ UNCHANGED <<input, scan, output>>

UseSecond == n_try = n_target \/ n_best > n_try

EndSecondCall ==
  /\ Between /\ ~RepeatMore /\ call = 2
  /\ IF UseSecond
     THEN vf_best' = vf_try /\ n_best' = n_try
     ELSE UNCHANGED best
  /\ pc' = "decide"
  /\ UNCHANGED <<input, scan, approx, output>>

-----------------------------------------------------------------------------
(* Take the larger coin if the subset leaves too little change or the coin *)
(* is closer to the target.                                                *)
TooLittleChange_Allowed == FALSE
TooLittleChange == n_best # n_target /\ n_best < n_target + min_change

PreferLarger ==
  /\ lowest_larger # 0
  /\ TooLittleChange \/ utxos[lowest_larger].effective_value <= n_best

TakeLarger ==
  /\ pc = "decide"
  /\ PreferLarger
  /\ ReturnCoin(lowest_larger)
  /\ UNCHANGED <<input, scan, best, approx>>

TakeSubset ==
  /\ pc = "decide"
  /\ ~PreferLarger
  /\ ReturnFlagged(vf_best)
  /\ UNCHANGED <<input, scan, best, approx>>

Stopped == pc \in {"done", "throw"} /\ UNCHANGED vars

Next ==
  \/ ExactCoin \/ ApplicableCoin \/ LargerCoin
  \/ AllApplicable \/ OnlyLarger \/ InsufficientFunds \/ SortApplicable
  \/ NewRepetition \/ PassOver \/ IncludeCoin \/ ReachGoal \/ EndPass
  \/ EndFirstCall \/ EndSecondCall \/ TakeLarger \/ TakeSubset \/ Stopped

(* The function is straight-line code: a started call keeps running.       *)
Spec     == Init /\ [][Next]_vars
FairSpec == Spec /\ WF_vars(Next)

-----------------------------------------------------------------------------
TypeOK ==
  /\ pc \in {"scan", "approximate", "decide", "done", "throw"}
  /\ utxos \in Pools /\ n_target \in Targets /\ min_change \in MinChanges
  /\ index \in 1 .. Len(utxos) + 1
  /\ lowest_larger \in 0 .. Len(utxos)
  /\ applicable_groups \in Seq(1 .. Len(utxos))
  /\ vf_best \in Seq(BOOLEAN) /\ n_best \in Nat
  /\ call \in 0 .. 2 /\ vf_try \in Seq(BOOLEAN) /\ n_try \in Nat
  /\ n_rep \in 0 .. Iterations /\ n_pass \in 0 .. 2 /\ i \in 1 .. Size + 1
  /\ vf_includes \in Seq(BOOLEAN) /\ n_total \in Nat
  /\ is_reached_target \in BOOLEAN
  /\ ret_utxos \subseteq 1 .. Len(utxos)
  /\ select_value \in Nat /\ utxo_fee \in Nat

(* In ApproximateBestSubset, n_total is the value of the coins included,   *)
(* at every turn of the pass, although coins are put in and taken out.     *)
RunningTotal ==
  pc = "approximate" /\ n_pass < 2 =>
    Len(vf_includes) = Size /\ n_total = SelSum(Eff, vf_includes)

(* The best subset and its value belong together, in the running call and  *)
(* in the result of both calls, and it pays what the call aims at.         *)
BestIsSubset ==
  /\ pc = "approximate" =>
       Len(vf_try) = Size /\ n_try = SelSum(Eff, vf_try) /\ n_try >= Goal
  /\ pc = "decide" \/ (pc = "approximate" /\ call = 2) =>
       Len(vf_best) = Size /\ n_best = SelSum(Eff, vf_best)
         /\ n_best >= n_target

Returned == [k \in 1 .. Len(utxos) |-> k \in ret_utxos]
ReturnedValue == SelSum(EffectiveValues(utxos), Returned)

(* When a coin of min_change above the target is at hand, no change below  *)
(* min_change is made: the result hits the target or leaves min_change.    *)
NoSmallChange ==
  pc = "done" /\ lowest_larger # 0 =>
    ReturnedValue = n_target \/ ReturnedValue >= n_target + min_change

(* min_change is declared as "最小の差額", the least difference between    *)
(* target and selection.  Whenever the applicable coins could leave it,    *)
(* the result leaves it or nothing at all.                                 *)
LeastChangeIsKept ==
  pc = "done" /\ PoolTotal(utxos) >= n_target + min_change =>
    ReturnedValue = n_target \/ ReturnedValue >= n_target + min_change

(* Every call of the solver returns or throws.                             *)
Finishes == <>(pc \in {"done", "throw"})

(* The solver keeps the contract of a selection, up to its finest detail.  *)
Contract == INSTANCE SelectionContract WITH
  needed <- n_target,
  status <- CASE pc = "done"  -> "answered"
              [] pc = "throw" -> "refused"
              [] OTHER        -> "pending"

KeepsContract == Contract!Spec
=============================================================================
