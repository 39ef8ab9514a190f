--------------------------------- MODULE BnB ---------------------------------
(***************************************************************************)
(* CoinSelection::SelectCoinsBnB (src/cfd_utxo.cpp): a depth-first search  *)
(* over "take / leave" decisions on the coins of one asset, sorted by      *)
(* effective value, for the selection that wastes least among those whose  *)
(* effective value lies in [actual_target, actual_target+cost_of_change].  *)
(*                                                                         *)
(* One action is one turn of the `for` loop.  Its position in the tree is  *)
(* curr_selection: the decisions taken on the first Len(curr_selection)    *)
(* coins.  The three running totals are kept by += and -= as the search    *)
(* moves, never recomputed, and every coin is read through vector::at().   *)
(***************************************************************************)
EXTENDS Coins

CONSTANTS
  Pools,      \* the utxo pools SelectCoinsMinConf may pass: sequences of coins
  Targets,    \* values of target_value
  TxFees,     \* values of not_input_fees
  Costs,      \* values of cost_of_change
  MaxTries,   \* kBnBMaxTotalTries (100000 in the code)
  MaxAmount   \* kMaxAmount, the initial best_waste

ASSUME PoolsAssumption == \A pool \in Pools : IsPool(pool)

ASSUME BoundsAssumption ==
  /\ Targets \subseteq Nat
  /\ TxFees \subseteq Nat
  /\ Costs \subseteq Nat
  /\ MaxTries \in Nat
  /\ MaxAmount \in Nat

VARIABLES
  pc,                     \* "start", "search", "solution", "done" or "throw"
  utxos,                  \* the pool as passed
  p_utxos,                \* the pool sorted by effective value
  actual_target,
  cost_of_change,
  curr_selection,
  curr_value,
  curr_available_value,
  curr_waste,
  best_selection,
  best_waste,
  tries,                  \* the loop counter i
  complete,               \* the loop left by `break`, not by running out of tries
  select_value,
  utxo_fee_value

input  == <<utxos, actual_target, cost_of_change>>
search == <<curr_selection, curr_value, curr_available_value, curr_waste>>
best   == <<best_selection, best_waste>>
output == <<select_value, utxo_fee_value>>
vars   == <<pc, input, p_utxos, search, best, tries, complete, output>>

N      == Len(p_utxos)
Eff    == EffectiveValues(p_utxos)
Waste  == [k \in 1 .. N |-> p_utxos[k].fee - p_utxos[k].long_term_fee]
Fees_LongTerm == [k \in 1 .. N |-> p_utxos[k].long_term_fee]
Fees   == [k \in 1 .. N |-> p_utxos[k].fee]
Amounts == [k \in 1 .. N |-> p_utxos[k].amount]

Init ==
  /\ pc = "start"
  /\ utxos \in Pools
  /\ \E target \in Targets, fees \in TxFees : actual_target = fees + target
  /\ cost_of_change \in Costs
  /\ p_utxos = <<>>
  /\ curr_selection = <<>>
  /\ curr_value = 0
  /\ curr_available_value = 0
  /\ curr_waste = 0
  /\ best_selection = <<>>
  /\ best_waste = MaxAmount
  /\ tries = 0
  /\ complete = FALSE
  /\ select_value = 0
  /\ utxo_fee_value = 0

(* A coin of effective value 0, or a pool that cannot pay, is an error. *)
Reject ==
  /\ pc = "start"
  /\ \/ \E k \in 1 .. Len(utxos) : utxos[k].effective_value = 0
     \/ PoolTotal(utxos) < actual_target
  /\ pc' = "throw"
  /\ UNCHANGED <<input, p_utxos, search, best, tries, complete, output>>

(* The pool as std::sort leaves it. *)
SortsOf(pool) ==
  {[k \in 1 .. Len(pool) |-> pool[p[k]]] :
     p \in DescendingOrders(Len(pool), EffectiveValues(pool))}

Sort ==
  /\ pc = "start"
  /\ \A k \in 1 .. Len(utxos) : utxos[k].effective_value > 0
  /\ PoolTotal(utxos) >= actual_target
  /\ p_utxos' \in SortsOf(utxos)
  /\ curr_available_value' = PoolTotal(utxos)
  /\ pc' = "search"
  /\ UNCHANGED <<input, curr_selection, curr_value, curr_waste, best, tries,
                 complete, output>>

-----------------------------------------------------------------------------
(* The waste of a coin: what spending it now costs more than later. *)
CoinWaste(k) == p_utxos[k].fee - p_utxos[k].long_term_fee

(* The three conditions that end a branch. *)
CannotReachTarget == curr_value + curr_available_value < actual_target
ExceedsRange_Ignored == FALSE
ExceedsRange      == curr_value > actual_target + cost_of_change
TooWasteful       == curr_waste > best_waste /\ CoinWaste(1) > 0

HopelessBranch == CannotReachTarget \/ ExceedsRange \/ TooWasteful

Excess == curr_value - actual_target

(* best_selection.resize(p_utxos.size()): the undecided coins are left out. *)
Padded(sel) ==
  [k \in 1 .. N |-> IF k \in 1 .. Len(sel) THEN sel[k] ELSE FALSE]

(* The last coin taken on the current branch; 0 when there is none. *)
LastIncluded(sel) ==
  CHOOSE k \in 0 .. Len(sel) :
    /\ k # 0 => sel[k]
    /\ \A j \in (k + 1) .. Len(sel) : ~sel[j]

(* What pop_back() gives back: the coins decided on after the last taken. *)
PoppedValue_AndLast(last) ==
  SumTo(Eff, Len(curr_selection)) - SumTo(Eff, IF last = 0 THEN 0 ELSE last - 1)
PoppedValue(last) == SumTo(Eff, Len(curr_selection)) - SumTo(Eff, last)

(* curr_selection.back() = false, after the pops. *)
LeaveOut_Pops(last) == [k \in 1 .. (last - 1) |-> curr_selection[k]]
LeaveOut_Not(last)  == [k \in 1 .. last |-> curr_selection[k]]
LeaveOut(last) == [k \in 1 .. last |-> curr_selection[k] /\ k # last]

WasteTakenBack_WholeFee(last) == p_utxos[last].fee
WasteTakenBack(last) == CoinWaste(last)

(* Walk back to the last coin taken and leave it out instead; when no coin *)
(* is taken the whole tree has been walked and the loop breaks.            *)
WalkBack ==
  LET last == LastIncluded(curr_selection)
  IN  /\ curr_available_value' = curr_available_value + PoppedValue(last)
      /\ IF last = 0
         THEN /\ curr_selection' = <<>>
              /\ complete' = TRUE
              /\ pc' = "solution"
              /\ UNCHANGED <<curr_value, curr_waste, tries>>
         ELSE /\ curr_selection' = LeaveOut(last)
              /\ curr_value' = curr_value - p_utxos[last].effective_value
              /\ curr_waste' = curr_waste - WasteTakenBack(last)
              /\ tries' = tries + 1
              /\ UNCHANGED <<pc, complete>>

Searching == pc = "search" /\ tries < MaxTries

Abandon ==
  /\ Searching
  /\ HopelessBranch
  /\ WalkBack
  /\ UNCHANGED <<input, p_utxos, best, output>>

(* The branch is a solution: keep it if it wastes no more than the best. *)
Improves == curr_waste + Excess <= best_waste

Record ==
  /\ Searching
  /\ ~HopelessBranch
  /\ curr_value >= actual_target
  /\ IF Improves
     THEN /\ best_selection' = Padded(curr_selection)
          /\ best_waste' = curr_waste + Excess
     ELSE UNCHANGED best
  /\ WalkBack
  /\ UNCHANGED <<input, p_utxos, output>>

(* p_utxos.at(curr_selection.size()): the coin to decide on next. *)
NextCoin == Len(curr_selection) + 1

(* The previous coin is the same in value and fee and was left out. *)
SameAsOmitted_IgnoresFee ==
  /\ curr_selection # <<>>
  /\ ~curr_selection[Len(curr_selection)]
  /\ p_utxos[NextCoin].effective_value = p_utxos[NextCoin - 1].effective_value
SameAsOmitted ==
  /\ curr_selection # <<>>
  /\ ~curr_selection[Len(curr_selection)]
  /\ p_utxos[NextCoin].effective_value = p_utxos[NextCoin - 1].effective_value
  /\ p_utxos[NextCoin].fee = p_utxos[NextCoin - 1].fee

Forward ==
  /\ Searching
  /\ ~HopelessBranch
  /\ curr_value < actual_target
  /\ curr_available_value' =
       curr_available_value - p_utxos[NextCoin].effective_value
  /\ tries' = tries + 1
  /\ UNCHANGED <<pc, input, p_utxos, best, complete, output>>

Skip ==
  /\ Forward
  /\ SameAsOmitted
  /\ curr_selection' = Append(curr_selection, FALSE)
  /\ UNCHANGED <<curr_value, curr_waste>>

Include ==
  /\ Forward
  /\ ~SameAsOmitted
  /\ curr_selection' = Append(curr_selection, TRUE)
  /\ curr_value' = curr_value + p_utxos[NextCoin].effective_value
  /\ curr_waste' = curr_waste + CoinWaste(NextCoin)

GiveUp ==
  /\ pc = "search"
  /\ tries = MaxTries
  /\ pc' = "solution"
  /\ UNCHANGED <<input, p_utxos, search, best, tries, complete, output>>

Return ==
  /\ pc = "solution"
  /\ pc' = "done"
  /\ IF best_selection # <<>>
     THEN /\ select_value' = SelSum(Amounts, best_selection)
          /\ utxo_fee_value' = SelSum(Fees, best_selection)
     ELSE UNCHANGED output
  /\ UNCHANGED <<input, p_utxos, search, best, tries, complete>>

Stopped == pc \in {"done", "throw"} /\ UNCHANGED vars

Next ==
  \/ Reject \/ Sort \/ Abandon \/ Record \/ Skip \/ Include \/ GiveUp
  \/ Return \/ Stopped

(* The function is straight-line code: a started call keeps running. *)
Spec     == Init /\ [][Next]_vars
FairSpec == Spec /\ WF_vars(Next)

-----------------------------------------------------------------------------
(* The types of the state.  Every Amount the search computes is a natural  *)
(* number: the -= of the walk back never takes one below zero.             *)
TypeOK ==
  /\ pc \in {"start", "search", "solution", "done", "throw"}
  /\ utxos \in Pools
  /\ p_utxos \in Seq(Coin)
  /\ actual_target \in Nat
  /\ cost_of_change \in Costs
  /\ curr_selection \in Seq(BOOLEAN)
  /\ curr_value \in Nat
  /\ curr_available_value \in Nat
  /\ curr_waste \in Nat
  /\ best_selection \in Seq(BOOLEAN)
  /\ best_waste \in Nat
  /\ tries \in 0 .. MaxTries
  /\ complete \in BOOLEAN
  /\ select_value \in Nat
  /\ utxo_fee_value \in Nat

(* The totals that the loop carries along by += and -= are at every turn   *)
(* what a recount gives: the value and the waste of the coins taken, and   *)
(* the value of the coins not decided on.                                  *)
RunningTotals ==
  pc = "search" =>
    /\ Len(curr_selection) <= N
    /\ curr_value = SelSum(Eff, curr_selection)
    /\ curr_waste = SelSum(Waste, curr_selection)
    /\ curr_available_value =
         SumTo(Eff, N) - SumTo(Eff, Len(curr_selection))

(* The search never moves forward past the last coin, so neither           *)
(* p_utxos.at(curr_selection.size()) nor p_utxos.at(0) can throw           *)
(* std::out_of_range.                                                      *)
IndexInRange ==
  pc = "search" =>
    /\ ~HopelessBranch /\ curr_value < actual_target
         => Len(curr_selection) < N
    /\ curr_waste > best_waste => N > 0

(* A recorded selection pays the target, pays at most cost_of_change on    *)
(* top of it, and best_waste is its waste with that excess counted in.     *)
InRange(sel) ==
  SelSum(Eff, sel) \in actual_target .. actual_target + cost_of_change

WasteOf(sel) == SelSum(Waste, sel) + SelSum(Eff, sel) - actual_target

BestIsSolution ==
  best_selection # <<>> =>
    /\ Len(best_selection) = N
    /\ InRange(best_selection)
    /\ best_waste = WasteOf(best_selection)

(* When the tree was walked to the end, no selection in range wastes less  *)
(* than the one returned, and one is returned whenever there is any (in an *)
(* empty pool the selection of no coin reads as none found).  It           *)
(* holds although branches are cut and equal coins are skipped, for pools  *)
(* in which coins of the same value and fee have the same long term fee.   *)
SameFeeSameWaste ==
  \A j, k \in 1 .. N :
    p_utxos[j].effective_value = p_utxos[k].effective_value
      /\ p_utxos[j].fee = p_utxos[k].fee => Waste[j] = Waste[k]

BestIsLeastWaste ==
  pc = "done" /\ complete /\ SameFeeSameWaste =>
    \A sel \in [1 .. N -> BOOLEAN] :
      InRange(sel) /\ WasteOf(sel) <= MaxAmount =>
        best_waste <= WasteOf(sel) /\ (N > 0 => best_selection # <<>>)

(* The comment at the skip says that coins of the same value and fee have  *)
(* the same waste, so that a skipped coin costs no solution: "we only need *)
(* to check if one of those values match in order to know that the waste   *)
(* is the same".                                                           *)
SkippedCoinHasSameWaste ==
  pc = "search" /\ ~HopelessBranch /\ curr_value < actual_target
    /\ SameAsOmitted => Waste[NextCoin] = Waste[NextCoin - 1]

(* The search never returns to a branch it has left: each turn that does   *)
(* not go deeper on the same branch turns a TRUE of it into a FALSE and    *)
(* keeps everything before.                                                *)
NoBranchTwice ==
  [][pc = "search" /\ curr_selection' # curr_selection /\ ~complete' =>
       \/ /\ Len(curr_selection') = Len(curr_selection) + 1
          /\ \A k \in 1 .. Len(curr_selection) :
                curr_selection'[k] = curr_selection[k]
       \/ \E k \in 1 .. Len(curr_selection) :
            /\ k = Len(curr_selection')
            /\ curr_selection[k] /\ ~curr_selection'[k]
            /\ \A j \in 1 .. (k - 1) :
                  curr_selection'[j] = curr_selection[j]]_vars

(* A walk over n coins takes fewer than 2^(n+1) turns: as long as MaxTries *)
(* leaves that many, the search comes to the end of the tree by itself.    *)
WalkCompletes ==
  [](pc = "search" /\ 2 ^ (N + 1) - 1 <= MaxTries => <>complete)

(* The search keeps the contract of a selection, up to its finest detail.  *)
(* An empty result means that it found nothing.                            *)
Contract == INSTANCE SelectionContract WITH
  needed   <- actual_target,
  utxo_fee <- utxo_fee_value,
  status   <- CASE pc = "throw" -> "refused"
                [] pc = "done"  ->
                     IF \E k \in 1 .. Len(best_selection) : best_selection[k]
                     THEN "answered" ELSE "nothing"
                [] OTHER -> "pending"

KeepsContract == Contract!Spec

=============================================================================
