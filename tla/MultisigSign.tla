---------------------------- MODULE MultisigSign ----------------------------
(***************************************************************************)
(* TransactionApiBase::AddMultisigSign, AddSign and UpdateWitnessStack     *)
(* (src/cfdapi_transaction_base.cpp): parties sign one input of a          *)
(* transaction by calls, each of which takes the transaction that an       *)
(* earlier one returned.  AddMultisigSign sorts the signatures given by    *)
(* the order of the public keys in the multisig script, erasing them from  *)
(* a list while it goes through it.                                        *)
(***************************************************************************)
EXTENDS Integers, Sequences, TLC

CONSTANTS
  NoKey,        \* the related public key of a signature that names none
  PubkeyLists,  \* the public keys of multisig scripts: sequences
  SignLists,    \* lists of signatures: sequences of [sig, key]
  MaxSigns,     \* the length of a list that is refused when exceeded: 15
  MaxCalls      \* bound on the calls made

Types == {"p2sh", "p2wsh", "p2sh-p2wsh", "p2wpkh"}

(* The scripts that a call must give for its type; a call for any other    *)
(* type is refused.                                                        *)
Required == [p2sh |-> {"redeem"}, p2wsh |-> {"witness"}] @@
            ("p2sh-p2wsh" :> {"redeem", "witness"})

ASSUME BoundsAssumption == MaxSigns \in Nat /\ MaxCalls \in Nat
Elements(s) == {s[k] : k \in 1 .. Len(s)}

(* No script has an invalid key, and no signature is given twice.          *)
ASSUME PubkeyListsAssumption ==
  \A pubkeys \in PubkeyLists :
    pubkeys \in Seq(Elements(pubkeys)) /\ NoKey \notin Elements(pubkeys)
ASSUME SignListsAssumption ==
  \A list \in SignLists :
    /\ list \in Seq(Elements(list))
    /\ \A j, k \in 1 .. Len(list) : list[j].sig = list[k].sig => j = k

VARIABLES
  pc,              \* "idle", "sort", "others", "set" or "redeem"
  calls,
  tx,              \* the input of the transaction the caller holds
  txc,             \* the input as the running call has changed it
  call,            \* the parameters of AddMultisigSign
  pubkey, itr,     \* positions of the loops, in pubkeys and in sign_params
  sign_params, signature_data,
  outcome          \* of the last call: "none", "returned" or "threw"

loops == <<pubkey, itr, sign_params, signature_data>>
vars  == <<pc, calls, tx, txc, call, loops, outcome>>

-----------------------------------------------------------------------------
(* Stack items: a signature, or one of these.                              *)
EmptyItem     == "empty"
MultisigItem  == "multisig script"
WitnessProgram == "witness program"

NoCall ==
  [type |-> "none", scripts |-> {}, list |-> <<>>, clear |-> FALSE, pubkeys |-> <<>>]

Sigs(list) == [k \in 1 .. Len(list) |-> list[k].sig]
Erased(list, k) == SubSeq(list, 1, k - 1) \o SubSeq(list, k + 1, Len(list))

Init ==
  /\ pc = "idle" /\ calls = 0 /\ outcome = "none"
  /\ tx = [script |-> <<>>, witness |-> <<>>]
  /\ txc = tx
  /\ call = NoCall
  /\ pubkey = 0 /\ itr = 0
  /\ sign_params = <<>> /\ signature_data = <<>>

StartCall == pc = "idle" /\ calls < MaxCalls /\ calls' = calls + 1

(* ValidateAddMultisigSign.                                                *)
IsRefused(c) ==
  \/ c.type \notin DOMAIN Required
  \/ ~(Required[c.type] \subseteq c.scripts)
  \/ c.list = <<>> \/ Len(c.list) > MaxSigns

AddMultisigSign ==
  /\ StartCall
  /\ \E type \in Types, list \in SignLists, clear \in BOOLEAN,
        scripts \in SUBSET {"redeem", "witness"}, pubkeys \in PubkeyLists :
       call' = [type |-> type, scripts |-> scripts, list |-> list,
                clear |-> clear, pubkeys |-> pubkeys]
  /\ txc' = tx
  /\ pubkey' = 1 /\ itr' = 1
  /\ sign_params' = call'.list
  /\ signature_data' = <<>>
  /\ IF IsRefused(call')
     THEN pc' = "idle" /\ outcome' = "threw"
     ELSE pc' = "sort" /\ outcome' = "none"
  /\ UNCHANGED tx

(* The loops over the public keys and the signatures not placed yet.  A    *)
(* signature that names the key is erased, and the iterator stays.         *)
InKeys == pc = "sort" /\ pubkey <= Len(call.pubkeys)

Matches_Unkeyed(param) == param.key \in {NoKey, call.pubkeys[pubkey]}
Matches(param) == param.key = call.pubkeys[pubkey]

ItrAfterErase_Next == itr + 1
ItrAfterErase      == itr
Advanced_Not       == itr
Advanced           == itr + 1

Remaining_Kept  == sign_params
Remaining_First == Tail(sign_params)
Remaining == Erased(sign_params, itr)

Place ==
  /\ InKeys /\ itr <= Len(sign_params)
  /\ Matches(sign_params[itr])
  /\ sign_params' = Remaining
  /\ itr' = ItrAfterErase
  /\ signature_data' = Append(signature_data, sign_params[itr].sig)
  /\ UNCHANGED <<pc, calls, tx, txc, call, pubkey, outcome>>

PassOver ==
  /\ InKeys /\ itr <= Len(sign_params)
  /\ ~Matches(sign_params[itr])
  /\ itr' = Advanced
  /\ UNCHANGED <<pc, calls, tx, txc, call, pubkey, sign_params, signature_data,
                 outcome>>

NextPubkey ==
  /\ InKeys /\ itr > Len(sign_params)
  /\ pubkey' = pubkey + 1
  /\ itr' = 1
  /\ UNCHANGED <<pc, calls, tx, txc, call, sign_params, signature_data, outcome>>

EndKeys ==
  /\ pc = "sort" /\ pubkey > Len(call.pubkeys)
  /\ pc' = "others"
  /\ UNCHANGED <<calls, tx, txc, call, loops, outcome>>

(* What is left must name no key, and follows in the order given.          *)
AppendOther ==
  /\ pc = "others" /\ itr <= Len(sign_params)
  /\ sign_params[itr].key = NoKey
  /\ signature_data' = Append(signature_data, sign_params[itr].sig)
  /\ itr' = itr + 1
  /\ UNCHANGED <<pc, calls, tx, txc, call, pubkey, sign_params, outcome>>

MissingPubkey ==
  /\ pc = "others" /\ itr <= Len(sign_params)
  /\ sign_params[itr].key # NoKey
  /\ pc' = "idle" /\ outcome' = "threw"
  /\ UNCHANGED <<calls, tx, txc, call, loops>>

EndOthers ==
  /\ pc = "others" /\ itr > Len(sign_params)
  /\ pc' = "set"
  /\ UNCHANGED <<calls, tx, txc, call, loops, outcome>>

-----------------------------------------------------------------------------
MultisigStack == <<EmptyItem>> \o signature_data \o <<MultisigItem>>

ClearedWitness_Not(clear) == txc.witness
ClearedWitness(clear) == IF clear THEN <<>> ELSE txc.witness

SetP2sh ==
  /\ pc = "set" /\ call.type = "p2sh"
  /\ txc' = [txc EXCEPT !.script = MultisigStack]
  /\ tx' = txc'
  /\ pc' = "idle" /\ outcome' = "returned"
  /\ UNCHANGED <<calls, call, loops>>

SetP2wsh ==
  /\ pc = "set" /\ call.type # "p2sh"
  /\ txc' = [txc EXCEPT !.witness = ClearedWitness(call.clear) \o MultisigStack]
  /\ IF call.type = "p2sh-p2wsh"
     THEN pc' = "redeem" /\ UNCHANGED <<tx, outcome>>
     ELSE pc' = "idle" /\ outcome' = "returned" /\ tx' = txc'
  /\ UNCHANGED <<calls, call, loops>>

SetRedeemScript ==
  /\ pc = "redeem"
  /\ txc' = [txc EXCEPT !.script = <<WitnessProgram>>]
  /\ tx' = txc'
  /\ pc' = "idle" /\ outcome' = "returned"
  /\ UNCHANGED <<calls, call, loops>>

(* AddSign, for an input of any type: the signatures as they are given.    *)
(* AddWitnessStack throws for none.                                        *)
AddSign ==
  /\ StartCall
  /\ \E list \in SignLists, is_witness, clear \in BOOLEAN :
       IF is_witness /\ list = <<>>
       THEN outcome' = "threw" /\ UNCHANGED <<tx, txc>>
       ELSE /\ txc' = IF is_witness
                      THEN [tx EXCEPT !.witness =
                             (IF clear THEN <<>> ELSE tx.witness) \o Sigs(list)]
                      ELSE [tx EXCEPT !.script = Sigs(list)]
            /\ tx' = txc'
            /\ outcome' = "returned"
  /\ call' = NoCall
  /\ UNCHANGED <<pc, loops>>

(* UpdateWitnessStack: one item of the stack is replaced, counted from 0.  *)
UpdateWitnessStack ==
  /\ StartCall
  /\ \E list \in SignLists, stack_index \in 0 .. Len(tx.witness) :
       /\ Len(list) = 1
       /\ IF stack_index < Len(tx.witness)
          THEN /\ txc' = [tx EXCEPT !.witness[stack_index + 1] = list[1].sig]
               /\ tx' = txc'
               /\ outcome' = "returned"
          ELSE outcome' = "threw" /\ UNCHANGED <<tx, txc>>
  /\ call' = NoCall
  /\ UNCHANGED <<pc, loops>>

Running ==
  \/ Place \/ PassOver \/ NextPubkey \/ EndKeys \/ AppendOther \/ MissingPubkey
  \/ EndOthers \/ SetP2sh \/ SetP2wsh \/ SetRedeemScript

Stopped == pc = "idle" /\ calls = MaxCalls /\ UNCHANGED vars

Next == AddMultisigSign \/ AddSign \/ UpdateWitnessStack \/ Running \/ Stopped

(* A started call is straight-line code and keeps running.                 *)
Spec == Init /\ [][Next]_vars /\ WF_vars(Running)

-----------------------------------------------------------------------------
TypeOK ==
  /\ pc \in {"idle", "sort", "others", "set", "redeem"}
  /\ calls \in 0 .. MaxCalls
  /\ call = NoCall \/ call.list \in SignLists
  /\ pc # "idle" =>
       /\ itr \in 1 .. Len(call.list) + 1
       /\ pubkey \in 1 .. Len(call.pubkeys) + 1
  /\ pc = "sort" => Len(sign_params) + Len(signature_data) = Len(call.list)
  /\ outcome \in {"none", "returned", "threw"}

Returned == outcome = "returned" /\ call # NoCall

IsPubkey(key) == key \in Elements(call.pubkeys)

(* The place of a signature in a list, and the key it names there.         *)
PlaceIn(list, sig) == CHOOSE k \in 1 .. Len(list) : list[k].sig = sig
KeyIn(list, sig)   == list[PlaceIn(list, sig)].key

(* The keys that the signatures of a list name, and those of the stack.    *)
KeysOf(list) == [k \in 1 .. Len(list) |-> list[k].key]
KeysIn(list, data) == [j \in 1 .. Len(data) |-> KeyIn(list, data[j])]

Keyed(keys) == {j \in 1 .. Len(keys) : keys[j] # NoKey}

(* Every key named has a place of its own in the script.                   *)
IsPlacing(pubkeys, keys, place) ==
  \A j, k \in Keyed(keys) :
    pubkeys[place[j]] = keys[j] /\ (place[j] = place[k] => j = k)

CanBeAligned(pubkeys, keys) ==
  \E place \in [Keyed(keys) -> 1 .. Len(pubkeys)] : IsPlacing(pubkeys, keys, place)

(* CHECKMULTISIG goes once through the script: the places come in order.   *)
Aligned(pubkeys, keys) ==
  \E place \in [Keyed(keys) -> 1 .. Len(pubkeys)] :
    /\ IsPlacing(pubkeys, keys, place)
    /\ \A j, k \in Keyed(keys) : j < k => place[j] < place[k]

(* Those that name no key come last, in the order given.                   *)
OthersLast(list, data) ==
  \A j, k \in 1 .. Len(data) : j < k /\ KeyIn(list, data[j]) = NoKey =>
    /\ KeyIn(list, data[k]) = NoKey
    /\ PlaceIn(list, data[j]) < PlaceIn(list, data[k])

NoKeyTwice(pubkeys) ==
  \A j, k \in 1 .. Len(pubkeys) : pubkeys[j] = pubkeys[k] => j = k

(* A call that returns has put every signature of its list on the stack    *)
(* once, though it erases from the list it is going through.               *)
NoSignatureLost ==
  Returned =>
    /\ Len(signature_data) = Len(call.list)
    /\ \A k \in 1 .. Len(call.list) :
         \E j \in 1 .. Len(signature_data) : signature_data[j] = call.list[k].sig

(* A returned stack has the signatures whose keys are named in an order    *)
(* that CHECKMULTISIG accepts, if they have one, and the others after      *)
(* them.  Scripts that have a key twice are excluded: see below.           *)
SignaturesInKeyOrder ==
  Returned =>
    /\ OthersLast(call.list, signature_data)
    /\ NoKeyTwice(call.pubkeys) /\ CanBeAligned(call.pubkeys, KeysOf(call.list)) =>
         Aligned(call.pubkeys, KeysIn(call.list, signature_data))

(* "The order of signatures to be added is automatically aligned with the  *)
(* corresponding pubkey in redeemscript" (cfdapi_transaction_base.h:94),   *)
(* of any script: not so if it has a key twice, for all the signatures of  *)
(* that key are placed at its first turn.                                  *)
SignaturesAligned ==
  Returned /\ CanBeAligned(call.pubkeys, KeysOf(call.list)) =>
    Aligned(call.pubkeys, KeysIn(call.list, signature_data))

(* A list in order is refused only for a key that is not in the script.    *)
RefusedOnlyIfForeign ==
  outcome = "threw" /\ call # NoCall /\ ~IsRefused(call) =>
    \E k \in 1 .. Len(call.list) :
      call.list[k].key # NoKey /\ ~IsPubkey(call.list[k].key)

(* With clear_stack the witness is the one that unlocks the script and     *)
(* nothing else, whatever earlier calls have left in it.                   *)
WitnessUnlocks ==
  Returned /\ call.clear /\ call.type # "p2sh" =>
    /\ tx.witness = <<EmptyItem>> \o signature_data \o <<MultisigItem>>
    /\ call.type = "p2sh-p2wsh" => tx.script = <<WitnessProgram>>

(* Every call comes to its end: the loops that erase do not go round.      *)
CallsReturn == (pc # "idle") ~> (pc = "idle")
=============================================================================
