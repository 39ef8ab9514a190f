--------------------------- MODULE CoinConversion ---------------------------
(***************************************************************************)
(* The structure Utxo a coin is selected by, filled from what a caller     *)
(* knows of the coin: by CoinApi::ConvertToUtxo (src/cfdapi_coin.cpp),     *)
(* which funding uses, and by CoinSelection::ConvertToUtxo                 *)
(* (src/cfd_utxo.cpp).  The caller owns the structure and may use it again *)
(* for the next coin.  Numbers and identifiers that are only copied, and   *)
(* always, are left out.                                                   *)
(***************************************************************************)
EXTENDS Integers

CONSTANTS
  Assets,
  None,            \* an empty value; for the type, zero
  kScriptSize,     \* room for a script that is not known
  EstimateWitness, \* of TxIn::EstimateTxInSize: for a type, the size of the
  EstimateUscript  \* witness and of the rest less kMinimumTxInSize

Types == {"p2pkh", "p2sh", "p2wpkh", "p2wsh", "p2sh-p2wpkh", "p2sh-p2wsh"}
ScriptTypes == {"p2pkh", "p2sh", "p2wpkh", "p2wsh"}

VARIABLES
  utxo,  \* the caller's structure
  done   \* what it was filled from last, and by which of the two

vars == <<utxo, done>>

(* What a caller knows of a coin; any of it may be empty.                  *)
UtxoData == [descriptor : Types \cup {None}, address : Types \cup {None},
             script : ScriptTypes \cup {None}, asset : Assets \cup {None}]

Cleared == [address_type |-> None, script_length |-> 0, witness_size_max |-> 0,
            uscript_size_max |-> 0, asset |-> None]

(* An address of a script hash does not tell what the script is.           *)
LengthOf(type) ==
  CASE type = "p2pkh"  -> 25
    [] type = "p2wpkh" -> 22
    [] type = "p2wsh"  -> 34
    [] OTHER           -> 23

-----------------------------------------------------------------------------
(* CoinApi::ConvertToUtxo: the structure is not cleared, for sizeof is     *)
(* that of a pointer.                                                      *)
FoundType(data) ==
  CASE data.descriptor # None -> None
    [] data.descriptor = None /\ data.address # None -> data.address
    [] OTHER -> data.script

WithScript(u, type) ==
  IF type = None THEN u
  ELSE [u EXCEPT !.address_type = type, !.script_length = LengthOf(type)]

WithSizes(u) ==
  [u EXCEPT
    !.witness_size_max = CASE u.address_type = "p2wpkh" -> 71 + 33 + 2
                           [] u.address_type = "p2wsh"  -> 71 + u.script_length + 2
                           [] OTHER                     -> @,
    !.uscript_size_max = CASE u.address_type \in {"p2wpkh", "p2sh-p2wpkh"} -> 20 + 2
                           [] u.address_type \in {"p2wsh", "p2sh-p2wsh"}   -> 32 + 2
                           [] u.address_type = "p2pkh"                     -> 71 + 33 + 3
                           [] OTHER -> 71 + u.script_length + 3]

WithAsset(u, asset) == IF asset = None THEN u ELSE [u EXCEPT !.asset = asset]

FromData(u, data) ==
  WithAsset(WithSizes(WithScript(u, FoundType(data))), data.asset)

(* CoinSelection::ConvertToUtxo has three overloads: by the descriptor, by *)
(* the locking script, and by the locking script with an asset, which is   *)
(* copied without asking whether it is empty.                              *)
ByScript(data) ==
  CASE data.script = "p2sh" /\ data.descriptor \in {"p2sh-p2wpkh", "p2sh-p2wsh"} ->
         data.descriptor
    [] OTHER -> data.script

Estimated(type) ==
  [Cleared EXCEPT
    !.address_type = type,
    !.witness_size_max = CASE type \in {"p2wpkh", "p2sh-p2wpkh"} -> EstimateWitness["p2wpkh"]
                           [] type \in {"p2wsh", "p2sh-p2wsh"} ->
                                EstimateWitness["p2wsh"] + kScriptSize
                           [] OTHER -> 0,
    !.uscript_size_max = CASE type = "p2sh-p2wpkh" -> 22
                           [] type = "p2sh-p2wsh"  -> 34
                           [] type = "p2sh"        -> kScriptSize + EstimateUscript["p2sh"]
                           [] type = "p2pkh"       -> EstimateUscript["p2pkh"]
                           [] OTHER                -> 0]

ByDescriptor(data) == WithAsset(Estimated(data.descriptor), data.asset)

ByLockingScript(data) ==
  [Estimated(ByScript(data)) EXCEPT
    !.script_length = IF data.script = None THEN 0 ELSE LengthOf(data.script)]

OfAsset(data) == [ByLockingScript(data) EXCEPT !.asset = data.asset]

-----------------------------------------------------------------------------
Nothing == [by |-> "nobody"]

Init == utxo = Cleared /\ done = Nothing

CoinApiConvertToUtxo(data) ==
  /\ utxo' = FromData(utxo, data)
  /\ done' = [by |-> "CoinApi", data |-> data]

(* No caller gives the last overload an empty asset, which has no bytes to *)
(* copy.                                                                   *)
CoinSelectionConvertToUtxo(data) ==
  /\ \/ utxo' = ByDescriptor(data)
     \/ utxo' = ByLockingScript(data)
     \/ data.asset # None /\ utxo' = OfAsset(data)
  /\ done' = [by |-> "CoinSelection", data |-> data]

Next == \E data \in UtxoData :
          CoinApiConvertToUtxo(data) \/ CoinSelectionConvertToUtxo(data)

Spec == Init /\ [][Next]_vars

(* The header says of the structure that a conversion fills "param[out]":  *)
(* what it holds afterwards is of the coin converted, and not of one that  *)
(* it was used for before.                                                 *)
OnlyOfThisCoin ==
  done.by = "CoinApi" => utxo = FromData(Cleared, done.data)
=============================================================================
