--------------------------- MODULE MCMultisigSign ---------------------------
(***************************************************************************)
(* Instances of MultisigSign for TLC: scripts of two keys, and one that    *)
(* has a key twice; signatures of these keys, of none, or of a key that is *)
(* in no script.                                                           *)
(***************************************************************************)
EXTENDS MultisigSign

CONSTANTS K1, K2, MCKeys, MCMaxLen

MCSigs == <<"sig1", "sig2", "sig3", "sig4">>

MCPubkeyLists == {<<K1, K2>>, <<K2, K1, K2>>}

(* Every list of up to MCMaxLen signatures; of three, those that name both *)
(* keys, in any order, and one that names a key twice; one of four.        *)
MCKeyLists ==
  UNION {[1 .. n -> MCKeys] : n \in 0 .. MCMaxLen}
    \cup {keys \in [1 .. 3 -> {K1, K2, NoKey}] : {K1, K2, NoKey} = {keys[k] : k \in 1 .. 3}}
    \cup {<<K2, K1, K2>>, <<K1, NoKey, NoKey, K2>>}

MCSignLists ==
  {[k \in DOMAIN keys |-> [sig |-> MCSigs[k], key |-> keys[k]]] : keys \in MCKeyLists}
=============================================================================
