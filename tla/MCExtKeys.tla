----------------------------- MODULE MCExtKeys -----------------------------
(***************************************************************************)
(* Instances of ExtKeys for TLC: holders of a seed, of private or public   *)
(* keys at the root or below a hardened step, or of keys of both networks. *)
(***************************************************************************)
EXTENDS ExtKeys

CONSTANTS S1, S2

MCKey(root, version, private, path) ==
  [root |-> root, version |-> version, private |-> private, path |-> path]

MCHoldings ==
  {[seeds |-> {S1}, keys |-> {}]} \cup
  {[seeds |-> {}, keys |-> keys] :
     keys \in {{MCKey(S1, "main", TRUE, <<>>)},
               {MCKey(S1, "test", FALSE, <<>>)},
               {MCKey(S1, "main", FALSE, <<Hardened>>), MCKey(S1, "test", TRUE, <<0>>)},
               {MCKey(S1, "main", TRUE, <<0>>), MCKey(S2, "main", FALSE, <<>>)}}}
=============================================================================
