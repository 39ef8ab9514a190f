---------------------------- MODULE KeyAuthority ----------------------------
(***************************************************************************)
(* What extended keys entitle their holder to: from a private key to every *)
(* key below it, from a public key to the public keys below it that are    *)
(* reached without a hardened step, and only on the network of the key.    *)
(* An extended key is a record [root, version, private, path]: the seed it *)
(* comes from, the network it is encoded for and the child numbers that    *)
(* lead to it, hardened ones from Hardened on.                             *)
(***************************************************************************)
EXTENDS Integers, Sequences

CONSTANTS Hardened, Versions

VARIABLES
  seeds,   \* the seeds held
  given,   \* the extended keys held at first
  known,   \* the extended keys held now
  plain    \* the keys taken out of extended keys: [key, version]

vars == <<seeds, given, known, plain>>

(* k is at or below g, at a place that g leads to.                         *)
Descends(k, g) ==
  /\ k.root = g.root /\ k.version = g.version
  /\ Len(g.path) <= Len(k.path)
  /\ \A i \in 1 .. Len(g.path) : k.path[i] = g.path[i]
  /\ g.private \/ (/\ ~k.private
                   /\ \A i \in (Len(g.path) + 1) .. Len(k.path) : k.path[i] < Hardened)

Entitled(k) == k.root \in seeds \/ \E g \in given : Descends(k, g)

Init == known = given /\ plain = {}

Learn ==
  /\ known \subseteq known'
  /\ \A k \in known' \ known : Entitled(k)
  /\ UNCHANGED <<seeds, given, plain>>

(* A key that is taken out is marked with the network that it was made for.*)
TakeOut ==
  /\ plain \subseteq plain'
  /\ \A p \in plain' \ plain : Entitled(p.key) /\ p.version = p.key.version
  /\ UNCHANGED <<seeds, given, known>>

Next == Learn \/ TakeOut

Spec == Init /\ [][Next]_vars
=============================================================================
