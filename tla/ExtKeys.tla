------------------------------ MODULE ExtKeys ------------------------------
(***************************************************************************)
(* HDWalletApi (src/cfdapi_hdwallet.cpp): a holder of seeds and extended   *)
(* keys calls the API with any key it has got so far and any parameters.   *)
(* A call that throws leaves everything as it was.  Derivation itself is   *)
(* cfdcore's: here a key is the path that leads to it (KeyAuthority).      *)
(***************************************************************************)
EXTENDS Integers, Sequences

CONSTANTS
  Hardened,   \* kHardenedKey, the bit of a child number: 2^31
  Roots,      \* the seeds there are
  Holdings,   \* what a holder may start with: records [seeds, keys]
  MaxDepth,   \* bound on the depth of a key
  MaxKeyCalls \* bound on the calls that return

NetTypes == {"mainnet", "testnet", "regtest", "liquidv1", "elementsregtest"}
Versions == {"main", "test"}
Children == 0 .. (2 * Hardened - 1)
Paths    == Seq(Children)
Keys     == [root : Roots, version : Versions, private : BOOLEAN, path : Paths]

ASSUME HardenedAssumption == Hardened \in Nat \ {0}
ASSUME KeyBoundsAssumption == MaxDepth \in Nat /\ MaxKeyCalls \in Nat
ASSUME HoldingsAssumption ==
  \A h \in Holdings : h.seeds \subseteq Roots /\ h.keys \subseteq Keys

VARIABLES seeds, given, known, plain, key_calls

keyVars == <<seeds, given, known, plain, key_calls>>

-----------------------------------------------------------------------------
(* cfdcore: the version that a key made from a seed is encoded with, the   *)
(* private or public key at a path below a key, and the public key of a    *)
(* private one.                                                            *)
SeedVersion(net) == IF net \in {"mainnet", "liquidv1"} THEN "main" ELSE "test"
Derive(key, type, path) ==
  [root |-> key.root, version |-> key.version, private |-> type = "privkey",
   path |-> key.path \o path]
GetExtPubkey(key) == Derive(key, "pubkey", <<>>)

IsHardened(child) == child >= Hardened

(* child_num |= kHardenedKey.                                              *)
HardenedChild_Added(child) == child + Hardened
HardenedChild(child) == IF IsHardened(child) THEN child ELSE child + Hardened

ChildNumber(child, hardened) == IF hardened THEN HardenedChild(child) ELSE child

(* The version of keys of a network, for private and public keys alike.    *)
GetExtkeyVersion_NoLiquid(net) == IF net = "mainnet" THEN "main" ELSE "test"
GetExtkeyVersion(net) == IF net \in {"mainnet", "liquidv1"} THEN "main" ELSE "test"

OfNetwork(key, net) == key.version = GetExtkeyVersion(net)

(* A public key gives no private one, and no hardened one.                 *)
CanDerive(key, type, path) ==
  key.private \/ (type = "pubkey" /\ \A i \in 1 .. Len(path) : ~IsHardened(path[i]))

AcceptsPath(key, net, type, path) ==
  path # <<>> /\ CanDerive(key, type, path) /\ OfNetwork(key, net)

AcceptsPrivkey_AnyNetwork(key, net) == key.private
AcceptsPrivkey(key, net) == key.private /\ OfNetwork(key, net)

KeyInit ==
  /\ \E h \in Holdings : seeds = h.seeds /\ given = h.keys
  /\ known = given
  /\ plain = {}
  /\ key_calls = 0

Return == key_calls < MaxKeyCalls /\ key_calls' = key_calls + 1

Got(key) ==
  /\ Len(key.path) <= MaxDepth
  /\ Return
  /\ known' = known \cup {key}
  /\ UNCHANGED <<seeds, given, plain>>

TookOut(key, net) ==
  /\ Return
  /\ plain' = plain \cup {[key |-> key, version |-> SeedVersion(net)]}
  /\ UNCHANGED <<seeds, given, known>>

CreateExtkeyFromSeed ==
  \E seed \in seeds, net \in NetTypes, type \in {"privkey", "pubkey"} :
    Got([root |-> seed, version |-> SeedVersion(net),
         private |-> type = "privkey", path |-> <<>>])

CreateExtkeyFromParentPath ==
  \E key \in known, net \in NetTypes, type \in {"privkey", "pubkey"},
     len \in 1 .. MaxDepth : \E path \in [1 .. len -> Children] :
    /\ AcceptsPath(key, net, type, path)
    /\ Got(Derive(key, type, path))

CreateExtkeyFromParent ==
  \E key \in known, net \in NetTypes, type \in {"privkey", "pubkey"},
     child \in Children, hardened \in BOOLEAN :
    LET path == <<ChildNumber(child, hardened)>>
    IN  AcceptsPath(key, net, type, path) /\ Got(Derive(key, type, path))

CreateExtPubkey ==
  \E key \in known, net \in NetTypes :
    AcceptsPrivkey(key, net) /\ Got(GetExtPubkey(key))

GetPrivkeyFromExtkey ==
  \E key \in known, net \in NetTypes :
    AcceptsPrivkey(key, net) /\ TookOut(key, net)

GetPubkeyFromExtkey ==
  \E key \in known, net \in NetTypes :
    OfNetwork(key, net) /\ TookOut(GetExtPubkey(key), net)

KeyNext ==
  \/ CreateExtkeyFromSeed \/ CreateExtkeyFromParentPath \/ CreateExtkeyFromParent
  \/ CreateExtPubkey \/ GetPrivkeyFromExtkey \/ GetPubkeyFromExtkey

KeySpec == KeyInit /\ [][KeyNext]_keyVars

-----------------------------------------------------------------------------
KeyTypeOK ==
  /\ seeds \subseteq Roots
  /\ given \subseteq Keys
  /\ known \subseteq Keys
  /\ plain \subseteq [key : Keys, version : Versions]
  /\ key_calls \in 0 .. MaxKeyCalls

Authority == INSTANCE KeyAuthority

(* However calls follow each other, on keys that earlier ones returned, a  *)
(* holder gets the keys that the first ones entitle to and no others: who  *)
(* holds public keys only never gets a private or a hardened one, and no   *)
(* key is taken out for a network it was not made for.                     *)
KeepsAuthority == Authority!Spec

(* No call is refused in vain: what is not accepted is no key below the    *)
(* given one, the given one itself, or a key of another network.           *)
RefusedOnlyIfForbidden ==
  \A key \in known, net \in NetTypes : key.version = SeedVersion(net) =>
    /\ \A type \in {"privkey", "pubkey"}, len \in 1 .. MaxDepth :
         \A path \in [1 .. len -> Children] :
           ~AcceptsPath(key, net, type, path) =>
             ~Authority!Descends(Derive(key, type, path), key)
    /\ ~AcceptsPrivkey(key, net) => ~key.private
    /\ OfNetwork(key, net)
=============================================================================
