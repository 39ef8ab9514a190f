---------------------------- MODULE WalletProofs ----------------------------
(***************************************************************************)
(* Proofs about what a wallet holds and what it signs.                     *)
(*                                                                         *)
(* ExtKeys: the keys that a holder gets are those that the first ones      *)
(* entitle to, through any number of calls.  What entitles is transitive,  *)
(* and every call goes one step down.                                      *)
(*                                                                         *)
(* MultisigSign: whatever signatures are given for whatever script, the    *)
(* loop that erases from the list it goes through places every one, by the *)
(* first place of its key (InOrder), which is the order that the script    *)
(* wants if it has no key twice (LEMMA OrderAligns).  The invariant is     *)
(* about the two lists at once (Moving), about the keys gone through       *)
(* (KeysDone), and about what is left for the second loop (OthersFollow).  *)
(***************************************************************************)
EXTENDS ExtKeys, MultisigSign, SequenceTheorems, TLAPS


Entitled(k) == Authority!Entitled(k)

(* Whatever is held and whatever was taken out was entitled to.            *)
AllEntitled ==
  /\ \A k \in known : Entitled(k)
  /\ \A p \in plain : Entitled(p.key) /\ p.version = p.key.version

HeldInv == KeyTypeOK /\ AllEntitled

(* Going down twice is going down.                                         *)
LEMMA DescendsTransitive ==
  ASSUME NEW g \in Keys, NEW k \in Keys, NEW l \in Keys,
         Authority!Descends(k, g), Authority!Descends(l, k)
  PROVE  Authority!Descends(l, g)
<1> DEFINE lg == Len(g.path)  lk == Len(k.path)  ll == Len(l.path)
<1>1. lg \in Nat /\ lk \in Nat /\ ll \in Nat
  BY DEF Keys, Paths
<1>2. /\ l.root = g.root /\ l.version = g.version /\ lg <= lk /\ lk <= ll
      /\ \A i \in 1 .. lg : k.path[i] = g.path[i]
      /\ \A i \in 1 .. lk : l.path[i] = k.path[i]
  BY DEF Authority!Descends
<1>3. lg <= ll /\ \A i \in 1 .. lg : l.path[i] = g.path[i]
  BY <1>1, <1>2
<1>4. ASSUME ~g.private
      PROVE  ~l.private /\ \A i \in (lg + 1) .. ll : l.path[i] < Hardened
  <2>1. ~k.private /\ \A i \in (lg + 1) .. lk : k.path[i] < Hardened
    BY <1>4 DEF Authority!Descends
  <2>2. ~l.private /\ \A i \in (lk + 1) .. ll : l.path[i] < Hardened
    BY <2>1 DEF Authority!Descends
  <2>3. ASSUME NEW i \in (lg + 1) .. ll
        PROVE  l.path[i] < Hardened
    <3>1. CASE i <= lk
      <4>1. i \in (lg + 1) .. lk /\ i \in 1 .. lk
        BY <1>1, <3>1
      <4> QED
        BY <4>1, <1>2, <2>1
    <3>2. CASE ~(i <= lk)
      <4>1. i \in (lk + 1) .. ll
        BY <1>1, <3>2
      <4> QED
        BY <4>1, <2>2
    <3> QED
      BY <3>1, <3>2
  <2> QED
    BY <2>2, <2>3
<1> QED
  BY <1>2, <1>3, <1>4 DEF Authority!Descends

(* What is below a key that is entitled to is entitled to.                 *)
LEMMA EntitledBelow ==
  ASSUME given \subseteq Keys, NEW k \in Keys, NEW l \in Keys,
         Entitled(k), Authority!Descends(l, k)
  PROVE  Entitled(l)
<1>1. CASE k.root \in seeds
  <2>1. l.root = k.root
    BY DEF Authority!Descends
  <2> QED
    BY <1>1, <2>1 DEF Entitled, Authority!Entitled
<1>2. CASE \E g \in given : Authority!Descends(k, g)
  <2>1. PICK g \in given : Authority!Descends(k, g)
    BY <1>2
  <2>2. Authority!Descends(l, g)
    BY <2>1, DescendsTransitive
  <2> QED
    BY <2>2 DEF Entitled, Authority!Entitled
<1> QED
  BY <1>1, <1>2 DEF Entitled, Authority!Entitled

(* A key held at first is entitled to.                                     *)
LEMMA EntitledToGiven ==
  ASSUME given \subseteq Keys, NEW k \in given
  PROVE  Entitled(k)
<1>1. k \in Keys /\ Len(k.path) \in Nat
  BY DEF Keys, Paths
<1>2. \A i \in (Len(k.path) + 1) .. Len(k.path) : FALSE
  BY <1>1
<1>3. k.private \in BOOLEAN
  BY <1>1 DEF Keys
<1>4. Authority!Descends(k, k)
  BY <1>1, <1>2, <1>3 DEF Authority!Descends
<1> QED
  BY <1>4 DEF Entitled, Authority!Entitled

(* A derivation that the checks let through goes down from the key.        *)
LEMMA DeriveGoesDown ==
  ASSUME NEW key \in Keys, NEW type \in {"privkey", "pubkey"},
         NEW path \in Paths, CanDerive(key, type, path)
  PROVE  /\ Derive(key, type, path) \in Keys
         /\ Authority!Descends(Derive(key, type, path), key)
<1> DEFINE d == Derive(key, type, path)
<1>1. key.path \in Paths /\ path \in Paths
  BY DEF Keys
<1>2. /\ d.root = key.root /\ d.version = key.version
      /\ d.private = (type = "privkey") /\ d.path = key.path \o path
  BY DEF Derive
<1>3. d.path \in Paths
  BY <1>1, <1>2 DEF Paths
<1>4. d \in Keys
  BY <1>3 DEF Derive, Keys
<1>5. /\ Len(key.path) \in Nat /\ Len(path) \in Nat
      /\ Len(d.path) = Len(key.path) + Len(path)
      /\ \A i \in 1 .. Len(d.path) :
           d.path[i] = IF i <= Len(key.path) THEN key.path[i]
                                            ELSE path[i - Len(key.path)]
  BY <1>1, <1>2 DEF Paths
<1>6. \A i \in 1 .. Len(key.path) : d.path[i] = key.path[i]
  BY <1>5
<1>7. ASSUME ~key.private
      PROVE  /\ ~d.private
             /\ \A i \in (Len(key.path) + 1) .. Len(d.path) : d.path[i] < Hardened
  <2>1. type = "pubkey" /\ \A i \in 1 .. Len(path) : ~(path[i] >= Hardened)
    BY <1>7 DEF CanDerive, IsHardened
  <2>2. ASSUME NEW i \in (Len(key.path) + 1) .. Len(d.path)
        PROVE  d.path[i] < Hardened
    <3>1. i - Len(key.path) \in 1 .. Len(path) /\ i \in 1 .. Len(d.path)
          /\ ~(i <= Len(key.path))
      BY <1>5
    <3>2. d.path[i] = path[i - Len(key.path)]
      BY <3>1, <1>5
    <3>3. path[i - Len(key.path)] \in Int
      BY <3>1, <1>1, HardenedAssumption DEF Paths, Children
    <3> QED
      BY <3>1, <3>2, <3>3, <2>1, HardenedAssumption
  <2> QED
    BY <1>2, <2>1, <2>2
<1>8. Len(key.path) <= Len(d.path)
  BY <1>5
<1> QED
  BY <1>2, <1>4, <1>6, <1>7, <1>8 DEF Authority!Descends

(* The public key of a key is below it, at the same place.                 *)
LEMMA PubkeyGoesDown ==
  ASSUME NEW key \in Keys
  PROVE  /\ GetExtPubkey(key) \in Keys
         /\ Authority!Descends(GetExtPubkey(key), key)
         /\ GetExtPubkey(key).version = key.version
<1>1. <<>> \in Paths /\ Len(<<>>) = 0
  BY DEF Paths
<1>2. CanDerive(key, "pubkey", <<>>)
  BY <1>1 DEF CanDerive
<1>3. Derive(key, "pubkey", <<>>).version = key.version
  BY DEF Derive
<1> QED
  BY <1>1, <1>2, <1>3, DeriveGoesDown DEF GetExtPubkey

-----------------------------------------------------------------------------
(* A call that returns a key, and one that takes a key out.                *)
GetsEntitled ==
  \E k \in Keys : Entitled(k) /\ known' = known \cup {k} /\ plain' = plain

TakesEntitled ==
  \E k \in Keys, v \in Versions :
    /\ Entitled(k) /\ v = k.version
    /\ plain' = plain \cup {[key |-> k, version |-> v]} /\ known' = known

(* The version of keys made from a seed is that of the network.            *)
LEMMA VersionsAgree ==
  \A net \in NetTypes :
    SeedVersion(net) \in Versions /\ SeedVersion(net) = GetExtkeyVersion(net)
BY DEF SeedVersion, GetExtkeyVersion, Versions, NetTypes

(* A child number that a call derives is a child number.                   *)
LEMMA HardenedInChildren ==
  \A child \in Children, hardened \in BOOLEAN : ChildNumber(child, hardened) \in Children
<1> TAKE child \in Children, hardened \in BOOLEAN
<1>1. child \in Nat /\ child <= 2 * Hardened - 1
  BY HardenedAssumption DEF Children
<1> QED
  BY <1>1, HardenedAssumption DEF ChildNumber, HardenedChild, IsHardened, Children

(* What every call does, under the invariant.                              *)
LEMMA CallsAreEntitled ==
  ASSUME HeldInv, KeyNext
  PROVE  /\ GetsEntitled \/ TakesEntitled
         /\ key_calls' \in 0 .. MaxKeyCalls
         /\ UNCHANGED <<seeds, given>>
<1>1. /\ given \subseteq Keys /\ known \subseteq Keys /\ seeds \subseteq Roots
      /\ key_calls \in 0 .. MaxKeyCalls
      /\ \A k \in known : Entitled(k)
  BY DEF HeldInv, KeyTypeOK, AllEntitled
<1>2. Return => key_calls' \in 0 .. MaxKeyCalls
  BY <1>1, KeyBoundsAssumption DEF Return
<1>3. ASSUME NEW k \in Keys, Entitled(k), Got(k)
      PROVE  GetsEntitled /\ Return /\ UNCHANGED <<seeds, given>>
  BY <1>3 DEF Got, GetsEntitled
<1>4. ASSUME NEW k \in Keys, NEW net \in NetTypes, Entitled(k),
             k.version = SeedVersion(net), TookOut(k, net)
      PROVE  TakesEntitled /\ Return /\ UNCHANGED <<seeds, given>>
  BY <1>4, VersionsAgree DEF TookOut, TakesEntitled
<1>5. ASSUME NEW key \in known, NEW net \in NetTypes, NEW type \in {"privkey", "pubkey"},
             NEW path \in Paths, AcceptsPath(key, net, type, path),
             Got(Derive(key, type, path))
      PROVE  GetsEntitled /\ Return /\ UNCHANGED <<seeds, given>>
  <2>1. key \in Keys /\ Entitled(key) /\ CanDerive(key, type, path)
    BY <1>1, <1>5 DEF AcceptsPath
  <2>2. /\ Derive(key, type, path) \in Keys
        /\ Authority!Descends(Derive(key, type, path), key)
    BY <2>1, DeriveGoesDown
  <2>3. Entitled(Derive(key, type, path))
    BY <1>1, <2>1, <2>2, EntitledBelow
  <2> QED
    BY <1>3, <1>5, <2>2, <2>3
<1>6. ASSUME NEW key \in known
      PROVE  /\ GetExtPubkey(key) \in Keys /\ Entitled(GetExtPubkey(key))
             /\ GetExtPubkey(key).version = key.version
  BY <1>1, PubkeyGoesDown, EntitledBelow
<1>7. CASE CreateExtkeyFromSeed
  <2>1. PICK seed \in seeds, net \in NetTypes, type \in {"privkey", "pubkey"} :
          Got([root |-> seed, version |-> SeedVersion(net),
               private |-> type = "privkey", path |-> <<>>])
    BY <1>7 DEF CreateExtkeyFromSeed
  <2> DEFINE k == [root |-> seed, version |-> SeedVersion(net),
                   private |-> type = "privkey", path |-> <<>>]
  <2>2. k \in Keys
    BY <1>1, VersionsAgree DEF Keys, Paths
  <2>3. Entitled(k)
    BY DEF Entitled, Authority!Entitled
  <2> QED
    BY <2>1, <2>2, <2>3, <1>2, <1>3
<1>8. CASE CreateExtkeyFromParentPath
  <2>1. PICK key \in known, net \in NetTypes, type \in {"privkey", "pubkey"},
             len \in 1 .. MaxDepth :
          \E path \in [1 .. len -> Children] :
            AcceptsPath(key, net, type, path) /\ Got(Derive(key, type, path))
    BY <1>8 DEF CreateExtkeyFromParentPath
  <2>2. PICK path \in [1 .. len -> Children] :
          AcceptsPath(key, net, type, path) /\ Got(Derive(key, type, path))
    BY <2>1
  <2>3. path \in Paths
    BY KeyBoundsAssumption DEF Paths
  <2> QED
    BY <2>2, <2>3, <1>2, <1>5
<1>9. CASE CreateExtkeyFromParent
  <2>1. PICK key \in known, net \in NetTypes, type \in {"privkey", "pubkey"},
             child \in Children, hardened \in BOOLEAN :
          /\ AcceptsPath(key, net, type, <<ChildNumber(child, hardened)>>)
          /\ Got(Derive(key, type, <<ChildNumber(child, hardened)>>))
    BY <1>9 DEF CreateExtkeyFromParent
  <2>2. <<ChildNumber(child, hardened)>> \in Paths
    BY HardenedInChildren DEF Paths
  <2> QED
    BY <2>1, <2>2, <1>2, <1>5
<1>10. CASE CreateExtPubkey
  <2>1. PICK key \in known : Got(GetExtPubkey(key))
    BY <1>10 DEF CreateExtPubkey
  <2> QED
    BY <2>1, <1>2, <1>3, <1>6
<1>11. CASE GetPrivkeyFromExtkey
  <2>1. PICK key \in known, net \in NetTypes :
          AcceptsPrivkey(key, net) /\ TookOut(key, net)
    BY <1>11 DEF GetPrivkeyFromExtkey
  <2>2. key \in Keys /\ Entitled(key) /\ key.version = SeedVersion(net)
    BY <2>1, <1>1, VersionsAgree DEF AcceptsPrivkey, OfNetwork
  <2> QED
    BY <2>1, <2>2, <1>2, <1>4
<1>12. CASE GetPubkeyFromExtkey
  <2>1. PICK key \in known, net \in NetTypes :
          OfNetwork(key, net) /\ TookOut(GetExtPubkey(key), net)
    BY <1>12 DEF GetPubkeyFromExtkey
  <2>2. GetExtPubkey(key).version = SeedVersion(net)
    BY <2>1, <1>6, VersionsAgree DEF OfNetwork
  <2> QED
    BY <2>1, <2>2, <1>2, <1>4, <1>6
<1> QED
  BY <1>7, <1>8, <1>9, <1>10, <1>11, <1>12 DEF KeyNext

(* The keys held at first are entitled to.                                 *)
LEMMA InitEntitled == KeyInit => HeldInv
<1> SUFFICES ASSUME KeyInit PROVE HeldInv
  OBVIOUS
<1>1. given \subseteq Keys /\ seeds \subseteq Roots
  BY HoldingsAssumption DEF KeyInit
<1>2. KeyTypeOK
  BY <1>1, KeyBoundsAssumption DEF KeyInit, KeyTypeOK
<1>3. AllEntitled
  BY <1>1, EntitledToGiven DEF KeyInit, AllEntitled
<1> QED
  BY <1>2, <1>3 DEF HeldInv

(* A call keeps all that is held and taken out entitled to.                *)
LEMMA StepEntitled == HeldInv /\ [KeyNext]_keyVars => HeldInv'
<1> SUFFICES ASSUME HeldInv, [KeyNext]_keyVars PROVE HeldInv'
  OBVIOUS
<1>1. CASE KeyNext
  <2>1. /\ GetsEntitled \/ TakesEntitled
        /\ key_calls' \in 0 .. MaxKeyCalls
        /\ UNCHANGED <<seeds, given>>
    BY <1>1, CallsAreEntitled
  <2>2. \A k : Entitled(k) => Entitled(k)'
    BY <2>1 DEF Entitled, Authority!Entitled
  <2>3. KeyTypeOK'
    BY <2>1 DEF HeldInv, KeyTypeOK, GetsEntitled, TakesEntitled
  <2>4. AllEntitled'
    BY <2>1, <2>2 DEF HeldInv, AllEntitled, GetsEntitled, TakesEntitled
  <2> QED
    BY <2>3, <2>4 DEF HeldInv
<1>2. CASE UNCHANGED keyVars
  BY <1>2 DEF keyVars, HeldInv, KeyTypeOK, AllEntitled, Entitled, Authority!Entitled
<1> QED
  BY <1>1, <1>2

(* What is held and what is taken out is entitled to, after every call.    *)
LEMMA KeyInvariance == KeySpec => []HeldInv
<1>1. KeyInit => HeldInv
  BY InitEntitled
<1>2. HeldInv /\ [KeyNext]_keyVars => HeldInv'
  BY StepEntitled
<1> QED
  BY <1>1, <1>2, PTL DEF KeySpec

(* All keys ever held or taken out are well-formed, at any depth.          *)
THEOREM KeyTypesCorrect == KeySpec => []KeyTypeOK
<1>1. HeldInv => KeyTypeOK
  BY DEF HeldInv
<1> QED
  BY <1>1, KeyInvariance, PTL

(* HDWalletApi implements KeyAuthority: every call is a step of it, on     *)
(* keys entitled to by those held at first.                                *)
THEOREM AuthorityKept == KeySpec => KeepsAuthority
<1>1. KeyInit => Authority!Init
  BY DEF KeyInit, Authority!Init
<1>2. HeldInv /\ [KeyNext]_keyVars => [Authority!Next]_(Authority!vars)
  <2> SUFFICES ASSUME HeldInv, [KeyNext]_keyVars PROVE [Authority!Next]_(Authority!vars)
    OBVIOUS
  <2>1. CASE KeyNext
    <3>1. (GetsEntitled \/ TakesEntitled) /\ UNCHANGED <<seeds, given>>
      BY <2>1, CallsAreEntitled
    <3>2. CASE GetsEntitled
      BY <3>1, <3>2 DEF GetsEntitled, Entitled, Authority!Next, Authority!Learn
    <3>3. CASE TakesEntitled
      BY <3>1, <3>3 DEF TakesEntitled, Entitled, Authority!Next, Authority!TakeOut
    <3> QED
      BY <3>1, <3>2, <3>3
  <2>2. CASE UNCHANGED keyVars
    BY <2>2 DEF keyVars, Authority!vars
  <2> QED
    BY <2>1, <2>2
<1> QED
  BY <1>1, <1>2, KeyInvariance, PTL DEF KeySpec, KeepsAuthority, Authority!Spec

(* Who starts with public keys only never comes to hold a private key, nor *)
(* takes one out, whatever calls follow.                                   *)
WatchesOnly ==
  seeds = {} /\ (\A g \in given : ~g.private) =>
    /\ \A k \in known : ~k.private
    /\ \A p \in plain : ~p.key.private

(* A holder of public keys only stays one, through every call.             *)
THEOREM WatchOnly == KeySpec => []WatchesOnly
<1>1. HeldInv => WatchesOnly
  BY DEF HeldInv, AllEntitled, Entitled, WatchesOnly, Authority!Entitled, Authority!Descends
<1> QED
  BY <1>1, KeyInvariance, PTL

(* No call is refused in vain: a path that the checks do not let through   *)
(* has a hardened child or a private key below a public one.               *)
LEMMA RefusedGoesNotDown ==
  ASSUME NEW key \in Keys, NEW type \in {"privkey", "pubkey"},
         NEW path \in Paths, ~CanDerive(key, type, path)
  PROVE  ~Authority!Descends(Derive(key, type, path), key)
<1> DEFINE d == Derive(key, type, path)
<1>1. SUFFICES ASSUME Authority!Descends(d, key) PROVE FALSE
  OBVIOUS
<1>2. key.path \in Paths
  BY DEF Keys
<1>3. d.private = (type = "privkey") /\ d.path = key.path \o path
  BY DEF Derive
<1>4. ~key.private /\ (type = "privkey" \/ \E i \in 1 .. Len(path) : path[i] >= Hardened)
  BY DEF CanDerive, IsHardened
<1>5. ~d.private /\ \A i \in (Len(key.path) + 1) .. Len(d.path) : d.path[i] < Hardened
  BY <1>1, <1>4 DEF Authority!Descends
<1>6. PICK i \in 1 .. Len(path) : path[i] >= Hardened
  BY <1>3, <1>4, <1>5
<1>7. /\ Len(key.path) + i \in (Len(key.path) + 1) .. Len(d.path)
      /\ d.path[Len(key.path) + i] = path[i]
  BY <1>2, <1>3 DEF Paths
<1>8. path[i] \in Int
  BY HardenedAssumption DEF Paths, Children
<1> QED
  BY <1>5, <1>6, <1>7, <1>8, HardenedAssumption

(* A call on a key that is held, for the key's network, is refused only if *)
(* the key does not lead to what it asks for.                              *)
THEOREM RefusalsCorrect == KeySpec => []RefusedOnlyIfForbidden
<1>1. HeldInv => RefusedOnlyIfForbidden
  <2> SUFFICES ASSUME HeldInv, NEW key \in known, NEW net \in NetTypes,
                      key.version = SeedVersion(net)
               PROVE  /\ \A type \in {"privkey", "pubkey"}, len \in 1 .. MaxDepth :
                           \A path \in [1 .. len -> Children] :
                             ~AcceptsPath(key, net, type, path) =>
                               ~Authority!Descends(Derive(key, type, path), key)
                      /\ ~AcceptsPrivkey(key, net) => ~key.private
                      /\ OfNetwork(key, net)
    BY DEF RefusedOnlyIfForbidden
  <2>1. key \in Keys
    BY DEF HeldInv, KeyTypeOK
  <2>2. OfNetwork(key, net)
    BY VersionsAgree DEF OfNetwork
  <2>3. ASSUME NEW type \in {"privkey", "pubkey"}, NEW len \in 1 .. MaxDepth,
               NEW path \in [1 .. len -> Children], ~AcceptsPath(key, net, type, path)
        PROVE  ~Authority!Descends(Derive(key, type, path), key)
    <3>1. path \in Paths /\ path # <<>>
      BY KeyBoundsAssumption DEF Paths
    <3>2. ~CanDerive(key, type, path)
      BY <2>2, <2>3, <3>1 DEF AcceptsPath
    <3> QED
      BY <2>1, <3>1, <3>2, RefusedGoesNotDown
  <2>4. ~AcceptsPrivkey(key, net) => ~key.private
    BY <2>2 DEF AcceptsPrivkey
  <2> QED
    BY <2>2, <2>3, <2>4
<1> QED
  BY <1>1, KeyInvariance, PTL

-----------------------------------------------------------------------------
(***************************************************************************)
(* Signing.  What is true of the lists while signatures are moved from     *)
(* sign_params, sp, to signature_data, data.                               *)
(***************************************************************************)
SigsOf(list) == {e.sig : e \in Elements(list)}

FirstPlace(pubkeys, key) ==
  CHOOSE k \in 1 .. Len(pubkeys) :
    pubkeys[k] = key /\ \A j \in 1 .. (k - 1) : pubkeys[j] # key

(* Two signatures are in the order in which the code comes to their keys,  *)
(* or of the list if they name the same key or none; one that names none   *)
(* comes last.                                                             *)
Precedes(list, pubkeys, a, b) ==
  IF KeyIn(list, a) = KeyIn(list, b)
  THEN PlaceIn(list, a) < PlaceIn(list, b)
  ELSE /\ KeyIn(list, a) # NoKey
       /\ \/ KeyIn(list, b) = NoKey
          \/ FirstPlace(pubkeys, KeyIn(list, a)) < FirstPlace(pubkeys, KeyIn(list, b))

InOrder(list, pubkeys, data) ==
  \A j, k \in 1 .. Len(data) : j < k => Precedes(list, pubkeys, data[j], data[k])

(* What is left is in the order of the list, nothing is in neither of the  *)
(* two, and what has been placed is in order.                              *)
Moving(list, pubkeys, sp, data) ==
  /\ sp \in Seq(Elements(list)) /\ data \in Seq(SigsOf(list)) /\ Len(sp) <= Len(list)
  /\ \A i, j \in 1 .. Len(sp) : i < j => PlaceIn(list, sp[i].sig) < PlaceIn(list, sp[j].sig)
  /\ \A k \in 1 .. Len(list) : \/ \E i \in 1 .. Len(sp) : sp[i] = list[k]
                               \/ \E j \in 1 .. Len(data) : data[j] = list[k].sig
  /\ InOrder(list, pubkeys, data)

(* Of the signatures for one key, or for none, those placed come before    *)
(* those that are left from position i on.                                 *)
LeftComeAfter(list, sp, data, i) ==
  \A j \in 1 .. Len(data), l \in i .. Len(sp) :
    KeyIn(list, data[j]) = sp[l].key =>
      PlaceIn(list, data[j]) < PlaceIn(list, sp[l].sig)

(* The keys gone through have no signature left, and all that is placed    *)
(* is for them or for the key in turn.                                     *)
KeysDone(list, pubkeys, sp, data, key, at) ==
  /\ Len(sp) + Len(data) = Len(list)
  /\ \A j \in 1 .. Len(data) :
       /\ FirstPlace(pubkeys, KeyIn(list, data[j])) \in 1 .. key
       /\ FirstPlace(pubkeys, KeyIn(list, data[j])) \in 1 .. Len(pubkeys)
       /\ pubkeys[FirstPlace(pubkeys, KeyIn(list, data[j]))] = KeyIn(list, data[j])
  /\ \A i \in 1 .. Len(sp), m \in 1 .. Len(pubkeys) :
       m < key \/ (m = key /\ i < at) => sp[i].key # pubkeys[m]
  /\ LeftComeAfter(list, sp, data, 1)
  /\ key > Len(pubkeys) => at = 1

(* The signatures that name no key follow; none that is left is for a key  *)
(* of the script.                                                          *)
OthersFollow(list, pubkeys, sp, data, at) ==
  /\ Len(data) + Len(sp) = Len(list) + at - 1
  /\ \A i \in 1 .. (at - 1) : \E j \in 1 .. Len(data) : data[j] = sp[i].sig
  /\ \A i \in 1 .. Len(sp) : sp[i].key \notin Elements(pubkeys)
  /\ LeftComeAfter(list, sp, data, at)

AllPlaced(list, data) ==
  /\ data \in Seq(SigsOf(list))
  /\ Len(data) = Len(list)
  /\ \A k \in 1 .. Len(list) : \E j \in 1 .. Len(data) : data[j] = list[k].sig

IsInput(t) == t = [script |-> t.script, witness |-> t.witness]

SignTypes ==
  /\ TypeOK
  /\ call = NoCall \/ (call.list \in SignLists /\ call.pubkeys \in PubkeyLists)
  /\ pc # "idle" => call # NoCall /\ outcome = "none"
  /\ pc \in {"sort", "others"} => itr \in 1 .. Len(sign_params) + 1
  /\ IsInput(tx) /\ IsInput(txc)

Sorted ==
  /\ pc \in {"sort", "others"} => Moving(call.list, call.pubkeys, sign_params, signature_data)
  /\ pc = "sort" => KeysDone(call.list, call.pubkeys, sign_params, signature_data, pubkey, itr)
  /\ pc = "others" => OthersFollow(call.list, call.pubkeys, sign_params, signature_data, itr)
  /\ pc \in {"set", "redeem"} \/ Returned =>
       /\ AllPlaced(call.list, signature_data)
       /\ InOrder(call.list, call.pubkeys, signature_data)

(* The witness is set before the script of p2sh-p2wsh.                     *)
Unlocking ==
  /\ pc = "redeem" => call.type = "p2sh-p2wsh"
                      /\ (call.clear => txc.witness = MultisigStack)
  /\ WitnessUnlocks
  /\ RefusedOnlyIfForeign

SignInv == SignTypes /\ Sorted /\ Unlocking

-----------------------------------------------------------------------------
(* The elements of a sequence are in the set it is a sequence of.          *)
LEMMA ElementOfList ==
  ASSUME NEW S, NEW s \in Seq(S)
  PROVE  Len(s) \in Nat /\ \A k \in 1 .. Len(s) : s[k] \in S
  OBVIOUS

(* A signature is found where it is in the list.                           *)
LEMMA PlaceOf ==
  ASSUME NEW list \in SignLists, NEW e \in Elements(list)
  PROVE  /\ PlaceIn(list, e.sig) \in 1 .. Len(list)
         /\ list[PlaceIn(list, e.sig)] = e
         /\ KeyIn(list, e.sig) = e.key
<1>1. PICK k \in 1 .. Len(list) : e = list[k]
  BY DEF Elements
<1>2. \A j \in 1 .. Len(list) : list[j].sig = e.sig => j = k
  BY <1>1, SignListsAssumption
<1>3. PlaceIn(list, e.sig) = k
  BY <1>1, <1>2 DEF PlaceIn
<1>4. QED
  BY <1>1, <1>3 DEF KeyIn

(* A key that is not earlier in the script is first where it is.           *)
LEMMA FirstPlaceIs ==
  ASSUME NEW pubkeys \in PubkeyLists, NEW m \in 1 .. Len(pubkeys),
         \A j \in 1 .. (m - 1) : pubkeys[j] # pubkeys[m]
  PROVE  FirstPlace(pubkeys, pubkeys[m]) = m
<1>1. Len(pubkeys) \in Nat
  BY PubkeyListsAssumption, ElementOfList
<1>2. ASSUME NEW k \in 1 .. Len(pubkeys), pubkeys[k] = pubkeys[m],
             \A j \in 1 .. (k - 1) : pubkeys[j] # pubkeys[m]
      PROVE  k = m
  BY <1>1, <1>2
<1>3. QED
  BY <1>2 DEF FirstPlace

(* Erasing an element moves those after it down by one, and no other.      *)
LEMMA ErasedIs ==
  ASSUME NEW S, NEW s \in Seq(S), NEW k \in 1 .. Len(s)
  PROVE  /\ Erased(s, k) \in Seq(S)
         /\ Len(Erased(s, k)) = Len(s) - 1
         /\ \A i \in 1 .. (Len(s) - 1) :
              Erased(s, k)[i] = IF i < k THEN s[i] ELSE s[i + 1]
<1> DEFINE n == Len(s)
           a == SubSeq(s, 1, k - 1)
           b == SubSeq(s, k + 1, n)
<1>1. n \in Nat /\ k \in Int /\ 1 <= k /\ k <= n /\ \A i \in 1 .. n : s[i] \in S
  BY ElementOfList
<1>2. a \in Seq(S) /\ Len(a) = k - 1 /\ \A i \in 1 .. (k - 1) : a[i] = s[i]
  BY <1>1
<1>3. b \in Seq(S) /\ Len(b) = n - k /\ \A i \in 1 .. (n - k) : b[i] = s[k + i]
  BY <1>1
<1> HIDE DEF n, a, b
<1>4. /\ a \o b \in Seq(S) /\ Len(a \o b) = n - 1
      /\ \A i \in 1 .. (n - 1) : (a \o b)[i] = IF i <= k - 1 THEN a[i] ELSE b[i - (k - 1)]
  <2>1. /\ a \o b \in Seq(S) /\ Len(a \o b) = Len(a) + Len(b)
        /\ \A i \in 1 .. Len(a) + Len(b) :
             (a \o b)[i] = IF i <= Len(a) THEN a[i] ELSE b[i - Len(a)]
    BY <1>2, <1>3, ConcatProperties
  <2>2. Len(a) + Len(b) = n - 1
    BY <1>1, <1>2, <1>3
  <2>3. QED
    BY <1>2, <2>1, <2>2
<1>5. ASSUME NEW i \in 1 .. (n - 1)
      PROVE  (a \o b)[i] = IF i < k THEN s[i] ELSE s[i + 1]
  <2>1. CASE i < k
    <3>1. i \in 1 .. (k - 1) /\ i <= k - 1
      BY <1>1, <2>1
    <3>2. QED
      BY <1>2, <1>4, <2>1, <3>1
  <2>2. CASE ~(i < k)
    <3>1. ~(i <= k - 1) /\ i - (k - 1) \in 1 .. (n - k) /\ k + (i - (k - 1)) = i + 1
      BY <1>1, <2>2
    <3>2. QED
      BY <1>3, <1>4, <2>2, <3>1
  <2>3. QED
    BY <2>1, <2>2
<1>6. QED
  BY <1>4, <1>5 DEF Erased, n, a, b

-----------------------------------------------------------------------------
(* A signature put behind others that precede it leaves them in order.     *)
LEMMA AppendedInOrder ==
  ASSUME NEW list, NEW pubkeys, NEW S, NEW data \in Seq(S), NEW d \in S,
         InOrder(list, pubkeys, data),
         \A j \in 1 .. Len(data) : Precedes(list, pubkeys, data[j], d)
  PROVE  InOrder(list, pubkeys, Append(data, d))
<1> DEFINE new == Append(data, d)
<1>1. /\ Len(new) = Len(data) + 1 /\ Len(data) \in Nat
      /\ \A j \in 1 .. Len(data) : new[j] = data[j]
      /\ new[Len(data) + 1] = d
  OBVIOUS
<1> HIDE DEF new
<1>2. ASSUME NEW j \in 1 .. Len(new), NEW k \in 1 .. Len(new), j < k
      PROVE  Precedes(list, pubkeys, new[j], new[k])
  <2>1. j \in 1 .. Len(data) /\ new[j] = data[j]
    BY <1>1, <1>2
  <2>2. CASE k = Len(data) + 1
    BY <1>1, <2>1, <2>2
  <2>3. CASE k # Len(data) + 1
    <3>1. k \in 1 .. Len(data) /\ new[k] = data[k]
      BY <1>1, <2>3
    <3>2. QED
      BY <1>2, <2>1, <3>1 DEF InOrder
  <2>4. QED
    BY <2>2, <2>3
<1>3. QED
  BY <1>2 DEF InOrder, new

(* A signature taken out of what is left and put behind all that precede   *)
(* it.                                                                     *)
LEMMA PlacedMoves ==
  ASSUME NEW list \in SignLists, NEW pubkeys, NEW sp, NEW data,
         Moving(list, pubkeys, sp, data), NEW at \in 1 .. Len(sp),
         \A j \in 1 .. Len(data) : Precedes(list, pubkeys, data[j], sp[at].sig)
  PROVE  Moving(list, pubkeys, Erased(sp, at), Append(data, sp[at].sig))
<1> DEFINE n    == Len(sp)
           left == Erased(sp, at)
           new  == Append(data, sp[at].sig)
<1>1. /\ sp \in Seq(Elements(list)) /\ data \in Seq(SigsOf(list))
      /\ InOrder(list, pubkeys, data)
      /\ \A i, j \in 1 .. n : i < j => PlaceIn(list, sp[i].sig) < PlaceIn(list, sp[j].sig)
  BY DEF Moving
<1>2. n \in Nat /\ at \in Int /\ 1 <= at /\ at <= n /\ sp[at] \in Elements(list)
  BY <1>1, ElementOfList
<1>3. /\ left \in Seq(Elements(list)) /\ Len(left) = n - 1
      /\ \A i \in 1 .. (n - 1) : left[i] = IF i < at THEN sp[i] ELSE sp[i + 1]
  BY <1>1, ErasedIs
<1>4. sp[at].sig \in SigsOf(list)
  BY <1>2 DEF SigsOf
<1>5. /\ new \in Seq(SigsOf(list))
      /\ Len(new) = Len(data) + 1 /\ Len(data) \in Nat
      /\ \A j \in 1 .. Len(data) : new[j] = data[j]
      /\ new[Len(data) + 1] = sp[at].sig
  BY <1>1, <1>4
<1>6. InOrder(list, pubkeys, new)
  BY <1>1, <1>4, AppendedInOrder
<1>7. ASSUME NEW k \in 1 .. Len(list)
      PROVE  \/ \E i \in 1 .. Len(left) : left[i] = list[k]
             \/ \E j \in 1 .. Len(new) : new[j] = list[k].sig
  <2>1. CASE \E j \in 1 .. Len(data) : data[j] = list[k].sig
    <3>1. PICK j \in 1 .. Len(data) : data[j] = list[k].sig
      BY <2>1
    <3> HIDE DEF new, left
    <3>2. j \in 1 .. Len(new) /\ new[j] = list[k].sig
      BY <1>5, <3>1
    <3>3. QED
      BY <3>2
  <2>2. CASE \E i \in 1 .. n : sp[i] = list[k]
    <3>1. PICK i \in 1 .. n : sp[i] = list[k]
      BY <2>2
    <3> HIDE DEF new, left, n
    <3>2. CASE i = at
      BY <1>5, <3>1, <3>2
    <3>3. CASE i < at
      <4>1. i \in 1 .. (n - 1)
        BY <1>2, <3>3
      <4>2. left[i] = list[k] /\ i \in 1 .. Len(left)
        BY <1>3, <3>1, <3>3, <4>1
      <4>3. QED
        BY <4>2
    <3>4. CASE i > at
      <4>1. i - 1 \in 1 .. (n - 1) /\ ~(i - 1 < at) /\ (i - 1) + 1 = i
        BY <1>2, <3>4
      <4>2. left[i - 1] = list[k] /\ i - 1 \in 1 .. Len(left)
        BY <1>3, <3>1, <4>1
      <4>3. QED
        BY <4>2
    <3>5. QED
      BY <1>2, <3>2, <3>3, <3>4
  <2>3. QED
    BY <2>1, <2>2 DEF Moving
<1>8. ASSUME NEW i \in 1 .. Len(left), NEW j \in 1 .. Len(left), i < j
      PROVE  PlaceIn(list, left[i].sig) < PlaceIn(list, left[j].sig)
  <2> HIDE DEF new, left, n
  <2>1. PICK a \in 1 .. n, b \in 1 .. n : a < b /\ left[i] = sp[a] /\ left[j] = sp[b]
    <3> DEFINE a == IF i < at THEN i ELSE i + 1
               b == IF j < at THEN j ELSE j + 1
    <3>1. i \in 1 .. (n - 1) /\ j \in 1 .. (n - 1)
      BY <1>3
    <3>2. a \in 1 .. n /\ b \in 1 .. n /\ a < b
      BY <1>2, <1>8, <3>1
    <3>3. left[i] = sp[a] /\ left[j] = sp[b]
      BY <1>3, <3>1
    <3> HIDE DEF a, b
    <3>4. QED
      BY <3>2, <3>3
  <2>2. QED
    BY <1>1, <2>1
<1>9. Len(left) <= Len(list)
  <2>1. n <= Len(list) /\ Len(list) \in Nat
    BY SignListsAssumption, ElementOfList DEF Moving
  <2> HIDE DEF n, left
  <2>2. QED
    BY <1>2, <1>3, <2>1
<1>10. QED
  BY <1>3, <1>5, <1>6, <1>7, <1>8, <1>9 DEF Moving

(* Place: the signature at hand is for the key in turn.                    *)
LEMMA PlaceKeeps ==
  ASSUME NEW list \in SignLists, NEW pubkeys \in PubkeyLists, NEW sp, NEW data,
         NEW key \in 1 .. Len(pubkeys), NEW at \in 1 .. Len(sp),
         Moving(list, pubkeys, sp, data), KeysDone(list, pubkeys, sp, data, key, at),
         sp[at].key = pubkeys[key]
  PROVE  /\ Moving(list, pubkeys, Erased(sp, at), Append(data, sp[at].sig))
         /\ KeysDone(list, pubkeys, Erased(sp, at), Append(data, sp[at].sig), key, at)
<1> DEFINE n    == Len(sp)
           left == Erased(sp, at)
           new  == Append(data, sp[at].sig)
           d    == sp[at].sig
<1>1. /\ sp \in Seq(Elements(list)) /\ data \in Seq(SigsOf(list))
      /\ \A i, j \in 1 .. n : i < j => PlaceIn(list, sp[i].sig) < PlaceIn(list, sp[j].sig)
  BY DEF Moving
<1>2. /\ n \in Nat /\ at \in Int /\ 1 <= at /\ at <= n /\ sp[at] \in Elements(list)
      /\ Len(pubkeys) \in Nat /\ key \in Int /\ 1 <= key /\ key <= Len(pubkeys)
  BY <1>1, PubkeyListsAssumption, ElementOfList
<1>3. /\ left \in Seq(Elements(list)) /\ Len(left) = n - 1
      /\ \A i \in 1 .. (n - 1) : left[i] = IF i < at THEN sp[i] ELSE sp[i + 1]
  BY <1>1, ErasedIs
<1>4. /\ Len(new) = Len(data) + 1 /\ Len(data) \in Nat
      /\ \A j \in 1 .. Len(data) : new[j] = data[j]
      /\ new[Len(data) + 1] = d
  BY <1>1
<1>5. KeyIn(list, d) = pubkeys[key]
  BY <1>2, PlaceOf
<1>6. FirstPlace(pubkeys, pubkeys[key]) = key
  <2>1. \A m \in 1 .. (key - 1) : m \in 1 .. Len(pubkeys) /\ m < key
    BY <1>2
  <2>2. \A m \in 1 .. (key - 1) : pubkeys[m] # pubkeys[key]
    BY <2>1 DEF KeysDone
  <2>3. QED
    BY <2>2, FirstPlaceIs
<1>7. \A j \in 1 .. Len(data) :
        /\ FirstPlace(pubkeys, KeyIn(list, data[j])) \in 1 .. key
        /\ FirstPlace(pubkeys, KeyIn(list, data[j])) \in 1 .. Len(pubkeys)
        /\ pubkeys[FirstPlace(pubkeys, KeyIn(list, data[j]))] = KeyIn(list, data[j])
  BY DEF KeysDone
<1>8. pubkeys[key] # NoKey /\ \A m \in 1 .. Len(pubkeys) : pubkeys[m] # NoKey
  BY PubkeyListsAssumption DEF Elements
<1>9. \A j \in 1 .. Len(data) : Precedes(list, pubkeys, data[j], d)
  <2>1. ASSUME NEW j \in 1 .. Len(data) PROVE Precedes(list, pubkeys, data[j], d)
    <3>1. CASE KeyIn(list, data[j]) = pubkeys[key]
      <4>1. PlaceIn(list, data[j]) < PlaceIn(list, d)
        BY <3>1, <1>2 DEF KeysDone, LeftComeAfter
      <4>2. QED
        BY <1>5, <3>1, <4>1 DEF Precedes
    <3>2. CASE KeyIn(list, data[j]) # pubkeys[key]
      <4> DEFINE f == FirstPlace(pubkeys, KeyIn(list, data[j]))
      <4>1. f \in 1 .. key /\ f # key
        BY <1>7, <3>2
      <4>2. f < key
        BY <1>2, <4>1
      <4>3. KeyIn(list, data[j]) # NoKey
        BY <1>7, <1>8
      <4>4. QED
        BY <1>5, <1>6, <3>2, <4>2, <4>3 DEF Precedes
    <3>3. QED
      BY <3>1, <3>2
  <2>2. QED
    BY <2>1
<1>10. Moving(list, pubkeys, left, new)
  BY <1>9, PlacedMoves
<1>11. Len(left) + Len(new) = Len(list)
  <2>1. n + Len(data) = Len(list)
    BY DEF KeysDone
  <2> HIDE DEF n, left, new
  <2>2. QED
    BY <1>2, <1>3, <1>4, <2>1
<1>12. ASSUME NEW j \in 1 .. Len(new)
       PROVE  /\ FirstPlace(pubkeys, KeyIn(list, new[j])) \in 1 .. key
              /\ FirstPlace(pubkeys, KeyIn(list, new[j])) \in 1 .. Len(pubkeys)
              /\ pubkeys[FirstPlace(pubkeys, KeyIn(list, new[j]))] = KeyIn(list, new[j])
  <2> HIDE DEF n, left, new, d
  <2>1. CASE j \in 1 .. Len(data)
    BY <1>4, <1>7, <2>1
  <2>2. CASE j = Len(data) + 1
    <3>1. KeyIn(list, new[j]) = pubkeys[key]
      BY <1>4, <1>5, <2>2
    <3>2. QED
      BY <1>2, <1>6, <3>1
  <2>3. QED
    BY <1>4, <2>1, <2>2
<1> DEFINE Old(i) == IF i < at THEN i ELSE i + 1
<1>13. \A i \in 1 .. Len(left) :
         /\ Old(i) \in 1 .. n /\ left[i] = sp[Old(i)]
         /\ i < at => Old(i) < at
         /\ ~(i < at) => at < Old(i)
  <2> HIDE DEF n, left
  <2>1. QED
    BY <1>2, <1>3
<1> HIDE DEF Old
<1>14. ASSUME NEW i \in 1 .. Len(left), NEW m \in 1 .. Len(pubkeys),
              m < key \/ (m = key /\ i < at)
       PROVE  left[i].key # pubkeys[m]
  <2>1. m < key \/ (m = key /\ Old(i) < at)
    BY <1>13, <1>14
  <2>2. sp[Old(i)].key # pubkeys[m]
    BY <1>13, <2>1 DEF KeysDone
  <2>3. QED
    BY <1>13, <2>2
<1>15. ASSUME NEW j \in 1 .. Len(new), NEW l \in 1 .. Len(left),
              KeyIn(list, new[j]) = left[l].key
       PROVE  PlaceIn(list, new[j]) < PlaceIn(list, left[l].sig)
  <2>1. CASE j \in 1 .. Len(data)
    <3>1. KeyIn(list, data[j]) = sp[Old(l)].key /\ Old(l) \in 1 .. n
      BY <1>4, <1>13, <1>15, <2>1
    <3>2. PlaceIn(list, data[j]) < PlaceIn(list, sp[Old(l)].sig)
      BY <2>1, <3>1 DEF KeysDone, LeftComeAfter
    <3>3. QED
      BY <1>4, <1>13, <2>1, <3>2
  <2>2. CASE j = Len(data) + 1
    <3>1. sp[Old(l)].key = pubkeys[key] /\ Old(l) \in 1 .. n /\ new[j] = d
      BY <1>4, <1>5, <1>13, <1>15, <2>2
    <3>2. ~(Old(l) < at)
      BY <1>2, <3>1 DEF KeysDone
    <3>3. at < Old(l)
      BY <1>13, <3>2
    <3>4. PlaceIn(list, d) < PlaceIn(list, sp[Old(l)].sig)
      BY <1>1, <3>1, <3>3
    <3>5. QED
      BY <1>13, <3>1, <3>4
  <2>3. QED
    BY <1>4, <2>1, <2>2
<1>16. LeftComeAfter(list, left, new, 1)
  BY <1>15 DEF LeftComeAfter
<1>17. ~(key > Len(pubkeys))
  BY <1>2
<1>18. KeysDone(list, pubkeys, left, new, key, at)
  BY <1>11, <1>12, <1>14, <1>16, <1>17 DEF KeysDone
<1>19. QED
  BY <1>10, <1>18

(* PassOver, NextPubkey and EndKeys.                                       *)
LEMMA PassOverKeeps ==
  ASSUME NEW list, NEW pubkeys \in PubkeyLists, NEW sp, NEW data,
         NEW key \in 1 .. Len(pubkeys), NEW at \in 1 .. Len(sp),
         KeysDone(list, pubkeys, sp, data, key, at), sp[at].key # pubkeys[key]
  PROVE  KeysDone(list, pubkeys, sp, data, key, at + 1)
<1>1. Len(pubkeys) \in Nat
  BY PubkeyListsAssumption, ElementOfList
<1>2. ASSUME NEW i \in 1 .. Len(sp), NEW m \in 1 .. Len(pubkeys),
             m < key \/ (m = key /\ i < at + 1)
      PROVE  sp[i].key # pubkeys[m]
  <2>1. CASE m = key /\ i = at
    BY <2>1
  <2>2. CASE ~(m = key /\ i = at)
    <3>1. m < key \/ (m = key /\ i < at)
      BY <1>2, <2>2
    <3>2. QED
      BY <3>1 DEF KeysDone
  <2>3. QED
    BY <2>1, <2>2
<1>3. ~(key > Len(pubkeys))
  BY <1>1
<1>4. QED
  BY <1>2, <1>3 DEF KeysDone

(* When the list has been gone through, none is left for the key in turn.  *)
LEMMA NextPubkeyKeeps ==
  ASSUME NEW list, NEW pubkeys \in PubkeyLists, NEW sp, NEW data,
         NEW key \in 1 .. Len(pubkeys), NEW at \in Nat,
         Len(sp) \in Nat, at > Len(sp),
         KeysDone(list, pubkeys, sp, data, key, at)
  PROVE  KeysDone(list, pubkeys, sp, data, key + 1, 1)
<1>1. ASSUME NEW i \in 1 .. Len(sp), NEW m \in 1 .. Len(pubkeys),
             m < key + 1 \/ (m = key + 1 /\ i < 1)
      PROVE  sp[i].key # pubkeys[m]
  <2>1. m < key \/ (m = key /\ i < at)
    BY <1>1
  <2>2. QED
    BY <2>1 DEF KeysDone
<1>2. ASSUME NEW j \in 1 .. Len(data)
      PROVE  FirstPlace(pubkeys, KeyIn(list, data[j])) \in 1 .. key + 1
  <2>1. FirstPlace(pubkeys, KeyIn(list, data[j])) \in 1 .. key
    BY DEF KeysDone
  <2>2. QED
    BY <2>1
<1>3. QED
  BY <1>1, <1>2 DEF KeysDone

(* When the keys have been gone through, what is left is for none of them. *)
LEMMA EndKeysKeeps ==
  ASSUME NEW list, NEW pubkeys \in PubkeyLists, NEW sp, NEW data,
         NEW key \in Nat, NEW at, key > Len(pubkeys),
         Len(sp) \in Nat, Len(data) \in Nat, Len(list) \in Nat,
         KeysDone(list, pubkeys, sp, data, key, at)
  PROVE  OthersFollow(list, pubkeys, sp, data, at)
<1>1. at = 1 /\ Len(sp) + Len(data) = Len(list) /\ LeftComeAfter(list, sp, data, 1)
  BY DEF KeysDone
<1>2. ASSUME NEW i \in 1 .. Len(sp)
      PROVE  sp[i].key \notin Elements(pubkeys)
  <2>1. \A m \in 1 .. Len(pubkeys) : m < key
    BY PubkeyListsAssumption, ElementOfList
  <2>2. \A m \in 1 .. Len(pubkeys) : sp[i].key # pubkeys[m]
    BY <2>1 DEF KeysDone
  <2>3. QED
    BY <2>2 DEF Elements
<1>3. Len(data) + Len(sp) = Len(list) + at - 1
  BY <1>1
<1>4. 1 .. (at - 1) = {}
  BY <1>1
<1>5. QED
  BY <1>1, <1>2, <1>3, <1>4 DEF OthersFollow

(* AppendOther: the signature stays in what is left, behind the position.  *)
LEMMA AppendOtherKeeps ==
  ASSUME NEW list \in SignLists, NEW pubkeys, NEW sp, NEW data, NEW at \in 1 .. Len(sp),
         Moving(list, pubkeys, sp, data), OthersFollow(list, pubkeys, sp, data, at),
         sp[at].key = NoKey
  PROVE  /\ Moving(list, pubkeys, sp, Append(data, sp[at].sig))
         /\ OthersFollow(list, pubkeys, sp, Append(data, sp[at].sig), at + 1)
<1> DEFINE n   == Len(sp)
           d   == sp[at].sig
           new == Append(data, d)
<1>1. /\ sp \in Seq(Elements(list)) /\ data \in Seq(SigsOf(list))
      /\ InOrder(list, pubkeys, data)
      /\ \A i, j \in 1 .. n : i < j => PlaceIn(list, sp[i].sig) < PlaceIn(list, sp[j].sig)
  BY DEF Moving
<1>2. /\ n \in Nat /\ at \in Int /\ 1 <= at /\ at <= n /\ sp[at] \in Elements(list)
      /\ d \in SigsOf(list) /\ Len(list) \in Nat
  BY <1>1, SignListsAssumption, ElementOfList DEF SigsOf
<1>3. /\ new \in Seq(SigsOf(list))
      /\ Len(new) = Len(data) + 1 /\ Len(data) \in Nat
      /\ \A j \in 1 .. Len(data) : new[j] = data[j]
      /\ new[Len(data) + 1] = d
  BY <1>1, <1>2
<1>4. KeyIn(list, d) = NoKey
  BY <1>2, PlaceOf
<1>5. \A j \in 1 .. Len(data) : Precedes(list, pubkeys, data[j], d)
  <2>1. ASSUME NEW j \in 1 .. Len(data) PROVE Precedes(list, pubkeys, data[j], d)
    <3>1. CASE KeyIn(list, data[j]) = NoKey
      <4>1. at \in at .. Len(sp) /\ KeyIn(list, data[j]) = sp[at].key
        BY <1>2, <3>1
      <4>2. LeftComeAfter(list, sp, data, at)
        BY DEF OthersFollow
      <4>3. PlaceIn(list, data[j]) < PlaceIn(list, sp[at].sig)
        BY <4>1, <4>2 DEF LeftComeAfter
      <4>4. QED
        BY <1>4, <3>1, <4>3 DEF Precedes
    <3>2. CASE KeyIn(list, data[j]) # NoKey
      BY <1>4, <3>2 DEF Precedes
    <3>3. QED
      BY <3>1, <3>2
  <2>2. QED
    BY <2>1
<1>6. InOrder(list, pubkeys, new)
  BY <1>1, <1>2, <1>5, AppendedInOrder
<1> HIDE DEF n, d, new
<1>7. \A x : (\E j \in 1 .. Len(data) : data[j] = x) => \E j \in 1 .. Len(new) : new[j] = x
  BY <1>3
<1>8. Moving(list, pubkeys, sp, new)
  <2>1. \A k \in 1 .. Len(list) : \/ \E i \in 1 .. Len(sp) : sp[i] = list[k]
                                  \/ \E j \in 1 .. Len(new) : new[j] = list[k].sig
    BY <1>7 DEF Moving
  <2>2. QED
    BY <1>1, <1>3, <1>6, <2>1 DEF Moving, n
<1>9. OthersFollow(list, pubkeys, sp, new, at + 1)
  <2>1. Len(new) + Len(sp) = Len(list) + (at + 1) - 1
    <3>1. Len(data) + n = Len(list) + at - 1
      BY DEF OthersFollow, n
    <3>2. QED
      BY <1>2, <1>3, <3>1 DEF n
  <2>2. ASSUME NEW i \in 1 .. ((at + 1) - 1)
        PROVE  \E j \in 1 .. Len(new) : new[j] = sp[i].sig
    <3>1. CASE i = at
      BY <1>3, <3>1 DEF d
    <3>2. CASE i # at
      <4>1. i \in 1 .. (at - 1)
        BY <1>2, <3>2
      <4>2. QED
        BY <1>7, <4>1 DEF OthersFollow
    <3>3. QED
      BY <3>1, <3>2
  <2>3. ASSUME NEW j \in 1 .. Len(new), NEW l \in (at + 1) .. Len(sp),
               KeyIn(list, new[j]) = sp[l].key
        PROVE  PlaceIn(list, new[j]) < PlaceIn(list, sp[l].sig)
    <3>1. l \in at .. Len(sp) /\ l \in 1 .. n /\ at \in 1 .. n /\ at < l
      BY <1>2 DEF n
    <3>2. CASE j \in 1 .. Len(data)
      BY <1>3, <2>3, <3>1, <3>2 DEF OthersFollow, LeftComeAfter
    <3>3. CASE j = Len(data) + 1
      BY <1>1, <1>3, <3>1, <3>3 DEF d
    <3>4. QED
      BY <1>3, <3>2, <3>3
  <2>4. \A i \in 1 .. Len(sp) : sp[i].key \notin Elements(pubkeys)
    BY DEF OthersFollow
  <2>5. LeftComeAfter(list, sp, new, at + 1)
    BY <2>3 DEF LeftComeAfter
  <2>6. QED
    BY <2>1, <2>2, <2>4, <2>5 DEF OthersFollow
<1>10. QED
  BY <1>8, <1>9 DEF new, d

(* EndOthers: nothing is left out.                                         *)
LEMMA EndOthersPlaces ==
  ASSUME NEW list \in SignLists, NEW pubkeys, NEW sp, NEW data, NEW at,
         at = Len(sp) + 1,
         Moving(list, pubkeys, sp, data), OthersFollow(list, pubkeys, sp, data, at)
  PROVE  AllPlaced(list, data) /\ InOrder(list, pubkeys, data)
<1>1. Len(sp) \in Nat /\ Len(data) \in Nat /\ Len(list) \in Nat
  BY SignListsAssumption, ElementOfList DEF Moving
<1>2. Len(data) = Len(list)
  BY <1>1 DEF OthersFollow
<1>3. ASSUME NEW k \in 1 .. Len(list)
      PROVE  \E j \in 1 .. Len(data) : data[j] = list[k].sig
  <2>1. CASE \E i \in 1 .. Len(sp) : sp[i] = list[k]
    <3>1. PICK i \in 1 .. Len(sp) : sp[i] = list[k]
      BY <2>1
    <3>2. i \in 1 .. (at - 1)
      BY <1>1
    <3>3. QED
      BY <3>1, <3>2 DEF OthersFollow
  <2>2. QED
    BY <2>1 DEF Moving
<1>4. QED
  BY <1>2, <1>3 DEF AllPlaced, Moving

(* AddMultisigSign: everything is left.                                    *)
LEMMA NothingMoved ==
  ASSUME NEW list \in SignLists, NEW pubkeys
  PROVE  /\ Moving(list, pubkeys, list, <<>>)
         /\ KeysDone(list, pubkeys, list, <<>>, 1, 1)
<1>1. list \in Seq(Elements(list)) /\ Len(list) \in Nat
  BY SignListsAssumption, ElementOfList
<1>2. \A i \in 1 .. Len(list) : PlaceIn(list, list[i].sig) = i
  <2>1. ASSUME NEW i \in 1 .. Len(list) PROVE PlaceIn(list, list[i].sig) = i
    <3>1. \A j \in 1 .. Len(list) : list[j].sig = list[i].sig => j = i
      BY SignListsAssumption
    <3>2. QED
      BY <3>1 DEF PlaceIn
  <2>2. QED
    BY <2>1
<1>3. /\ <<>> \in Seq(SigsOf(list)) /\ Len(<<>>) = 0
      /\ 1 .. Len(<<>>) = {}
  OBVIOUS
<1>4. Moving(list, pubkeys, list, <<>>)
  BY <1>1, <1>2, <1>3 DEF Moving, InOrder
<1>5. \A i \in 1 .. Len(list), m \in 1 .. Len(pubkeys) : ~(m < 1 \/ (m = 1 /\ i < 1))
  OBVIOUS
<1>6. KeysDone(list, pubkeys, list, <<>>, 1, 1)
  BY <1>1, <1>3, <1>5 DEF KeysDone, LeftComeAfter
<1>7. QED
  BY <1>4, <1>6

-----------------------------------------------------------------------------
(* The invariant holds before the first call.                              *)
LEMMA InitSign == Init => SignInv
<1> SUFFICES ASSUME Init PROVE SignInv
  OBVIOUS
<1>1. /\ pc = "idle" /\ calls = 0 /\ outcome = "none" /\ call = NoCall
      /\ tx = [script |-> <<>>, witness |-> <<>>] /\ txc = tx
  BY DEF Init
<1>2. SignTypes
  BY <1>1, BoundsAssumption DEF SignTypes, TypeOK, IsInput
<1>3. Sorted /\ Unlocking
  BY <1>1 DEF Sorted, Unlocking, Returned, WitnessUnlocks, RefusedOnlyIfForeign
<1>4. QED
  BY <1>2, <1>3 DEF SignInv

(* Who sorts leaves the transaction as it is.                              *)
LEMMA StillSorting ==
  ASSUME SignInv, pc \in {"sort", "others"}, pc' \in {"sort", "others", "set"},
         UNCHANGED <<calls, tx, txc, call, outcome>>,
         pubkey' \in 1 .. Len(call.pubkeys) + 1, itr' \in 1 .. Len(call.list) + 1,
         pc' \in {"sort", "others"} =>
           /\ itr' \in 1 .. Len(sign_params') + 1
           /\ Moving(call.list, call.pubkeys, sign_params', signature_data'),
         pc' = "sort" =>
           KeysDone(call.list, call.pubkeys, sign_params', signature_data', pubkey', itr'),
         pc' = "others" =>
           OthersFollow(call.list, call.pubkeys, sign_params', signature_data', itr'),
         pc' = "set" => /\ AllPlaced(call.list, signature_data')
                        /\ InOrder(call.list, call.pubkeys, signature_data')
  PROVE  SignInv'
<1>1. SignTypes
  BY DEF SignInv
<1>2. outcome = "none" /\ outcome' = "none" /\ ~(Returned')
  BY <1>1 DEF SignTypes, Returned
<1>3. pc' = "sort" => Len(sign_params') + Len(signature_data') = Len(call.list)
  BY DEF KeysDone
<1>4. TypeOK'
  BY <1>1, <1>2, <1>3 DEF SignTypes, TypeOK
<1>5. SignTypes'
  BY <1>1, <1>2, <1>4 DEF SignTypes, IsInput
<1>6. Sorted'
  BY <1>2 DEF Sorted
<1>7. Unlocking'
  BY <1>2 DEF Unlocking, WitnessUnlocks, RefusedOnlyIfForeign
<1>8. QED
  BY <1>5, <1>6, <1>7 DEF SignInv

(* What is known where the lists are gone through.                         *)
LEMMA WhileSorting ==
  ASSUME SignInv, pc \in {"sort", "others"}
  PROVE  /\ call.list \in SignLists /\ call.pubkeys \in PubkeyLists
         /\ Len(call.list) \in Nat /\ Len(call.pubkeys) \in Nat
         /\ Len(sign_params) \in Nat /\ Len(signature_data) \in Nat
         /\ itr \in 1 .. Len(sign_params) + 1 /\ itr \in 1 .. Len(call.list) + 1
         /\ pubkey \in 1 .. Len(call.pubkeys) + 1
         /\ Moving(call.list, call.pubkeys, sign_params, signature_data)
         /\ pc = "sort" => KeysDone(call.list, call.pubkeys, sign_params,
                                    signature_data, pubkey, itr)
         /\ pc = "others" => OthersFollow(call.list, call.pubkeys, sign_params,
                                          signature_data, itr)
<1>1. call.list \in SignLists /\ call.pubkeys \in PubkeyLists
  BY DEF SignInv, SignTypes
<1>2. /\ itr \in 1 .. Len(sign_params) + 1 /\ itr \in 1 .. Len(call.list) + 1
      /\ pubkey \in 1 .. Len(call.pubkeys) + 1
  BY DEF SignInv, SignTypes, TypeOK
<1>3. /\ Moving(call.list, call.pubkeys, sign_params, signature_data)
      /\ pc = "sort" => KeysDone(call.list, call.pubkeys, sign_params,
                                 signature_data, pubkey, itr)
      /\ pc = "others" => OthersFollow(call.list, call.pubkeys, sign_params,
                                       signature_data, itr)
  BY DEF SignInv, Sorted
<1>4. Len(call.list) \in Nat /\ Len(call.pubkeys) \in Nat
  BY <1>1, SignListsAssumption, PubkeyListsAssumption, ElementOfList
<1>5. Len(sign_params) \in Nat /\ Len(signature_data) \in Nat
  BY <1>3, ElementOfList DEF Moving
<1>6. QED
  BY <1>1, <1>2, <1>3, <1>4, <1>5

(* The invariant through Place.                                            *)
LEMMA PlaceStep ==
  ASSUME SignInv, Place
  PROVE  SignInv'
<1>1. /\ pc = "sort" /\ pc' = "sort" /\ UNCHANGED <<calls, tx, txc, call, pubkey, outcome>>
      /\ pubkey <= Len(call.pubkeys) /\ itr <= Len(sign_params) /\ itr' = itr
      /\ sign_params[itr].key = call.pubkeys[pubkey]
      /\ sign_params' = Erased(sign_params, itr)
      /\ signature_data' = Append(signature_data, sign_params[itr].sig)
  BY DEF Place, InKeys, Matches, Remaining, ItrAfterErase
<1>2. pubkey \in 1 .. Len(call.pubkeys) /\ itr \in 1 .. Len(sign_params)
  BY <1>1, WhileSorting
<1>3. /\ Moving(call.list, call.pubkeys, sign_params', signature_data')
      /\ KeysDone(call.list, call.pubkeys, sign_params', signature_data', pubkey, itr)
  BY <1>1, <1>2, WhileSorting, PlaceKeeps
<1>4. Len(sign_params') = Len(sign_params) - 1
  BY <1>1, <1>2, WhileSorting, ErasedIs DEF Moving
<1>5. itr' \in 1 .. Len(sign_params') + 1
  BY <1>1, <1>2, <1>4, WhileSorting
<1>6. QED
  BY <1>1, <1>2, <1>3, <1>5, WhileSorting, StillSorting

(* The invariant through PassOver.                                         *)
LEMMA PassOverStep ==
  ASSUME SignInv, PassOver
  PROVE  SignInv'
<1>1. /\ pc = "sort" /\ pc' = "sort" /\ UNCHANGED <<calls, tx, txc, call, pubkey, outcome>>
      /\ pubkey <= Len(call.pubkeys) /\ itr <= Len(sign_params) /\ itr' = itr + 1
      /\ sign_params[itr].key # call.pubkeys[pubkey]
      /\ UNCHANGED <<sign_params, signature_data>>
  BY DEF PassOver, InKeys, Matches, Advanced
<1>2. pubkey \in 1 .. Len(call.pubkeys) /\ itr \in 1 .. Len(sign_params)
  BY <1>1, WhileSorting
<1>3. KeysDone(call.list, call.pubkeys, sign_params, signature_data, pubkey, itr + 1)
  BY <1>1, <1>2, WhileSorting, PassOverKeeps
<1>4. Len(sign_params) <= Len(call.list)
  BY <1>1, WhileSorting DEF KeysDone
<1>5. itr' \in 1 .. Len(sign_params) + 1 /\ itr' \in 1 .. Len(call.list) + 1
  BY <1>1, <1>2, <1>4, WhileSorting
<1>6. QED
  BY <1>1, <1>3, <1>5, WhileSorting, StillSorting

(* The invariant through NextPubkey.                                       *)
LEMMA NextPubkeyStep ==
  ASSUME SignInv, NextPubkey
  PROVE  SignInv'
<1>1. /\ pc = "sort" /\ pc' = "sort" /\ UNCHANGED <<calls, tx, txc, call, outcome>>
      /\ pubkey <= Len(call.pubkeys) /\ itr > Len(sign_params)
      /\ pubkey' = pubkey + 1 /\ itr' = 1
      /\ UNCHANGED <<sign_params, signature_data>>
  BY DEF NextPubkey, InKeys
<1>2. pubkey \in 1 .. Len(call.pubkeys) /\ itr \in Nat
  BY <1>1, WhileSorting
<1>3. KeysDone(call.list, call.pubkeys, sign_params, signature_data, pubkey + 1, 1)
  BY <1>1, <1>2, WhileSorting, NextPubkeyKeeps
<1>4. /\ itr' \in 1 .. Len(sign_params) + 1 /\ itr' \in 1 .. Len(call.list) + 1
      /\ pubkey' \in 1 .. Len(call.pubkeys) + 1
  BY <1>1, <1>2, WhileSorting
<1>5. QED
  BY <1>1, <1>3, <1>4, WhileSorting, StillSorting

(* The invariant through EndKeys.                                          *)
LEMMA EndKeysStep ==
  ASSUME SignInv, EndKeys
  PROVE  SignInv'
<1>1. /\ pc = "sort" /\ pc' = "others" /\ pubkey > Len(call.pubkeys)
      /\ UNCHANGED <<calls, tx, txc, call, outcome>>
      /\ UNCHANGED <<pubkey, itr, sign_params, signature_data>>
  BY DEF EndKeys, loops
<1>2. OthersFollow(call.list, call.pubkeys, sign_params, signature_data, itr)
  BY <1>1, WhileSorting, EndKeysKeeps
<1>3. QED
  BY <1>1, <1>2, WhileSorting, StillSorting

(* The invariant through AppendOther.                                      *)
LEMMA AppendOtherStep ==
  ASSUME SignInv, AppendOther
  PROVE  SignInv'
<1>1. /\ pc = "others" /\ pc' = "others" /\ UNCHANGED <<calls, tx, txc, call, outcome>>
      /\ itr <= Len(sign_params) /\ itr' = itr + 1 /\ sign_params[itr].key = NoKey
      /\ signature_data' = Append(signature_data, sign_params[itr].sig)
      /\ UNCHANGED <<pubkey, sign_params>>
  BY DEF AppendOther
<1>2. itr \in 1 .. Len(sign_params)
  BY <1>1, WhileSorting
<1>3. /\ Moving(call.list, call.pubkeys, sign_params, signature_data')
      /\ OthersFollow(call.list, call.pubkeys, sign_params, signature_data', itr + 1)
  BY <1>1, <1>2, WhileSorting, AppendOtherKeeps
<1>4. itr' \in 1 .. Len(sign_params) + 1 /\ itr' \in 1 .. Len(call.list) + 1
  BY <1>1, <1>2, WhileSorting DEF Moving
<1>5. QED
  BY <1>1, <1>3, <1>4, WhileSorting, StillSorting

(* The invariant through EndOthers.                                        *)
LEMMA EndOthersStep ==
  ASSUME SignInv, EndOthers
  PROVE  SignInv'
<1>1. /\ pc = "others" /\ pc' = "set" /\ itr > Len(sign_params)
      /\ UNCHANGED <<calls, tx, txc, call, outcome>>
      /\ UNCHANGED <<pubkey, itr, sign_params, signature_data>>
  BY DEF EndOthers, loops
<1>2. itr = Len(sign_params) + 1
  BY <1>1, WhileSorting
<1>3. /\ AllPlaced(call.list, signature_data)
      /\ InOrder(call.list, call.pubkeys, signature_data)
  BY <1>1, <1>2, WhileSorting, EndOthersPlaces
<1>4. QED
  BY <1>1, <1>3, WhileSorting, StillSorting

(* A signature that names a key and is left is for a key that is not in    *)
(* the script.                                                             *)
LEMMA MissingPubkeyStep ==
  ASSUME SignInv, MissingPubkey
  PROVE  SignInv'
<1>1. /\ pc = "others" /\ pc' = "idle" /\ outcome' = "threw"
      /\ itr <= Len(sign_params) /\ sign_params[itr].key # NoKey
      /\ UNCHANGED <<calls, tx, txc, call, pubkey, itr, sign_params, signature_data>>
  BY DEF MissingPubkey, loops
<1>2. itr \in 1 .. Len(sign_params)
  BY <1>1, WhileSorting
<1>3. /\ sign_params[itr] \in Elements(call.list)
      /\ sign_params[itr].key \notin Elements(call.pubkeys)
  BY <1>1, <1>2, WhileSorting, ElementOfList DEF Moving, OthersFollow
<1>4. PICK k \in 1 .. Len(call.list) : sign_params[itr] = call.list[k]
  BY <1>3 DEF Elements
<1>5. call.list[k].key # NoKey /\ call.list[k].key \notin Elements(call.pubkeys)
  BY <1>1, <1>3, <1>4
<1>6. RefusedOnlyIfForeign'
  BY <1>1, <1>5 DEF RefusedOnlyIfForeign, IsPubkey
<1>7. ~(Returned')
  BY <1>1 DEF Returned
<1>8. SignTypes'
  BY <1>1 DEF SignInv, SignTypes, TypeOK, IsInput
<1>9. QED
  BY <1>1, <1>6, <1>7, <1>8 DEF SignInv, Sorted, Unlocking, WitnessUnlocks

-----------------------------------------------------------------------------
(* The stack is set.                                                       *)
LEMMA Setting ==
  ASSUME SignInv, pc \in {"set", "redeem"}, pc' \in {"idle", "redeem"},
         pc' = "idle" => outcome' = "returned",
         pc' = "redeem" => UNCHANGED outcome,
         UNCHANGED <<calls, call, pubkey, itr, sign_params, signature_data>>,
         IsInput(tx'), IsInput(txc'),
         pc' = "redeem" => /\ call.type = "p2sh-p2wsh"
                           /\ call.clear => txc'.witness = MultisigStack,
         pc' = "idle" => WitnessUnlocks'
  PROVE  SignInv'
<1>1. SignTypes /\ Sorted
  BY DEF SignInv
<1>2. SignTypes'
  BY <1>1 DEF SignTypes, TypeOK
<1>3. Sorted'
  BY <1>1 DEF Sorted
<1>4. outcome' # "threw" /\ (pc' = "redeem" => ~(Returned'))
  BY <1>1 DEF SignTypes, Returned
<1>5. MultisigStack' = MultisigStack
  BY DEF MultisigStack
<1>6. Unlocking'
  BY <1>4, <1>5 DEF Unlocking, RefusedOnlyIfForeign, WitnessUnlocks
<1>7. QED
  BY <1>2, <1>3, <1>6 DEF SignInv

(* The invariant through SetP2sh.                                          *)
LEMMA SetP2shStep ==
  ASSUME SignInv, SetP2sh
  PROVE  SignInv'
<1>1. /\ pc = "set" /\ pc' = "idle" /\ outcome' = "returned" /\ call.type = "p2sh"
      /\ txc' = [txc EXCEPT !.script = MultisigStack] /\ tx' = txc'
      /\ UNCHANGED <<calls, call, pubkey, itr, sign_params, signature_data>>
  BY DEF SetP2sh, loops
<1>2. IsInput(txc)
  BY DEF SignInv, SignTypes
<1>3. IsInput(txc') /\ IsInput(tx')
  BY <1>1, <1>2 DEF IsInput
<1>4. WitnessUnlocks'
  BY <1>1 DEF WitnessUnlocks
<1>5. QED
  BY <1>1, <1>3, <1>4, Setting

(* The invariant through SetP2wsh.                                         *)
LEMMA SetP2wshStep ==
  ASSUME SignInv, SetP2wsh
  PROVE  SignInv'
<1>1. /\ pc = "set"
      /\ txc' = [txc EXCEPT !.witness = ClearedWitness(call.clear) \o MultisigStack]
      /\ IF call.type = "p2sh-p2wsh"
         THEN pc' = "redeem" /\ UNCHANGED <<tx, outcome>>
         ELSE pc' = "idle" /\ outcome' = "returned" /\ tx' = txc'
      /\ UNCHANGED <<calls, call, pubkey, itr, sign_params, signature_data>>
  BY DEF SetP2wsh, loops
<1>2. IsInput(txc) /\ IsInput(tx)
  BY DEF SignInv, SignTypes
<1>3. IsInput(txc') /\ txc'.witness = ClearedWitness(call.clear) \o MultisigStack
  BY <1>1, <1>2 DEF IsInput
<1>4. IsInput(tx')
  BY <1>1, <1>2, <1>3
<1>5. call.clear => txc'.witness = MultisigStack
  <2> DEFINE Items == SigsOf(call.list) \cup {EmptyItem, MultisigItem}
  <2>1. signature_data \in Seq(SigsOf(call.list))
    BY <1>1 DEF SignInv, Sorted, AllPlaced
  <2>2. signature_data \in Seq(Items)
    BY <2>1, ElementOfList
  <2>3. <<EmptyItem>> \in Seq(Items) /\ <<MultisigItem>> \in Seq(Items)
    OBVIOUS
  <2> HIDE DEF Items
  <2>4. MultisigStack \in Seq(Items)
    BY <2>2, <2>3, ConcatProperties DEF MultisigStack
  <2>5. <<>> \o MultisigStack = MultisigStack
    BY <2>4, ConcatEmptySeq
  <2>6. QED
    BY <1>3, <2>5 DEF ClearedWitness
<1>6. pc' = "idle" => WitnessUnlocks'
  <2>1. SUFFICES ASSUME pc' = "idle", Returned', call'.clear, call'.type # "p2sh"
                 PROVE  /\ tx'.witness = MultisigStack'
                        /\ call'.type = "p2sh-p2wsh" => tx'.script = <<WitnessProgram>>
    BY DEF WitnessUnlocks, MultisigStack
  <2>2. call.type # "p2sh-p2wsh" /\ tx' = txc' /\ call' = call
    BY <1>1, <2>1
  <2>3. MultisigStack' = MultisigStack
    BY <1>1 DEF MultisigStack
  <2>4. QED
    BY <1>5, <2>1, <2>2, <2>3
<1>7. /\ pc' \in {"idle", "redeem"}
      /\ pc' = "idle" => outcome' = "returned"
      /\ pc' = "redeem" => UNCHANGED outcome /\ call.type = "p2sh-p2wsh"
  BY <1>1
<1>8. QED
  BY <1>1, <1>3, <1>4, <1>5, <1>6, <1>7, Setting

(* The invariant through SetRedeemScript.                                  *)
LEMMA SetRedeemScriptStep ==
  ASSUME SignInv, SetRedeemScript
  PROVE  SignInv'
<1>1. /\ pc = "redeem" /\ pc' = "idle" /\ outcome' = "returned"
      /\ txc' = [txc EXCEPT !.script = <<WitnessProgram>>] /\ tx' = txc'
      /\ UNCHANGED <<calls, call, pubkey, itr, sign_params, signature_data>>
  BY DEF SetRedeemScript, loops
<1>2. IsInput(txc) /\ (call.clear => txc.witness = MultisigStack)
  BY <1>1 DEF SignInv, SignTypes, Unlocking
<1>3. IsInput(txc') /\ txc'.witness = txc.witness /\ txc'.script = <<WitnessProgram>>
  BY <1>1, <1>2 DEF IsInput
<1>4. MultisigStack' = MultisigStack
  BY <1>1 DEF MultisigStack
<1>5. WitnessUnlocks'
  BY <1>1, <1>2, <1>3, <1>4 DEF WitnessUnlocks, MultisigStack
<1>6. QED
  BY <1>1, <1>3, <1>5, Setting

-----------------------------------------------------------------------------
(* The calls.                                                              *)
LEMMA AddMultisigSignStep ==
  ASSUME SignInv, AddMultisigSign
  PROVE  SignInv'
<1>1. PICK type \in Types, list \in SignLists, clear \in BOOLEAN,
           scripts \in SUBSET {"redeem", "witness"}, pubkeys \in PubkeyLists :
        call' = [type |-> type, scripts |-> scripts, list |-> list,
                 clear |-> clear, pubkeys |-> pubkeys]
  BY DEF AddMultisigSign
<1>2. call'.list \in SignLists /\ call'.pubkeys \in PubkeyLists /\ call' # NoCall
  BY <1>1 DEF NoCall, Types
<1>3. /\ pc = "idle" /\ calls < MaxCalls /\ calls' = calls + 1
      /\ UNCHANGED tx /\ txc' = tx
      /\ pubkey' = 1 /\ itr' = 1 /\ sign_params' = call'.list /\ signature_data' = <<>>
      /\ \/ pc' = "idle" /\ outcome' = "threw" /\ IsRefused(call')
         \/ pc' = "sort" /\ outcome' = "none"
  BY DEF AddMultisigSign, StartCall
<1>4. Len(call'.list) \in Nat /\ Len(call'.pubkeys) \in Nat
  BY <1>2, SignListsAssumption, PubkeyListsAssumption, ElementOfList
<1>5. SignTypes'
  <2>1. calls' \in 0 .. MaxCalls
    BY <1>3, BoundsAssumption DEF SignInv, SignTypes, TypeOK
  <2>2. /\ itr' \in 1 .. Len(call'.list) + 1 /\ pubkey' \in 1 .. Len(call'.pubkeys) + 1
        /\ itr' \in 1 .. Len(sign_params') + 1
        /\ Len(sign_params') + Len(signature_data') = Len(call'.list)
    BY <1>3, <1>4
  <2>3. IsInput(tx') /\ IsInput(txc')
    BY <1>3 DEF SignInv, SignTypes, IsInput
  <2>4. pc' \in {"idle", "sort"} /\ (pc' # "idle" => outcome' = "none")
        /\ outcome' \in {"none", "threw"}
    BY <1>3
  <2>5. QED
    BY <1>2, <2>1, <2>2, <2>3, <2>4 DEF SignTypes, TypeOK
<1>6. ~(Returned')
  BY <1>3 DEF Returned
<1>7. /\ Moving(call'.list, call'.pubkeys, sign_params', signature_data')
      /\ KeysDone(call'.list, call'.pubkeys, sign_params', signature_data', pubkey', itr')
  BY <1>2, <1>3, NothingMoved
<1>8. Sorted'
  BY <1>3, <1>6, <1>7 DEF Sorted
<1>9. IsRefused(call') => RefusedOnlyIfForeign'
  BY DEF RefusedOnlyIfForeign, IsRefused
<1>10. Unlocking'
  BY <1>3, <1>6, <1>9 DEF Unlocking, WitnessUnlocks, RefusedOnlyIfForeign
<1>11. QED
  BY <1>5, <1>8, <1>10 DEF SignInv

(* After a call of another kind.                                           *)
LEMMA NoSorting ==
  ASSUME SignInv, pc = "idle", calls < MaxCalls, calls' = calls + 1, UNCHANGED pc,
         call' = NoCall, outcome' \in {"returned", "threw"}, IsInput(tx'), IsInput(txc')
  PROVE  SignInv'
<1>1. SignTypes'
  BY BoundsAssumption DEF SignInv, SignTypes, TypeOK
<1>2. ~(Returned')
  BY DEF Returned
<1>3. QED
  BY <1>1, <1>2
  DEF SignInv, Sorted, Unlocking, WitnessUnlocks, RefusedOnlyIfForeign

(* The invariant through AddSign.                                          *)
LEMMA AddSignStep ==
  ASSUME SignInv, AddSign
  PROVE  SignInv'
<1>1. IsInput(tx) /\ IsInput(txc)
  BY DEF SignInv, SignTypes
<1>2. PICK list \in SignLists, is_witness \in BOOLEAN, clear \in BOOLEAN :
        IF is_witness /\ list = <<>>
        THEN outcome' = "threw" /\ UNCHANGED <<tx, txc>>
        ELSE /\ txc' = IF is_witness
                       THEN [tx EXCEPT !.witness =
                              (IF clear THEN <<>> ELSE tx.witness) \o Sigs(list)]
                       ELSE [tx EXCEPT !.script = Sigs(list)]
             /\ tx' = txc'
             /\ outcome' = "returned"
  BY DEF AddSign
<1>3. IsInput(tx') /\ IsInput(txc') /\ outcome' \in {"returned", "threw"}
  BY <1>1, <1>2 DEF IsInput
<1>4. QED
  BY <1>3, NoSorting DEF AddSign, StartCall

(* The invariant through UpdateWitnessStack.                               *)
LEMMA UpdateWitnessStackStep ==
  ASSUME SignInv, UpdateWitnessStack
  PROVE  SignInv'
<1>1. IsInput(tx) /\ IsInput(txc)
  BY DEF SignInv, SignTypes
<1>2. PICK list \in SignLists, stack_index \in 0 .. Len(tx.witness) :
        IF stack_index < Len(tx.witness)
        THEN /\ txc' = [tx EXCEPT !.witness[stack_index + 1] = list[1].sig]
             /\ tx' = txc'
             /\ outcome' = "returned"
        ELSE outcome' = "threw" /\ UNCHANGED <<tx, txc>>
  BY DEF UpdateWitnessStack
<1>3. IsInput(tx') /\ IsInput(txc') /\ outcome' \in {"returned", "threw"}
  BY <1>1, <1>2 DEF IsInput
<1>4. QED
  BY <1>3, NoSorting DEF UpdateWitnessStack, StartCall

(* The invariant through every step.                                       *)
LEMMA NextSign == SignInv /\ [Next]_vars => SignInv'
<1> SUFFICES ASSUME SignInv, [Next]_vars PROVE SignInv'
  OBVIOUS
<1>1. CASE AddMultisigSign
  BY <1>1, AddMultisigSignStep
<1>2. CASE AddSign
  BY <1>2, AddSignStep
<1>3. CASE UpdateWitnessStack
  BY <1>3, UpdateWitnessStackStep
<1>4. CASE Running
  BY <1>4, PlaceStep, PassOverStep, NextPubkeyStep, EndKeysStep, AppendOtherStep,
     MissingPubkeyStep, EndOthersStep, SetP2shStep, SetP2wshStep, SetRedeemScriptStep
  DEF Running
<1>5. CASE UNCHANGED vars
  <2>1. UNCHANGED <<pc, calls, tx, txc, call, pubkey, itr, sign_params, signature_data,
                    outcome>>
    BY <1>5 DEF vars, loops
  <2>2. SignTypes' /\ Sorted'
    BY <2>1 DEF SignInv, SignTypes, TypeOK, Sorted, Returned
  <2>3. Unlocking'
    BY <2>1 DEF SignInv, Unlocking, WitnessUnlocks, RefusedOnlyIfForeign, Returned,
                MultisigStack, IsPubkey
  <2>4. QED
    BY <2>2, <2>3 DEF SignInv
<1>6. QED
  BY <1>1, <1>2, <1>3, <1>4, <1>5 DEF Next, Stopped

-----------------------------------------------------------------------------
(* The invariant holds at every point of every call.                       *)
THEOREM SignInvariance == Spec => []SignInv
<1>1. Init => SignInv
  BY InitSign
<1>2. SignInv /\ [Next]_vars => SignInv'
  BY NextSign
<1>3. QED
  BY <1>1, <1>2, PTL DEF Spec

(* The types, and the positions of the loops.                              *)
THEOREM SignTypesCorrect == Spec => []TypeOK
<1>1. SignInv => TypeOK
  BY DEF SignInv, SignTypes
<1>2. QED
  BY <1>1, SignInvariance, PTL

(* Every signature is put on the stack, once.                              *)
THEOREM SignaturesKept == Spec => []NoSignatureLost
<1>1. SignInv => NoSignatureLost
  BY DEF SignInv, Sorted, AllPlaced, NoSignatureLost
<1>2. QED
  BY <1>1, SignInvariance, PTL

(* The order of the first places of the keys is the one that CHECKMULTISIG *)
(* wants, in a script that has no key twice.                               *)
LEMMA OrderAligns ==
  ASSUME NEW list \in SignLists, NEW pubkeys \in PubkeyLists,
         NEW data \in Seq(SigsOf(list)), InOrder(list, pubkeys, data),
         NoKeyTwice(pubkeys), CanBeAligned(pubkeys, KeysOf(list))
  PROVE  Aligned(pubkeys, KeysIn(list, data))
<1> DEFINE listed == KeysOf(list)
           keys  == KeysIn(list, data)
           place == [j \in Keyed(keys) |-> FirstPlace(pubkeys, keys[j])]
<1>1. Len(list) \in Nat /\ Len(data) \in Nat /\ Len(pubkeys) \in Nat
  BY SignListsAssumption, PubkeyListsAssumption, ElementOfList
<1>2. \A p \in 1 .. Len(list) : listed[p] = list[p].key
  BY DEF KeysOf
<1>3. Len(listed) = Len(list)
  BY <1>1 DEF KeysOf
<1>4. Len(keys) = Len(data) /\ \A j \in 1 .. Len(data) : keys[j] = KeyIn(list, data[j])
  BY <1>1 DEF KeysIn
<1>5. ASSUME NEW j \in 1 .. Len(data)
      PROVE  /\ PlaceIn(list, data[j]) \in 1 .. Len(list)
             /\ listed[PlaceIn(list, data[j])] = keys[j]
  <2>1. data[j] \in SigsOf(list)
    BY ElementOfList
  <2>2. PICK e \in Elements(list) : data[j] = e.sig
    BY <2>1 DEF SigsOf
  <2>3. /\ PlaceIn(list, e.sig) \in 1 .. Len(list)
        /\ list[PlaceIn(list, e.sig)] = e /\ KeyIn(list, e.sig) = e.key
    BY PlaceOf
  <2>4. QED
    BY <1>2, <1>4, <2>2, <2>3
<1>6. PICK at \in [Keyed(listed) -> 1 .. Len(pubkeys)] : IsPlacing(pubkeys, listed, at)
  BY DEF CanBeAligned
<1> HIDE DEF listed, keys
<1>7. ASSUME NEW j \in Keyed(keys)
      PROVE  /\ j \in 1 .. Len(data)
             /\ PlaceIn(list, data[j]) \in Keyed(listed)
             /\ pubkeys[at[PlaceIn(list, data[j])]] = keys[j]
             /\ at[PlaceIn(list, data[j])] \in 1 .. Len(pubkeys)
             /\ FirstPlace(pubkeys, keys[j]) = at[PlaceIn(list, data[j])]
  <2> DEFINE p == PlaceIn(list, data[j])
             m == at[p]
  <2>1. j \in 1 .. Len(data) /\ keys[j] # NoKey
    BY <1>4 DEF Keyed
  <2>2. p \in Keyed(listed) /\ listed[p] = keys[j]
    BY <1>3, <1>5, <2>1 DEF Keyed
  <2>3. m \in 1 .. Len(pubkeys) /\ pubkeys[m] = keys[j]
    BY <1>6, <2>2 DEF IsPlacing
  <2> HIDE DEF m
  <2>4. \A i \in 1 .. (m - 1) : pubkeys[i] # pubkeys[m]
    BY <1>1, <2>3 DEF NoKeyTwice
  <2>5. FirstPlace(pubkeys, pubkeys[m]) = m
    BY <2>3, <2>4, FirstPlaceIs
  <2>6. QED
    BY <2>1, <2>2, <2>3, <2>5 DEF m
<1>8. ASSUME NEW j \in Keyed(keys), NEW k \in Keyed(keys), j < k
      PROVE  place[j] < place[k]
  <2>1. Precedes(list, pubkeys, data[j], data[k])
    BY <1>7, <1>8 DEF InOrder
  <2>2. /\ KeyIn(list, data[j]) = keys[j] /\ KeyIn(list, data[k]) = keys[k]
        /\ keys[k] # NoKey
    BY <1>4, <1>7 DEF Keyed
  <2>3. ASSUME keys[j] = keys[k] PROVE FALSE
    <3> DEFINE p == PlaceIn(list, data[j])
               q == PlaceIn(list, data[k])
    <3>1. p < q
      BY <2>1, <2>2, <2>3 DEF Precedes
    <3>2. at[p] = at[q]
      BY <1>7, <2>3 DEF NoKeyTwice
    <3>3. p = q
      BY <1>6, <1>7, <3>2 DEF IsPlacing
    <3>4. QED
      BY <1>5, <1>7, <3>1, <3>3
  <2>4. FirstPlace(pubkeys, keys[j]) < FirstPlace(pubkeys, keys[k])
    BY <2>1, <2>2, <2>3 DEF Precedes
  <2>5. QED
    BY <2>4
<1>9. place \in [Keyed(keys) -> 1 .. Len(pubkeys)]
  BY <1>7
<1>10. IsPlacing(pubkeys, keys, place)
  <2>1. ASSUME NEW j \in Keyed(keys), NEW k \in Keyed(keys)
        PROVE  pubkeys[place[j]] = keys[j] /\ (place[j] = place[k] => j = k)
    <3>1. pubkeys[place[j]] = keys[j]
      BY <1>7
    <3>2. j \in 1 .. Len(data) /\ k \in 1 .. Len(data)
      BY <1>7
    <3>3. place[j] \in 1 .. Len(pubkeys) /\ place[k] \in 1 .. Len(pubkeys)
      BY <1>9
    <3> HIDE DEF place
    <3>4. j < k \/ k < j \/ j = k
      BY <1>1, <3>2
    <3>5. QED
      BY <1>8, <3>1, <3>3, <3>4
  <2>2. QED
    BY <2>1 DEF IsPlacing
<1>11. QED
  BY <1>8, <1>9, <1>10 DEF Aligned, keys

LEMMA OthersComeLast ==
  ASSUME NEW list, NEW pubkeys, NEW data, InOrder(list, pubkeys, data)
  PROVE  OthersLast(list, data)
BY DEF InOrder, Precedes, OthersLast

(* The signatures are in the order in which CHECKMULTISIG goes through the *)
(* public keys, for every script that has no key twice.                    *)
THEOREM SignaturesOrdered == Spec => []SignaturesInKeyOrder
<1>1. SignInv => SignaturesInKeyOrder
  <2>1. ASSUME SignInv, Returned PROVE SignaturesInKeyOrder
    <3>1. call.list \in SignLists /\ call.pubkeys \in PubkeyLists
      BY <2>1 DEF SignInv, SignTypes, Returned
    <3>2. /\ signature_data \in Seq(SigsOf(call.list))
          /\ InOrder(call.list, call.pubkeys, signature_data)
      BY <2>1 DEF SignInv, Sorted, AllPlaced
    <3>3. QED
      BY <3>1, <3>2, OrderAligns, OthersComeLast DEF SignaturesInKeyOrder
  <2>2. QED
    BY <2>1 DEF SignaturesInKeyOrder
<1>2. QED
  BY <1>1, SignInvariance, PTL

(* No list is refused whose keys are all in the script.                    *)
THEOREM SignRefusalsCorrect == Spec => []RefusedOnlyIfForeign
<1>1. SignInv => RefusedOnlyIfForeign
  BY DEF SignInv, Unlocking
<1>2. QED
  BY <1>1, SignInvariance, PTL

(* A cleared witness is the stack that unlocks the script.                 *)
THEOREM WitnessCorrect == Spec => []WitnessUnlocks
<1>1. SignInv => WitnessUnlocks
  BY DEF SignInv, Unlocking
<1>2. QED
  BY <1>1, SignInvariance, PTL
=============================================================================
