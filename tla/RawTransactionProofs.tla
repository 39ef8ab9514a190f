------------------------ MODULE RawTransactionProofs ------------------------
(***************************************************************************)
(* Proofs about a transaction built call after call, for every list a      *)
(* caller may give, every lock time and every number of calls.             *)
(***************************************************************************)
EXTENDS RawTransaction, SequenceTheorems, WellFoundedInduction, TLAPS

InList  == [outpoint : Outpoints, sequence : 0 .. MaxSequence]
OutList == [asset : Assets, fee : BOOLEAN]

(* What holds of every input and of every output of a transaction.         *)
GoodIn(t, i) == t.locktime # 0 => i.sequence # kSequenceDisableLockTime
GoodOut(k, o) == o.made_at = k /\ o.key \in {0, k} /\ (o.fee => o.key = 0)

Good(t) ==
  /\ t \in Tx
  /\ \A k \in 1 .. Len(t.txins) : GoodIn(t, t.txins[k])
  /\ \A k \in 1 .. Len(t.txouts) : GoodOut(k, t.txouts[k])

(* From t to u nothing is taken away, issued or opened.                    *)
Kept(t, u) ==
  /\ Len(t.txins) <= Len(u.txins) /\ Len(t.txouts) <= Len(u.txouts)
  /\ \A k \in 1 .. Len(t.txouts) : u.txouts[k].key = 0 => t.txouts[k].key = 0
  /\ \A k \in 1 .. Len(t.txins) :
       /\ u.txins[k].outpoint = t.txins[k].outpoint
       /\ u.txins[k].issuance = t.txins[k].issuance
       /\ t.txins[k].blinded => u.txins[k].blinded

(* What a loop has done to u so far is told of, and the inputs are still   *)
(* those of t.                                                             *)
Following(t, u, issued, opened, issuances_opened) ==
  /\ IsTold(t, u, issued, opened, issuances_opened)
  /\ \A k \in 1 .. Len(t.txins) : u.txins[k].outpoint = t.txins[k].outpoint

IsEmpty(t) == Len(t.txins) = 0 /\ Len(t.txouts) = 0

(* The inductive invariant: the transaction a call works on is as good as  *)
(* the one the caller has, and what makes it differ is told of.            *)
IInv ==
  /\ Good(tx) /\ Good(ctxc)
  /\ pc \in {"create", "call", "pegin", "issue", "reissue", "unblind", "wild"}
  /\ rest = <<>> \/ IsListed(rest)
  /\ places \subseteq 1 .. Len(tx.txouts)
  /\ issuance_output \in Seq(Outpoints) /\ issuance_outputs \in Seq(Outpoints)
  /\ blind_outputs \in Seq(Nat)
  /\ pc \in {"create", "pegin"} => IsEmpty(tx)
  /\ pc \in {"issue", "reissue", "unblind"} =>
       Following(tx, ctxc, issuance_output, blind_outputs, issuance_outputs)
  /\ error \in {"", "txin", "core", "fund", "fee asset", "blind"}
  /\ calls \in 0 .. MaxCalls

-----------------------------------------------------------------------------
(* The default sequence never disables a lock time that is set.            *)
LEMMA DefaultSequence ==
  ASSUME NEW t \in Tx
  PROVE  /\ GetDefaultSequence(t) \in 0 .. MaxSequence
         /\ t.locktime # 0 => GetDefaultSequence(t) # kSequenceDisableLockTime
BY BoundsAssumption
   DEF GetDefaultSequence, kSequenceDisableLockTime, kSequenceEnableLockTimeMax

LEMMA KeptIsTold ==
  ASSUME NEW t, Good(t), NEW u, Kept(t, u), NEW a, NEW b, NEW c
  PROVE  IsTold(t, u, a, b, c)
BY DEF Kept, IsTold

LEMMA KeptTransitive ==
  ASSUME NEW t, NEW u, NEW v, Good(t), Good(u), Good(v), Kept(t, u), Kept(u, v)
  PROVE  Kept(t, v)
<1>1. /\ Len(t.txins) \in Nat /\ Len(u.txins) \in Nat /\ Len(v.txins) \in Nat
      /\ Len(t.txouts) \in Nat /\ Len(u.txouts) \in Nat /\ Len(v.txouts) \in Nat
  BY DEF Good, Tx
<1>2. /\ \A k \in 1 .. Len(t.txins) : k \in 1 .. Len(u.txins)
      /\ \A k \in 1 .. Len(t.txouts) : k \in 1 .. Len(u.txouts)
      /\ Len(t.txins) <= Len(v.txins) /\ Len(t.txouts) <= Len(v.txouts)
  BY <1>1 DEF Kept
<1>3. QED
  BY <1>2 DEF Kept

LEMMA KeptSame == ASSUME NEW t, Good(t) PROVE Kept(t, t)
<1>1. Len(t.txins) \in Nat /\ Len(t.txouts) \in Nat
  BY DEF Good, Tx
<1>2. QED
  BY <1>1 DEF Kept

(* A vector that a call reports in tells of more and more.                 *)
LEMMA ReportTells ==
  ASSUME NEW S, NEW vector \in Seq(S), NEW done \in S
  PROVE  /\ Report(vector, done) \in Seq(S)
         /\ Tells(Report(vector, done), done)
         /\ \A d : Tells(vector, d) => Tells(Report(vector, done), d)
<1> DEFINE n == Len(vector)
           w == Append(vector, done)
<1>1. /\ w \in Seq(S) /\ Len(w) = n + 1 /\ n \in Nat /\ w[n + 1] = done
      /\ \A k \in 1 .. n : w[k] = vector[k]
  OBVIOUS
<1> HIDE DEF w
<1>2. n + 1 \in 1 .. Len(w) /\ \A k \in 1 .. n : k \in 1 .. Len(w)
  BY <1>1
<1>3. Tells(w, done)
  BY <1>1, <1>2 DEF Tells
<1>4. ASSUME NEW d, Tells(vector, d) PROVE Tells(w, d)
  BY <1>1, <1>2, <1>4 DEF Tells
<1>5. QED
  BY <1>1, <1>3, <1>4 DEF w, Report

(* Appending a mapped list keeps what is there and puts the images after.  *)
LEMMA AppendMapped ==
  ASSUME NEW S, NEW s \in Seq(S), NEW n \in Nat, NEW f \in [1 .. n -> S]
  PROVE  /\ s \o f \in Seq(S)
         /\ Len(s \o f) = Len(s) + n
         /\ \A k \in 1 .. Len(s) : (s \o f)[k] = s[k]
         /\ \A k \in 1 .. n : (s \o f)[Len(s) + k] = f[k]
         /\ \A k \in Len(s) + 1 .. Len(s) + n : (s \o f)[k] = f[k - Len(s)]
<1>1. f \in Seq(S) /\ Len(f) = n
  BY SeqDef
<1>2. /\ s \o f \in Seq(S)
      /\ Len(s \o f) = Len(s) + Len(f)
      /\ \A i \in 1 .. Len(s) + Len(f) :
           (s \o f)[i] = IF i <= Len(s) THEN s[i] ELSE f[i - Len(s)]
  BY <1>1, ConcatProperties
<1>3. Len(s) \in Nat
  OBVIOUS
<1> QED
  BY <1>1, <1>2, <1>3

(* Inputs are appended well if their sequences are good ones.              *)
LEMMA AddTxInsGood ==
  ASSUME NEW t, Good(t), NEW list \in Seq(InList),
         \A k \in 1 .. Len(list) : GoodIn(t, list[k])
  PROVE  /\ Good(AddTxIns(t, list))
         /\ AddTxIns(t, list).locktime = t.locktime
         /\ AddTxIns(t, list).txouts = t.txouts
         /\ Kept(t, AddTxIns(t, list))
<1> DEFINE n == Len(list)
           f == [k \in 1 .. n |-> [outpoint |-> list[k].outpoint,
                                   sequence |-> list[k].sequence,
                                   issuance |-> FALSE,
                                   blinded  |-> FALSE]]
           u == AddTxIns(t, list)
<1>1. t \in Tx /\ t.txins \in Seq(TxIn)
  BY DEF Good, Tx
<1>2. f \in [1 .. n -> TxIn] /\ n \in Nat
  <2>1. n \in Nat /\ \A k \in 1 .. n : list[k] \in InList
    BY ElementOfSeq
  <2>2. \A k \in 1 .. n : /\ list[k].outpoint \in Outpoints
                          /\ list[k].sequence \in 0 .. MaxSequence
    BY <2>1 DEF InList
  <2>3. QED
    BY <2>1, <2>2 DEF TxIn
<1>3. /\ u.txins = t.txins \o f /\ u.locktime = t.locktime /\ u.txouts = t.txouts
      /\ u.txins \in Seq(TxIn) => u \in Tx
  BY <1>1 DEF AddTxIns, Tx
<1> HIDE DEF f, u
<1>4. /\ u.txins \in Seq(TxIn)
      /\ Len(u.txins) = Len(t.txins) + n
      /\ \A k \in 1 .. Len(t.txins) : u.txins[k] = t.txins[k]
      /\ \A k \in Len(t.txins) + 1 .. Len(t.txins) + n :
           u.txins[k] = f[k - Len(t.txins)]
  <2>1. u.txins = t.txins \o f
    BY <1>3
  <2> HIDE DEF n
  <2> DEFINE s == t.txins
  <2>2. s \in Seq(TxIn)
    BY <1>1
  <2> HIDE DEF s
  <2>3. /\ s \o f \in Seq(TxIn)
        /\ Len(s \o f) = Len(s) + n
        /\ \A k \in 1 .. Len(s) : (s \o f)[k] = s[k]
        /\ \A k \in Len(s) + 1 .. Len(s) + n : (s \o f)[k] = f[k - Len(s)]
    BY <1>2, <2>2, AppendMapped
  <2>4. QED
    BY <2>1, <2>3 DEF s
<1>5. ASSUME NEW k \in 1 .. Len(u.txins) PROVE GoodIn(u, u.txins[k])
  <2>1. CASE k <= Len(t.txins)
    <3>1. k \in 1 .. Len(t.txins)
      BY <1>1, <2>1
    <3>2. u.txins[k] = t.txins[k]
      BY <1>4, <3>1
    <3>3. GoodIn(t, t.txins[k])
      BY <3>1 DEF Good
    <3>4. QED
      BY <1>3, <3>2, <3>3 DEF GoodIn
  <2>2. CASE k > Len(t.txins)
    <3>1. k \in Len(t.txins) + 1 .. Len(t.txins) + n
      BY <1>1, <1>2, <1>4, <2>2
    <3> DEFINE j == k - Len(t.txins)
    <3>2. j \in 1 .. n
      BY <3>1, <1>1, <1>2
    <3>3. u.txins[k] = f[j]
      BY <1>4, <3>1
    <3>4. f[j].sequence = list[j].sequence
      BY <3>2 DEF f
    <3>5. QED
      BY <3>2, <3>3, <3>4, <1>3 DEF GoodIn
  <2>3. QED
    BY <2>1, <2>2, <1>1
<1>6. Len(t.txins) <= Len(u.txins) /\ Len(t.txouts) <= Len(u.txouts)
  BY <1>1, <1>2, <1>3, <1>4 DEF Tx
<1>7. Kept(t, u)
  BY <1>3, <1>4, <1>6 DEF Kept
<1>8. QED
  BY <1>3, <1>4, <1>5, <1>7 DEF Good, u

(* Outputs are appended at their places, without a blinding key, and those *)
(* that are there are left alone.                                          *)
LEMMA AddTxOutsGood ==
  ASSUME NEW t, Good(t), NEW list \in Seq(OutList)
  PROVE  /\ Good(AddTxOuts(t, list))
         /\ AddTxOuts(t, list).locktime = t.locktime
         /\ Len(AddTxOuts(t, list).txouts) = Len(t.txouts) + Len(list)
         /\ \A k \in 1 .. Len(t.txouts) :
              AddTxOuts(t, list).txouts[k] = t.txouts[k]
         /\ \A k \in 1 .. Len(list) :
              AddTxOuts(t, list).txouts[Len(t.txouts) + k].fee = list[k].fee
         /\ Kept(t, AddTxOuts(t, list)) /\ AddTxOuts(t, list).txins = t.txins
<1> DEFINE n == Len(list)
           f == [k \in 1 .. n |-> [made_at |-> Len(t.txouts) + k,
                                   asset   |-> list[k].asset,
                                   fee     |-> list[k].fee,
                                   key     |-> 0]]
           u == AddTxOuts(t, list)
<1>1. t \in Tx /\ t.txouts \in Seq(TxOut)
  BY DEF Good, Tx
<1>2. f \in [1 .. n -> TxOut] /\ n \in Nat
  <2>1. n \in Nat /\ \A k \in 1 .. n : list[k] \in OutList
    BY ElementOfSeq
  <2>2. \A k \in 1 .. n : list[k].asset \in Assets /\ list[k].fee \in BOOLEAN
    BY <2>1 DEF OutList
  <2>3. \A k \in 1 .. n : Len(t.txouts) + k \in Nat
    BY <1>1
  <2>4. QED
    BY <2>1, <2>2, <2>3 DEF TxOut
<1>3. /\ u.txouts = t.txouts \o f /\ u.locktime = t.locktime /\ u.txins = t.txins
      /\ u.txouts \in Seq(TxOut) => u \in Tx
  BY <1>1 DEF AddTxOuts, Tx
<1>4. \A k \in 1 .. n : f[k].made_at = Len(t.txouts) + k /\ f[k].key = 0 /\ f[k].fee = list[k].fee
  OBVIOUS
<1> HIDE DEF f, u
<1>5. /\ u.txouts \in Seq(TxOut)
      /\ Len(u.txouts) = Len(t.txouts) + n
      /\ \A k \in 1 .. Len(t.txouts) : u.txouts[k] = t.txouts[k]
      /\ \A k \in 1 .. n : u.txouts[Len(t.txouts) + k] = f[k]
      /\ \A k \in Len(t.txouts) + 1 .. Len(t.txouts) + n :
           u.txouts[k] = f[k - Len(t.txouts)]
  <2>1. t.txouts \in Seq(TxOut) /\ n \in Nat /\ f \in [1 .. n -> TxOut]
    BY <1>1, <1>2
  <2>2. u.txouts = t.txouts \o f
    BY <1>3
  <2> HIDE DEF n
  <2> DEFINE s == t.txouts
  <2>3. s \in Seq(TxOut)
    BY <2>1
  <2> HIDE DEF s
  <2>4. /\ s \o f \in Seq(TxOut)
        /\ Len(s \o f) = Len(s) + n
        /\ \A k \in 1 .. Len(s) : (s \o f)[k] = s[k]
        /\ \A k \in 1 .. n : (s \o f)[Len(s) + k] = f[k]
        /\ \A k \in Len(s) + 1 .. Len(s) + n : (s \o f)[k] = f[k - Len(s)]
    BY <2>1, <2>3, AppendMapped
  <2>5. QED
    BY <2>2, <2>4 DEF s
<1>6. ASSUME NEW k \in 1 .. Len(u.txouts) PROVE GoodOut(k, u.txouts[k])
  <2>1. CASE k <= Len(t.txouts)
    <3>1. k \in 1 .. Len(t.txouts)
      BY <1>1, <2>1
    <3>2. u.txouts[k] = t.txouts[k]
      BY <1>5, <3>1
    <3>3. GoodOut(k, t.txouts[k])
      BY <3>1 DEF Good
    <3>4. QED
      BY <3>2, <3>3
  <2>2. CASE k > Len(t.txouts)
    <3> DEFINE j == k - Len(t.txouts)
    <3>1. j \in 1 .. n
      BY <2>2, <1>1, <1>2, <1>5
    <3>2. u.txouts[k] = f[j] /\ k = Len(t.txouts) + j
      BY <1>1, <1>2, <1>5, <2>2, <3>1
    <3>3. QED
      BY <1>4, <3>1, <3>2 DEF GoodOut
  <2>3. QED
    BY <2>1, <2>2, <1>1
<1>7. \A k \in 1 .. n : u.txouts[Len(t.txouts) + k].fee = list[k].fee
  BY <1>4, <1>5
<1>8. Good(u)
  BY <1>3, <1>5, <1>6 DEF Good, GoodIn
<1>9. Len(t.txins) <= Len(u.txins) /\ Len(t.txouts) <= Len(u.txouts)
  BY <1>1, <1>2, <1>3, <1>5 DEF Tx
<1>10. Kept(t, u)
  BY <1>3, <1>5, <1>9 DEF Kept
<1>11. QED
  BY <1>3, <1>5, <1>7, <1>8, <1>10 DEF u

-----------------------------------------------------------------------------
LEMMA PaysList ==
  ASSUME NEW assets \in Seq(Assets)
  PROVE  /\ Pays(assets) \in Seq(OutList)
         /\ Len(Pays(assets)) = Len(assets)
<1>1. Len(assets) \in Nat /\ \A k \in 1 .. Len(assets) : assets[k] \in Assets
  BY ElementOfSeq
<1>2. Pays(assets) \in [1 .. Len(assets) -> OutList]
  BY <1>1 DEF Pays, OutList
<1>3. QED
  BY <1>1, <1>2, SeqDef

LEMMA AddTxOutFeeGood ==
  ASSUME NEW t, Good(t), NEW asset \in Assets
  PROVE  /\ Good(AddTxOutFee(t, asset))
         /\ AddTxOutFee(t, asset).locktime = t.locktime
         /\ Len(AddTxOutFee(t, asset).txouts) = Len(t.txouts) + 1
         /\ \A k \in 1 .. Len(t.txouts) :
              AddTxOutFee(t, asset).txouts[k] = t.txouts[k]
         /\ AddTxOutFee(t, asset).txouts[Len(t.txouts) + 1].fee = TRUE
         /\ Kept(t, AddTxOutFee(t, asset))
<1> DEFINE list == <<[asset |-> asset, fee |-> TRUE]>>
<1>1. list \in Seq(OutList) /\ Len(list) = 1 /\ list[1].fee = TRUE
  BY DEF OutList
<1>2. AddTxOutFee(t, asset) = AddTxOuts(t, list)
  BY DEF AddTxOutFee
<1> HIDE DEF list
<1>3. 1 \in 1 .. Len(list)
  BY <1>1
<1> DEFINE u == AddTxOuts(t, list)
<1>4. /\ Good(u) /\ u.locktime = t.locktime
      /\ Len(u.txouts) = Len(t.txouts) + Len(list)
      /\ \A k \in 1 .. Len(t.txouts) : u.txouts[k] = t.txouts[k]
      /\ \A k \in 1 .. Len(list) : u.txouts[Len(t.txouts) + k].fee = list[k].fee
      /\ Kept(t, u)
  BY <1>1, AddTxOutsGood
<1>5. u.txouts[Len(t.txouts) + 1].fee = TRUE
  BY <1>1, <1>3, <1>4
<1> HIDE DEF u
<1>6. QED
  BY <1>1, <1>2, <1>4, <1>5 DEF u

(* A created transaction is good, also if the sequence given for an input  *)
(* is the one that disables lock times.                                    *)
LEMMA CreatedGood ==
  ASSUME NEW l \in Locktimes, NEW i \in TxIns, NEW o \in TxOuts,
         NEW f \in Assets \cup {NoAsset}
  PROVE  Good(Created(l, i, o, f))
<1> DEFINE t0 == NoTx(l)
           m  == [k \in 1 .. Len(i) |-> [i[k] EXCEPT !.sequence = SequenceFor(t0, @)]]
           t1 == AddTxIns(t0, m)
           t2 == AddTxOuts(t1, o)
<1>1. i \in Seq(InList) /\ o \in Seq(OutList)
  BY ListsAssumption DEF InList, OutList
<1>2. Good(t0) /\ t0 \in Tx
  <2>1. <<>> \in Seq(TxIn) /\ <<>> \in Seq(TxOut) /\ Len(<<>>) = 0
    BY EmptySeq
  <2>2. QED
    BY <2>1 DEF Good, NoTx, Tx
<1>3. /\ m \in Seq(InList) /\ Len(m) = Len(i)
      /\ \A k \in 1 .. Len(m) : GoodIn(t0, m[k])
  <2>1. Len(i) \in Nat /\ \A k \in 1 .. Len(i) : i[k] \in InList
    BY <1>1, ElementOfSeq
  <2>2. ASSUME NEW k \in 1 .. Len(i)
        PROVE  m[k] \in InList /\ GoodIn(t0, m[k])
    <3>1. /\ SequenceFor(t0, i[k].sequence) \in 0 .. MaxSequence
          /\ t0.locktime # 0 =>
               SequenceFor(t0, i[k].sequence) # kSequenceDisableLockTime
      BY <1>2, <2>1, DefaultSequence DEF SequenceFor, InList
    <3>2. /\ m[k].sequence = SequenceFor(t0, i[k].sequence)
          /\ m[k] \in InList
      BY <2>1, <3>1 DEF InList
    <3>3. QED
      BY <3>1, <3>2 DEF GoodIn
  <2>3. m \in [1 .. Len(i) -> InList]
    BY <2>2
  <2>4. m \in Seq(InList) /\ Len(m) = Len(i)
    BY <2>1, <2>3, SeqDef
  <2>5. QED
    BY <2>2, <2>4
<1> HIDE DEF m, t0
<1>4. Good(t1)
  BY <1>2, <1>3, AddTxInsGood
<1> HIDE DEF t1
<1>5. Good(t2)
  BY <1>1, <1>4, AddTxOutsGood
<1> HIDE DEF t2
<1>6. f # NoAsset => Good(AddTxOutFee(t2, f))
  BY <1>5, AddTxOutFeeGood
<1>7. Created(l, i, o, f) = IF f = NoAsset THEN t2 ELSE AddTxOutFee(t2, f)
  BY DEF Created, t2, t1, m, t0
<1>8. QED
  BY <1>5, <1>6, <1>7

(* The first input of an outpoint is one.                                  *)
LEMMA FirstTxIn ==
  ASSUME NEW t, Good(t), NEW o, HasTxIn(t, o)
  PROVE  /\ GetTxInIndex(t, o) \in 1 .. Len(t.txins)
         /\ t.txins[GetTxInIndex(t, o)].outpoint = o
<1> DEFINE T == {k \in Nat : k \in 1 .. Len(t.txins) /\ t.txins[k].outpoint = o}
<1>1. Len(t.txins) \in Nat
  BY DEF Good, Tx
<1>2. T \subseteq Nat /\ T # {}
  BY <1>1 DEF HasTxIn
<1>3. PICK m \in T : \A j \in T : ~(j < m)
  <2> HIDE DEF T
  <2>1. PICK m \in T : \A j \in T : <<j, m>> \notin OpToRel(<, Nat)
    BY <1>2, NatLessThanWellFounded, WFMin
  <2>2. QED
    BY <1>2, <2>1 DEF OpToRel
<1>4. /\ m \in 1 .. Len(t.txins) /\ t.txins[m].outpoint = o
      /\ \A j \in 1 .. m - 1 : t.txins[j].outpoint # o
  BY <1>1, <1>3
<1>5. QED
  BY <1>4 DEF GetTxInIndex

(* A change of inputs in place, of whether they are an issuance and        *)
(* whether it is blinded only.                                             *)
LEMMA InputsChanged ==
  ASSUME NEW t, Good(t), NEW ins \in [1 .. Len(t.txins) -> TxIn],
         \A k \in 1 .. Len(t.txins) : ins[k].sequence = t.txins[k].sequence
  PROVE  /\ Good([t EXCEPT !.txins = ins])
         /\ [t EXCEPT !.txins = ins].txins = ins
         /\ [t EXCEPT !.txins = ins].txouts = t.txouts
         /\ Len(ins) = Len(t.txins)
<1> DEFINE u == [t EXCEPT !.txins = ins]
<1>1. t \in Tx /\ t.txins \in Seq(TxIn) /\ Len(t.txins) \in Nat
  BY DEF Good, Tx
<1>2. ins \in Seq(TxIn) /\ Len(ins) = Len(t.txins)
  BY <1>1, SeqDef
<1>3. u \in Tx /\ u.txins = ins /\ u.txouts = t.txouts /\ u.locktime = t.locktime
  BY <1>1, <1>2 DEF Tx
<1> HIDE DEF u
<1>4. Good(u)
  BY <1>2, <1>3 DEF Good, GoodIn
<1>5. QED
  BY <1>2, <1>3, <1>4 DEF u

LEMMA InputsOf ==
  ASSUME NEW t, Good(t)
  PROVE  /\ t \in Tx /\ Len(t.txins) \in Nat
         /\ t.txins \in [1 .. Len(t.txins) -> TxIn]
         /\ \A k \in 1 .. Len(t.txins) : t.txins[k] \in TxIn
<1>1. t \in Tx /\ t.txins \in Seq(TxIn)
  BY DEF Good, Tx
<1>2. QED
  BY <1>1, LenProperties, ElementOfSeq

(* An issuance marks an input, which is the one reported, and appends its  *)
(* outputs.                                                                *)
LEMMA IssuedGood ==
  ASSUME NEW t, Good(t), NEW i \in [outpoint : Outpoints, assets : Seq(Assets)],
         HasTxIn(t, i.outpoint)
  PROVE  /\ Good(Issued(t, i))
         /\ Len(t.txins) <= Len(Issued(t, i).txins)
         /\ Len(t.txouts) <= Len(Issued(t, i).txouts)
         /\ \A k \in 1 .. Len(t.txouts) : Issued(t, i).txouts[k] = t.txouts[k]
         /\ \A k \in 1 .. Len(t.txins) :
              /\ Issued(t, i).txins[k].outpoint = t.txins[k].outpoint
              /\ Issued(t, i).txins[k].blinded = t.txins[k].blinded
              /\ Issued(t, i).txins[k].issuance =>
                   t.txins[k].issuance \/ t.txins[k].outpoint = i.outpoint
<1> DEFINE index == GetTxInIndex(t, i.outpoint)
           v == [t.txins EXCEPT ![index].issuance = TRUE]
           u == [t EXCEPT !.txins = v]
           w == AddTxOuts(u, Pays(i.assets))
<1>1. index \in 1 .. Len(t.txins) /\ t.txins[index].outpoint = i.outpoint
  BY FirstTxIn
<1> HIDE DEF index
<1>2. v \in [1 .. Len(t.txins) -> TxIn]
  BY InputsOf DEF TxIn
<1>3. ASSUME NEW k \in 1 .. Len(t.txins)
      PROVE  /\ v[k].sequence = t.txins[k].sequence
             /\ v[k].outpoint = t.txins[k].outpoint
             /\ v[k].blinded = t.txins[k].blinded
             /\ v[k].issuance => t.txins[k].issuance \/ t.txins[k].outpoint = i.outpoint
  <2>1. t.txins[k] \in TxIn
    BY InputsOf
  <2>2. v[k] = IF k = index THEN [t.txins[k] EXCEPT !.issuance = TRUE] ELSE t.txins[k]
    BY InputsOf
  <2>3. QED
    BY <1>1, <2>1, <2>2 DEF TxIn
<1>4. Issued(t, i) = w
  BY InputsOf DEF Issued, Tx, index
<1> HIDE DEF v
<1>5. Good(u) /\ u.txins = v /\ u.txouts = t.txouts /\ Len(v) = Len(t.txins)
  BY <1>2, <1>3, InputsChanged
<1> HIDE DEF u
<1>6. Pays(i.assets) \in Seq(OutList) /\ Len(Pays(i.assets)) \in Nat
  BY PaysList
<1>7. /\ Good(w) /\ w.txins = v
      /\ Len(w.txouts) = Len(t.txouts) + Len(Pays(i.assets))
      /\ \A k \in 1 .. Len(t.txouts) : w.txouts[k] = t.txouts[k]
  BY <1>5, <1>6, AddTxOutsGood
<1> HIDE DEF w
<1>8. Len(t.txouts) <= Len(w.txouts)
  <2>1. Len(t.txouts) \in Nat
    BY DEF Good, Tx
  <2>2. QED
    BY <1>6, <1>7, <2>1
<1>9. Len(t.txins) <= Len(w.txins)
  BY <1>5, <1>7, InputsOf
<1>10. QED
  BY <1>3, <1>4, <1>7, <1>8, <1>9

-----------------------------------------------------------------------------
(* What funding appends is good, and leaves the outputs where they are.    *)
LEMMA FundedGood ==
  ASSUME NEW t, Good(t), NEW coins \in Coins, NEW changes \in Changes
  PROVE  /\ Good(Funded(t, coins, changes))
         /\ Len(Funded(t, coins, changes).txouts) >= Len(t.txouts)
         /\ \A k \in 1 .. Len(t.txouts) :
              Funded(t, coins, changes).txouts[k] = t.txouts[k]
         /\ Kept(t, Funded(t, coins, changes))
<1> DEFINE u == AddTxOuts(t, Pays(changes))
           i == SelectedTxIns(t, coins)
<1>1. coins \in Seq(Outpoints) /\ changes \in Seq(Assets)
  BY ListsAssumption
<1>2. Pays(changes) \in Seq(OutList) /\ Len(Pays(changes)) \in Nat
  BY <1>1, PaysList
<1>3. /\ Good(u) /\ u.locktime = t.locktime
      /\ Len(u.txouts) = Len(t.txouts) + Len(Pays(changes))
      /\ \A k \in 1 .. Len(t.txouts) : u.txouts[k] = t.txouts[k]
      /\ Kept(t, u)
  BY <1>2, AddTxOutsGood
<1>4. t \in Tx /\ Len(t.txouts) \in Nat
  BY DEF Good, Tx
<1>5. /\ i \in Seq(InList)
      /\ \A k \in 1 .. Len(i) : GoodIn(u, i[k])
  <2>1. Len(coins) \in Nat /\ \A k \in 1 .. Len(coins) : coins[k] \in Outpoints
    BY <1>1, ElementOfSeq
  <2>2. ASSUME NEW k \in 1 .. Len(coins)
        PROVE  i[k] \in InList /\ GoodIn(u, i[k])
    BY <1>3, <1>4, <2>1, DefaultSequence DEF SelectedTxIns, InList, GoodIn
  <2>3. i \in [1 .. Len(coins) -> InList]
    BY <2>2 DEF SelectedTxIns
  <2>4. i \in Seq(InList) /\ Len(i) = Len(coins)
    BY <2>1, <2>3, SeqDef
  <2>5. QED
    BY <2>2, <2>4
<1> HIDE DEF u, i
<1>6. /\ Good(AddTxIns(u, i)) /\ AddTxIns(u, i).txouts = u.txouts
      /\ Kept(u, AddTxIns(u, i))
  BY <1>3, <1>5, AddTxInsGood
<1>7. Funded(t, coins, changes) = AddTxIns(u, i)
  BY DEF Funded, u, i
<1>8. Kept(t, AddTxIns(u, i))
  BY <1>3, <1>6, KeptTransitive
<1>9. QED
  BY <1>2, <1>3, <1>4, <1>6, <1>7, <1>8

(* A change of outputs in place, of what is not their place, their fee or, *)
(* but for 0 and their place, their key.                                   *)
LEMMA OutputsChanged ==
  ASSUME NEW t, Good(t), NEW outs,
         outs \in [1 .. Len(t.txouts) -> TxOut],
         \A k \in 1 .. Len(t.txouts) : GoodOut(k, outs[k])
  PROVE  /\ Good([t EXCEPT !.txouts = outs])
         /\ [t EXCEPT !.txouts = outs].txouts = outs
         /\ [t EXCEPT !.txouts = outs].txins = t.txins
         /\ Len(outs) = Len(t.txouts)
<1> DEFINE u == [t EXCEPT !.txouts = outs]
<1>1. t \in Tx /\ Len(t.txouts) \in Nat
  BY DEF Good, Tx
<1>2. outs \in Seq(TxOut) /\ Len(outs) = Len(t.txouts)
  BY <1>1, SeqDef
<1>3. /\ u \in Tx /\ u.txouts = outs /\ u.txins = t.txins
      /\ u.locktime = t.locktime
  BY <1>1, <1>2 DEF Tx
<1> HIDE DEF u
<1>4. Good(u)
  BY <1>2, <1>3 DEF Good, GoodIn
<1>5. QED
  BY <1>2, <1>3, <1>4 DEF u

LEMMA OutputsOf ==
  ASSUME NEW t, Good(t)
  PROVE  /\ t \in Tx
         /\ Len(t.txouts) \in Nat
         /\ t.txouts \in [1 .. Len(t.txouts) -> TxOut]
         /\ \A k \in 1 .. Len(t.txouts) :
              t.txouts[k] \in TxOut /\ GoodOut(k, t.txouts[k])
<1>1. t \in Tx /\ t.txouts \in Seq(TxOut)
  BY DEF Good, Tx
<1>2. QED
  BY <1>1, LenProperties, ElementOfSeq DEF Good

LEMMA FeeUpdated ==
  ASSUME NEW t, Good(t), NEW index \in 1 .. Len(t.txouts), NEW asset \in Assets,
         t.txouts[index].fee
  PROVE  /\ Good(UpdateTxOutFeeAmount(t, index, asset))
         /\ Kept(t, UpdateTxOutFeeAmount(t, index, asset))
<1> DEFINE outs == [t.txouts EXCEPT ![index] = [[@ EXCEPT !.asset = asset] EXCEPT !.key = 0]]
           u == [t EXCEPT !.txouts = outs]
<1>1. outs \in [1 .. Len(t.txouts) -> TxOut]
  BY OutputsOf DEF TxOut
<1>2. ASSUME NEW k \in 1 .. Len(t.txouts)
      PROVE  GoodOut(k, outs[k]) /\ (outs[k].key = 0 => t.txouts[k].key = 0)
  BY OutputsOf DEF TxOut, GoodOut
<1>3. UpdateTxOutFeeAmount(t, index, asset) = u
  BY OutputsOf DEF UpdateTxOutFeeAmount, Tx, TxOut
<1> HIDE DEF outs
<1>4. Good(u) /\ u.txouts = outs /\ u.txins = t.txins /\ Len(outs) = Len(t.txouts)
  BY <1>1, <1>2, OutputsChanged
<1> HIDE DEF u
<1>5. Kept(t, u)
  BY <1>2, <1>4, OutputsOf, InputsOf DEF Kept
<1>6. QED
  BY <1>3, <1>4, <1>5

(* Blinding the outputs noted blinds each with its own key, and opens      *)
(* nothing.                                                                *)
LEMMA BlindedGood ==
  ASSUME NEW t, Good(t), NEW outs, NEW ins,
         \A k \in outs \cap (1 .. Len(t.txouts)) : ~t.txouts[k].fee
  PROVE  Good(Blinded(t, outs, ins)) /\ Kept(t, Blinded(t, outs, ins))
<1> DEFINE f == [k \in 1 .. Len(t.txouts) |->
                  [t.txouts[k] EXCEPT !.key = IF k \in outs THEN k ELSE @]]
           g == [k \in 1 .. Len(t.txins) |->
                  [t.txins[k] EXCEPT !.blinded = @ \/ k \in ins]]
           u == [t EXCEPT !.txouts = f]
           w == [u EXCEPT !.txins = g]
<1>1. f \in [1 .. Len(t.txouts) -> TxOut]
  BY OutputsOf DEF TxOut
<1>2. ASSUME NEW k \in 1 .. Len(t.txouts)
      PROVE  GoodOut(k, f[k]) /\ (f[k].key = 0 => t.txouts[k].key = 0)
  BY OutputsOf DEF TxOut, GoodOut
<1>3. g \in [1 .. Len(t.txins) -> TxIn]
  BY InputsOf, Zenon DEF TxIn
<1>4. ASSUME NEW k \in 1 .. Len(t.txins)
      PROVE  /\ g[k].sequence = t.txins[k].sequence
             /\ g[k].outpoint = t.txins[k].outpoint
             /\ g[k].issuance = t.txins[k].issuance
             /\ t.txins[k].blinded => g[k].blinded
  BY InputsOf DEF TxIn
<1>5. Blinded(t, outs, ins) = w
  BY InputsOf DEF Blinded, Tx
<1> HIDE DEF f, g
<1>6. Good(u) /\ u.txouts = f /\ u.txins = t.txins /\ Len(f) = Len(t.txouts)
  BY <1>1, <1>2, OutputsChanged
<1> HIDE DEF u
<1>7. Good(w) /\ w.txouts = f /\ w.txins = g /\ Len(g) = Len(t.txins)
  BY <1>3, <1>4, <1>6, InputsChanged
<1> HIDE DEF w
<1>8. Kept(t, w)
  BY <1>2, <1>4, <1>6, <1>7, OutputsOf, InputsOf DEF Kept
<1>9. QED
  BY <1>5, <1>7, <1>8

(* An output opened is opened alone, and so is an issuance.                *)
LEMMA OpenedGood ==
  ASSUME NEW t, Good(t), NEW place \in 1 .. Len(t.txouts)
  PROVE  /\ Good(Opened(t, place))
         /\ Opened(t, place).txins = t.txins
         /\ Len(Opened(t, place).txouts) = Len(t.txouts)
         /\ \A k \in 1 .. Len(t.txouts) :
              k # place => Opened(t, place).txouts[k] = t.txouts[k]
<1> DEFINE outs == [t.txouts EXCEPT ![place].key = 0]
           u == [t EXCEPT !.txouts = outs]
<1>1. outs \in [1 .. Len(t.txouts) -> TxOut]
  BY OutputsOf DEF TxOut
<1>2. ASSUME NEW k \in 1 .. Len(t.txouts) PROVE GoodOut(k, outs[k])
  BY OutputsOf DEF TxOut, GoodOut
<1>3. Opened(t, place) = u
  BY OutputsOf DEF Opened, Tx
<1>4. \A k \in 1 .. Len(t.txouts) : k # place => outs[k] = t.txouts[k]
  BY OutputsOf
<1> HIDE DEF outs
<1>5. Good(u) /\ u.txouts = outs /\ u.txins = t.txins /\ Len(outs) = Len(t.txouts)
  BY <1>1, <1>2, OutputsChanged
<1> HIDE DEF u
<1>6. QED
  BY <1>3, <1>4, <1>5

LEMMA IssuanceOpenedGood ==
  ASSUME NEW t, Good(t), NEW o, HasTxIn(t, o)
  PROVE  /\ Good(IssuanceOpened(t, o))
         /\ IssuanceOpened(t, o).txouts = t.txouts
         /\ Len(IssuanceOpened(t, o).txins) = Len(t.txins)
         /\ \A k \in 1 .. Len(t.txins) :
              /\ IssuanceOpened(t, o).txins[k].outpoint = t.txins[k].outpoint
              /\ IssuanceOpened(t, o).txins[k].issuance = t.txins[k].issuance
              /\ t.txins[k].blinded /\ ~IssuanceOpened(t, o).txins[k].blinded =>
                   t.txins[k].outpoint = o
<1> DEFINE index == GetTxInIndex(t, o)
           ins == [t.txins EXCEPT ![index].blinded = FALSE]
           u == [t EXCEPT !.txins = ins]
<1>1. index \in 1 .. Len(t.txins) /\ t.txins[index].outpoint = o
  BY FirstTxIn
<1>2. IssuanceOpened(t, o) = u
  BY InputsOf DEF IssuanceOpened, Tx
<1> HIDE DEF index
<1>3. ins \in [1 .. Len(t.txins) -> TxIn]
  BY InputsOf DEF TxIn
<1>4. ASSUME NEW k \in 1 .. Len(t.txins)
      PROVE  /\ ins[k].sequence = t.txins[k].sequence
             /\ ins[k].outpoint = t.txins[k].outpoint
             /\ ins[k].issuance = t.txins[k].issuance
             /\ t.txins[k].blinded /\ ~ins[k].blinded => t.txins[k].outpoint = o
  <2>1. t.txins[k] \in TxIn
    BY InputsOf
  <2>2. ins[k] = IF k = index THEN [t.txins[k] EXCEPT !.blinded = FALSE] ELSE t.txins[k]
    BY InputsOf
  <2>3. QED
    BY <1>1, <2>1, <2>2 DEF TxIn
<1> HIDE DEF ins
<1>5. Good(u) /\ u.txins = ins /\ u.txouts = t.txouts /\ Len(ins) = Len(t.txins)
  BY <1>3, <1>4, InputsChanged
<1> HIDE DEF u
<1>6. QED
  BY <1>2, <1>4, <1>5

-----------------------------------------------------------------------------
(* There is a last fee output if there is one.                             *)
LEMMA LastFee ==
  ASSUME NEW t, Good(t), HasFee(t)
  PROVE  fee_index(t) \in FeePlaces(t)
<1> DEFINE n == Len(t.txouts)
           T == {m \in Nat : m <= n /\ n - m \in FeePlaces(t)}
<1>1. n \in Nat
  BY OutputsOf
<1>2. PICK f \in FeePlaces(t) : TRUE
  BY DEF HasFee
<1>3. f \in 1 .. n
  BY <1>2 DEF FeePlaces
<1>4. n - f \in T
  BY <1>1, <1>2, <1>3
<1>5. PICK m \in T : \A j \in T : ~(j < m)
  <2>1. T \subseteq Nat /\ T # {}
    BY <1>4
  <2> HIDE DEF T
  <2>2. PICK m \in T : \A j \in T : <<j, m>> \notin OpToRel(<, Nat)
    BY <2>1, NatLessThanWellFounded, WFMin
  <2>3. QED
    BY <2>1, <2>2 DEF OpToRel
<1>6. n - m \in FeePlaces(t) /\ m \in Nat
  BY <1>5
<1>7. \A j \in FeePlaces(t) : j <= n - m
  <2>1. SUFFICES ASSUME NEW j \in FeePlaces(t), ~(j <= n - m) PROVE FALSE
    OBVIOUS
  <2>2. j \in 1 .. n
    BY DEF FeePlaces
  <2>3. n - j \in T
    BY <1>1, <2>2
  <2>4. n - j < m
    BY <1>1, <1>6, <2>1, <2>2
  <2>5. QED
    BY <1>5, <2>3, <2>4
<1>8. QED
  BY <1>6, <1>7 DEF fee_index

(* The fee output whose place was noted first is there when it is written. *)
LEMMA FeeIndexFound ==
  ASSUME NEW t, Good(t), NEW asset \in Assets,
         NEW coins \in Coins, NEW changes \in Changes
  PROVE  LET u == Funded(WithFee(t, asset), coins, changes)
         IN  /\ Good(u)
             /\ fee_index(t) \in 1 .. Len(u.txouts)
             /\ u.txouts[fee_index(t)].fee
             /\ Kept(t, u)
<1> DEFINE w == WithFee(t, asset)
           u == Funded(w, coins, changes)
<1>1. /\ Good(w) /\ fee_index(t) \in 1 .. Len(w.txouts)
      /\ w.txouts[fee_index(t)].fee /\ Kept(t, w)
  <2>1. CASE HasFee(t)
    BY <2>1, LastFee, KeptSame DEF WithFee, FeePlaces
  <2>2. CASE ~HasFee(t)
    <3>1. w = AddTxOutFee(t, asset) /\ fee_index(t) = Len(t.txouts) + 1
      BY <2>2 DEF WithFee, fee_index
    <3>2. Len(t.txouts) \in Nat
      BY OutputsOf
    <3>3. /\ Good(w) /\ Len(w.txouts) = Len(t.txouts) + 1
          /\ w.txouts[Len(t.txouts) + 1].fee = TRUE /\ Kept(t, w)
      BY <3>1, AddTxOutFeeGood
    <3> HIDE DEF w
    <3>4. QED
      BY <3>1, <3>2, <3>3
  <2>3. QED
    BY <2>1, <2>2
<1> HIDE DEF w
<1>2. /\ Good(u) /\ Len(u.txouts) >= Len(w.txouts)
      /\ \A k \in 1 .. Len(w.txouts) : u.txouts[k] = w.txouts[k]
      /\ Kept(w, u)
  BY <1>1, FundedGood
<1>3. Len(w.txouts) \in Nat /\ Len(u.txouts) \in Nat
  BY <1>1, <1>2, OutputsOf
<1> HIDE DEF u
<1>4. Kept(t, u)
  BY <1>1, <1>2, KeptTransitive
<1>5. QED
  BY <1>1, <1>2, <1>3, <1>4 DEF u, w

-----------------------------------------------------------------------------
Told == IsTold(tx, tx', issuance_output', blind_outputs', issuance_outputs')

LEMMA InitGood == Init => IInv
<1>1. <<>> \in Seq(TxIn) /\ <<>> \in Seq(TxOut) /\ <<>> \in Seq(Outpoints) /\ <<>> \in Seq(Nat)
  BY EmptySeq
<1>2. Good(NoTx(0)) /\ IsEmpty(NoTx(0))
  BY <1>1 DEF Good, NoTx, Tx, IsEmpty
<1>3. 0 \in 0 .. MaxCalls
  BY BoundsAssumption
<1>4. QED
  BY <1>1, <1>2, <1>3 DEF Init, IInv

(* A step that leaves the caller's transaction alone has nothing to tell.  *)
LEMMA NothingToTell ==
  ASSUME IInv, tx' = tx
  PROVE  Told
<1>1. Good(tx)
  BY DEF IInv
<1>2. IsTold(tx, tx, issuance_output', blind_outputs', issuance_outputs')
  BY <1>1, KeptSame, KeptIsTold
<1>3. QED
  BY <1>2 DEF Told

(* Nor does a call on nothing.                                             *)
LEMMA EmptyIsTold ==
  ASSUME NEW t, IsEmpty(t), NEW u, Good(u), NEW a, NEW b, NEW c
  PROVE  IsTold(t, u, a, b, c)
<1>1. Len(u.txins) \in Nat /\ Len(u.txouts) \in Nat
  BY DEF Good, Tx
<1>2. QED
  BY <1>1 DEF IsTold, IsEmpty

(* What a call that returns and one that throws leave behind.              *)
LEMMA ReturnGood ==
  ASSUME IInv, NEW t, Good(t), Return(t), calls' \in 0 .. MaxCalls,
         IsTold(tx, t, issuance_output, blind_outputs, issuance_outputs),
         UNCHANGED <<loop, vectors>>
  PROVE  IInv' /\ Told
<1>1. /\ tx' = t /\ ctxc' = t /\ pc' = "call" /\ error' = ""
      /\ rest' = rest /\ places' = places /\ issuance_output' = issuance_output
      /\ blind_outputs' = blind_outputs /\ issuance_outputs' = issuance_outputs
  BY DEF Return, loop, vectors
<1>2. Good(tx') /\ Good(ctxc')
  BY <1>1
<1>3. places' \subseteq 1 .. Len(tx'.txouts)
  <2>1. Len(tx.txouts) <= Len(t.txouts) /\ places \subseteq 1 .. Len(tx.txouts)
    BY DEF IsTold, IInv
  <2>2. Len(tx.txouts) \in Nat /\ Len(t.txouts) \in Nat
    <3>1. Good(tx)
      BY DEF IInv
    <3>2. QED
      BY <3>1, OutputsOf
  <2>3. 1 .. Len(tx.txouts) \subseteq 1 .. Len(t.txouts)
    BY <2>1, <2>2
  <2>4. QED
    BY <1>1, <2>1, <2>3
<1>4. Told
  BY <1>1 DEF Told
<1>5. QED
  BY <1>1, <1>2, <1>3, <1>4 DEF IInv

LEMMA ThrowGood ==
  ASSUME IInv, NEW what \in {"txin", "core", "fund", "fee asset", "blind"},
         Throw(what), calls' \in 0 .. MaxCalls
  PROVE  IInv' /\ Told
<1>1. /\ tx' = tx /\ ctxc' = tx /\ rest' = <<>> /\ places' = {} /\ error' = what
      /\ pc' = IF pc = "pegin" THEN "create" ELSE "call"
      /\ issuance_output' = issuance_output
      /\ blind_outputs' = blind_outputs /\ issuance_outputs' = issuance_outputs
  BY DEF Throw, vectors
<1>2. Good(tx') /\ Good(ctxc')
  BY <1>1 DEF IInv
<1>3. pc' \in {"create", "pegin"} => IsEmpty(tx')
  BY <1>1 DEF IInv
<1>4. Told
  BY <1>1, NothingToTell
<1>5. QED
  BY <1>1, <1>2, <1>3, <1>4 DEF IInv

(* A call that goes through lists starts with the transaction it was given.*)
LEMMA LoopStarts ==
  ASSUME IInv, NEW kind \in {"issue", "reissue", "unblind"},
         ctxc' = tx, pc' = kind, calls' \in 0 .. MaxCalls,
         rest' = <<>> \/ IsListed(rest'), places' \subseteq 1 .. Len(tx.txouts),
         UNCHANGED <<tx, vectors, error>>
  PROVE  IInv' /\ Told
<1>1. /\ tx' = tx /\ error' = error /\ issuance_output' = issuance_output
      /\ blind_outputs' = blind_outputs /\ issuance_outputs' = issuance_outputs
  BY DEF vectors
<1>2. Good(tx)
  BY DEF IInv
<1>3. Following(tx, tx, issuance_output, blind_outputs, issuance_outputs)
  BY <1>2, KeptSame, KeptIsTold DEF Following
<1>4. Good(tx') /\ Good(ctxc')
  BY <1>1, <1>2
<1>5. Following(tx', ctxc', issuance_output', blind_outputs', issuance_outputs')
  BY <1>1, <1>3
<1>6. Told
  BY <1>1, NothingToTell
<1>7. (rest = <<>> \/ IsListed(rest))'
  BY DEF IsListed
<1>8. QED
  BY <1>1, <1>4, <1>5, <1>6, <1>7 DEF IInv

(* A turn of it.                                                           *)
LEMMA LoopTurns ==
  ASSUME IInv, pc \in {"issue", "reissue", "unblind"}, Good(ctxc'),
         Following(tx, ctxc', issuance_output', blind_outputs', issuance_outputs'),
         issuance_output' \in Seq(Outpoints), issuance_outputs' \in Seq(Outpoints),
         blind_outputs' \in Seq(Nat),
         rest' = <<>> \/ IsListed(rest'), places' \subseteq places,
         UNCHANGED <<pc, tx, error, calls>>
  PROVE  IInv' /\ Told
<1>1. Good(tx')
  BY DEF IInv
<1>2. Following(tx', ctxc', issuance_output', blind_outputs', issuance_outputs')
  OBVIOUS
<1>3. places' \subseteq 1 .. Len(tx'.txouts)
  BY DEF IInv
<1>4. Told
  BY NothingToTell
<1>5. (rest = <<>> \/ IsListed(rest))'
  BY DEF IsListed
<1>6. QED
  BY <1>1, <1>2, <1>3, <1>4, <1>5 DEF IInv

(* The next element of a list, and what is left.                           *)
LEMMA NextListed ==
  ASSUME IInv, rest # <<>>
  PROVE  /\ Head(rest) \in [outpoint : Outpoints, assets : Seq(Assets)]
         /\ Head(rest).outpoint \in Outpoints
         /\ IsListed(Tail(rest))
<1>1. rest \in Seq([outpoint : Outpoints, assets : Seq(Assets)])
  BY DEF IInv, IsListed
<1>2. /\ Head(rest) \in [outpoint : Outpoints, assets : Seq(Assets)]
      /\ Tail(rest) \in Seq([outpoint : Outpoints, assets : Seq(Assets)])
  BY <1>1, HeadTailProperties
<1>3. QED
  BY <1>2 DEF IsListed

LEMMA SetAssetIssuanceGood ==
  ASSUME IInv, SetAssetIssuance
  PROVE  IInv' /\ Told
<1> DEFINE o == Head(rest).outpoint
           u == Issued(ctxc, Head(rest))
<1>1. /\ Good(tx) /\ Good(ctxc)
      /\ Following(tx, ctxc, issuance_output, blind_outputs, issuance_outputs)
      /\ issuance_output \in Seq(Outpoints)
  BY DEF SetAssetIssuance, IInv
<1>2. /\ Head(rest) \in [outpoint : Outpoints, assets : Seq(Assets)]
      /\ IsListed(Tail(rest)) /\ o \in Outpoints /\ HasTxIn(ctxc, o)
  BY NextListed DEF SetAssetIssuance
<1>3. /\ Good(u)
      /\ Len(ctxc.txins) <= Len(u.txins)
      /\ Len(ctxc.txouts) <= Len(u.txouts)
      /\ \A k \in 1 .. Len(ctxc.txouts) : u.txouts[k] = ctxc.txouts[k]
      /\ \A k \in 1 .. Len(ctxc.txins) :
           /\ u.txins[k].outpoint = ctxc.txins[k].outpoint
           /\ u.txins[k].blinded = ctxc.txins[k].blinded
           /\ u.txins[k].issuance =>
                ctxc.txins[k].issuance \/ ctxc.txins[k].outpoint = o
  BY <1>1, <1>2, IssuedGood
<1>4. ctxc' = u
  <2>1. ctxc' = [u EXCEPT !.txouts = u.txouts]
    BY DEF SetAssetIssuance, TxOutOrders, is_random_sort
  <2>2. u \in Tx
    BY <1>3 DEF Good
  <2> HIDE DEF u
  <2>3. QED
    BY <2>1, <2>2 DEF Tx
<1>5. /\ issuance_output' = Report(issuance_output, o)
      /\ UNCHANGED <<pc, tx, places, blind_outputs, issuance_outputs, error, calls>>
      /\ rest' = Tail(rest) /\ pc \in {"issue", "reissue"}
  BY DEF SetAssetIssuance
<1>6. /\ issuance_output' \in Seq(Outpoints) /\ Tells(issuance_output', o)
      /\ \A d : Tells(issuance_output, d) => Tells(issuance_output', d)
  BY <1>1, <1>2, <1>5, ReportTells
<1> HIDE DEF u, o
<1>7. /\ Len(tx.txins) <= Len(u.txins) /\ Len(tx.txouts) <= Len(u.txouts)
      /\ \A k \in 1 .. Len(tx.txins) : k \in 1 .. Len(ctxc.txins)
      /\ \A k \in 1 .. Len(tx.txouts) : k \in 1 .. Len(ctxc.txouts)
  <2>1. Len(tx.txins) <= Len(ctxc.txins) /\ Len(tx.txouts) <= Len(ctxc.txouts)
    BY <1>1 DEF Following, IsTold
  <2>2. QED
    BY <1>1, <1>3, <2>1, InputsOf, OutputsOf
<1>8. ASSUME NEW k \in 1 .. Len(tx.txins)
      PROVE  /\ u.txins[k].outpoint = tx.txins[k].outpoint
             /\ u.txins[k].issuance /\ ~tx.txins[k].issuance =>
                  Tells(issuance_output', tx.txins[k].outpoint)
             /\ tx.txins[k].blinded /\ ~u.txins[k].blinded =>
                  Tells(issuance_outputs, tx.txins[k].outpoint)
  <2>1. /\ ctxc.txins[k].outpoint = tx.txins[k].outpoint
        /\ ctxc.txins[k].issuance /\ ~tx.txins[k].issuance =>
             Tells(issuance_output, tx.txins[k].outpoint)
        /\ tx.txins[k].blinded /\ ~ctxc.txins[k].blinded =>
             Tells(issuance_outputs, tx.txins[k].outpoint)
    BY <1>1 DEF Following, IsTold
  <2>2. k \in 1 .. Len(ctxc.txins)
    BY <1>7
  <2>3. QED
    BY <1>3, <1>6, <2>1, <2>2
<1>9. ASSUME NEW k \in 1 .. Len(tx.txouts), tx.txouts[k].key # 0, u.txouts[k].key = 0
      PROVE  Tells(blind_outputs, k)
  BY <1>1, <1>3, <1>7, <1>9 DEF Following, IsTold
<1>10. Following(tx, u, issuance_output', blind_outputs, issuance_outputs)
  BY <1>7, <1>8, <1>9 DEF Following, IsTold
<1>11. Following(tx, ctxc', issuance_output', blind_outputs', issuance_outputs')
  BY <1>4, <1>5, <1>10
<1>12. Good(ctxc')
  BY <1>3, <1>4
<1>13. /\ rest' = <<>> \/ IsListed(rest')
       /\ blind_outputs' \in Seq(Nat) /\ issuance_outputs' \in Seq(Outpoints)
  BY <1>2, <1>5 DEF IInv, IsListed
<1>14. QED
  BY <1>5, <1>6, <1>11, <1>12, <1>13, LoopTurns

LEMMA UnblindTxOutGood ==
  ASSUME IInv, UnblindTxOut
  PROVE  IInv' /\ Told
<1>1. /\ Good(tx) /\ Good(ctxc) /\ pc = "unblind"
      /\ Following(tx, ctxc, issuance_output, blind_outputs, issuance_outputs)
      /\ places \subseteq 1 .. Len(tx.txouts) /\ blind_outputs \in Seq(Nat)
  BY DEF UnblindTxOut, IInv
<1>2. PICK p \in places :
        /\ ctxc' = Opened(ctxc, p)
        /\ blind_outputs' = IF ctxc.txouts[p].key = 0
                            THEN blind_outputs ELSE Report(blind_outputs, p)
        /\ places' = places \ {p}
  BY DEF UnblindTxOut
<1>3. UNCHANGED <<pc, tx, rest, issuance_output, issuance_outputs, error, calls>>
  BY DEF UnblindTxOut
<1>4. /\ Len(tx.txins) <= Len(ctxc.txins) /\ Len(tx.txouts) <= Len(ctxc.txouts)
      /\ \A k \in 1 .. Len(tx.txouts) : k \in 1 .. Len(ctxc.txouts)
      /\ p \in Nat /\ p \in 1 .. Len(ctxc.txouts)
  <2>1. Len(tx.txins) <= Len(ctxc.txins) /\ Len(tx.txouts) <= Len(ctxc.txouts)
    BY <1>1 DEF Following, IsTold
  <2>2. QED
    BY <1>1, <2>1, OutputsOf
<1>5. /\ blind_outputs' \in Seq(Nat)
      /\ ctxc.txouts[p].key # 0 => Tells(blind_outputs', p)
      /\ \A d : Tells(blind_outputs, d) => Tells(blind_outputs', d)
  BY <1>1, <1>2, <1>4, ReportTells
<1> DEFINE u == Opened(ctxc, p)
<1>6. /\ Good(u) /\ u.txins = ctxc.txins /\ Len(u.txouts) = Len(ctxc.txouts)
      /\ \A k \in 1 .. Len(ctxc.txouts) : k # p => u.txouts[k] = ctxc.txouts[k]
  BY <1>1, <1>4, OpenedGood
<1> HIDE DEF u
<1>7. ASSUME NEW k \in 1 .. Len(tx.txouts), tx.txouts[k].key # 0, u.txouts[k].key = 0
      PROVE  Tells(blind_outputs', k)
  <2>1. ctxc.txouts[k].key = 0 => Tells(blind_outputs, k)
    BY <1>1, <1>7 DEF Following, IsTold
  <2>2. CASE k = p
    BY <1>5, <2>1, <2>2
  <2>3. CASE k # p
    BY <1>4, <1>5, <1>6, <1>7, <2>1, <2>3
  <2>4. QED
    BY <2>2, <2>3
<1>8. Following(tx, u, issuance_output, blind_outputs', issuance_outputs)
  BY <1>1, <1>4, <1>6, <1>7 DEF Following, IsTold
<1>9. Following(tx, ctxc', issuance_output', blind_outputs', issuance_outputs')
  BY <1>2, <1>3, <1>8 DEF u
<1>10. Good(ctxc')
  BY <1>2, <1>6 DEF u
<1>11. /\ rest' = <<>> \/ IsListed(rest')
       /\ issuance_output' \in Seq(Outpoints) /\ issuance_outputs' \in Seq(Outpoints)
  BY <1>3 DEF IInv, IsListed
<1>12. QED
  BY <1>1, <1>2, <1>3, <1>5, <1>9, <1>10, <1>11, LoopTurns

LEMMA UnblindIssuanceGood ==
  ASSUME IInv, UnblindIssuance
  PROVE  IInv' /\ Told
<1> DEFINE o == Head(rest).outpoint
           u == IssuanceOpened(ctxc, o)
<1>1. /\ Good(tx) /\ Good(ctxc) /\ pc = "unblind"
      /\ Following(tx, ctxc, issuance_output, blind_outputs, issuance_outputs)
      /\ issuance_outputs \in Seq(Outpoints)
  BY DEF UnblindIssuance, IInv
<1>2. IsListed(Tail(rest)) /\ o \in Outpoints /\ HasTxIn(ctxc, o)
  BY NextListed DEF UnblindIssuance
<1>3. /\ Good(u) /\ u.txouts = ctxc.txouts /\ Len(u.txins) = Len(ctxc.txins)
      /\ \A k \in 1 .. Len(ctxc.txins) :
           /\ u.txins[k].outpoint = ctxc.txins[k].outpoint
           /\ u.txins[k].issuance = ctxc.txins[k].issuance
           /\ ctxc.txins[k].blinded /\ ~u.txins[k].blinded =>
                ctxc.txins[k].outpoint = o
  BY <1>1, <1>2, IssuanceOpenedGood
<1>4. /\ ctxc' = u /\ issuance_outputs' = Report(issuance_outputs, o)
      /\ UNCHANGED <<pc, tx, places, issuance_output, blind_outputs, error, calls>>
      /\ rest' = Tail(rest)
  BY DEF UnblindIssuance
<1>5. /\ issuance_outputs' \in Seq(Outpoints) /\ Tells(issuance_outputs', o)
      /\ \A d : Tells(issuance_outputs, d) => Tells(issuance_outputs', d)
  BY <1>1, <1>2, <1>4, ReportTells
<1> HIDE DEF u, o
<1>6. /\ Len(tx.txins) <= Len(ctxc.txins) /\ Len(tx.txouts) <= Len(ctxc.txouts)
      /\ \A k \in 1 .. Len(tx.txins) : k \in 1 .. Len(ctxc.txins)
  <2>1. Len(tx.txins) <= Len(ctxc.txins) /\ Len(tx.txouts) <= Len(ctxc.txouts)
    BY <1>1 DEF Following, IsTold
  <2>2. QED
    BY <1>1, <2>1, InputsOf
<1>7. ASSUME NEW k \in 1 .. Len(tx.txins)
      PROVE  /\ u.txins[k].outpoint = tx.txins[k].outpoint
             /\ u.txins[k].issuance /\ ~tx.txins[k].issuance =>
                  Tells(issuance_output, tx.txins[k].outpoint)
             /\ tx.txins[k].blinded /\ ~u.txins[k].blinded =>
                  Tells(issuance_outputs', tx.txins[k].outpoint)
  <2>1. /\ ctxc.txins[k].outpoint = tx.txins[k].outpoint
        /\ ctxc.txins[k].issuance /\ ~tx.txins[k].issuance =>
             Tells(issuance_output, tx.txins[k].outpoint)
        /\ tx.txins[k].blinded /\ ~ctxc.txins[k].blinded =>
             Tells(issuance_outputs, tx.txins[k].outpoint)
    BY <1>1 DEF Following, IsTold
  <2>2. k \in 1 .. Len(ctxc.txins)
    BY <1>6
  <2>3. QED
    BY <1>3, <1>5, <2>1, <2>2
<1>8. Following(tx, u, issuance_output, blind_outputs, issuance_outputs')
  BY <1>1, <1>3, <1>6, <1>7 DEF Following, IsTold
<1>9. Following(tx, ctxc', issuance_output', blind_outputs', issuance_outputs')
  BY <1>4, <1>8
<1>10. Good(ctxc')
  BY <1>3, <1>4
<1>11. /\ rest' = <<>> \/ IsListed(rest')
       /\ issuance_output' \in Seq(Outpoints) /\ blind_outputs' \in Seq(Nat)
  BY <1>2, <1>4 DEF IInv, IsListed
<1>12. QED
  BY <1>1, <1>4, <1>5, <1>9, <1>10, <1>11, LoopTurns

-----------------------------------------------------------------------------
(* Every call and every turn of a loop keeps the inductive invariant, and  *)
(* hands over nothing that is not told of.                                 *)
LEMMA StepGood == IInv /\ [Next]_vars => IInv' /\ Told
<1> SUFFICES ASSUME IInv, [Next]_vars PROVE IInv' /\ Told
  OBVIOUS
<1> USE DEF Callable
<1>1. Good(tx) /\ Good(ctxc)
  BY DEF IInv
<1>2. calls < MaxCalls /\ calls' = calls + 1 => calls' \in 0 .. MaxCalls
  <2>1. calls \in 0 .. MaxCalls /\ MaxCalls \in Nat
    BY BoundsAssumption DEF IInv
  <2>2. QED
    BY <2>1
<1>3. calls' = calls => calls' \in 0 .. MaxCalls
  BY DEF IInv
<1>4. ASSUME NEW t, Good(t), Kept(tx, t), Return(t), calls' \in 0 .. MaxCalls,
             UNCHANGED <<loop, vectors>>
      PROVE  IInv' /\ Told
  BY <1>1, <1>4, KeptIsTold, ReturnGood
<1>20. ASSUME NEW t, Good(t), IsEmpty(tx), Return(t), calls' \in 0 .. MaxCalls,
              UNCHANGED <<loop, vectors>>
       PROVE  IInv' /\ Told
  BY <1>20, EmptyIsTold, ReturnGood
<1>21. pc \in {"create", "pegin"} => IsEmpty(tx)
  BY DEF IInv
<1>5. CASE CreateRawTransaction
  <2>1. PICK l \in Locktimes, i \in TxIns, o \in TxOuts, f \in Assets \cup {NoAsset} :
          Return(Created(l, i, o, f))
    BY <1>5 DEF CreateRawTransaction
  <2>2. Good(Created(l, i, o, f))
    BY CreatedGood
  <2>3. QED
    BY <1>2, <1>5, <1>20, <1>21, <2>1, <2>2 DEF CreateRawTransaction
<1>6. CASE CreateRawPegoutTransaction
  <2>1. PICK l \in Locktimes, i \in TxIns, o \in TxOuts,
             f \in Assets \cup {NoAsset}, a \in Assets :
          LET t == AddTxOuts(Created(l, i, o, NoAsset), Pays(<<a>>))
          IN  Return(IF f = NoAsset THEN t ELSE AddTxOutFee(t, f))
    BY <1>6 DEF CreateRawPegoutTransaction
  <2> DEFINE t == AddTxOuts(Created(l, i, o, NoAsset), Pays(<<a>>))
  <2>2. Good(t)
    <3>1. Good(Created(l, i, o, NoAsset))
      BY CreatedGood
    <3>2. <<a>> \in Seq(Assets)
      OBVIOUS
    <3>3. Pays(<<a>>) \in Seq(OutList)
      BY <3>2, PaysList
    <3>4. QED
      BY <3>1, <3>3, AddTxOutsGood
  <2> HIDE DEF t
  <2>3. Good(IF f = NoAsset THEN t ELSE AddTxOutFee(t, f))
    BY <2>2, AddTxOutFeeGood
  <2>4. QED
    BY <1>2, <1>6, <1>20, <1>21, <2>1, <2>3 DEF CreateRawPegoutTransaction, t
<1>7. CASE StartPegins
  <2>1. PICK l \in Locktimes, i \in TxIns, o \in TxOuts, f \in Assets \cup {NoAsset} :
          ctxc' = Created(l, i, o, f)
    BY <1>7 DEF StartPegins
  <2>2. Good(ctxc')
    BY <2>1, CreatedGood DEF Good, GoodIn, GoodOut
  <2>3. IsListed(rest')
    BY <1>7, ListsAssumption DEF StartPegins
  <2>4. Good(tx')
    BY <1>1, <1>7 DEF StartPegins, Good, GoodIn, GoodOut
  <2>5. Told
    BY <1>7, NothingToTell DEF StartPegins
  <2>6. IsEmpty(tx')
    BY <1>7, <1>21 DEF StartPegins
  <2>7. IInv'
    BY <1>2, <1>7, <2>2, <2>3, <2>4, <2>6 DEF StartPegins, IInv, IsListed, vectors
  <2>8. QED
    BY <2>5, <2>7
<1>8. CASE AddPeginWitness
  <2>1. CASE HasTxIn(ctxc, Head(rest).outpoint)
    <3>1. IsListed(rest')
      BY <1>8, <2>1, HeadTailProperties DEF AddPeginWitness, IInv, IsListed
    <3>2. Good(tx') /\ Good(ctxc')
      BY <1>1, <1>8, <2>1 DEF AddPeginWitness, Good, GoodIn, GoodOut
    <3>3. Told
      BY <1>8, <2>1, NothingToTell DEF AddPeginWitness
    <3>4. IsEmpty(tx')
      BY <1>8, <1>21, <2>1 DEF AddPeginWitness
    <3>5. IInv'
      BY <1>8, <2>1, <3>1, <3>2, <3>4 DEF AddPeginWitness, IInv, IsListed, vectors
    <3>6. QED
      BY <3>3, <3>5
  <2>2. CASE ~HasTxIn(ctxc, Head(rest).outpoint)
    BY <1>3, <1>8, <2>2, ThrowGood DEF AddPeginWitness
  <2>3. QED
    BY <2>1, <2>2
<1>9. ASSUME NEW kind \in {"issue", "reissue"}, StartIssuances(kind)
      PROVE  IInv' /\ Told
  <2>1. IsListed(rest')
    BY <1>9, ListsAssumption DEF StartIssuances
  <2>2. places' \subseteq 1 .. Len(tx.txouts)
    BY <1>9 DEF StartIssuances, IInv
  <2>3. QED
    BY <1>2, <1>9, <2>1, <2>2, LoopStarts DEF StartIssuances
<1>10. CASE SetAssetIssuance
  BY <1>10, SetAssetIssuanceGood
<1>11. CASE IssuanceThrows
  BY <1>3, <1>11, ThrowGood DEF IssuanceThrows
<1>12. CASE EndLoop
  <2>1. Return(ctxc) /\ UNCHANGED <<loop, vectors, calls>>
    BY <1>12 DEF EndLoop
  <2>2. IsTold(tx, ctxc, issuance_output, blind_outputs, issuance_outputs)
    BY <1>1, <1>12, <1>21, EmptyIsTold DEF EndLoop, IInv, Following
  <2>3. QED
    BY <1>1, <1>3, <2>1, <2>2, ReturnGood
<1>13. CASE FundRawTransaction
  <2>1. PICK coins \in Coins, changes \in Changes, fee_asset \in Assets \cup {NoAsset} :
          IF fee_asset = NoAsset
          THEN Return(Funded(tx, coins, changes)) /\ UNCHANGED <<loop, vectors>>
          ELSE LET t == WithFee(tx, fee_asset)
                   u == Funded(t, coins, changes)
                   i == fee_index(tx)
               IN  IF FirstFee(t).asset # fee_asset
                   THEN Throw("fee asset")
                   ELSE IF u.txouts[i].fee
                        THEN /\ Return(UpdateTxOutFeeAmount(u, i, fee_asset))
                             /\ UNCHANGED <<loop, vectors>>
                        ELSE Throw("not fee")
    BY <1>13 DEF FundRawTransaction
  <2>2. calls' \in 0 .. MaxCalls
    BY <1>2, <1>13 DEF FundRawTransaction
  <2>3. CASE fee_asset = NoAsset
    BY <1>1, <1>4, <2>1, <2>2, <2>3, FundedGood
  <2>4. CASE fee_asset # NoAsset
    <3> DEFINE u == Funded(WithFee(tx, fee_asset), coins, changes)
    <3>1. /\ Good(u) /\ fee_index(tx) \in 1 .. Len(u.txouts)
          /\ u.txouts[fee_index(tx)].fee /\ Kept(tx, u)
      BY <1>1, <2>4, FeeIndexFound
    <3>2. \/ Throw("fee asset")
          \/ /\ Return(UpdateTxOutFeeAmount(u, fee_index(tx), fee_asset))
             /\ UNCHANGED <<loop, vectors>>
      BY <2>1, <2>4, <3>1
    <3> HIDE DEF u
    <3> DEFINE w == UpdateTxOutFeeAmount(u, fee_index(tx), fee_asset)
    <3>3. Good(w) /\ Kept(tx, w)
      BY <1>1, <2>4, <3>1, FeeUpdated, KeptTransitive
    <3>4. QED
      BY <1>4, <2>2, <3>2, <3>3, ThrowGood
  <2>5. QED
    BY <2>3, <2>4
<1>14. CASE FundThrows
  BY <1>2, <1>14, ThrowGood DEF FundThrows
<1>15. \A k \in Noted \cap (1 .. Len(tx.txouts)) : ~tx.txouts[k].fee
  BY <1>1, OutputsOf DEF Noted, FeePlaces, GoodOut
<1>16. CASE BlindTransaction
  <2>1. PICK list \in Listed, outs \in SUBSET (Noted \cup {Len(tx.txouts) + 1}),
             is_issuance_blinding \in BOOLEAN :
          \/ Throw("blind")
          \/ pc' = "wild" /\ UNCHANGED <<tx, ctxc, loop, vectors, error>>
          \/ /\ Return(Blinded(tx, outs, IssuancesOf(tx, list, is_issuance_blinding)))
             /\ UNCHANGED <<loop, vectors>>
          \/ Throw("core")
    BY <1>16 DEF BlindTransaction
  <2>2. calls' \in 0 .. MaxCalls
    BY <1>2, <1>16 DEF BlindTransaction
  <2>3. \A k \in outs \cap (1 .. Len(tx.txouts)) : ~tx.txouts[k].fee
    BY <1>1, <1>15, OutputsOf
  <2> DEFINE t == Blinded(tx, outs, IssuancesOf(tx, list, is_issuance_blinding))
  <2>4. Good(t) /\ Kept(tx, t)
    BY <1>1, <2>3, BlindedGood
  <2>5. CASE pc' = "wild" /\ UNCHANGED <<tx, ctxc, loop, vectors, error>>
    <3>1. Good(tx') /\ Good(ctxc')
      BY <1>1, <2>5
    <3>2. Told
      BY <2>5, NothingToTell
    <3>3. IInv'
      BY <2>2, <2>5, <3>1 DEF IInv, IsListed, loop, vectors
    <3>4. QED
      BY <3>2, <3>3
  <2> HIDE DEF t
  <2>6. QED
    BY <1>4, <2>1, <2>2, <2>4, <2>5, ThrowGood DEF t
<1>17. CASE StartUnblind
  <2>1. rest' = <<>> \/ IsListed(rest')
    BY <1>17, ListsAssumption DEF StartUnblind
  <2>2. places' \subseteq 1 .. Len(tx.txouts)
    BY <1>1, <1>17, OutputsOf DEF StartUnblind, Noted, GoodOut
  <2>3. QED
    BY <1>2, <1>17, <2>1, <2>2, LoopStarts DEF StartUnblind
<1>22. CASE UnblindTxOut
  BY <1>22, UnblindTxOutGood
<1>23. CASE UnblindIssuance
  BY <1>23, UnblindIssuanceGood
<1>24. CASE UnblindThrows
  BY <1>3, <1>24, ThrowGood DEF UnblindThrows
<1>18. CASE UNCHANGED vars
  <2>1. Told
    BY <1>18, NothingToTell DEF vars
  <2>2. IInv'
    BY <1>18 DEF vars, loop, vectors, IInv, IsListed
  <2>3. QED
    BY <2>1, <2>2
<1>19. QED
  BY <1>5, <1>6, <1>7, <1>8, <1>9, <1>10, <1>11, <1>12, <1>13, <1>14, <1>16,
     <1>17, <1>18, <1>22, <1>23, <1>24 DEF Next, Stopped

LEMMA AlwaysGood == Spec => []IInv
BY InitGood, StepGood, PTL DEF Spec

(* The state of the calls has its types, and an output remembers a place   *)
(* the transaction has.                                                    *)
THEOREM TypeCorrect == Spec => []TypeOK
<1>1. IInv => TypeOK
  <2>1. ASSUME IInv PROVE TypeOK
    <3>1. ASSUME NEW t \in {tx, ctxc}, NEW k \in 1 .. Len(t.txouts)
          PROVE  t.txouts[k].made_at \in 1 .. Len(t.txouts)
      <4>1. Good(t)
        BY <2>1 DEF IInv
      <4>2. k \in Nat /\ GoodOut(k, t.txouts[k])
        BY <4>1, OutputsOf
      <4>3. QED
        BY <4>2 DEF GoodOut
    <3>2. tx \in Tx /\ ctxc \in Tx
      BY <2>1 DEF IInv, Good
    <3>3. QED
      BY <2>1, <3>1, <3>2 DEF IInv, TypeOK
  <2>2. QED
    BY <2>1
<1>2. QED
  BY <1>1, AlwaysGood, PTL

(* A lock time stays in force, whatever sequences the caller gives and     *)
(* whatever inputs funding appends.                                        *)
THEOREM LocktimeCorrect == Spec => []LocktimeInForce
<1>1. IInv => LocktimeInForce
  BY DEF IInv, Good, GoodIn, LocktimeInForce
<1>2. QED
  BY <1>1, AlwaysGood, PTL

(* No output is blinded with the key of another, however many outputs the  *)
(* calls in between append, and no fee output is blinded.                  *)
THEOREM KeysCorrect == Spec => []KeysOnTheirOutputs
<1>1. IInv => KeysOnTheirOutputs
  BY DEF IInv, Good, GoodOut, KeysOnTheirOutputs
<1>2. QED
  BY <1>1, AlwaysGood, PTL

(* "target is not fee txout." is never thrown.                             *)
THEOREM FeeOutputCorrect == Spec => []FeeOutputIsFound
<1>1. IInv => FeeOutputIsFound
  BY DEF IInv, FeeOutputIsFound
<1>2. QED
  BY <1>1, AlwaysGood, PTL

(* Every issuance made or opened and every output opened that a call hands *)
(* over has been told of in the caller's vectors.                          *)
THEOREM ChangesCorrect == Spec => ChangesAreTold
<1>1. IInv /\ [Next]_vars =>
        [IsTold(tx, tx', issuance_output', blind_outputs', issuance_outputs')]_vars
  BY StepGood DEF Told
<1>2. QED
  BY <1>1, AlwaysGood, PTL DEF Spec, ChangesAreTold
=============================================================================
