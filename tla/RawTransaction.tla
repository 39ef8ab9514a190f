--------------------------- MODULE RawTransaction ---------------------------
(***************************************************************************)
(* An Elements transaction as a caller of ElementsTransactionApi builds    *)
(* it (src/cfdapi_elements_transaction.cpp), call after call: created,     *)
(* with pegin or pegout if need be, with assets issued and reissued,       *)
(* funded, blinded, unblinded.  The caller keeps the transaction that the  *)
(* last successful call returned, the vectors it passes for output, and    *)
(* the places of the outputs it means to blind, as they were when made.    *)
(*                                                                         *)
(* A call works on ctxc, a ConfidentialTransactionController of its own    *)
(* (src/cfd_elements_transaction.cpp), which is returned or, if the call   *)
(* throws, lost; what it has pushed into the caller's vectors by then is   *)
(* not.  cfdcore may throw wherever it is asked to change an issuance or a *)
(* commitment.  Which coins Fund selects is the matter of FundElements:    *)
(* here it appends any inputs and change outputs.                          *)
(***************************************************************************)
EXTENDS Integers, Sequences, TLC

CONSTANTS
  Outpoints,    \* txid and vout
  Assets,
  NoAsset,
  Locktimes,    \* lock times: numbers
  MaxSequence,  \* 0xffffffff
  TxIns,        \* lists of inputs: sequences of [outpoint, sequence]
  TxOuts,       \* lists of outputs: sequences of [asset, fee]
  Listed,       \* lists of issuances, reissuances and pegins: see IsListed
  Coins,        \* what Fund appends: sequences of outpoints
  Changes,      \* and the assets of its change outputs: sequences
  MaxTxOuts,    \* bound of the outputs of a transaction
  MaxCalls      \* bound of the calls made

(* An element of a list: the input meant, and the assets of the outputs    *)
(* that issuing appends, the token's included.                             *)
IsListed(l) == l \in Seq([outpoint : Outpoints, assets : Seq(Assets)])

ASSUME NoAssetAssumption == NoAsset \notin Assets
ASSUME BoundsAssumption ==
  Locktimes \subseteq Nat /\ MaxSequence \in Nat \ {0}
    /\ MaxTxOuts \in Nat /\ MaxCalls \in Nat
ASSUME ListsAssumption ==
  /\ \A l \in TxIns :
       l \in Seq([outpoint : Outpoints, sequence : 0 .. MaxSequence])
  /\ \A l \in TxOuts : l \in Seq([asset : Assets, fee : BOOLEAN])
  /\ \A l \in Listed : IsListed(l)
  /\ \A l \in Coins : l \in Seq(Outpoints)
  /\ \A l \in Changes : l \in Seq(Assets)

VARIABLES
  pc,               \* "create", "call", or the loop a call is in: "pegin",
                    \* "issue", "reissue", "unblind"; "wild" after a write out
                    \* of range
  tx,               \* the transaction the caller has
  ctxc,             \* the transaction the call works on
  rest,             \* what is left of the list the loop goes through
  places,           \* the outputs that a call has yet to unblind
  issuance_output,  \* the caller's vectors: the inputs issued,
  blind_outputs,    \* the outputs unblinded,
  issuance_outputs, \* and the inputs whose issuance was unblinded
  error,            \* how the last call ended: "" if it returned
  calls             \* the number of calls made

loop    == <<rest, places>>
vectors == <<issuance_output, blind_outputs, issuance_outputs>>
vars    == <<pc, tx, ctxc, loop, vectors, error, calls>>

-----------------------------------------------------------------------------
(* An output remembers the place it was made at; key is the place of the   *)
(* output whose blinding key it is blinded with, or 0.  An input's         *)
(* issuance may be blinded, too.                                           *)
TxIn  == [outpoint : Outpoints, sequence : 0 .. MaxSequence,
          issuance : BOOLEAN, blinded : BOOLEAN]
TxOut == [made_at : Nat, asset : Assets, fee : BOOLEAN, key : Nat]

Tx    == [locktime : Locktimes \cup {0}, txins : Seq(TxIn), txouts : Seq(TxOut)]

NoTx(locktime) == [locktime |-> locktime, txins |-> <<>>, txouts |-> <<>>]

kSequenceDisableLockTime   == MaxSequence
kSequenceEnableLockTimeMax_Past == MaxSequence + 1
kSequenceEnableLockTimeMax == MaxSequence - 1
GetDefaultSequence_Final(t) == kSequenceDisableLockTime
GetDefaultSequence(t) ==
  IF t.locktime = 0 THEN kSequenceDisableLockTime ELSE kSequenceEnableLockTimeMax

(* The sequence that disables lock times stands for the default.           *)
SequenceFor(t, sequence) ==
  IF sequence = kSequenceDisableLockTime THEN GetDefaultSequence(t) ELSE sequence

AddTxIns(t, list) ==
  [t EXCEPT !.txins = @ \o
     [k \in 1 .. Len(list) |-> [outpoint |-> list[k].outpoint,
                                sequence |-> list[k].sequence,
                                issuance |-> FALSE,
                                blinded  |-> FALSE]]]

AddTxOuts(t, list) ==
  [t EXCEPT !.txouts = @ \o
     [k \in 1 .. Len(list) |-> [made_at |-> Len(t.txouts) + k,
                                asset   |-> list[k].asset,
                                fee     |-> list[k].fee,
                                key     |-> 0]]]

Pays(assets) == [k \in 1 .. Len(assets) |-> [asset |-> assets[k], fee |-> FALSE]]
AddTxOutFee(t, asset) == AddTxOuts(t, <<[asset |-> asset, fee |-> TRUE]>>)

HasTxIn(t, o) == \E k \in 1 .. Len(t.txins) : t.txins[k].outpoint = o

(* GetTxInIndex: the first input that spends the outpoint.                 *)
GetTxInIndex(t, o) ==
  CHOOSE k \in 1 .. Len(t.txins) :
    /\ t.txins[k].outpoint = o
    /\ \A j \in 1 .. k - 1 : t.txins[j].outpoint # o

-----------------------------------------------------------------------------
Init ==
  /\ pc = "create"
  /\ tx = NoTx(0) /\ ctxc = NoTx(0)
  /\ rest = <<>> /\ places = {}
  /\ issuance_output = <<>> /\ blind_outputs = <<>> /\ issuance_outputs = <<>>
  /\ error = ""
  /\ calls = 0

Callable == pc = "call" /\ calls < MaxCalls

Return(t) ==
  /\ tx' = t /\ ctxc' = t
  /\ error' = ""
  /\ pc' = "call"

(* Of every throw, the controller's and cfdcore's included.                *)
Throw(what) ==
  /\ ctxc' = tx
  /\ rest' = <<>> /\ places' = {}
  /\ error' = what
  /\ pc' = IF pc = "pegin" THEN "create" ELSE "call"
  /\ UNCHANGED <<tx, vectors>>

Report_Only(vector, done) == <<done>>
Report(vector, done)      == Append(vector, done)

(* CreateRawTransaction; a fee of amount 0 is none.                        *)
Created(locktime, txins, txouts, fee) ==
  LET t0 == NoTx(locktime)
      t1 == AddTxIns(t0, [k \in 1 .. Len(txins) |->
                            [txins[k] EXCEPT !.sequence = SequenceFor(t0, @)]])
      t2 == AddTxOuts(t1, txouts)
  IN  IF fee = NoAsset THEN t2 ELSE AddTxOutFee(t2, fee)

CreateRawTransaction ==
  /\ pc = "create" /\ calls < MaxCalls
  /\ \E l \in Locktimes, i \in TxIns, o \in TxOuts, f \in Assets \cup {NoAsset} :
       /\ Len(o) < MaxTxOuts
       /\ Return(Created(l, i, o, f))
  /\ calls' = calls + 1
  /\ UNCHANGED <<loop, vectors>>

(* The pegout's output comes after the others and before the fee.          *)
CreateRawPegoutTransaction ==
  /\ pc = "create" /\ calls < MaxCalls
  /\ \E l \in Locktimes, i \in TxIns, o \in TxOuts,
        f \in Assets \cup {NoAsset}, a \in Assets :
       /\ Len(o) + 1 < MaxTxOuts
       /\ LET t == AddTxOuts(Created(l, i, o, NoAsset), Pays(<<a>>))
          IN  Return(IF f = NoAsset THEN t ELSE AddTxOutFee(t, f))
  /\ calls' = calls + 1
  /\ UNCHANGED <<loop, vectors>>

(* CreateRawPeginTransaction: a witness for every pegin listed, which must *)
(* be of an input.                                                         *)
StartPegins ==
  /\ pc = "create" /\ calls < MaxCalls
  /\ \E l \in Locktimes, i \in TxIns, o \in TxOuts, f \in Assets \cup {NoAsset} :
       /\ Len(o) < MaxTxOuts
       /\ ctxc' = Created(l, i, o, f)
  /\ rest' \in Listed
  /\ pc' = "pegin"
  /\ calls' = calls + 1
  /\ UNCHANGED <<tx, places, vectors, error>>

AddPeginWitness ==
  /\ pc = "pegin" /\ rest # <<>>
  /\ IF HasTxIn(ctxc, Head(rest).outpoint)
     THEN rest' = Tail(rest) /\ UNCHANGED <<pc, tx, ctxc, places, vectors, error>>
     ELSE Throw("txin")
  /\ UNCHANGED calls

-----------------------------------------------------------------------------
(* SetRawIssueAsset and SetRawReissueAsset, each one turn of its loop; the *)
(* controller is asked not to sort the outputs.                            *)
StartIssuances(kind) ==
  /\ Callable
  /\ rest' \in Listed
  /\ ctxc' = tx
  /\ pc' = kind
  /\ calls' = calls + 1
  /\ UNCHANGED <<tx, places, vectors, error>>

is_random_sort_On == TRUE
is_random_sort    == FALSE

TxOutOrders(outs) ==
  IF is_random_sort
  THEN {[k \in 1 .. Len(outs) |-> outs[p[k]]] : p \in Permutations(1 .. Len(outs))}
  ELSE {outs}

(* The outputs of an issuance, and its input marked.                       *)
Issued(t, i) ==
  LET index == GetTxInIndex(t, i.outpoint)
      u     == [t EXCEPT !.txins[index].issuance = TRUE]
  IN  AddTxOuts(u, Pays(i.assets))

SetAssetIssuance ==
  /\ pc \in {"issue", "reissue"} /\ rest # <<>>
  /\ HasTxIn(ctxc, Head(rest).outpoint)
  /\ Len(ctxc.txouts) + Len(Head(rest).assets) <= MaxTxOuts
  /\ \E outs \in TxOutOrders(Issued(ctxc, Head(rest)).txouts) :
       ctxc' = [Issued(ctxc, Head(rest)) EXCEPT !.txouts = outs]
  /\ issuance_output' = Report(issuance_output, Head(rest).outpoint)
  /\ rest' = Tail(rest)
  /\ UNCHANGED <<pc, tx, places, blind_outputs, issuance_outputs, error, calls>>

IssuanceThrows ==
  /\ pc \in {"issue", "reissue"} /\ rest # <<>>
  /\ Throw(IF HasTxIn(ctxc, Head(rest).outpoint) THEN "core" ELSE "txin")
  /\ UNCHANGED calls

EndLoop ==
  /\ pc \in {"pegin", "issue", "reissue", "unblind"}
  /\ rest = <<>> /\ places = {}
  /\ Return(ctxc)
  /\ UNCHANGED <<loop, vectors, calls>>

-----------------------------------------------------------------------------
(* FundRawTransaction.  The fee goes to the last output without script, or *)
(* to one that is appended; EstimateFee compares the asset of the first.   *)
FeePlaces(t) == {k \in 1 .. Len(t.txouts) : t.txouts[k].fee}
HasFee(t)    == FeePlaces(t) # {}

fee_index_First(t) == IF HasFee(t) THEN 1 ELSE Len(t.txouts) + 1
fee_index(t) ==
  IF HasFee(t)
  THEN CHOOSE k \in FeePlaces(t) : \A j \in FeePlaces(t) : j <= k
  ELSE Len(t.txouts) + 1

WithFee(t, asset) == IF HasFee(t) THEN t ELSE AddTxOutFee(t, asset)

FirstFee(t) ==
  t.txouts[CHOOSE k \in FeePlaces(t) : \A j \in FeePlaces(t) : k <= j]

UpdateTxOutFeeAmount(t, index, asset) ==
  [t EXCEPT !.txouts[index].asset = asset, !.txouts[index].key = 0]

SelectedTxIns(t, coins) ==
  [k \in 1 .. Len(coins) |->
    [outpoint |-> coins[k], sequence |-> GetDefaultSequence(t)]]

(* changes: the change of the other assets, then that of the fee asset.    *)
Funded(t, coins, changes) ==
  AddTxIns(AddTxOuts(t, Pays(changes)), SelectedTxIns(t, coins))

FundRawTransaction ==
  /\ Callable
  /\ \E coins \in Coins, changes \in Changes, fee_asset \in Assets \cup {NoAsset} :
       /\ Len(tx.txouts) + Len(changes) < MaxTxOuts
       /\ \A k \in 1 .. Len(changes) - 1 : changes[k] # fee_asset
       /\ IF fee_asset = NoAsset
          THEN Return(Funded(tx, coins, changes)) /\ UNCHANGED <<loop, vectors>>
          ELSE LET t == WithFee(tx, fee_asset)
                   u == Funded(t, coins, changes)
                   i == fee_index(tx)
               IN  IF FirstFee(t).asset # fee_asset
                   THEN Throw("fee asset")
                   ELSE IF u.txouts[i].fee
                        THEN /\ Return(UpdateTxOutFeeAmount(u, i, fee_asset))
                             /\ UNCHANGED <<loop, vectors>>
                        ELSE Throw("not fee")
  /\ calls' = calls + 1

(* No coins, too few, an address missing, change that is dust.             *)
FundThrows == Callable /\ Throw("fund") /\ calls' = calls + 1

-----------------------------------------------------------------------------
(* BlindTransaction.  The caller gives, for outputs that pay, the place it *)
(* has noted and the key of that output.                                   *)
Noted == {tx.txouts[k].made_at : k \in 1 .. Len(tx.txouts) \ FeePlaces(tx)}

Known(list) == \A k \in 1 .. Len(list) : HasTxIn(tx, list[k].outpoint)

(* issuance_blinding_keys has elements only if is_issuance_blinding, and   *)
(* is written for every input listed with an issuance up to one unknown.   *)
WritesOutOfRange(list, is_issuance_blinding) ==
  /\ ~is_issuance_blinding
  /\ \E k \in 1 .. Len(list) :
       /\ list[k].assets # <<>>
       /\ \A j \in 1 .. k : HasTxIn(tx, list[j].outpoint)

(* The inputs whose issuance is blinded.                                   *)
IssuancesOf(t, list, is_issuance_blinding) ==
  {k \in 1 .. Len(t.txins) :
     /\ is_issuance_blinding /\ t.txins[k].issuance
     /\ \E j \in 1 .. Len(list) :
          list[j].assets # <<>> /\ GetTxInIndex(t, list[j].outpoint) = k}

Blinded(t, outs, ins) ==
  [t EXCEPT
    !.txouts = [k \in 1 .. Len(t.txouts) |->
                 [t.txouts[k] EXCEPT !.key = IF k \in outs THEN k ELSE @]],
    !.txins  = [k \in 1 .. Len(t.txins) |->
                 [t.txins[k] EXCEPT !.blinded = @ \/ k \in ins]]]

BlindRefused(list, outs, is_issuance_blinding) ==
  /\ ~WritesOutOfRange(list, is_issuance_blinding)
  /\ \/ list = <<>> \/ outs = {}
     \/ ~Known(list)
     \/ \E k \in outs : k > Len(tx.txouts)

BlindTransaction ==
  /\ Callable
  /\ \E list \in Listed, outs \in SUBSET (Noted \cup {Len(tx.txouts) + 1}),
        is_issuance_blinding \in BOOLEAN :
       \/ BlindRefused(list, outs, is_issuance_blinding) /\ Throw("blind")
       \/ /\ list # <<>> /\ outs # {}
          /\ WritesOutOfRange(list, is_issuance_blinding)
          /\ pc' = "wild"
          /\ UNCHANGED <<tx, ctxc, loop, vectors, error>>
       \/ /\ ~BlindRefused(list, outs, is_issuance_blinding)
          /\ ~WritesOutOfRange(list, is_issuance_blinding)
          /\ \/ /\ Return(Blinded(tx, outs, IssuancesOf(tx, list, is_issuance_blinding)))
                /\ UNCHANGED <<loop, vectors>>
             \/ Throw("core")
  /\ calls' = calls + 1

(* UnblindTransaction, of outputs in any order and then of issuances; for  *)
(* neither if the list is empty or there is no vector to report them in.   *)
(* An output is opened with the private key of the output noted.           *)
StartUnblind ==
  /\ Callable
  /\ places' \in SUBSET Noted
  /\ rest' \in Listed \cup {<<>>}
  /\ ctxc' = tx
  /\ pc' = "unblind"
  /\ calls' = calls + 1
  /\ UNCHANGED <<tx, vectors, error>>

OpenedBy(out, place) == out.key \in {0, place}

Opened(t, place) == [t EXCEPT !.txouts[place].key = 0]

(* One that is not blinded is left alone, and not reported.                *)
UnblindTxOut ==
  /\ pc = "unblind"
  /\ \E k \in places :
       /\ OpenedBy(ctxc.txouts[k], k)
       /\ ctxc' = Opened(ctxc, k)
       /\ blind_outputs' = IF ctxc.txouts[k].key = 0
                           THEN blind_outputs ELSE Report(blind_outputs, k)
       /\ places' = places \ {k}
  /\ UNCHANGED <<pc, tx, rest, issuance_output, issuance_outputs, error, calls>>

IssuanceOpened(t, o) == [t EXCEPT !.txins[GetTxInIndex(t, o)].blinded = FALSE]

UnblindIssuance ==
  /\ pc = "unblind" /\ places = {} /\ rest # <<>>
  /\ HasTxIn(ctxc, Head(rest).outpoint)
  /\ ctxc' = IssuanceOpened(ctxc, Head(rest).outpoint)
  /\ issuance_outputs' = Report(issuance_outputs, Head(rest).outpoint)
  /\ rest' = Tail(rest)
  /\ UNCHANGED <<pc, tx, places, issuance_output, blind_outputs, error, calls>>

UnblindThrows ==
  /\ pc = "unblind"
  /\ \/ places # {} /\ Throw("core")
     \/ /\ places = {} /\ rest # <<>>
        /\ Throw(IF HasTxIn(ctxc, Head(rest).outpoint) THEN "core" ELSE "txin")
  /\ UNCHANGED calls

-----------------------------------------------------------------------------
(* The caller stops, or the program is lost.                               *)
Stopped ==
  /\ \/ pc = "wild"
     \/ pc \in {"create", "call"} /\ calls = MaxCalls
  /\ UNCHANGED vars

Next ==
  \/ CreateRawTransaction
  \/ CreateRawPegoutTransaction
  \/ StartPegins
  \/ AddPeginWitness
  \/ StartIssuances("issue")
  \/ StartIssuances("reissue")
  \/ SetAssetIssuance
  \/ IssuanceThrows
  \/ EndLoop
  \/ FundRawTransaction
  \/ FundThrows
  \/ BlindTransaction
  \/ StartUnblind
  \/ UnblindTxOut
  \/ UnblindIssuance
  \/ UnblindThrows
  \/ Stopped

Spec == Init /\ [][Next]_vars

-----------------------------------------------------------------------------
TypeOK ==
  /\ pc \in {"create", "call", "pegin", "issue", "reissue", "unblind", "wild"}
  /\ tx \in Tx /\ ctxc \in Tx
  /\ \A t \in {tx, ctxc} : \A k \in 1 .. Len(t.txouts) :
       t.txouts[k].made_at \in 1 .. Len(t.txouts)
  /\ rest = <<>> \/ IsListed(rest)
  /\ places \subseteq 1 .. Len(tx.txouts)
  /\ issuance_output \in Seq(Outpoints) /\ issuance_outputs \in Seq(Outpoints)
  /\ blind_outputs \in Seq(Nat)
  /\ error \in {"", "txin", "core", "fund", "fee asset", "not fee", "blind"}
  /\ calls \in 0 .. MaxCalls

(* A transaction with a lock time keeps it in force through every call: no *)
(* input has the sequence that disables it, not one asked for explicitly,  *)
(* nor one that funding appends later.                                     *)
LocktimeInForce ==
  \A t \in {tx, ctxc} : t.locktime # 0 =>
    \A k \in 1 .. Len(t.txins) : t.txins[k].sequence # kSequenceDisableLockTime

(* An output is blinded with its own key or not at all, whatever calls     *)
(* have appended outputs between making it and blinding it, and a fee      *)
(* output is never blinded.                                                *)
KeysOnTheirOutputs ==
  \A k \in 1 .. Len(tx.txouts) :
    /\ tx.txouts[k].key \in {0, tx.txouts[k].made_at}
    /\ tx.txouts[k].fee => tx.txouts[k].key = 0

(* Funding finds its fee output, though it notes the place before outputs  *)
(* are appended.                                                           *)
FeeOutputIsFound == error # "not fee"

Tells(vector, done) == \E k \in 1 .. Len(vector) : vector[k] = done

(* From t to u no input or output is taken away, and every issuance made   *)
(* or opened and every output opened is told of in a vector.               *)
IsTold(t, u, issued, opened, issuances_opened) ==
  /\ Len(t.txins) <= Len(u.txins) /\ Len(t.txouts) <= Len(u.txouts)
  /\ \A k \in 1 .. Len(t.txouts) :
       t.txouts[k].key # 0 /\ u.txouts[k].key = 0 => Tells(opened, k)
  /\ \A k \in 1 .. Len(t.txins) :
       LET o == t.txins[k].outpoint IN
       /\ u.txins[k].issuance /\ ~t.txins[k].issuance => Tells(issued, o)
       /\ t.txins[k].blinded /\ ~u.txins[k].blinded   => Tells(issuances_opened, o)

(* What is issued or unblinded turn by turn is handed over at the end of   *)
(* the call, or never if a later turn throws, but told of at its turn: the *)
(* vectors may tell of more than the caller's transaction has, and never   *)
(* of less, so that nothing is open that the caller has no values of.      *)
ChangesAreTold ==
  [][IsTold(tx, tx', issuance_output', blind_outputs', issuance_outputs')]_vars

(* EstimateFee refuses a fee output whose asset is not the fee asset given *)
(* ("Unmatch fee asset."), for funding writes the fee into it: funding     *)
(* does not turn a fee of one asset into a fee of another.                 *)
FeeAssetsAreKept ==
  [][\A k \in 1 .. Len(tx.txouts) :
       tx.txouts[k].fee /\ Len(tx'.txouts) >= Len(tx.txouts) =>
         tx'.txouts[k].asset = tx.txouts[k].asset]_vars
=============================================================================
