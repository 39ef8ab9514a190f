-------------------------- MODULE MCRawTransaction --------------------------
(***************************************************************************)
(* An instance of RawTransaction for TLC: two coins that a caller lists    *)
(* and one that it does not have, two assets, and transactions with no     *)
(* fee output, one, or two of different assets.                            *)
(***************************************************************************)
EXTENDS RawTransaction

CONSTANTS A, B, o1, o2

In(o, n)     == [outpoint |-> o, sequence |-> n]
Out(a, f)    == [asset |-> a, fee |-> f]
Entry(o, as) == [outpoint |-> o, assets |-> as]

(* With the sequence given, and with the one that stands for the default.  *)
MCTxIns  == {<<>>, <<In(o1, 0)>>, <<In(o1, MaxSequence), In(o2, 1)>>}
MCTxOuts == {<<>>, <<Out(B, FALSE)>>, <<Out(A, TRUE), Out(B, FALSE)>>}

MCListed ==
  {<<>>, <<Entry(o1, <<>>)>>, <<Entry(o1, <<B>>)>>, <<Entry(o1, <<A, B>>)>>,
   <<Entry(o1, <<B>>), Entry(o2, <<A>>)>>}
MCCoins   == {<<>>, <<o2>>}
MCChanges == {<<>>, <<B>>, <<B, A>>}
=============================================================================
