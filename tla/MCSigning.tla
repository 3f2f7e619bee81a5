----------------------------- MODULE MCSigning ------------------------------
(***************************************************************************)
(* An instance of Signing for TLC.                                         *)
(***************************************************************************)
EXTENDS Signing, TLC

\* The types gob meets: a transaction's inputs and outputs, an index entry's
\* outputs, a block's transactions, and two kinds that share nothing.
Encodings ==
  "Transaction" :> <<"Transaction", "TxInput", "TxOutput">>
    @@ "TxOutputs" :> <<"TxOutputs", "TxOutput">>
    @@ "Block" :> <<"Block", "Transaction", "TxInput", "TxOutput">>
    @@ "Wallet" :> <<"Wallet">>
    @@ "Version" :> <<"Version">>
EncodingKinds == DOMAIN Encodings

\* Numbers of one and of two bytes: pairs that are cut where they were joined,
\* the second number longer in one, and one that is not.
Short == <<1>>
Long == <<1, 0>>
MixedPairs == {<<Long, Long>>, <<Short, Long>>, <<Long, Short>>}
=============================================================================
