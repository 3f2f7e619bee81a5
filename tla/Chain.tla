------------------------------- MODULE Chain -------------------------------
(***************************************************************************)
(* The data of package blockchain and the pure functions over it: walking  *)
(* the chain, finding transactions, building and applying the index of     *)
(* unspent outputs, selecting outputs for a payment.                       *)
(*                                                                         *)
(* Abstractions.  A block hash is an atomic name.  A transaction's HashID  *)
(* (SHA-256 of its content, chain order included) is that content: equal   *)
(* contents have equal ids, different contents different ids.  A public    *)
(* key, its hash and the address made of it are one name, the owner.  A    *)
(* signature is one bit: whether Verify will accept it.                    *)
(***************************************************************************)
EXTENDS Integers, SequencesExt

CONSTANTS
  Nil,            \* an empty byte slice: genesis' PrevHash, a coinbase input's ID
  Panicked        \* the outcome of a function that ended in log.Panic

\* The value of every coinbase output.
CoinbaseValue == 20

----------------------------------------------------------------------------
(* Transactions. Output positions count from 0, as in the source.           *)

HashID(tx) == [Inputs |-> tx.Inputs, Outputs |-> tx.Outputs]

IsCoinbase(tx) ==
  /\ Len(tx.Inputs) = 1
  /\ tx.Inputs[1].ID = Nil
  /\ tx.Inputs[1].Out = -1

CoinbaseTX(to, data) ==
  [Inputs  |-> << [ID |-> Nil, Out |-> -1, PubKey |-> data] >>,
   Outputs |-> << [Value |-> CoinbaseValue, PubKeyHash |-> to] >>,
   Verifies |-> TRUE]

\* The outpoints <<transaction id, position>> that the inputs of tx name.
OutPoints(tx) ==
  IF IsCoinbase(tx) THEN {}
  ELSE { <<tx.Inputs[i].ID, tx.Inputs[i].Out>> : i \in DOMAIN tx.Inputs }

\* The elements of s at the indices in S, as a loop over s appends them.
Picked(s, S) ==
  LET picked[i \in 0..Len(s)] ==
        IF i = 0 THEN <<>>
        ELSE IF i \in S THEN Append(picked[i - 1], s[i]) ELSE picked[i - 1]
  IN  picked[Len(s)]

\* outs without the outputs at the positions in drop, order kept; the kept
\* outputs move up, so that their positions change.
WithoutPositions(outs, drop) == Picked(outs, { i \in DOMAIN outs : i - 1 \notin drop })

----------------------------------------------------------------------------
(* The chain: blocks maps a hash to a stored block.                         *)

\* The hashes an iterator started at tip visits: it follows PrevHash and
\* stops at the first hash that is not stored (Nil after genesis included).
Iterate(blocks, tip) ==
  LET visit[n \in 0..Cardinality(DOMAIN blocks)] ==
        IF n = 0 THEN tip
        ELSE IF visit[n - 1] \in DOMAIN blocks
             THEN blocks[visit[n - 1]].PrevHash
             ELSE Nil
      length == Cardinality({ n \in DOMAIN visit : visit[n] \in DOMAIN blocks })
  IN  [i \in 1..length |-> visit[i - 1]]

\* The transactions in the order an iterator meets them: the newest block
\* first, each block's transactions in the block's order.
TransactionsFrom(blocks, tip) ==
  LET walk == Iterate(blocks, tip)
  IN  FlattenSeq([i \in DOMAIN walk |-> blocks[walk[i]].Transactions])

\* FindTransaction succeeds.  What it returns is determined by the id.
FindTransaction(blocks, tip, id) ==
  \E tx \in ToSet(TransactionsFrom(blocks, tip)) : HashID(tx) = id

\* Every output the inputs of tx name is found; SignTransaction and
\* VerifyTransaction panic otherwise.
InputsFound(blocks, tip, tx) ==
  \A i \in DOMAIN tx.Inputs :
    /\ FindTransaction(blocks, tip, tx.Inputs[i].ID)
    /\ tx.Inputs[i].Out < Len(tx.Inputs[i].ID.Outputs)

\* Verify, when the outputs are there: the signatures are all it looks at, not
\* whose the outputs are nor whether they are spent.
Verify(tx) == tx.Verifies

\* Panicked, or the answer.
VerifyTransaction(blocks, tip, tx) ==
  IF IsCoinbase(tx) THEN TRUE
  ELSE IF InputsFound(blocks, tip, tx) THEN Verify(tx) ELSE Panicked

\* GetUnspentOutputs, the answer to /utxoset: every output of every
\* transaction of the chain locked with owner's key.
GetUnspentOutputs(blocks, tip, owner) ==
  LET txs == TransactionsFrom(blocks, tip)
  IN  FlattenSeq([i \in DOMAIN txs |->
        SelectSeq(txs[i].Outputs, LAMBDA out : out.PubKeyHash = owner)])

----------------------------------------------------------------------------
(* The index of unspent outputs: from the id of a transaction to the list   *)
(* of its outputs that are left.                                            *)

\* Mutant: what older transactions spend instead of newer ones.
SpentByOlder(txs, i) == UNION { OutPoints(txs[j]) : j \in (i + 1)..Len(txs) }

\* FindUTXO's spentTXOs when it comes to the i-th transaction: what the newer
\* ones spend.
SpentByNewer(txs, i) == UNION { OutPoints(txs[j]) : j \in 1..(i - 1) }

\* FindUTXO, newest transaction first: outputs that an already visited
\* transaction spends are skipped, the others are appended to the id's list.
FindUTXO(blocks, tip) ==
  LET txs == TransactionsFrom(blocks, tip)
      left == [i \in DOMAIN txs |->
        WithoutPositions(txs[i].Outputs,
          { o[2] : o \in { p \in SpentByNewer(txs, i) : p[1] = HashID(txs[i]) } })]
      ids == { HashID(txs[i]) : i \in { j \in DOMAIN txs : left[j] # <<>> } }
  IN  [id \in ids |-> FlattenSeq([i \in DOMAIN txs |->
        IF HashID(txs[i]) = id THEN left[i] ELSE <<>>])]

\* One input of UTXOSet.Update: the entry of the spent transaction loses the
\* output at position in.Out of what is left of it, an empty entry is deleted.
SpendInput(index, in) ==
  LET outs == WithoutPositions(index[in.ID], {in.Out})
  IN  IF outs = <<>>
      THEN [id \in DOMAIN index \ {in.ID} |-> index[id]]
      ELSE [index EXCEPT ![in.ID] = outs]

\* The index after the inputs in order, as a set of one; none when an entry is
\* missing, which is a panic.
SpendInputs(index, inputs) ==
  LET spent[i \in 0..Len(inputs)] ==
        IF i = 0 THEN {index}
        ELSE { SpendInput(before, inputs[i]) :
                 before \in { x \in spent[i - 1] : inputs[i].ID \in DOMAIN x } }
  IN  spent[Len(inputs)]

AddOutputs(index, tx) ==
  [id \in DOMAIN index \cup {HashID(tx)} |->
     IF id = HashID(tx) THEN tx.Outputs ELSE index[id]]

\* Mutant: the input of a coinbase is looked up too.
ApplyTransactionAllInputs(index, tx) ==
  { AddOutputs(spent, tx) : spent \in SpendInputs(index, tx.Inputs) }

\* One transaction of UTXOSet.Update: its inputs in order, then its outputs.
ApplyTransaction(index, tx) ==
  { AddOutputs(spent, tx) :
      spent \in IF IsCoinbase(tx) THEN {index} ELSE SpendInputs(index, tx.Inputs) }

\* UTXOSet.Update, the index after block, as a set of one; none when an input's
\* entry is missing, and then the database transaction is discarded.
UpdateIndex(index, block) ==
  LET after[i \in 0..Len(block.Transactions)] ==
        IF i = 0 THEN {index}
        ELSE UNION { ApplyTransaction(before, block.Transactions[i]) :
                       before \in after[i - 1] }
  IN  after[Len(block.Transactions)]

\* FindSpendableOutputs: entries in the given order (the order of their keys
\* in the database), outputs in list order; the owner's are taken as long as
\* those taken do not cover amount.
FindSpendableOutputs(index, owner, amount, order) ==
  LET entry(id) == [i \in DOMAIN index[id] |->
        [ID |-> id, Out |-> i - 1, Output |-> index[id][i]]]
      outs == FlattenSeq([k \in DOMAIN order |-> entry(order[k])])
      mine == { n \in DOMAIN outs : outs[n].Output.PubKeyHash = owner }
      total[n \in 0..Len(outs)] ==
        IF n = 0 THEN 0
        ELSE IF n \in mine /\ total[n - 1] < amount
             THEN total[n - 1] + outs[n].Output.Value
             ELSE total[n - 1]
      taken == { n \in mine : total[n - 1] < amount }
  IN  [accumulated |-> total[Len(outs)],
       unspentOuts |-> [id \in { outs[n].ID : n \in taken } |->
         Picked(outs, { n \in taken : outs[n].ID = id })]]

\* NewTransaction after the selection spendable of the sender's outputs, whose
\* map it walks in the order mapOrder.
NewTransaction(from, to, amount, spendable, mapOrder, verifies) ==
  LET chosen  == FlattenSeq([k \in DOMAIN mapOrder |->
                               spendable.unspentOuts[mapOrder[k]]])
      payment == << [Value |-> amount, PubKeyHash |-> to] >>
      change  == IF spendable.accumulated > amount
                 THEN << [Value |-> spendable.accumulated - amount,
                          PubKeyHash |-> from] >>
                 ELSE <<>>
  IN  [Inputs |-> [i \in DOMAIN chosen |->
         [ID |-> chosen[i].ID, Out |-> chosen[i].Out, PubKey |-> from]],
       Outputs |-> payment \o change,
       Verifies |-> verifies]
=============================================================================
