------------------------------- MODULE Ledger -------------------------------
(***************************************************************************)
(* One node's ledger: its badger store, the Blockchain object in memory    *)
(* and the operations that the HTTP server and the network server run on   *)
(* them.  The store is opened by one operation at a time (module Sessions  *)
(* is about that), so operations do not overlap here; but an operation is  *)
(* several database transactions, and the process can die between them.    *)
(*                                                                         *)
(* The store keeps the hash of the newest block under a key.  The source   *)
(* uses two spellings of that key: LAST_HASH_KEY ("lastHash") and the      *)
(* literal "lh".  Both are constants here, so that one specification       *)
(* covers the source, where they differ, and the program that its authors  *)
(* meant, where they are the same.                                         *)
(***************************************************************************)
EXTENDS Chain

CONSTANTS
  LAST_HASH_KEY,  \* the key LoadBlockchain writes and reads, "lastHash"
  LH_KEY,         \* the key MineBlock and AddBlock read and write, "lh"
  Owners,         \* the accounts
  ORIGIN_ADDRESS, \* the account genesis pays
  Amounts,        \* the amounts /addtxn is asked to send
  GenesisHash,    \* the hash of genesis, the same on every node
  MinedHashes,    \* hashes of the blocks this node may mine (bounds them)
  PeerBlocks      \* hash -> block: the blocks other nodes mined

Hashes == {GenesisHash} \cup MinedHashes \cup DOMAIN PeerBlocks
TipKeys == {LAST_HASH_KEY, LH_KEY}

ASSUME HashAssumption ==
  /\ Nil \notin Hashes
  /\ GenesisHash \notin MinedHashes \cup DOMAIN PeerBlocks
  /\ MinedHashes \cap DOMAIN PeerBlocks = {}

ASSUME OwnerAssumption == ORIGIN_ADDRESS \in Owners /\ Amounts \subseteq Int

GenesisData == "GENESIS"

Genesis ==
  [PrevHash |-> Nil, Height |-> 0,
   Transactions |-> << CoinbaseTX(ORIGIN_ADDRESS, GenesisData) >>]

\* The data of coinbases is neither that of genesis nor anyone's key.
ASSUME DataAssumption == MinedHashes \cap (Owners \cup {GenesisData}) = {}

\* Peers run the same program from the same genesis: a block of theirs is
\* one higher than its parent, which is genesis or a block of a peer.
ASSUME PeerAssumption ==
  \A h \in DOMAIN PeerBlocks :
    LET parent == PeerBlocks[h].PrevHash
    IN  \/ parent = GenesisHash /\ PeerBlocks[h].Height = 1
        \/ /\ parent \in DOMAIN PeerBlocks
           /\ PeerBlocks[parent].Height \in Nat
           /\ PeerBlocks[h].Height = PeerBlocks[parent].Height + 1

\* What peers send is blocks of transactions; and a coinbase carries random
\* data, so that none of theirs is one that this node will make.
ASSUME PeerDataAssumption ==
  \A h \in DOMAIN PeerBlocks :
    LET txs == PeerBlocks[h].Transactions
    IN  /\ txs \in Seq(ToSet(txs))
        /\ \A i \in DOMAIN txs :
             /\ txs[i].Outputs \in Seq(ToSet(txs[i].Outputs))
             /\ \A owner \in Owners, hash \in MinedHashes :
                  HashID(txs[i]) # HashID(CoinbaseTX(owner, hash))

VARIABLES
  blocks,    \* stored: hash -> block
  tips,      \* stored: the hash under each tip key, Nil when absent
  index,     \* stored: the "utxo-" entries, transaction id -> outputs left
  LastHash,  \* Blockchain.LastHash, Nil when the process is down
  step,      \* what the operation in progress does next
  lastTxn    \* <<tx>> from when /addtxn built and signed tx until the next
             \* operation, else <<>>

store == <<blocks, tips, index>>
vars == <<blocks, tips, index, LastHash, step, lastTxn>>

Init ==
  /\ blocks = <<>>
  /\ tips = [k \in TipKeys |-> Nil]
  /\ index = <<>>
  /\ LastHash = Nil
  /\ step = "down"
  /\ lastTxn = <<>>

AddToStore(hash, block) ==
  blocks' = [h \in DOMAIN blocks \cup {hash} |->
               IF h = hash THEN block ELSE blocks[h]]

----------------------------------------------------------------------------
(* Starting, and the two database transactions of UTXOSet.Reindex.          *)

\* Mutant: genesis is stored under both spellings of the key.
FirstTipsBothKeys == [k \in TipKeys |-> GenesisHash]

\* The key LoadBlockchain stores the hash of genesis under.
FirstTips == [tips EXCEPT ![LAST_HASH_KEY] = GenesisHash]

\* Mutant: the index of a store that is not new is taken as it is.
AfterLoadOfNewStore ==
  IF tips[LAST_HASH_KEY] = Nil THEN "delete" ELSE "idle"

\* What LoadBlockchain does after its database transaction: Reindex.
AfterLoad == "delete"

\* LoadBlockchain's database transaction: an empty store gets genesis, a used
\* one gives its newest hash; then the index is rebuilt.
LoadBlockchain ==
  /\ step = "down"
  /\ IF tips[LAST_HASH_KEY] = Nil
     THEN /\ AddToStore(GenesisHash, Genesis)
          /\ tips' = FirstTips
          /\ LastHash' = GenesisHash
     ELSE /\ LastHash' = tips[LAST_HASH_KEY]
          /\ UNCHANGED <<blocks, tips>>
  /\ step' = AfterLoad
  /\ UNCHANGED <<index, lastTxn>>

\* DeleteByPrefix("utxo-").
ReindexDelete ==
  /\ step = "delete"
  /\ index' = <<>>
  /\ step' = "fill"
  /\ UNCHANGED <<blocks, tips, LastHash, lastTxn>>

\* FindUTXO and the database transaction that stores what it found.
ReindexFill ==
  /\ step = "fill"
  /\ index' = FindUTXO(blocks, LastHash)
  /\ step' = "idle"
  /\ UNCHANGED <<blocks, tips, LastHash, lastTxn>>

\* GET /reindex.
Reindex ==
  /\ step = "idle"
  /\ step' = "delete"
  /\ lastTxn' = <<>>
  /\ UNCHANGED <<store, LastHash>>

\* The process dies: a panic in a goroutine of the network server, a signal,
\* a power cut.  What is in memory is lost, committed transactions are not.
Crash ==
  /\ step # "down"
  /\ step' = "down"
  /\ LastHash' = Nil
  /\ lastTxn' = <<>>
  /\ UNCHANGED store

----------------------------------------------------------------------------
(* POST /addtxn with minenow: NewTransaction, MineBlock, UTXOSet.Update.     *)

\* What NewTransaction comes to with the selection spendable: it panics unless
\* the outputs cover the amount, there is an input (IsCoinbase indexes
\* Inputs[0]), and every output to sign for is found.
Payment(from, to, amount, spendable, mapOrder, verifies) ==
  LET tx == NewTransaction(from, to, amount, spendable, mapOrder, verifies)
  IN  IF /\ spendable.accumulated >= amount
         /\ tx.Inputs # <<>>
         /\ InputsFound(blocks, LastHash, tx)
      THEN tx
      ELSE Panicked

\* What it may come to: the entries lie in the database in the order of their
\* hashes, a Go map is walked in any order, and not every signature is one
\* that Verify accepts.
Payments(from, to, amount) ==
  LET entries == { id \in DOMAIN index :
                     \E out \in ToSet(index[id]) : out.PubKeyHash = from }
      selections == { FindSpendableOutputs(index, from, amount, order) :
                        order \in SetToSeqs(entries) }
  IN  UNION { { Payment(from, to, amount, spendable, mapOrder, verifies) :
                  mapOrder \in SetToSeqs(DOMAIN spendable.unspentOuts),
                  verifies \in BOOLEAN } : spendable \in selections }

\* MineBlock gets to its database transaction: the new transaction verifies
\* and the store has a hash under "lh".
CanMine(tx) ==
  /\ VerifyTransaction(blocks, LastHash, tx) = TRUE
  /\ tips[LH_KEY] # Nil

\* The request panics before anything is stored; net/http recovers.
AddTxnRefused(tx) ==
  /\ step = "idle"
  /\ tx = Panicked
  /\ lastTxn' = <<>>
  /\ UNCHANGED <<store, LastHash, step>>

\* MineBlock panics: "Invalid Transaction", or no "lh" in the store.
AddTxnNotMined(tx) ==
  /\ step = "idle"
  /\ tx # Panicked
  /\ ~CanMine(tx)
  /\ lastTxn' = <<tx>>
  /\ UNCHANGED <<store, LastHash, step>>

\* Mutant: only LastHash moves, the store keeps the old tip.
MovedTipsNot(hash) == tips

\* MineBlock and AddBlock move the tip: the key in the store, then LastHash.
MovedTips(hash) == [tips EXCEPT ![LH_KEY] = hash]

\* Mutants: the height of the parent, the height below it.
BlockOfSameHeight(from, tx, hash) ==
  [PrevHash |-> tips[LH_KEY],
   Height |-> blocks[tips[LH_KEY]].Height,
   Transactions |-> << CoinbaseTX(from, hash), tx >>]

BlockOfLessHeight(from, tx, hash) ==
  [BlockOfSameHeight(from, tx, hash) EXCEPT !.Height = @ - 1]

\* The block MineBlock makes of a coinbase to the sender and the payment, on
\* top of the block under "lh".
BlockOf(from, tx, hash) ==
  [PrevHash |-> tips[LH_KEY],
   Height |-> blocks[tips[LH_KEY]].Height + 1,
   Transactions |-> << CoinbaseTX(from, hash), tx >>]

\* MineBlock stores the block and moves "lh" and LastHash to it.
AddTxnMined(from, tx, hash) ==
  /\ step = "idle"
  /\ tx # Panicked
  /\ CanMine(tx)
  /\ hash \in MinedHashes \ DOMAIN blocks
  /\ AddToStore(hash, BlockOf(from, tx, hash))
  /\ tips' = MovedTips(hash)
  /\ LastHash' = hash
  /\ lastTxn' = <<tx>>
  /\ step' = "update"
  /\ UNCHANGED index

\* UTXOSet.Update with the block just mined.
AddTxnUpdate ==
  /\ step = "update"
  /\ LET updated == UpdateIndex(index, blocks[LastHash])
     IN  index' \in IF updated = {} THEN {index} ELSE updated
  /\ step' = "idle"
  /\ UNCHANGED <<blocks, tips, LastHash, lastTxn>>

----------------------------------------------------------------------------
(* HandleBlock: AddBlock, then a Reindex unless more blocks are in transit   *)
(* (blocksInTransit is the network server's; here it is either).            *)

\* Mutants: any new block becomes the tip, one of the same height does.
BecomesTipAlways(block) == TRUE

BecomesTipOnTie(block) == block.Height >= blocks[tips[LH_KEY]].Height

\* AddBlock takes the new block for its tip.
BecomesTip(block) == block.Height > blocks[tips[LH_KEY]].Height

HandleBlock(hash, moreInTransit) ==
  /\ step = "idle"
  /\ hash \in DOMAIN blocks \/ tips[LH_KEY] # Nil
  /\ IF hash \in DOMAIN blocks
     THEN UNCHANGED <<blocks, tips, LastHash>>
     ELSE /\ AddToStore(hash, PeerBlocks[hash])
          /\ IF BecomesTip(PeerBlocks[hash])
             THEN /\ tips' = MovedTips(hash)
                  /\ LastHash' = hash
             ELSE UNCHANGED <<tips, LastHash>>
  /\ step' = IF moreInTransit THEN "idle" ELSE "delete"
  /\ lastTxn' = <<>>
  /\ UNCHANGED index

\* AddBlock panics where it reads "lh": the database transaction is discarded
\* and, in a goroutine nobody recovers, the process dies.
HandleBlockPanics(hash) ==
  /\ step = "idle"
  /\ hash \notin DOMAIN blocks
  /\ tips[LH_KEY] = Nil
  /\ step' = "down"
  /\ LastHash' = Nil
  /\ lastTxn' = <<>>
  /\ UNCHANGED store

----------------------------------------------------------------------------
AddTxn ==
  \E from, to \in Owners, amount \in Amounts :
    \E tx \in Payments(from, to, amount) :
      \/ AddTxnRefused(tx)
      \/ AddTxnNotMined(tx)
      \/ \E hash \in MinedHashes : AddTxnMined(from, tx, hash)

ReceiveBlock ==
  \E hash \in DOMAIN PeerBlocks :
    \/ \E moreInTransit \in BOOLEAN : HandleBlock(hash, moreInTransit)
    \/ HandleBlockPanics(hash)

Next ==
  \/ LoadBlockchain
  \/ ReindexDelete
  \/ ReindexFill
  \/ Reindex
  \/ Crash
  \/ AddTxn
  \/ AddTxnUpdate
  \/ ReceiveBlock

Spec == Init /\ [][Next]_vars

----------------------------------------------------------------------------
(* Properties of the program as written: the two keys differ.               *)

Steps == {"down", "delete", "fill", "idle", "update"}

\* The shape of the stored blocks, the tips and the memory.  (What the index
\* holds is the business of IdleIndexIsExact and ReindexIsExact.)
TypeOK ==
  /\ DOMAIN blocks \subseteq Hashes
  /\ \A h \in DOMAIN blocks : /\ blocks[h].Height \in Nat
                              /\ blocks[h].PrevHash \in Hashes \cup {Nil}
  /\ tips \in [TipKeys -> Hashes \cup {Nil}]
  /\ LastHash \in Hashes \cup {Nil}
  /\ step \in Steps
  /\ DOMAIN lastTxn \subseteq {1}

\* With two spellings of the tip key the chain never grows: MineBlock and
\* AddBlock look under "lh", which only they would write.
GenesisOnly == DOMAIN blocks \subseteq {GenesisHash}

\* Whenever no operation is in progress the index is the one FindUTXO would
\* build, whatever crashes there were between the transactions of a Reindex.
IdleIndexIsExact == step = "idle" => index = FindUTXO(blocks, LastHash)

\* README, "POST /addtxn: Adds a new transaction to the blockchain": a request
\* whose payment was built and signed ends with it on the chain.
AddTxnAddsTheTransaction ==
  step = "idle" =>
    \A tx \in ToSet(lastTxn) : FindTransaction(blocks, LastHash, HashID(tx))

----------------------------------------------------------------------------
(* Properties of the program with one key.                                  *)

TipHeight == blocks[tips[LH_KEY]].Height

\* The tip in the store is the hash of a stored block, and a process that is
\* up has it in LastHash: AddBlock and MineBlock move the block, the key and
\* the field together, across crashes at any point.
TipIsStored ==
  /\ \A k \in TipKeys : tips[k] # Nil => tips[k] \in DOMAIN blocks
  /\ blocks # <<>> => tips[LH_KEY] # Nil
  /\ step # "down" => LastHash = tips[LH_KEY] /\ LastHash # Nil

\* No stored block, on whatever branch and in whatever order it arrived, is
\* higher than the tip.
TipIsHighest ==
  tips[LH_KEY] # Nil => \A h \in DOMAIN blocks : blocks[h].Height <= TipHeight

\* Heights count links, in whatever order blocks of peers and blocks mined here
\* were stored, so that comparing heights compares chains: a block is one above
\* its parent wherever the parent is stored, and a mined block's always is.
HeightsCountLinks ==
  \A h \in DOMAIN blocks :
    LET parent == blocks[h].PrevHash
    IN  /\ parent \in DOMAIN blocks => blocks[h].Height = blocks[parent].Height + 1
        /\ h \in MinedHashes => parent \in DOMAIN blocks

\* Once there is a tip it is only ever replaced by a strictly higher one; a
\* crash and a restart keep it.
TipNeverSinks ==
  [][tips[LH_KEY] # Nil =>
       \/ tips'[LH_KEY] = tips[LH_KEY]
       \/ TipHeight' > TipHeight]_vars

\* An unspent output by definition: one that no input on the chain names.
UnspentByDefinition(tip) ==
  LET txs   == ToSet(TransactionsFrom(blocks, tip))
      spent == UNION { OutPoints(tx) : tx \in txs }
      left(id) == WithoutPositions(id.Outputs,
                    { o[2] : o \in { p \in spent : p[1] = id } })
  IN  [id \in { i \in { HashID(tx) : tx \in txs } : left(i) # <<>> } |-> left(id)]

\* The transactions of a branch, newest first, have ids of their own, and what
\* spends an output is newer than what made it.
IdsAreNew(txs) ==
  \A i, j \in DOMAIN txs :
    /\ HashID(txs[i]) = HashID(txs[j]) => i = j
    /\ i <= j => \A o \in OutPoints(txs[j]) : o[1] # HashID(txs[i])

\* FindUTXO's single backward pass finds exactly the outputs that are unspent
\* by definition, on the branch of the tip and on no other.  (A payment that is
\* made again, to the letter, has the id of the first: its outputs count twice.)
ReindexIsExact ==
  [][/\ step = "fill" /\ step' = "idle"
     /\ IdsAreNew(TransactionsFrom(blocks, LastHash))
     => index' = UnspentByDefinition(LastHash)]_vars

\* UTXOSet.Update finds an entry for every input of the block just mined.
UpdateFindsItsInputs ==
  step = "update" => UpdateIndex(index, blocks[LastHash]) # {}

\* utxo.go, "each input contains a reference to the output it came from": the
\* outputs the inputs of a payment name are the sender's and add up to what
\* the payment spends.
InputsNameTheirOutputs ==
  \A tx \in ToSet(lastTxn) :
    LET named(i) == tx.Inputs[i].ID.Outputs[tx.Inputs[i].Out + 1]
    IN  /\ \A i \in DOMAIN tx.Inputs :
             named(i).PubKeyHash = tx.Inputs[i].PubKey
        /\ SumFunction([i \in DOMAIN tx.Inputs |-> named(i).Value])
             = SumFunction([i \in DOMAIN tx.Outputs |-> tx.Outputs[i].Value])

\* README, "GET /utxoset: Retrieves the unspent transaction outputs for a
\* given address": what it answers is as much as is unspent by definition.
UtxosetAnswersUnspent ==
  step = "idle" =>
    \A owner \in Owners :
      LET unspent == UnspentByDefinition(LastHash)
          mine(id) == SelectSeq(unspent[id], LAMBDA o : o.PubKeyHash = owner)
      IN  Len(GetUnspentOutputs(blocks, LastHash, owner))
            = SumFunction([id \in DOMAIN unspent |-> Len(mine(id))])
=============================================================================
