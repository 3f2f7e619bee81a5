---------------------------- MODULE LedgerProofs ----------------------------
(***************************************************************************)
(* Theorems about Ledger, for every set of accounts, amounts and blocks.   *)
(* Part 1 holds for any two tip keys, part 2 for two different ones (the   *)
(* source), part 3 for a single one (what its authors meant). Parts 4 and  *)
(* 5 are about the index of unspent outputs, whatever the keys are.        *)
(***************************************************************************)
EXTENDS Ledger, ChainProofs

----------------------------------------------------------------------------
(* Part 1: any keys.                                                        *)

\* TypeOK is inductive once every tip names a stored block (MineBlock and
\* AddBlock take the height of that block) and a process between MineBlock
\* and Update has a tip.
TipsAreStored ==
  \A k \in TipKeys : tips[k] # Nil => tips[k] \in DOMAIN blocks

TypeInv == TypeOK /\ TipsAreStored

\* The heights and parents of the blocks peers send.
LEMMA PeerBlockShape ==
  ASSUME NEW h \in DOMAIN PeerBlocks
  PROVE  PeerBlocks[h].Height \in Nat /\ PeerBlocks[h].PrevHash \in Hashes
BY PeerAssumption DEF Hashes

\* AddToStore keeps what was stored and adds one block.
LEMMA AddToStoreFacts ==
  ASSUME NEW hash, NEW block, AddToStore(hash, block)
  PROVE  /\ DOMAIN blocks' = DOMAIN blocks \cup {hash}
         /\ blocks'[hash] = block
         /\ \A h \in DOMAIN blocks \ {hash} : blocks'[h] = blocks[h]
BY DEF AddToStore

\* A block of the right shape keeps the shape of the store.
LEMMA AddToStoreShape ==
  ASSUME TypeOK, NEW hash \in Hashes, NEW block, AddToStore(hash, block),
         block.Height \in Nat, block.PrevHash \in Hashes \cup {Nil}
  PROVE  /\ DOMAIN blocks' \subseteq Hashes
         /\ \A h \in DOMAIN blocks' : /\ blocks'[h].Height \in Nat
                                      /\ blocks'[h].PrevHash \in Hashes \cup {Nil}
         /\ hash \in DOMAIN blocks'
         /\ DOMAIN blocks \subseteq DOMAIN blocks'
<1>1. /\ DOMAIN blocks' = DOMAIN blocks \cup {hash}
      /\ blocks'[hash] = block
      /\ \A h \in DOMAIN blocks \ {hash} : blocks'[h] = blocks[h]
  BY AddToStoreFacts
<1>2. \A h \in DOMAIN blocks' : \/ h = hash
                               \/ h \in DOMAIN blocks \ {hash}
  BY <1>1
<1> QED BY <1>1, <1>2 DEF TypeOK

LEMMA TypeInvInit == Init => TypeInv
BY DEF Init, TypeInv, TypeOK, TipsAreStored, Steps, TipKeys

LEMMA TypeInvStep == TypeInv /\ [Next]_vars => TypeInv'
<1> SUFFICES ASSUME TypeInv, [Next]_vars PROVE TypeInv'
  OBVIOUS
<1> USE DEF TypeInv, TypeOK, TipsAreStored, Steps, TipKeys
<1>1. CASE LoadBlockchain
  <2>1. CASE tips[LAST_HASH_KEY] = Nil
    <3>1. AddToStore(GenesisHash, Genesis)
      BY <1>1, <2>1 DEF LoadBlockchain, FirstTips, AfterLoad
    <3>2. Genesis.Height \in Nat /\ Genesis.PrevHash = Nil
      BY DEF Genesis
    <3>3. GenesisHash \in Hashes
      BY DEF Hashes
    <3>4. /\ DOMAIN blocks' \subseteq Hashes
          /\ \A h \in DOMAIN blocks' : /\ blocks'[h].Height \in Nat
                                       /\ blocks'[h].PrevHash \in Hashes \cup {Nil}
          /\ GenesisHash \in DOMAIN blocks'
          /\ DOMAIN blocks \subseteq DOMAIN blocks'
      BY <3>1, <3>2, <3>3, AddToStoreShape
    <3> QED BY <1>1, <2>1, <3>3, <3>4 DEF LoadBlockchain, FirstTips, AfterLoad
  <2>2. CASE tips[LAST_HASH_KEY] # Nil
    BY <1>1, <2>2 DEF LoadBlockchain, FirstTips, AfterLoad
  <2> QED BY <2>1, <2>2
<1>2. CASE ReindexDelete
  BY <1>2 DEF ReindexDelete
<1>3. CASE ReindexFill
  BY <1>3 DEF ReindexFill
<1>4. CASE Reindex
  BY <1>4 DEF Reindex, store
<1>5. CASE Crash
  BY <1>5 DEF Crash, store
<1>6. CASE AddTxn
  <2>1. PICK from \in Owners, to \in Owners, amount \in Amounts :
          \E tx \in Payments(from, to, amount) :
            \/ AddTxnRefused(tx)
            \/ AddTxnNotMined(tx)
            \/ \E hash \in MinedHashes : AddTxnMined(from, tx, hash)
    BY <1>6 DEF AddTxn
  <2>2. PICK tx \in Payments(from, to, amount) :
            \/ AddTxnRefused(tx)
            \/ AddTxnNotMined(tx)
            \/ \E hash \in MinedHashes : AddTxnMined(from, tx, hash)
    BY <2>1
  <2>3. CASE AddTxnRefused(tx)
    BY <2>3 DEF AddTxnRefused, store
  <2>4. CASE AddTxnNotMined(tx)
    BY <2>4 DEF AddTxnNotMined, store
  <2>5. ASSUME NEW hash \in MinedHashes, AddTxnMined(from, tx, hash)
        PROVE  TypeInv'
    <3>1. AddToStore(hash, BlockOf(from, tx, hash)) /\ tips[LH_KEY] # Nil
      BY <2>5 DEF AddTxnMined, MovedTips, CanMine
    <3>2. tips[LH_KEY] \in DOMAIN blocks
      BY <3>1
    <3>3. /\ BlockOf(from, tx, hash).Height \in Nat
          /\ BlockOf(from, tx, hash).PrevHash \in Hashes
      BY <3>2 DEF BlockOf
    <3>4. hash \in Hashes
      BY DEF Hashes
    <3>5. /\ DOMAIN blocks' \subseteq Hashes
          /\ \A h \in DOMAIN blocks' : /\ blocks'[h].Height \in Nat
                                       /\ blocks'[h].PrevHash \in Hashes \cup {Nil}
          /\ hash \in DOMAIN blocks'
          /\ DOMAIN blocks \subseteq DOMAIN blocks'
      BY <3>1, <3>3, <3>4, AddToStoreShape
    <3> QED BY <2>5, <3>4, <3>5 DEF AddTxnMined, MovedTips
  <2> QED BY <2>2, <2>3, <2>4, <2>5
<1>7. CASE AddTxnUpdate
  BY <1>7 DEF AddTxnUpdate
<1>8. CASE ReceiveBlock
  <2>1. PICK hash \in DOMAIN PeerBlocks :
          \/ \E moreInTransit \in BOOLEAN : HandleBlock(hash, moreInTransit)
          \/ HandleBlockPanics(hash)
    BY <1>8 DEF ReceiveBlock
  <2>2. ASSUME NEW moreInTransit \in BOOLEAN, HandleBlock(hash, moreInTransit)
        PROVE  TypeInv'
    <3>1. CASE hash \in DOMAIN blocks
      BY <2>2, <3>1 DEF HandleBlock, MovedTips, BecomesTip
    <3>2. CASE hash \notin DOMAIN blocks
      <4>1. AddToStore(hash, PeerBlocks[hash])
        BY <2>2, <3>2 DEF HandleBlock, MovedTips, BecomesTip
      <4>2. hash \in Hashes
        BY DEF Hashes
      <4>3. /\ DOMAIN blocks' \subseteq Hashes
            /\ \A h \in DOMAIN blocks' : /\ blocks'[h].Height \in Nat
                                         /\ blocks'[h].PrevHash \in Hashes \cup {Nil}
            /\ hash \in DOMAIN blocks'
            /\ DOMAIN blocks \subseteq DOMAIN blocks'
        BY <4>1, <4>2, PeerBlockShape, AddToStoreShape
      <4> QED BY <2>2, <3>2, <4>2, <4>3 DEF HandleBlock, MovedTips, BecomesTip
    <3> QED BY <3>1, <3>2
  <2>3. CASE HandleBlockPanics(hash)
    BY <2>3 DEF HandleBlockPanics, store
  <2> QED BY <2>1, <2>2, <2>3
<1>9. CASE UNCHANGED vars
  BY <1>9 DEF vars
<1> QED BY <1>1, <1>2, <1>3, <1>4, <1>5, <1>6, <1>7, <1>8, <1>9 DEF Next

\* The stored data always has its shape, for any keys and any blocks of peers.
THEOREM TypeCorrect == Spec => []TypeOK
<1>1. TypeInv => TypeOK
  BY DEF TypeInv
<1> QED BY <1>1, TypeInvInit, TypeInvStep, PTL DEF Spec

----------------------------------------------------------------------------
(* Part 2: the two spellings of the key, as in the source.                  *)

\* Nothing writes "lh" before something has read it there: so it is never
\* written, no block is ever mined or added, and no Update ever runs.
NothingUnderLh ==
  /\ TypeOK
  /\ GenesisOnly
  /\ tips[LH_KEY] = Nil
  /\ step # "update"
  /\ IdleIndexIsExact

LEMMA GenesisOnlyStep ==
  ASSUME LAST_HASH_KEY # LH_KEY, NothingUnderLh, [Next]_vars, TypeOK'
  PROVE  NothingUnderLh'
<1> USE DEF NothingUnderLh, GenesisOnly, IdleIndexIsExact
<1>0. LH_KEY \in TipKeys /\ LAST_HASH_KEY \in TipKeys
  BY DEF TipKeys
<1>1. CASE LoadBlockchain
  <2>1. CASE tips[LAST_HASH_KEY] = Nil
    <3>1. DOMAIN blocks' = DOMAIN blocks \cup {GenesisHash}
      BY <1>1, <2>1, AddToStoreFacts DEF LoadBlockchain, FirstTips, AfterLoad
    <3>2. tips'[LH_KEY] = Nil
      BY <1>0, <1>1, <2>1 DEF LoadBlockchain, FirstTips, AfterLoad, TypeOK
    <3> QED BY <1>1, <3>1, <3>2 DEF LoadBlockchain, FirstTips, AfterLoad
  <2>2. CASE tips[LAST_HASH_KEY] # Nil
    BY <1>1, <2>2 DEF LoadBlockchain, FirstTips, AfterLoad
  <2> QED BY <2>1, <2>2
<1>2. CASE ReindexDelete
  BY <1>2 DEF ReindexDelete
<1>3. CASE ReindexFill
  BY <1>3 DEF ReindexFill
<1>4. CASE Reindex
  BY <1>4 DEF Reindex, store
<1>5. CASE Crash
  BY <1>5 DEF Crash, store
<1>6. CASE AddTxn
  <2>1. PICK from \in Owners, to \in Owners, amount \in Amounts :
          \E tx \in Payments(from, to, amount) :
            \/ AddTxnRefused(tx)
            \/ AddTxnNotMined(tx)
            \/ \E hash \in MinedHashes : AddTxnMined(from, tx, hash)
    BY <1>6 DEF AddTxn
  <2>2. PICK tx \in Payments(from, to, amount) :
            \/ AddTxnRefused(tx)
            \/ AddTxnNotMined(tx)
            \/ \E hash \in MinedHashes : AddTxnMined(from, tx, hash)
    BY <2>1
  <2>3. ~ \E hash \in MinedHashes : AddTxnMined(from, tx, hash)
    BY DEF AddTxnMined, MovedTips, CanMine
  <2>4. UNCHANGED <<blocks, tips, index, LastHash, step>>
    BY <2>2, <2>3 DEF AddTxnRefused, AddTxnNotMined, store
  <2> QED BY <2>4
<1>7. CASE AddTxnUpdate
  BY <1>7 DEF AddTxnUpdate
<1>8. CASE ReceiveBlock
  <2>1. PICK hash \in DOMAIN PeerBlocks :
          \/ \E moreInTransit \in BOOLEAN : HandleBlock(hash, moreInTransit)
          \/ HandleBlockPanics(hash)
    BY <1>8 DEF ReceiveBlock
  <2>2. hash \notin DOMAIN blocks
    BY HashAssumption
  <2>3. HandleBlockPanics(hash)
    BY <2>1, <2>2 DEF HandleBlock, MovedTips, BecomesTip
  <2> QED BY <2>3 DEF HandleBlockPanics, store
<1>9. CASE UNCHANGED vars
  BY <1>9 DEF vars
<1> QED BY <1>1, <1>2, <1>3, <1>4, <1>5, <1>6, <1>7, <1>8, <1>9 DEF Next

LEMMA NothingUnderLhAlways ==
  ASSUME LAST_HASH_KEY # LH_KEY
  PROVE  Spec => []NothingUnderLh
<1>1. Init => NothingUnderLh
  <2>1. Init => TypeOK
    BY TypeInvInit DEF TypeInv
  <2> QED BY <2>1 DEF Init, NothingUnderLh, GenesisOnly, IdleIndexIsExact, TipKeys
<1>2. NothingUnderLh /\ [Next]_vars /\ TypeOK' => NothingUnderLh'
  BY GenesisOnlyStep
<1> QED BY <1>1, <1>2, TypeCorrect, PTL DEF Spec

\* As the source stands no node's chain ever grows beyond genesis, whatever is
\* posted to /addtxn and whatever blocks arrive.
THEOREM ChainNeverGrows ==
  ASSUME LAST_HASH_KEY # LH_KEY
  PROVE  Spec => []GenesisOnly
<1>1. NothingUnderLh => GenesisOnly
  BY DEF NothingUnderLh
<1> QED BY <1>1, NothingUnderLhAlways, PTL

\* And the index a request works on is always the one FindUTXO builds: a crash
\* between deleting and filling it is repaired by the restart's Reindex.
THEOREM IndexExactWhenIdle ==
  ASSUME LAST_HASH_KEY # LH_KEY
  PROVE  Spec => []IdleIndexIsExact
<1>1. NothingUnderLh => IdleIndexIsExact
  BY DEF NothingUnderLh
<1> QED BY <1>1, NothingUnderLhAlways, PTL

----------------------------------------------------------------------------
(* Part 3: one key.                                                         *)

\* Every block in the store is genesis, one mined here or the peer's block of
\* that hash: so a parent stored after its child is one the child was made for.
StoredAsMade ==
  \A h \in DOMAIN blocks :
    /\ h = GenesisHash => blocks[h] = Genesis
    /\ h \in DOMAIN PeerBlocks => blocks[h] = PeerBlocks[h]

\* The inductive invariant of the program with one key.
OneKeyInv ==
  /\ TypeOK
  /\ TipIsStored
  /\ TipIsHighest
  /\ StoredAsMade
  /\ HeightsCountLinks

LEMMA KeysAgree ==
  ASSUME LAST_HASH_KEY = LH_KEY
  PROVE  TipKeys = {LH_KEY}
BY DEF TipKeys

LEMMA OneKeyInit ==
  ASSUME Init PROVE OneKeyInv
<1>1. TypeOK
  BY TypeInvInit DEF TypeInv
<1>2. DOMAIN blocks = {}
  BY DEF Init
<1> QED BY <1>1, <1>2 DEF Init, OneKeyInv, TipIsStored, TipIsHighest, StoredAsMade,
                          HeightsCountLinks, TipKeys

\* The first start: genesis is stored under both roles of the key.
LEMMA OneKeyFirstLoad ==
  ASSUME LAST_HASH_KEY = LH_KEY, OneKeyInv, TypeOK',
         LoadBlockchain, tips[LAST_HASH_KEY] = Nil
  PROVE  OneKeyInv'
<1>1. DOMAIN blocks = {}
  BY DEF OneKeyInv, TipIsStored
<1>2. DOMAIN blocks' = {GenesisHash} /\ blocks'[GenesisHash] = Genesis
  BY <1>1, AddToStoreFacts DEF LoadBlockchain, FirstTips, AfterLoad
<1>3. tips'[LH_KEY] = GenesisHash /\ LastHash' = GenesisHash
  BY KeysAgree DEF LoadBlockchain, FirstTips, AfterLoad, OneKeyInv, TypeOK
<1>4. GenesisHash # Nil /\ GenesisHash \notin MinedHashes \cup DOMAIN PeerBlocks
  BY HashAssumption DEF Hashes
<1>5. Genesis.Height = 0 /\ Genesis.PrevHash = Nil
  BY DEF Genesis
<1>6. TipIsStored'
  BY <1>2, <1>3, <1>4, KeysAgree DEF TipIsStored
<1>7. TipIsHighest'
  BY <1>2, <1>3, <1>5 DEF TipIsHighest, TipHeight
<1>8. StoredAsMade'
  BY <1>2, <1>4 DEF StoredAsMade
<1>9. HeightsCountLinks'
  BY <1>2, <1>4, <1>5 DEF HeightsCountLinks
<1> QED BY <1>6, <1>7, <1>8, <1>9 DEF OneKeyInv

\* A step that leaves blocks and tips alone, and LastHash unless the process
\* goes down or comes up with the stored tip.
LEMMA OneKeySameStore ==
  ASSUME LAST_HASH_KEY = LH_KEY, OneKeyInv, TypeOK', UNCHANGED <<blocks, tips>>,
         step' # "down" => LastHash' = tips[LH_KEY] /\ LastHash' # Nil
  PROVE  OneKeyInv'
BY DEF OneKeyInv, TipIsStored, TipIsHighest, TipHeight, StoredAsMade, HeightsCountLinks

\* A block mined here.
LEMMA OneKeyMined ==
  ASSUME LAST_HASH_KEY = LH_KEY, OneKeyInv, TypeOK',
         NEW from, NEW tx, NEW hash \in MinedHashes, AddTxnMined(from, tx, hash)
  PROVE  OneKeyInv' /\ TipHeight' > TipHeight
<1> DEFINE parent == tips[LH_KEY]
<1>1. /\ parent \in DOMAIN blocks /\ parent # Nil
      /\ hash \notin DOMAIN blocks
      /\ blocks[parent].Height \in Nat
  BY KeysAgree DEF AddTxnMined, MovedTips, CanMine, OneKeyInv, TipIsStored, TypeOK
<1>2. /\ DOMAIN blocks' = DOMAIN blocks \cup {hash}
      /\ blocks'[hash] = BlockOf(from, tx, hash)
      /\ \A h \in DOMAIN blocks : blocks'[h] = blocks[h]
  BY <1>1, AddToStoreFacts DEF AddTxnMined, MovedTips
<1>3. /\ BlockOf(from, tx, hash).PrevHash = parent
      /\ BlockOf(from, tx, hash).Height = blocks[parent].Height + 1
  BY DEF BlockOf
<1>4. tips'[LH_KEY] = hash /\ LastHash' = hash
  BY KeysAgree DEF AddTxnMined, MovedTips, OneKeyInv, TypeOK
<1>5. hash \in Hashes /\ hash # Nil /\ hash # GenesisHash /\ hash \notin DOMAIN PeerBlocks
  BY HashAssumption DEF Hashes
<1>6. TipHeight' = TipHeight + 1 /\ TipHeight \in Nat
  BY <1>1, <1>2, <1>3, <1>4 DEF TipHeight
<1>7. TipIsStored'
  BY <1>2, <1>4, <1>5, KeysAgree DEF TipIsStored
<1>8. TipIsHighest'
  <2>1. \A h \in DOMAIN blocks : blocks[h].Height \in Nat /\ blocks[h].Height <= TipHeight
    BY <1>1 DEF OneKeyInv, TipIsHighest, TypeOK
  <2>2. blocks'[hash].Height = TipHeight'
    BY <1>4 DEF TipHeight
  <2>3. \A h \in DOMAIN blocks' : blocks'[h].Height <= TipHeight'
    BY <2>1, <2>2, <1>2, <1>6
  <2> QED BY <2>3 DEF TipIsHighest
<1>9. StoredAsMade'
  BY <1>2, <1>5 DEF OneKeyInv, StoredAsMade
<1>10. HeightsCountLinks'
  <2>1. \A h \in DOMAIN blocks : blocks[h].PrevHash # hash
    <3>1. ASSUME NEW h \in DOMAIN blocks, h \in MinedHashes
          PROVE  blocks[h].PrevHash # hash
      BY <1>1, <3>1 DEF OneKeyInv, HeightsCountLinks
    <3>2. ASSUME NEW h \in DOMAIN blocks, h \in DOMAIN PeerBlocks
          PROVE  blocks[h].PrevHash # hash
      BY <1>5, <3>2, PeerAssumption DEF OneKeyInv, StoredAsMade
    <3>3. ASSUME NEW h \in DOMAIN blocks, h = GenesisHash
          PROVE  blocks[h].PrevHash # hash
      BY <1>5, <3>3 DEF OneKeyInv, StoredAsMade, Genesis
    <3> QED BY <3>1, <3>2, <3>3 DEF OneKeyInv, TypeOK, Hashes
  <2> QED BY <1>1, <1>2, <1>3, <2>1 DEF OneKeyInv, HeightsCountLinks
<1> QED BY <1>6, <1>7, <1>8, <1>9, <1>10 DEF OneKeyInv

\* A new block of a peer: the tip moves to it or it is not higher.
LEMMA OneKeyAdded ==
  ASSUME LAST_HASH_KEY = LH_KEY, OneKeyInv, TypeOK',
         NEW hash \in DOMAIN PeerBlocks, NEW moreInTransit \in BOOLEAN,
         HandleBlock(hash, moreInTransit), hash \notin DOMAIN blocks
  PROVE  OneKeyInv' /\ (tips'[LH_KEY] = tips[LH_KEY] \/ TipHeight' > TipHeight)
<1> DEFINE tip == tips[LH_KEY]
           block == PeerBlocks[hash]
<1>1. /\ tip \in DOMAIN blocks /\ tip # Nil /\ LastHash = tip
      /\ blocks[tip].Height \in Nat
      /\ step' # "down"
  BY KeysAgree DEF HandleBlock, MovedTips, BecomesTip, OneKeyInv, TipIsStored, TypeOK
<1>2. /\ DOMAIN blocks' = DOMAIN blocks \cup {hash}
      /\ blocks'[hash] = block
      /\ \A h \in DOMAIN blocks : blocks'[h] = blocks[h]
  BY AddToStoreFacts DEF HandleBlock, MovedTips, BecomesTip
<1>3. hash \in Hashes /\ hash # Nil /\ hash # GenesisHash /\ hash \notin MinedHashes
  BY HashAssumption DEF Hashes
<1>4. block.Height \in Nat /\ block.PrevHash \in Hashes
  BY PeerBlockShape
<1>5. \/ /\ block.Height > blocks[tip].Height
         /\ tips'[LH_KEY] = hash /\ LastHash' = hash
      \/ /\ block.Height <= blocks[tip].Height
         /\ tips'[LH_KEY] = tip /\ LastHash' = tip
  BY <1>1, <1>4, KeysAgree DEF HandleBlock, MovedTips, BecomesTip, OneKeyInv, TypeOK
<1>6. /\ TipHeight \in Nat
      /\ tips'[LH_KEY] = tip => TipHeight' = TipHeight
      /\ tips'[LH_KEY] = hash => TipHeight' = block.Height
  BY <1>1, <1>2 DEF TipHeight
<1>7. TipIsStored'
  BY <1>1, <1>2, <1>3, <1>5, KeysAgree DEF TipIsStored
<1>8. TipIsHighest'
  <2>1. \A h \in DOMAIN blocks : blocks[h].Height \in Nat /\ blocks[h].Height <= TipHeight
    BY <1>1 DEF OneKeyInv, TipIsHighest, TypeOK
  <2>2. TipHeight <= TipHeight' /\ block.Height <= TipHeight'
    BY <1>4, <1>5, <1>6 DEF TipHeight
  <2>3. TipHeight' \in Nat
    BY <1>4, <1>5, <1>6
  <2>4. \A h \in DOMAIN blocks' : blocks'[h].Height <= TipHeight'
    BY <2>1, <2>2, <2>3, <1>2, <1>4, <1>6
  <2> QED BY <2>4 DEF TipIsHighest
<1>9. StoredAsMade'
  BY <1>2, <1>3 DEF OneKeyInv, StoredAsMade
<1>10. HeightsCountLinks'
  <2>1. ASSUME NEW h \in DOMAIN blocks, blocks[h].PrevHash = hash
        PROVE  blocks[h].Height = block.Height + 1
    <3>1. h \notin MinedHashes
      BY <2>1 DEF OneKeyInv, HeightsCountLinks
    <3>2. h # GenesisHash
      BY <1>3, <2>1 DEF OneKeyInv, StoredAsMade, Genesis
    <3>3. h \in DOMAIN PeerBlocks /\ blocks[h] = PeerBlocks[h]
      BY <3>1, <3>2 DEF OneKeyInv, TypeOK, StoredAsMade, Hashes
    <3> QED BY <1>3, <2>1, <3>3, PeerAssumption
  <2>2. ASSUME block.PrevHash \in DOMAIN blocks
        PROVE  block.Height = blocks[block.PrevHash].Height + 1
    <3>1. CASE block.PrevHash = GenesisHash
      <4>1. blocks[GenesisHash].Height = 0
        BY <2>2, <3>1 DEF OneKeyInv, StoredAsMade, Genesis
      <4>2. block.Height = 1
        BY <1>3, <3>1, PeerAssumption, HashAssumption
      <4> QED BY <3>1, <4>1, <4>2
    <3>2. CASE block.PrevHash # GenesisHash
      BY <2>2, <3>2, PeerAssumption DEF OneKeyInv, StoredAsMade
    <3> QED BY <3>1, <3>2
  <2>3. block.PrevHash # hash
    <3>1. CASE block.PrevHash = GenesisHash
      BY <1>3, <3>1
    <3>2. CASE block.PrevHash # GenesisHash
      BY <1>4, <3>2, PeerAssumption
    <3> QED BY <3>1, <3>2
  <2>4. ASSUME NEW h \in DOMAIN blocks', blocks'[h].PrevHash \in DOMAIN blocks'
        PROVE  blocks'[h].Height = blocks'[blocks'[h].PrevHash].Height + 1
    <3>1. CASE h = hash
      BY <1>2, <2>2, <2>3, <2>4, <3>1
    <3>2. CASE h # hash /\ blocks[h].PrevHash = hash
      BY <1>2, <2>1, <3>2
    <3>3. CASE h # hash /\ blocks[h].PrevHash # hash
      BY <1>2, <2>4, <3>3 DEF OneKeyInv, HeightsCountLinks
    <3> QED BY <3>1, <3>2, <3>3
  <2>5. ASSUME NEW h \in DOMAIN blocks', h \in MinedHashes
        PROVE  blocks'[h].PrevHash \in DOMAIN blocks'
    BY <1>2, <1>3, <2>5 DEF OneKeyInv, HeightsCountLinks
  <2> QED BY <2>4, <2>5 DEF HeightsCountLinks
<1>11. tips'[LH_KEY] = tip \/ TipHeight' > TipHeight
  BY <1>4, <1>5, <1>6 DEF TipHeight
<1> QED BY <1>7, <1>8, <1>9, <1>10, <1>11 DEF OneKeyInv

TipMovesUp == tips[LH_KEY] # Nil => \/ tips'[LH_KEY] = tips[LH_KEY]
                                    \/ TipHeight' > TipHeight

LEMMA OneKeyStep ==
  ASSUME LAST_HASH_KEY = LH_KEY, OneKeyInv, TypeOK', [Next]_vars
  PROVE  OneKeyInv' /\ TipMovesUp
<1> USE DEF TipMovesUp
<1>0. step # "down" => LastHash = tips[LH_KEY] /\ LastHash # Nil
  BY DEF OneKeyInv, TipIsStored
<1>1. CASE LoadBlockchain
  <2>1. CASE tips[LAST_HASH_KEY] = Nil
    BY <1>1, <2>1, OneKeyFirstLoad
  <2>2. CASE tips[LAST_HASH_KEY] # Nil
    BY <1>1, <2>2, OneKeySameStore DEF LoadBlockchain, FirstTips, AfterLoad
  <2> QED BY <2>1, <2>2
<1>2. CASE ReindexDelete
  BY <1>0, <1>2, OneKeySameStore DEF ReindexDelete
<1>3. CASE ReindexFill
  BY <1>0, <1>3, OneKeySameStore DEF ReindexFill
<1>4. CASE Reindex
  BY <1>0, <1>4, OneKeySameStore DEF Reindex, store
<1>5. CASE Crash
  BY <1>5, OneKeySameStore DEF Crash, store
<1>6. CASE AddTxn
  <2>1. PICK from \in Owners, to \in Owners, amount \in Amounts :
          \E tx \in Payments(from, to, amount) :
            \/ AddTxnRefused(tx)
            \/ AddTxnNotMined(tx)
            \/ \E hash \in MinedHashes : AddTxnMined(from, tx, hash)
    BY <1>6 DEF AddTxn
  <2>2. PICK tx \in Payments(from, to, amount) :
            \/ AddTxnRefused(tx)
            \/ AddTxnNotMined(tx)
            \/ \E hash \in MinedHashes : AddTxnMined(from, tx, hash)
    BY <2>1
  <2>3. CASE AddTxnRefused(tx)
    BY <1>0, <2>3, OneKeySameStore DEF AddTxnRefused, store
  <2>4. CASE AddTxnNotMined(tx)
    BY <1>0, <2>4, OneKeySameStore DEF AddTxnNotMined, store
  <2>5. CASE \E hash \in MinedHashes : AddTxnMined(from, tx, hash)
    BY <2>5, OneKeyMined
  <2> QED BY <2>2, <2>3, <2>4, <2>5
<1>7. CASE AddTxnUpdate
  BY <1>0, <1>7, OneKeySameStore DEF AddTxnUpdate
<1>8. CASE ReceiveBlock
  <2>1. PICK hash \in DOMAIN PeerBlocks :
          \/ \E moreInTransit \in BOOLEAN : HandleBlock(hash, moreInTransit)
          \/ HandleBlockPanics(hash)
    BY <1>8 DEF ReceiveBlock
  <2>2. ASSUME NEW moreInTransit \in BOOLEAN, HandleBlock(hash, moreInTransit)
        PROVE  OneKeyInv' /\ TipMovesUp
    <3>1. CASE hash \in DOMAIN blocks
      BY <1>0, <2>2, <3>1, OneKeySameStore DEF HandleBlock, MovedTips, BecomesTip
    <3>2. CASE hash \notin DOMAIN blocks
      BY <2>2, <3>2, OneKeyAdded
    <3> QED BY <3>1, <3>2
  <2>3. CASE HandleBlockPanics(hash)
    BY <2>3, OneKeySameStore DEF HandleBlockPanics, store
  <2> QED BY <2>1, <2>2, <2>3
<1>9. CASE UNCHANGED vars
  BY <1>0, <1>9, OneKeySameStore DEF vars
<1> QED BY <1>1, <1>2, <1>3, <1>4, <1>5, <1>6, <1>7, <1>8, <1>9 DEF Next

LEMMA OneKeyAlways ==
  ASSUME LAST_HASH_KEY = LH_KEY
  PROVE  Spec => []OneKeyInv
<1>1. Init => OneKeyInv
  BY OneKeyInit
<1>2. OneKeyInv /\ TypeOK' /\ [Next]_vars => OneKeyInv'
  BY OneKeyStep
<1> QED BY <1>1, <1>2, TypeCorrect, PTL DEF Spec

\* With one key the stored tip always is a stored block, and memory agrees.
THEOREM TipStaysStored ==
  ASSUME LAST_HASH_KEY = LH_KEY
  PROVE  Spec => []TipIsStored
<1>1. OneKeyInv => TipIsStored
  BY DEF OneKeyInv
<1> QED BY <1>1, OneKeyAlways, PTL

\* AddBlock's comparison of heights picks the highest of all stored blocks,
\* however many branches peers make and in whatever order blocks arrive.
THEOREM TipStaysHighest ==
  ASSUME LAST_HASH_KEY = LH_KEY
  PROVE  Spec => []TipIsHighest
<1>1. OneKeyInv => TipIsHighest
  BY DEF OneKeyInv
<1> QED BY <1>1, OneKeyAlways, PTL

\* Heights count links on every branch, across both ways a block gets stored.
THEOREM HeightsStayExact ==
  ASSUME LAST_HASH_KEY = LH_KEY
  PROVE  Spec => []HeightsCountLinks
<1>1. OneKeyInv => HeightsCountLinks
  BY DEF OneKeyInv
<1> QED BY <1>1, OneKeyAlways, PTL

\* A tip, once there, is only ever replaced by a higher one.
THEOREM TipOnlyRises ==
  ASSUME LAST_HASH_KEY = LH_KEY
  PROVE  Spec => TipNeverSinks
<1>1. OneKeyInv /\ TypeOK' /\ [Next]_vars => [TipMovesUp]_vars
  BY OneKeyStep
<1>2. [TipMovesUp]_vars =>
        [tips[LH_KEY] # Nil => \/ tips'[LH_KEY] = tips[LH_KEY]
                               \/ TipHeight' > TipHeight]_vars
  BY DEF TipMovesUp
<1> QED BY <1>1, <1>2, OneKeyAlways, TypeCorrect, PTL DEF Spec, TipNeverSinks

----------------------------------------------------------------------------
(* Part 4: the index that UTXOSet.Update is applied to, for any keys.       *)

\* The ids of the coinbases that this node may still make.
NewCoinbases(B) == { HashID(CoinbaseTX(owner, hash)) :
                       owner \in Owners, hash \in MinedHashes \ DOMAIN B }

\* The payment tx of from is in the newest block, and its inputs in the index.
Updates(from, tx) ==
  /\ LastHash \in MinedHashes \cap DOMAIN blocks
  /\ blocks[LastHash].Transactions = << CoinbaseTX(from, LastHash), tx >>
  /\ HashID(CoinbaseTX(from, LastHash)) \notin DOMAIN index
  /\ Draws(tx.Inputs, index)
  /\ tx.Outputs \in Seq(ToSet(tx.Outputs)) /\ tx.Outputs # <<>>

\* What UTXOSet.Update relies on: the stored blocks are lists of transactions and
\* the index has lists of outputs; no coinbase to come is in either; and a
\* payment that was just mined was made of outputs that the index has.
RecordsInv ==
  /\ IsFiniteSet(DOMAIN blocks) /\ WellMade(blocks)
  /\ \A tx \in Recorded(blocks) : HashID(tx) \notin NewCoinbases(blocks)

IndexInv ==
  /\ IsFiniteSet(DOMAIN index) /\ Entries(index)
  /\ \A id \in DOMAIN index : id \notin NewCoinbases(blocks)

UpdateInv == step = "update" => \E from \in Owners : \E tx : Updates(from, tx)

LedgerInv == RecordsInv /\ IndexInv /\ UpdateInv

\* A coinbase is told from the others by its receiver and its data.
LEMMA CoinbasesDiffer ==
  ASSUME NEW owner, NEW data, NEW owner2, NEW data2,
         HashID(CoinbaseTX(owner, data)) = HashID(CoinbaseTX(owner2, data2))
  PROVE  data = data2
<1>1. PICK i : i = [ID |-> Nil, Out |-> -1, PubKey |-> data]
  OBVIOUS
<1>2. PICK j : j = [ID |-> Nil, Out |-> -1, PubKey |-> data2]
  OBVIOUS
<1>3. CoinbaseTX(owner, data).Inputs = <<i>> /\ CoinbaseTX(owner2, data2).Inputs = <<j>>
  BY <1>1, <1>2 DEF CoinbaseTX
<1>4. HashID(CoinbaseTX(owner, data)).Inputs = <<i>> /\ HashID(CoinbaseTX(owner2, data2)).Inputs = <<j>>
  BY <1>3 DEF HashID
<1>5. <<i>> = <<j>>
  BY <1>4
<1>6. i = j
  <2>1. <<i>>[1] = i /\ <<j>>[1] = j
    OBVIOUS
  <2> QED BY <1>5, <2>1
<1>7. i.PubKey = data /\ j.PubKey = data2
  BY <1>1, <1>2
<1> QED BY <1>6, <1>7

\* A coinbase with other data than those to come is not one of them.
LEMMA CoinbaseIsKnown ==
  ASSUME NEW B, NEW owner, NEW data, data \notin MinedHashes \ DOMAIN B
  PROVE  HashID(CoinbaseTX(owner, data)) \notin NewCoinbases(B)
<1> SUFFICES ASSUME NEW o \in Owners, NEW m \in MinedHashes \ DOMAIN B,
                    HashID(CoinbaseTX(owner, data)) = HashID(CoinbaseTX(o, m))
             PROVE  FALSE
  BY DEF NewCoinbases
<1> QED BY CoinbasesDiffer

\* A payment is no coinbase to come: its input is an owner's.
LEMMA PaymentIsKnown ==
  ASSUME NEW B, NEW tx, NEW from \in Owners, 1 \in DOMAIN tx.Inputs, tx.Inputs[1].PubKey = from
  PROVE  HashID(tx) \notin NewCoinbases(B)
<1> SUFFICES ASSUME NEW o \in Owners, NEW m \in MinedHashes \ DOMAIN B,
                    HashID(tx) = HashID(CoinbaseTX(o, m))
             PROVE  FALSE
  BY DEF NewCoinbases
<1>1. PICK i : i = [ID |-> Nil, Out |-> -1, PubKey |-> m]
  OBVIOUS
<1>2. CoinbaseTX(o, m).Inputs = <<i>>
  BY <1>1 DEF CoinbaseTX
<1>3. HashID(tx).Inputs = tx.Inputs /\ HashID(CoinbaseTX(o, m)).Inputs = <<i>>
  BY <1>2 DEF HashID
<1>4. tx.Inputs = <<i>>
  BY <1>3
<1>5. tx.Inputs[1] = i
  <2>1. <<i>>[1] = i
    OBVIOUS
  <2> QED BY <1>4, <2>1
<1>6. from = m
  BY <1>1, <1>5
<1> QED BY <1>6, DataAssumption

\* A store with one block more.
LEMMA StoreGrows ==
  ASSUME RecordsInv, NEW hash, NEW block, AddToStore(hash, block),
         block.Transactions \in Seq(ToSet(block.Transactions)),
         \A tx \in ToSet(block.Transactions) :
           /\ tx.Outputs \in Seq(ToSet(tx.Outputs))
           /\ HashID(tx) \notin NewCoinbases(blocks')
  PROVE  RecordsInv' /\ NewCoinbases(blocks') \subseteq NewCoinbases(blocks)
<1>1. /\ DOMAIN blocks' = DOMAIN blocks \cup {hash}
      /\ blocks'[hash] = block
      /\ \A h \in DOMAIN blocks \ {hash} : blocks'[h] = blocks[h]
  BY AddToStoreFacts
<1>2. NewCoinbases(blocks') \subseteq NewCoinbases(blocks)
  BY <1>1 DEF NewCoinbases
<1>3. Recorded(blocks') \subseteq Recorded(blocks) \cup ToSet(block.Transactions)
  BY <1>1 DEF Recorded
<1>4. IsFiniteSet(DOMAIN blocks')
  BY <1>1, FS_AddElement DEF RecordsInv
<1>5. WellMade(blocks')
  <2>1. ASSUME NEW h \in DOMAIN blocks'
        PROVE  blocks'[h].Transactions \in Seq(ToSet(blocks'[h].Transactions))
    <3>1. CASE h = hash
      BY <1>1, <3>1
    <3>2. CASE h # hash
      <4>1. h \in DOMAIN blocks /\ blocks'[h] = blocks[h]
        BY <1>1, <3>2
      <4>2. blocks[h].Transactions \in Seq(ToSet(blocks[h].Transactions))
        BY <4>1 DEF RecordsInv, WellMade
      <4> QED BY <4>1, <4>2
    <3> QED BY <3>1, <3>2
  <2>2. \A tx \in Recorded(blocks') : tx.Outputs \in Seq(ToSet(tx.Outputs))
    BY <1>3 DEF RecordsInv, WellMade
  <2> QED BY <2>1, <2>2 DEF WellMade
<1>6. \A tx \in Recorded(blocks') : HashID(tx) \notin NewCoinbases(blocks')
  BY <1>2, <1>3 DEF RecordsInv
<1> QED BY <1>2, <1>4, <1>5, <1>6 DEF RecordsInv

\* Genesis is a block of lists, its coinbase is none of those to come.
LEMMA GenesisIsWellMade ==
  ASSUME NEW B
  PROVE  /\ Genesis.Transactions \in Seq(ToSet(Genesis.Transactions))
         /\ \A tx \in ToSet(Genesis.Transactions) :
              /\ tx.Outputs \in Seq(ToSet(tx.Outputs))
              /\ HashID(tx) \notin NewCoinbases(B)
<1>1. PICK tx : tx = CoinbaseTX(ORIGIN_ADDRESS, GenesisData)
  OBVIOUS
<1>2. Genesis.Transactions = <<tx>>
  BY <1>1 DEF Genesis
<1>3. <<tx>> \in Seq(ToSet(<<tx>>)) /\ ToSet(<<tx>>) = {tx}
  <2>1. ToSet(<<tx>>) = {tx}
    BY DEF ToSet
  <2> QED BY <2>1, OneIsList
<1>4. PICK o : tx.Outputs = <<o>>
  BY <1>1 DEF CoinbaseTX
<1>5. tx.Outputs \in Seq(ToSet(tx.Outputs))
  BY <1>4, OneIsList
<1>6. HashID(tx) \notin NewCoinbases(B)
  BY <1>1, CoinbaseIsKnown, DataAssumption
<1> QED BY <1>2, <1>3, <1>5, <1>6

\* So are the blocks of peers.
LEMMA PeerBlockIsWellMade ==
  ASSUME NEW B, NEW hash \in DOMAIN PeerBlocks
  PROVE  LET txs == PeerBlocks[hash].Transactions
         IN  /\ txs \in Seq(ToSet(txs))
             /\ \A tx \in ToSet(txs) :
                  /\ tx.Outputs \in Seq(ToSet(tx.Outputs))
                  /\ HashID(tx) \notin NewCoinbases(B)
<1>1. PICK txs : txs = PeerBlocks[hash].Transactions
  OBVIOUS
<1>2. /\ txs \in Seq(ToSet(txs))
      /\ \A i \in DOMAIN txs :
           /\ txs[i].Outputs \in Seq(ToSet(txs[i].Outputs))
           /\ \A owner \in Owners, data \in MinedHashes :
                HashID(txs[i]) # HashID(CoinbaseTX(owner, data))
  BY <1>1, PeerDataAssumption
<1>3. ASSUME NEW tx \in ToSet(txs)
      PROVE  tx.Outputs \in Seq(ToSet(tx.Outputs)) /\ HashID(tx) \notin NewCoinbases(B)
  <2>1. PICK i \in DOMAIN txs : tx = txs[i]
    BY DEF ToSet
  <2> QED BY <1>2, <2>1 DEF NewCoinbases
<1> QED BY <1>1, <1>2, <1>3

\* What NewTransaction makes of outputs of the index.
LEMMA PaymentFits ==
  ASSUME IndexInv, NEW from \in Owners, NEW to, NEW amount,
         NEW tx \in Payments(from, to, amount), tx # Panicked
  PROVE  /\ Draws(tx.Inputs, index)
         /\ tx.Outputs \in Seq(ToSet(tx.Outputs)) /\ tx.Outputs # <<>>
         /\ \A B : HashID(tx) \notin NewCoinbases(B)
<1> DEFINE entries == { id \in DOMAIN index :
                          \E out \in ToSet(index[id]) : out.PubKeyHash = from }
           selections == { FindSpendableOutputs(index, from, amount, order) :
                             order \in SetToSeqs(entries) }
           payments(s) == { Payment(from, to, amount, s, mapOrder, verifies) :
                              mapOrder \in SetToSeqs(DOMAIN s.unspentOuts),
                              verifies \in BOOLEAN }
<1>0. tx \in UNION { payments(s) : s \in selections }
  BY DEF Payments
<1>1. PICK spendable \in selections : tx \in payments(spendable)
  <2> HIDE DEF selections, payments
  <2> QED BY <1>0
<1>2. PICK order \in SetToSeqs(entries) :
        spendable = FindSpendableOutputs(index, from, amount, order)
  BY <1>1
<1>3. PICK mapOrder \in SetToSeqs(DOMAIN spendable.unspentOuts), verifies \in BOOLEAN :
        tx = Payment(from, to, amount, spendable, mapOrder, verifies)
  BY <1>1
<1> HIDE DEF selections, payments
<1>4. /\ tx = NewTransaction(from, to, amount, spendable, mapOrder, verifies)
      /\ tx.Inputs # <<>>
  BY <1>3 DEF Payment
<1>5. Lists(index)
  BY DEF IndexInv, Entries, Lists
<1>6. order \in Seq(DOMAIN index) /\ Distinct(order)
  <2>1. entries \in SUBSET DOMAIN index
    OBVIOUS
  <2>2. IsFiniteSet(entries)
    <3> HIDE DEF entries
    <3> QED BY <2>1, FS_Subset DEF IndexInv
  <2> HIDE DEF entries
  <2>3. PICK n \in Nat : n = Cardinality(entries)
    BY <2>2, FS_CardinalityType
  <2>4. order \in [1..n -> entries] /\ \A i, j \in 1..n : i # j => order[i] # order[j]
    BY <2>3 DEF SetToSeqs
  <2> QED BY <2>1, <2>3, <2>4 DEF Distinct
<1>7. Selects(spendable.unspentOuts, index)
  BY <1>2, <1>5, <1>6, SpendableSelects
<1>8. /\ Draws(tx.Inputs, index)
      /\ \A i \in DOMAIN tx.Inputs : tx.Inputs[i].PubKey = from
      /\ tx.Outputs \in Seq(ToSet(tx.Outputs)) /\ tx.Outputs # <<>>
  BY <1>3, <1>4, <1>5, <1>7, PaymentDraws
<1>9. 1 \in DOMAIN tx.Inputs
  <2>1. PICK s : s = tx.Inputs
    OBVIOUS
  <2>2. s \in Seq(ToSet(s)) /\ s # <<>>
    BY <1>4, <1>8, <2>1 DEF Draws
  <2>3. 1 \in DOMAIN s
    BY <2>2
  <2> QED BY <2>1, <2>3
<1> QED BY <1>8, <1>9, PaymentIsKnown

\* A step that changes the store at most by a block of genesis or of a peer, and
\* the index not at all.
LEMMA SameIndexKeeps ==
  ASSUME LedgerInv, UNCHANGED index, step' # "update",
         \/ UNCHANGED blocks
         \/ AddToStore(GenesisHash, Genesis)
         \/ \E hash \in DOMAIN PeerBlocks : AddToStore(hash, PeerBlocks[hash])
  PROVE  LedgerInv'
<1>1. RecordsInv' /\ NewCoinbases(blocks') \subseteq NewCoinbases(blocks)
  <2>1. CASE UNCHANGED blocks
    BY <2>1 DEF LedgerInv, RecordsInv
  <2>2. CASE AddToStore(GenesisHash, Genesis)
    BY <2>2, GenesisIsWellMade, StoreGrows DEF LedgerInv
  <2>3. ASSUME NEW hash \in DOMAIN PeerBlocks, AddToStore(hash, PeerBlocks[hash])
        PROVE  RecordsInv' /\ NewCoinbases(blocks') \subseteq NewCoinbases(blocks)
    BY <2>3, PeerBlockIsWellMade, StoreGrows DEF LedgerInv
  <2> QED BY <2>1, <2>2, <2>3
<1>2. IndexInv'
  BY <1>1 DEF LedgerInv, IndexInv
<1>3. UpdateInv'
  BY DEF UpdateInv
<1> QED BY <1>1, <1>2, <1>3 DEF LedgerInv

\* A rebuilt index, or none.
LEMMA ReindexKeeps ==
  ASSUME LedgerInv, TypeOK, ReindexDelete \/ ReindexFill
  PROVE  LedgerInv'
<1>1. UNCHANGED blocks /\ step' # "update"
  BY DEF ReindexDelete, ReindexFill
<1>2. RecordsInv'
  BY <1>1 DEF LedgerInv, RecordsInv
<1>3. IndexInv'
  <2>1. CASE ReindexDelete
    <3>1. DOMAIN index' = {}
      BY <2>1 DEF ReindexDelete
    <3> QED BY <3>1, FS_EmptySet DEF IndexInv, Entries
  <2>2. CASE ReindexFill
    <3>1. index' = FindUTXO(blocks, LastHash)
      BY <2>2 DEF ReindexFill
    <3>2. Nil \notin DOMAIN blocks
      BY HashAssumption DEF TypeOK
    <3>3. PICK x : x = FindUTXO(blocks, LastHash)
      OBVIOUS
    <3>4. /\ IsFiniteSet(DOMAIN x) /\ Entries(x)
          /\ \A id \in DOMAIN x : \E tx \in Recorded(blocks) : id = HashID(tx)
      BY <3>2, <3>3, FindsEntries DEF LedgerInv, RecordsInv
    <3>5. \A id \in DOMAIN x : id \notin NewCoinbases(blocks)
      BY <3>4 DEF LedgerInv, RecordsInv
    <3> QED BY <1>1, <3>1, <3>3, <3>4, <3>5 DEF IndexInv
  <2> QED BY <2>1, <2>2
<1>4. UpdateInv'
  BY <1>1 DEF UpdateInv
<1> QED BY <1>2, <1>3, <1>4 DEF LedgerInv

\* A mined block has a coinbase of new data and a payment made of the index.
LEMMA MinedKeeps ==
  ASSUME LedgerInv, NEW from \in Owners, NEW to, NEW amount,
         NEW tx \in Payments(from, to, amount), NEW hash \in MinedHashes,
         AddTxnMined(from, tx, hash)
  PROVE  LedgerInv'
<1>1. /\ tx # Panicked /\ hash \in MinedHashes \ DOMAIN blocks
      /\ AddToStore(hash, BlockOf(from, tx, hash))
      /\ LastHash' = hash /\ index' = index
  BY DEF AddTxnMined
<1>2. PICK block : block = BlockOf(from, tx, hash)
  OBVIOUS
<1>3. PICK cb : cb = CoinbaseTX(from, hash)
  OBVIOUS
<1>4. block.Transactions = << cb, tx >>
  BY <1>2, <1>3 DEF BlockOf
<1>5. /\ DOMAIN blocks' = DOMAIN blocks \cup {hash}
      /\ blocks'[hash] = block
  BY <1>1, <1>2, AddToStoreFacts
<1>6. /\ Draws(tx.Inputs, index)
      /\ tx.Outputs \in Seq(ToSet(tx.Outputs)) /\ tx.Outputs # <<>>
      /\ HashID(tx) \notin NewCoinbases(blocks')
  BY <1>1, PaymentFits DEF LedgerInv
<1>7. cb.Outputs \in Seq(ToSet(cb.Outputs)) /\ HashID(cb) \notin NewCoinbases(blocks')
  <2>1. PICK o : cb.Outputs = <<o>>
    BY <1>3 DEF CoinbaseTX
  <2> QED BY <1>3, <1>5, <2>1, OneIsList, CoinbaseIsKnown
<1>8. block.Transactions \in Seq(ToSet(block.Transactions)) /\ ToSet(block.Transactions) = {cb, tx}
  <2>1. PICK s : s = << cb, tx >>
    OBVIOUS
  <2>2. s \in Seq({cb, tx}) /\ Len(s) = 2 /\ s[1] = cb /\ s[2] = tx
    BY <2>1
  <2>3. s \in Seq(ToSet(s))
    BY <2>2, ListOf
  <2>4. ToSet(s) = {cb, tx}
    BY <2>2, Members
  <2> QED BY <1>4, <2>1, <2>3, <2>4
<1>9. RecordsInv' /\ NewCoinbases(blocks') \subseteq NewCoinbases(blocks)
  BY <1>1, <1>2, <1>6, <1>7, <1>8, StoreGrows DEF LedgerInv
<1>10. IndexInv'
  BY <1>1, <1>9 DEF LedgerInv, IndexInv
<1>11. UpdateInv'
  <2>1. HashID(cb) \notin DOMAIN index
    <3>1. HashID(cb) \in NewCoinbases(blocks)
      BY <1>1, <1>3 DEF NewCoinbases
    <3> QED BY <3>1 DEF LedgerInv, IndexInv
  <2>2. Updates(from, tx)'
    BY <1>1, <1>3, <1>4, <1>5, <1>6, <2>1 DEF Updates
  <2> QED BY <2>2 DEF UpdateInv
<1> QED BY <1>9, <1>10, <1>11 DEF LedgerInv

\* What an update that is due comes to.
LEMMA DueUpdateGoesWell ==
  ASSUME LedgerInv, step = "update"
  PROVE  LET x == UpdateIndex(index, blocks[LastHash])
         IN  /\ x # {}
             /\ \A after \in x : /\ IsFiniteSet(DOMAIN after) /\ Entries(after)
                                 /\ \A id \in DOMAIN after : id \notin NewCoinbases(blocks)
<1>0. PICK from \in Owners : \E tx : Updates(from, tx)
  BY DEF LedgerInv, UpdateInv
<1>1. PICK tx : Updates(from, tx)
  BY <1>0
<1>2. PICK cb : cb = CoinbaseTX(from, LastHash)
  OBVIOUS
<1>3. PICK x : x = UpdateIndex(index, blocks[LastHash])
  OBVIOUS
<1>4. /\ x # {}
      /\ \A after \in x : /\ DOMAIN after \subseteq DOMAIN index \cup {HashID(cb), HashID(tx)}
                          /\ Entries(after)
  BY <1>1, <1>2, <1>3, UpdateGoesWell DEF Updates, LedgerInv, IndexInv
<1>5. HashID(cb) \notin NewCoinbases(blocks) /\ HashID(tx) \notin NewCoinbases(blocks)
  <2>1. LastHash \in DOMAIN blocks
    BY <1>1 DEF Updates
  <2>2. HashID(cb) \notin NewCoinbases(blocks)
    BY <1>2, <2>1, CoinbaseIsKnown
  <2>3. tx \in Recorded(blocks)
    <3>1. blocks[LastHash].Transactions = << CoinbaseTX(from, LastHash), tx >>
      BY <1>1 DEF Updates
    <3>2. tx \in ToSet(blocks[LastHash].Transactions)
      <4>1. PICK s : s = blocks[LastHash].Transactions
        OBVIOUS
      <4>2. 2 \in DOMAIN s /\ s[2] = tx
        BY <3>1, <4>1
      <4> QED BY <4>1, <4>2 DEF ToSet
    <3> QED BY <2>1, <3>2 DEF Recorded
  <2> QED BY <2>2, <2>3 DEF LedgerInv, RecordsInv
<1>6. IsFiniteSet(DOMAIN index \cup {HashID(cb), HashID(tx)})
  <2>1. IsFiniteSet(DOMAIN index \cup {HashID(cb)})
    BY FS_AddElement DEF LedgerInv, IndexInv
  <2>2. IsFiniteSet((DOMAIN index \cup {HashID(cb)}) \cup {HashID(tx)})
    BY <2>1, FS_AddElement
  <2>3. (DOMAIN index \cup {HashID(cb)}) \cup {HashID(tx)} = DOMAIN index \cup {HashID(cb), HashID(tx)}
    OBVIOUS
  <2> QED BY <2>2, <2>3
<1>7. ASSUME NEW after \in x
      PROVE  /\ IsFiniteSet(DOMAIN after) /\ Entries(after)
             /\ \A id \in DOMAIN after : id \notin NewCoinbases(blocks)
  <2>1. DOMAIN after \subseteq DOMAIN index \cup {HashID(cb), HashID(tx)} /\ Entries(after)
    BY <1>4
  <2>2. IsFiniteSet(DOMAIN after)
    BY <1>6, <2>1, FS_Subset
  <2> QED BY <1>5, <2>1, <2>2 DEF LedgerInv, IndexInv
<1> QED BY <1>3, <1>4, <1>7

\* An update that goes well leaves an index to draw from.
LEMMA UpdateKeeps ==
  ASSUME LedgerInv, AddTxnUpdate
  PROVE  LedgerInv'
<1>1. step = "update" /\ UNCHANGED blocks /\ step' = "idle"
  BY DEF AddTxnUpdate
<1>2. PICK x : x = UpdateIndex(index, blocks[LastHash])
  OBVIOUS
<1>3. index' \in x
  BY <1>1, <1>2, DueUpdateGoesWell DEF AddTxnUpdate
<1>4. IndexInv'
  BY <1>1, <1>2, <1>3, DueUpdateGoesWell DEF IndexInv
<1>5. RecordsInv' /\ UpdateInv'
  BY <1>1 DEF LedgerInv, RecordsInv, UpdateInv
<1> QED BY <1>4, <1>5 DEF LedgerInv

\* It holds at first.
LEMMA LedgerInvInit == Init => LedgerInv
<1> SUFFICES ASSUME Init PROVE LedgerInv
  OBVIOUS
<1>1. DOMAIN blocks = {} /\ DOMAIN index = {} /\ step = "down"
  BY DEF Init
<1>2. Recorded(blocks) = {}
  BY <1>1 DEF Recorded
<1> QED BY <1>1, <1>2, FS_EmptySet
         DEF LedgerInv, RecordsInv, WellMade, IndexInv, Entries, UpdateInv

\* Every step keeps it.
LEMMA LedgerInvStep == LedgerInv /\ TypeOK /\ [Next]_vars => LedgerInv'
<1> SUFFICES ASSUME LedgerInv, TypeOK, [Next]_vars PROVE LedgerInv'
  OBVIOUS
<1>1. CASE LoadBlockchain
  BY <1>1, SameIndexKeeps DEF LoadBlockchain, AfterLoad
<1>2. CASE ReindexDelete \/ ReindexFill
  BY <1>2, ReindexKeeps
<1>3. CASE Reindex
  BY <1>3, SameIndexKeeps DEF Reindex, store
<1>4. CASE Crash
  BY <1>4, SameIndexKeeps DEF Crash, store
<1>5. CASE AddTxn
  <2>1. PICK from \in Owners, to \in Owners, amount \in Amounts :
          \E tx \in Payments(from, to, amount) :
            \/ AddTxnRefused(tx) \/ AddTxnNotMined(tx)
            \/ \E hash \in MinedHashes : AddTxnMined(from, tx, hash)
    BY <1>5 DEF AddTxn
  <2>2. PICK tx \in Payments(from, to, amount) :
            \/ AddTxnRefused(tx) \/ AddTxnNotMined(tx)
            \/ \E hash \in MinedHashes : AddTxnMined(from, tx, hash)
    BY <2>1
  <2>3. CASE AddTxnRefused(tx) \/ AddTxnNotMined(tx)
    BY <2>3, SameIndexKeeps DEF AddTxnRefused, AddTxnNotMined, store
  <2>4. CASE \E hash \in MinedHashes : AddTxnMined(from, tx, hash)
    BY <2>4, MinedKeeps
  <2> QED BY <2>2, <2>3, <2>4
<1>6. CASE AddTxnUpdate
  BY <1>6, UpdateKeeps
<1>7. CASE ReceiveBlock
  <2>1. PICK hash \in DOMAIN PeerBlocks :
          \/ \E moreInTransit \in BOOLEAN : HandleBlock(hash, moreInTransit)
          \/ HandleBlockPanics(hash)
    BY <1>7 DEF ReceiveBlock
  <2>2. CASE HandleBlockPanics(hash)
    BY <2>2, SameIndexKeeps DEF HandleBlockPanics, store
  <2>3. ASSUME NEW more \in BOOLEAN, HandleBlock(hash, more) PROVE LedgerInv'
    BY <2>3, SameIndexKeeps DEF HandleBlock
  <2> QED BY <2>1, <2>2, <2>3
<1>8. CASE UNCHANGED vars
  <2>1. CASE step = "update"
    BY <1>8, <2>1 DEF vars, LedgerInv, RecordsInv, IndexInv, UpdateInv, Updates
  <2>2. CASE step # "update"
    BY <1>8, <2>2, SameIndexKeeps DEF vars
  <2> QED BY <2>1, <2>2
<1> QED BY <1>1, <1>2, <1>3, <1>4, <1>5, <1>6, <1>7, <1>8 DEF Next

\* UTXOSet.Update finds an entry for every input of the block just mined,
\* whatever crashes and blocks of peers there were, and it leaves an index that
\* the next payment can be made of (utxo.go, Update).
THEOREM UpdatesFindTheirInputs == Spec => []UpdateFindsItsInputs
<1>1. LedgerInv => UpdateFindsItsInputs
  BY DueUpdateGoesWell DEF UpdateFindsItsInputs
<1>2. TypeInv => TypeOK
  BY DEF TypeInv
<1> QED BY <1>1, <1>2, TypeInvInit, TypeInvStep, LedgerInvInit, LedgerInvStep, PTL DEF Spec

----------------------------------------------------------------------------
(* Part 5: FindUTXO, on any branch.                                         *)

\* The backward pass finds what is unspent by definition.
LEMMA BackwardPassIsExact ==
  ASSUME NEW t, IsFiniteSet(DOMAIN blocks), Nil \notin DOMAIN blocks, WellMade(blocks),
         IdsAreNew(TransactionsFrom(blocks, t))
  PROVE  FindUTXO(blocks, t) = UnspentByDefinition(t)
<1>1. PICK txs : txs = TransactionsFrom(blocks, t)
  OBVIOUS
<1>2. txs \in Seq(Recorded(blocks))
  BY <1>1, BranchIsRecorded
<1>3. PICK n \in Nat : n = Len(txs) /\ DOMAIN txs = 1..n /\ \A i \in 1..n : txs[i] \in Recorded(blocks)
  BY <1>2
<1> DEFINE drop(i) == { o[2] : o \in { p \in SpentByNewer(txs, i) : p[1] = HashID(txs[i]) } }
           left == [i \in DOMAIN txs |-> WithoutPositions(txs[i].Outputs, drop(i))]
           ids == { HashID(txs[i]) : i \in { j \in DOMAIN txs : left[j] # <<>> } }
           seqs(id) == [i \in DOMAIN txs |-> IF HashID(txs[i]) = id THEN left[i] ELSE <<>>]
           found == [id \in ids |-> FlattenSeq(seqs(id))]
           spent == UNION { OutPoints(tx) : tx \in ToSet(txs) }
           kept(id) == WithoutPositions(id.Outputs, { o[2] : o \in { p \in spent : p[1] = id } })
           unspent == { id \in { HashID(tx) : tx \in ToSet(txs) } : kept(id) # <<>> }
<1>4. FindUTXO(blocks, t) = found
  BY <1>1 DEF FindUTXO
<1>5. UnspentByDefinition(t) = [id \in unspent |-> kept(id)]
  BY <1>1 DEF UnspentByDefinition
<1>6. \A x : x \in ToSet(txs) <=> \E i \in 1..n : x = txs[i]
  BY <1>2, <1>3, Members
<1>7. ASSUME NEW i \in 1..n
      PROVE  left[i] = kept(HashID(txs[i]))
  <2>1. PICK id : id = HashID(txs[i])
    OBVIOUS
  <2>2. ASSUME NEW p, p[1] = id PROVE p \in SpentByNewer(txs, i) <=> p \in spent
    <3>1. ASSUME NEW j \in 1..(i - 1), p \in OutPoints(txs[j]) PROVE p \in spent
      <4>1. txs[j] \in ToSet(txs)
        BY <1>3, <1>6
      <4> QED BY <3>1, <4>1
    <3>2. ASSUME p \in spent PROVE \E j \in 1..(i - 1) : p \in OutPoints(txs[j])
      <4>1. PICK tx \in ToSet(txs) : p \in OutPoints(tx)
        BY <3>2
      <4>2. PICK j \in 1..n : tx = txs[j]
        BY <1>6
      <4>3. ~(i <= j)
        BY <1>1, <1>3, <2>1, <2>2, <4>1, <4>2 DEF IdsAreNew
      <4> QED BY <4>1, <4>2, <4>3
    <3> QED BY <3>1, <3>2 DEF SpentByNewer
  <2>3. drop(i) = { o[2] : o \in { p \in spent : p[1] = id } }
    <3>1. { p \in SpentByNewer(txs, i) : p[1] = id } = { p \in spent : p[1] = id }
      <4> HIDE DEF spent
      <4> QED BY <2>2
    <3> HIDE DEF spent
    <3> QED BY <2>1, <3>1
  <2>4. id.Outputs = txs[i].Outputs
    BY <2>1 DEF HashID
  <2>5. left[i] = WithoutPositions(txs[i].Outputs, drop(i))
    BY <1>3
  <2> HIDE DEF left, drop, spent
  <2> QED BY <2>1, <2>3, <2>4, <2>5
<1>8. ids = unspent
  <2>1. ASSUME NEW id \in ids PROVE id \in unspent
    <3>1. PICK i \in 1..n : id = HashID(txs[i]) /\ left[i] # <<>>
      BY <1>3
    <3>2. txs[i] \in ToSet(txs) /\ kept(id) # <<>>
      <4> HIDE DEF left, kept
      <4> QED BY <1>6, <1>7, <3>1
    <3> HIDE DEF kept
    <3> QED BY <3>1, <3>2
  <2>2. ASSUME NEW id \in unspent PROVE id \in ids
    <3>1. PICK tx \in ToSet(txs) : id = HashID(tx) /\ kept(id) # <<>>
      <4> HIDE DEF kept
      <4> QED OBVIOUS
    <3>2. PICK i \in 1..n : tx = txs[i]
      BY <1>6
    <3>3. left[i] # <<>>
      <4> HIDE DEF left, kept
      <4> QED BY <1>7, <3>1, <3>2
    <3> HIDE DEF left, kept
    <3> QED BY <1>3, <3>1, <3>2, <3>3
  <2> HIDE DEF ids, unspent
  <2> QED BY <2>1, <2>2
<1>9. ASSUME NEW id \in ids PROVE FlattenSeq(seqs(id)) = kept(id)
  <2>1. PICK m \in 1..n : id = HashID(txs[m])
    BY <1>3
  <2>2. PICK s : s = seqs(id)
    OBVIOUS
  <2>3. DOMAIN s = 1..n /\ \A i \in 1..n : s[i] = IF HashID(txs[i]) = id THEN left[i] ELSE <<>>
    BY <1>3, <2>2
  <2> DEFINE X == UNION { ToSet(tx.Outputs) : tx \in Recorded(blocks) }
  <2>4. ASSUME NEW i \in 1..n PROVE left[i] \in Seq(X)
    <3>1. PICK u : u = txs[i].Outputs
      OBVIOUS
    <3>2. u \in Seq(ToSet(u)) /\ ToSet(u) \subseteq X
      BY <1>3, <3>1 DEF WellMade
    <3>3. u \in Seq(X)
      BY <3>2
    <3>4. PICK P : P = { j \in DOMAIN u : j - 1 \notin drop(i) }
      OBVIOUS
    <3>5. left[i] = Picked(u, P)
      BY <1>3, <3>1, <3>4 DEF WithoutPositions
    <3> HIDE DEF X, left, drop
    <3>6. Picked(u, P) \in Seq(X)
      BY <3>3, PickedKeeps
    <3> QED BY <3>5, <3>6
  <2>5. s \in Seq(Seq(X)) /\ Len(s) = n
    <3> HIDE DEF X, left
    <3>1. <<>> \in Seq(X)
      OBVIOUS
    <3>2. \A i \in 1..n : s[i] \in Seq(X)
      BY <2>3, <2>4, <3>1
    <3>3. s = [i \in 1..n |-> s[i]]
      BY <1>3, <2>2
    <3> QED BY <3>2, <3>3
  <2>6. \A i \in 1..n : i # m => s[i] = <<>>
    <3>1. \A i \in 1..n : HashID(txs[i]) = id => i = m
      BY <1>1, <1>3, <2>1 DEF IdsAreNew
    <3> HIDE DEF left
    <3> QED BY <2>3, <3>1
  <2>7. FlattenSeq(s) = s[m]
    <3> HIDE DEF X
    <3> QED BY <2>5, <2>6, FlattenKeeps DEF FlatWell
  <2>8. s[m] = left[m] /\ left[m] = kept(id)
    <3> HIDE DEF left, kept
    <3> QED BY <1>7, <2>1, <2>3
  <2> HIDE DEF left, kept, seqs
  <2> QED BY <2>2, <2>7, <2>8
<1>10. found = [id \in unspent |-> kept(id)]
  <2> HIDE DEF ids, unspent, seqs, kept
  <2> QED BY <1>8, <1>9
<1> HIDE DEF found, unspent, kept
<1> QED BY <1>4, <1>5, <1>10

\* A Reindex finds exactly the unspent outputs, on whatever branch the tip is, as
\* long as no payment on it was made twice to the letter (utxo.go, Reindex).
THEOREM ReindexesAreExact == Spec => ReindexIsExact
<1> DEFINE Exact == /\ step = "fill" /\ step' = "idle"
                    /\ IdsAreNew(TransactionsFrom(blocks, LastHash))
                    => index' = UnspentByDefinition(LastHash)
<1>1. LedgerInv /\ TypeOK /\ [Next]_vars => [Exact]_vars
  <2> SUFFICES ASSUME LedgerInv, TypeOK, [Next]_vars, step = "fill", step' = "idle",
                      IdsAreNew(TransactionsFrom(blocks, LastHash))
               PROVE  index' = UnspentByDefinition(LastHash)
    OBVIOUS
  <2>1. ReindexFill
    <3>1. ~LoadBlockchain /\ ~ReindexDelete /\ ~Reindex /\ ~AddTxnUpdate
      BY DEF LoadBlockchain, ReindexDelete, Reindex, AddTxnUpdate
    <3>2. ~Crash
      BY DEF Crash
    <3>3. ~AddTxn
      BY DEF AddTxn, AddTxnRefused, AddTxnNotMined, AddTxnMined
    <3>4. ~ReceiveBlock
      BY DEF ReceiveBlock, HandleBlock, HandleBlockPanics
    <3>5. ~UNCHANGED vars
      BY DEF vars
    <3> QED BY <3>1, <3>2, <3>3, <3>4, <3>5 DEF Next
  <2>2. index' = FindUTXO(blocks, LastHash)
    BY <2>1 DEF ReindexFill
  <2>3. Nil \notin DOMAIN blocks
    BY HashAssumption DEF TypeOK
  <2> QED BY <2>2, <2>3, BackwardPassIsExact DEF LedgerInv, RecordsInv
<1>2. TypeInv => TypeOK
  BY DEF TypeInv
<1> QED BY <1>1, <1>2, TypeInvInit, TypeInvStep, LedgerInvInit, LedgerInvStep, PTL
        DEF Spec, ReindexIsExact
=============================================================================
