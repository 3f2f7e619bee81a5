----------------------------- MODULE TwoChains ------------------------------
(***************************************************************************)
(* The two Blockchain objects of a process over one store.  Run loads the  *)
(* first into cache; startNetworkServer loads the second, replaces the     *)
(* first in cache and gives it to the network server.  Each has a LastHash *)
(* of its own, from which it iterates.  A request works on the object that *)
(* it found in cache, however long ago.                                    *)
(*                                                                         *)
(* The store is opened by one session at a time (Sessions), so that what a *)
(* session does with it is one step here; the tip key is one key, as in    *)
(* the runs of Ledger that mine.  The index is left out: it is rebuilt     *)
(* from the LastHash of the object at hand.                                *)
(*                                                                         *)
(* Blocks of peers come in any order, most often the newest first: a store *)
(* may have a block and not its parent.                                    *)
(***************************************************************************)
EXTENDS Chain

CONSTANTS
  Requests,     \* goroutines of the HTTP server
  GenesisHash,
  NewHashes     \* hashes of the blocks made here or by peers (bounds them)

ASSUME TwoChainsAssumption ==
  /\ GenesisHash \notin NewHashes
  /\ Nil \notin NewHashes \cup {GenesisHash}

VARIABLES
  blocks,    \* hash -> block: every block made so far, here or by a peer
  stored,    \* stored: the hashes of the blocks in the store
  lh,        \* stored: the hash of the tip
  LastHash,  \* object -> its LastHash, Nil before it is loaded
  cache,     \* the object in cache, 0 for none
  holds,     \* request -> the object it works on, 0 for none
  printed,   \* history: the hashes in the last answer of /printchain
  tips,      \* history: the hashes that were the tip
  orphans    \* history: the hashes that were stored before their parents

store == <<blocks, stored, lh>>
history == <<printed, tips, orphans>>
vars == <<store, LastHash, cache, holds, history>>

Objects == {1, 2}
Hashes == {GenesisHash} \cup NewHashes

Init ==
  /\ blocks = [h \in {GenesisHash} |-> [PrevHash |-> Nil, Height |-> 0]]
  /\ stored = {GenesisHash}
  /\ lh = GenesisHash
  /\ LastHash = [o \in Objects |-> Nil]
  /\ cache = 0
  /\ holds = [r \in Requests |-> 0]
  /\ printed = <<GenesisHash>>
  /\ tips = {GenesisHash}
  /\ orphans = {}
----------------------------------------------------------------------------
\* LoadBlockchain: an object that begins at the stored tip.
Load(o) ==
  /\ LastHash[o] = Nil
  /\ o = 2 => cache = 1
  /\ LastHash' = [LastHash EXCEPT ![o] = lh]
  /\ UNCHANGED <<store, cache, holds, history>>

\* The assignment to cache, after LoadBlockchain has closed the store.
Cache(o) ==
  /\ LastHash[o] # Nil /\ cache = o - 1
  /\ cache' = o
  /\ UNCHANGED <<store, LastHash, holds, history>>

\* Mutant: the handlers are given the chain that Run loaded.
GetBlockchainOfRun(r) ==
  /\ holds[r] = 0 /\ cache # 0
  /\ holds' = [holds EXCEPT ![r] = 1]
  /\ UNCHANGED <<store, LastHash, cache, history>>

GetBlockchain(r) ==
  /\ holds[r] = 0 /\ cache # 0
  /\ holds' = [holds EXCEPT ![r] = cache]
  /\ UNCHANGED <<store, LastHash, cache, history>>

RequestEnds(r) == holds' = [holds EXCEPT ![r] = 0]

\* Somebody makes a block on top of parent.
MakesBlock(hash, parent) ==
  /\ hash \in NewHashes \ DOMAIN blocks
  /\ blocks' = [h \in DOMAIN blocks \cup {hash} |->
                  IF h = hash
                  THEN [PrevHash |-> parent, Height |-> blocks[parent].Height + 1]
                  ELSE blocks[h]]

\* Mutant: the object's own LastHash is mined on.
MinesOnLastHash(o) == LastHash[o]

\* MineBlock reads the tip from the store, not from the object.
MinesOn(o) == lh

\* Mutant: the object is left at the hash it began with.
MovedToNot(o, hash) == LastHash

MovedTo(o, hash) == [LastHash EXCEPT ![o] = hash]

\* The block becomes the tip, through object o.
BecomesTip(o, hash) ==
  /\ lh' = hash
  /\ LastHash' = MovedTo(o, hash)
  /\ tips' = tips \cup {hash}

MineBlock(o, hash) ==
  /\ MakesBlock(hash, MinesOn(o))
  /\ stored' = stored \cup {hash}
  /\ BecomesTip(o, hash)
  /\ UNCHANGED <<cache, printed, orphans>>

\* /addtxn with minenow.
AddTXN(r, hash) ==
  /\ holds[r] # 0
  /\ MineBlock(holds[r], hash)
  /\ RequestEnds(r)

\* The network server mines, through the object it was given.
MineTx(hash) ==
  /\ cache = 2
  /\ MineBlock(2, hash)
  /\ UNCHANGED holds

\* GetAllBlocks goes from LastHash down to the first block that is not stored.
PrintChain(r) ==
  /\ holds[r] # 0
  /\ printed' = Iterate([h \in stored |-> blocks[h]], LastHash[holds[r]])
  /\ RequestEnds(r)
  /\ UNCHANGED <<store, LastHash, cache, tips, orphans>>

\* Any other request, or one that fails.
OtherRequest(r) ==
  /\ holds[r] # 0
  /\ RequestEnds(r)
  /\ UNCHANGED <<store, LastHash, cache, history>>

\* A peer makes a block, on one of its own or of this node's.
PeerMines(hash, parent) ==
  /\ MakesBlock(hash, parent)
  /\ UNCHANGED <<stored, lh, LastHash, cache, holds, history>>

\* AddBlock puts a block into the store, whether or not its parent is there.
AddsBlock(hash) ==
  /\ hash \in DOMAIN blocks \ stored
  /\ stored' = stored \cup {hash}
  /\ orphans' = orphans \cup { h \in {hash} : blocks[h].PrevHash \notin stored }
  /\ UNCHANGED blocks

\* Mutant: the object moves to any block that comes.
HandleBlockMovesAlways(hash) ==
  /\ cache = 2
  /\ AddsBlock(hash)
  /\ LastHash' = MovedTo(2, hash)
  /\ IF blocks[hash].Height > blocks[lh].Height
     THEN lh' = hash /\ tips' = tips \cup {hash}
     ELSE UNCHANGED <<lh, tips>>
  /\ UNCHANGED <<cache, holds, printed>>

\* AddBlock of HandleBlock, through the object of the network server.
HandleBlock(hash) ==
  /\ cache = 2
  /\ AddsBlock(hash)
  /\ IF blocks[hash].Height > blocks[lh].Height
     THEN BecomesTip(2, hash)
     ELSE UNCHANGED <<lh, LastHash, tips>>
  /\ UNCHANGED <<cache, holds, printed>>

\* The process ends and is started again.
Restart ==
  /\ LastHash[1] # Nil
  /\ LastHash' = [o \in Objects |-> Nil]
  /\ cache' = 0
  /\ holds' = [r \in Requests |-> 0]
  /\ UNCHANGED <<store, history>>

Next ==
  \/ \E o \in Objects : Load(o) \/ Cache(o)
  \/ \E r \in Requests :
       \/ GetBlockchain(r) \/ PrintChain(r) \/ OtherRequest(r)
       \/ \E hash \in NewHashes : AddTXN(r, hash)
  \/ \E hash \in NewHashes :
       \/ MineTx(hash) \/ HandleBlock(hash)
       \/ \E parent \in DOMAIN blocks : PeerMines(hash, parent)
  \/ Restart

Spec == Init /\ [][Next]_vars
----------------------------------------------------------------------------
\* Types, and in which order the objects come into being.
TypeOK ==
  /\ DOMAIN blocks \subseteq Hashes
  /\ \A h \in DOMAIN blocks : /\ blocks[h].Height \in Nat
                              /\ blocks[h].PrevHash \in DOMAIN blocks \cup {Nil}
  /\ stored \subseteq DOMAIN blocks
  /\ lh \in stored
  /\ LastHash \in [Objects -> stored \cup {Nil}]
  /\ cache \in {0} \cup Objects
  /\ cache # 0 => LastHash[1] # Nil
  /\ cache = 2 => LastHash[2] # Nil
  /\ LastHash[2] # Nil => cache # 0
  /\ holds \in [Requests -> 0 .. cache]
  /\ tips \subseteq stored

\* Whichever object a block came through, the tip is the highest block stored:
\* an object that lags behind never forks the chain (chain.go, MineBlock and
\* AddBlock).
TipIsHighest == \A h \in stored : blocks[h].Height <= blocks[lh].Height

\* One of the objects is at the tip: the one that moved it last, or the one
\* that read it last.
OneIsCurrent == LastHash[1] # Nil => \E o \in Objects : LastHash[o] = lh

\* The second object is at the tip, and no request is left on the first.
Settled == cache = 2 /\ LastHash[2] = lh /\ \A r \in Requests : holds[r] # 1

\* From then on it stays there, until the process ends
\* (blockchain_server.go, LoadBlockchain and GetBlockchain).
SettledForGood == [][Settled => Settled' \/ cache' = 0]_vars

\* However far the object of a request lags behind, and in whatever order blocks
\* came, an answer of /printchain goes down from a hash that was the tip, never
\* from a branch that was not the highest; and it misses a block only below one
\* that was stored before its parent (chain.go, AddBlock and GetAllBlocks).
PrintedFromATip ==
  /\ printed[1] \in tips
  /\ \A i \in 1..(Len(printed) - 1) : printed[i + 1] = blocks[printed[i]].PrevHash
  /\ printed[Len(printed)] \in {GenesisHash} \cup orphans
=============================================================================
