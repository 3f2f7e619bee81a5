------------------------------ MODULE Network ------------------------------
(***************************************************************************)
(* The network servers of several nodes: versions, inventories, blocks and *)
(* transactions, the memory pools and mining from them.                    *)
(*                                                                         *)
(* A message is one TCP connection, and a connection is one goroutine of   *)
(* the receiver.  conns holds both: connections nobody has handled yet (at *)
(* "new") and handlers between two of their steps (at the next one).  A    *)
(* handler keeps its node's store open from its first step to its last;    *)
(* one that finds the store open panics, and that ends the process.        *)
(*                                                                         *)
(* A block is its hash and a transaction its id; what they hold is looked  *)
(* up in blocks and in the constants.  Both spellings of the tip key are   *)
(* one here (see Ledger), or no block would ever be mined.                 *)
(***************************************************************************)
EXTENDS Chain, Bags

CONSTANTS
  Nodes, NODE_ZERO,
  Txs,          \* payments made with /addtxn
  Source,       \* payment -> the transaction whose output it spends
  Origin,       \* payment -> the node it is posted to
  Verifies,     \* the payments whose signature Verify accepts
  GenesisTx,    \* the coinbase of genesis
  EmptyTx,      \* a Transaction{} with no fields set
  GenesisHash,
  Before,       \* what may have happened before: blocks, stored, tip, posts
  MinedHashes,  \* the blocks that may be mined (bounds them)
  MaxStarts,    \* node -> how often it starts (a bound)
  MaxPosts,     \* payment -> how often it is posted (a bound)
  NowTxs,       \* the payments that may be posted with minenow (a bound)
  Mortal        \* the nodes that may be killed from outside (a bound)

ASSUME NodeAssumption ==
  NODE_ZERO \in Nodes /\ Mortal \subseteq Nodes /\ MaxStarts \in [Nodes -> Nat]

ASSUME TxAssumption ==
  /\ GenesisTx \notin Txs /\ EmptyTx \notin Txs \cup {GenesisTx}
  /\ Source \in [Txs -> Txs \cup {GenesisTx}]
  /\ Origin \in [Txs -> Nodes]
  /\ Verifies \subseteq Txs
  /\ MaxPosts \in [Txs -> Nat]
  /\ NowTxs \subseteq Txs

\* Before, every node has the chain of its tip and what else it was sent, with
\* its ancestors, from genesis on; no payment of Txs is in a block, though it
\* may have been posted to a network that was not there.
BeforeAssumption ==
  \A old \in Before :
    /\ GenesisHash \in DOMAIN old.blocks /\ IsFiniteSet(DOMAIN old.blocks)
    /\ old.blocks[GenesisHash] =
         [PrevHash |-> Nil, Height |-> 0, Miner |-> Nil, Txs |-> {GenesisTx}]
    /\ Nil \notin DOMAIN old.blocks \cup MinedHashes
    /\ MinedHashes \cap DOMAIN old.blocks = {}
    /\ old.stored \in [Nodes -> SUBSET DOMAIN old.blocks]
    /\ \A h \in DOMAIN old.blocks :
         /\ old.blocks[h].Height \in Nat
         /\ h # GenesisHash =>
              /\ old.blocks[h].PrevHash \in DOMAIN old.blocks
              /\ old.blocks[h].Height = old.blocks[old.blocks[h].PrevHash].Height + 1
              /\ old.blocks[h].Txs = {}
         /\ \E n \in Nodes : h \in old.stored[n]
    /\ old.tip \in [Nodes -> DOMAIN old.blocks]
    /\ \A n \in Nodes :
         /\ old.tip[n] \in old.stored[n]
         /\ \A h \in old.stored[n] :
              /\ old.blocks[h].Height <= old.blocks[old.tip[n]].Height
              /\ old.blocks[h].PrevHash \in old.stored[n] \cup {Nil}
    /\ old.posts \in [Txs -> Nat]
    /\ \A t \in Txs : old.posts[t] \in 0..MaxPosts[t]

ASSUME BeforeAssumption

VARIABLES
  blocks,   \* hash -> block: every block mined so far, wherever it is stored
  stored,   \* node -> the hashes in its store
  tip,      \* node -> the newest hash, in the store and in LastHash
  status,   \* node -> "down", "starting" (listening) or "up" (accepting)
  starts,   \* node -> how often it has started
  known,    \* node -> KnownNodes
  transit,  \* node -> blocksInTransit
  pool,     \* node -> memoryPool
  conns,    \* the bag of connections
  posts,    \* history: payment -> how often it was posted
  offered,  \* history: payment -> the nodes NODE_ZERO has offered it to
  misled    \* history: the nodes whose blocksInTransit went wrong

storage == <<blocks, stored, tip>>
memory == <<known, transit, pool>>
history == <<posts, offered, misled>>
vars == <<storage, status, starts, memory, conns, history>>

Init ==
  /\ \E old \in Before :
       /\ blocks = old.blocks
       /\ stored = old.stored
       /\ tip = old.tip
       /\ posts = old.posts
  /\ status = [n \in Nodes |-> "down"]
  /\ starts = [n \in Nodes |-> 0]
  /\ known = [n \in Nodes |-> {NODE_ZERO}]
  /\ transit = [n \in Nodes |-> <<>>]
  /\ pool = [n \in Nodes |-> {}]
  /\ conns = EmptyBag
  /\ offered = [t \in Txs |-> {}]
  /\ misled = {}

----------------------------------------------------------------------------
(* A node's chain.                                                          *)

GetBestHeight(n) == blocks[tip[n]].Height

\* GetBlockHashes: newest first, as far as the store has the ancestors.
GetBlockHashes(n) == Iterate([h \in stored[n] |-> blocks[h]], tip[n])

\* The transactions FindTransaction finds.
TransactionsOf(n) == UNION { blocks[h].Txs : h \in ToSet(GetBlockHashes(n)) }

\* The block goes into n's store.
Store(n, hash) == stored' = [stored EXCEPT ![n] = @ \cup {hash}]

\* MineBlock: a new block of txs on n's tip, stored and the new tip.
MineBlock(n, txs, hash) ==
  /\ hash \in MinedHashes \ DOMAIN blocks
  /\ LET block == [PrevHash |-> tip[n], Height |-> GetBestHeight(n) + 1,
                   Miner |-> n, Txs |-> txs]
     IN  blocks' = [h \in DOMAIN blocks \cup {hash} |->
                      IF h = hash THEN block ELSE blocks[h]]
  /\ Store(n, hash)
  /\ tip' = [tip EXCEPT ![n] = hash]

\* Mutant: the block that came last is the tip.
BecomesTipAlways(n, hash) == TRUE

\* AddBlock: a new block becomes the tip if it is higher.
BecomesTip(n, hash) == blocks[hash].Height > GetBestHeight(n)

----------------------------------------------------------------------------
(* Connections.                                                             *)

\* Handlers that have their node's store open.
OpenStages == {"close", "known", "trim", "mined", "again"}

\* Mutant: badger does not lock its directory.
IsOpenNot(n) == FALSE

IsOpen(n) ==
  \/ status[n] = "starting"
  \/ \E c \in DOMAIN conns : c.node = n /\ c.at \in OpenStages

Listening(n) == status[n] # "down"

\* A connection and its message; a field the command does not have is empty.
NewConn(to, cmd, from, height, kind, items, id) ==
  [node |-> to, at |-> "new", cmd |-> cmd, from |-> from,
   BestHeight |-> height, Type |-> kind, Items |-> items, ID |-> id]

SendVersion(to, from, height) ==
  NewConn(to, "version", from, height, "", <<>>, Nil)
SendGetBlocks(to, from) == NewConn(to, "getblocks", from, 0, "", <<>>, Nil)
SendInv(to, from, kind, items) == NewConn(to, "inv", from, 0, kind, items, Nil)
SendGetData(to, from, kind, id) == NewConn(to, "getdata", from, 0, kind, <<>>, id)
SendBlock(to, from, hash) == NewConn(to, "block", from, 0, "", <<>>, hash)
SendTx(to, from, tx) == NewConn(to, "tx", from, 0, "", <<>>, tx)

\* SendData from n: what can be delivered becomes a connection, a receiver that
\* does not listen is dropped from KnownNodes.  (A connection that breaks while
\* it is written panics; that is one of the ends of a process in Killed.)
SendData(n, sent) ==
  known' = [known EXCEPT ![n] = @ \ { m.node : m \in { s \in sent : ~Listening(s.node) } }]

\* c goes on at next (a set of at most one stage), sent goes out.
Proceed(c, next, sent) ==
  conns' = (conns (-) SetToBag({c}))
             (+) SetToBag(next \cup { m \in sent : Listening(m.node) })

At(c, stage) == { [c EXCEPT !.at = stage] }

\* The process of n ends: its memory and its connections are gone, what it
\* sent is on its way, what it stored stays.
ProcessEnds(n) ==
  /\ status' = [status EXCEPT ![n] = "down"]
  /\ known' = [known EXCEPT ![n] = {NODE_ZERO}]
  /\ transit' = [transit EXCEPT ![n] = <<>>]
  /\ pool' = [pool EXCEPT ![n] = {}]
  /\ conns' = LET others == { c \in DOMAIN conns : c.node # n }
              IN  [c \in others |-> conns[c]]
  /\ UNCHANGED <<storage, starts, history>>

----------------------------------------------------------------------------
(* StartServer.                                                             *)

\* Listen, then SendVersion to NODE_ZERO with the store open; NODE_ZERO sends
\* none and accepts at once.
StartServer(n) ==
  /\ status[n] = "down"
  /\ starts[n] < MaxStarts[n]
  /\ starts' = [starts EXCEPT ![n] = @ + 1]
  /\ status' = [status EXCEPT ![n] = IF n = NODE_ZERO THEN "up" ELSE "starting"]
  /\ LET sent == IF n = NODE_ZERO THEN {}
                 ELSE { SendVersion(NODE_ZERO, n, GetBestHeight(n)) }
     IN  /\ SendData(n, sent)
         /\ conns' = conns (+) SetToBag({ m \in sent : Listening(m.node) })
  /\ UNCHANGED <<storage, transit, pool, history>>

\* SendVersion closes the store, Accept begins.
Accept(n) ==
  /\ status[n] = "starting"
  /\ status' = [status EXCEPT ![n] = "up"]
  /\ UNCHANGED <<storage, starts, memory, conns, history>>

\* A signal, a power cut, a request of the HTTP server that has the store open
\* when a handler comes, two goroutines at memoryPool at once, a connection that
\* breaks under SendData.
Killed(n) ==
  /\ n \in Mortal
  /\ Listening(n)
  /\ ProcessEnds(n)

----------------------------------------------------------------------------
(* Blocks.                                                                  *)

\* A handler begins: the connection is accepted, the store free if needed.
Begins(n, c, cmd) == c.node = n /\ c.at = "new" /\ c.cmd = cmd /\ status[n] = "up"

\* The lower node asks for the other's blocks.
HandleVersion(n, c) ==
  /\ Begins(n, c, "version")
  /\ ~IsOpen(n)
  /\ GetBestHeight(n) <= c.BestHeight
  /\ LET sent == IF GetBestHeight(n) < c.BestHeight
                 THEN { SendGetBlocks(c.from, n) } ELSE {}
     IN  SendData(n, sent) /\ Proceed(c, At(c, "known"), sent)
  /\ UNCHANGED <<storage, status, starts, transit, pool, history>>

\* The higher node calls SendVersion, which opens the store it has open.
HandleVersionPanics(n, c) ==
  /\ Begins(n, c, "version")
  /\ GetBestHeight(n) > c.BestHeight
  /\ ProcessEnds(n)

\* HandleVersion's last lines.
AddToKnown(n, c) ==
  /\ c.node = n /\ c.at = "known"
  /\ known' = [known EXCEPT ![n] = @ \cup {c.from}]
  /\ Proceed(c, {}, {})
  /\ UNCHANGED <<storage, status, starts, transit, pool, history>>

HandleGetBlocks(n, c) ==
  /\ Begins(n, c, "getblocks")
  /\ ~IsOpen(n)
  /\ LET sent == { SendInv(c.from, n, "block", GetBlockHashes(n)) }
     IN  SendData(n, sent) /\ Proceed(c, At(c, "close"), sent)
  /\ UNCHANGED <<storage, status, starts, transit, pool, history>>

\* What n does about blocks goes wrong if it is as said.
Misleads(n, wrong) == misled' = misled \cup { m \in {n} : wrong }

\* An inventory replaces a list that is worked on, or its last block has a parent
\* that n lacks.
InventoryMisleads(n, items) ==
  \/ transit[n] # <<>>
  \/ blocks[Last(items)].PrevHash \notin stored[n] \cup {Nil}

\* A block comes before HandleInv has taken it from the list, or from a node that
\* does not have the one that n asks it for next.
BlockMisleads(n, from) ==
  \/ \E d \in DOMAIN conns : d.node = n /\ d.at = "filter"
  \/ transit[n] # <<>> /\ Head(transit[n]) \notin stored[from]

\* Mutant: inventories are left alone while one is worked on.
HandleInvBlockWhenIdle(n, c) ==
  /\ Begins(n, c, "inv") /\ c.Type = "block"
  /\ transit' = [transit EXCEPT ![n] = IF @ = <<>> THEN c.Items ELSE @]
  /\ LET sent == IF transit[n] # <<>> THEN {}
                 ELSE { SendGetData(c.from, n, "block", c.Items[1]) }
     IN  SendData(n, sent) /\ Proceed(c, At(c, "filter"), sent)
  /\ Misleads(n, InventoryMisleads(n, c.Items))
  /\ UNCHANGED <<storage, status, starts, pool, posts, offered>>

\* HandleInv for blocks: what was in transit is replaced, the newest asked for.
HandleInvBlock(n, c) ==
  /\ Begins(n, c, "inv") /\ c.Type = "block"
  /\ transit' = [transit EXCEPT ![n] = c.Items]
  /\ LET sent == { SendGetData(c.from, n, "block", c.Items[1]) }
     IN  SendData(n, sent) /\ Proceed(c, At(c, "filter"), sent)
  /\ Misleads(n, InventoryMisleads(n, c.Items))
  /\ UNCHANGED <<storage, status, starts, pool, posts, offered>>

\* Mutant: what is kept is not put into the new list.
FilterTransitAll(n, c) ==
  /\ c.node = n /\ c.at = "filter"
  /\ transit' = [transit EXCEPT ![n] = <<>>]
  /\ Proceed(c, {}, {})
  /\ UNCHANGED <<storage, status, starts, known, pool, history>>

\* hashes without hash.
Without(hashes, hash) == Picked(hashes, { i \in DOMAIN hashes : hashes[i] # hash })

\* The rest of HandleInv: what it asked for is no longer in transit.
FilterTransit(n, c) ==
  /\ c.node = n /\ c.at = "filter"
  /\ transit' = [transit EXCEPT ![n] = Without(@, c.Items[1])]
  /\ Proceed(c, {}, {})
  /\ UNCHANGED <<storage, status, starts, known, pool, history>>

\* Mutant: the pool is looked up with another encoding of the id.
AnswerMisses(n, c) ==
  IF c.Type = "tx"
  THEN { SendTx(c.from, n, EmptyTx) }
  ELSE { SendBlock(c.from, n, h) : h \in {c.ID} \cap stored[n] }

\* What HandleGetData answers: nothing for an unknown block, an empty
\* transaction for one that is not in the pool.
Answer(n, c) ==
  IF c.Type = "tx"
  THEN { SendTx(c.from, n, IF c.ID \in pool[n] THEN c.ID ELSE EmptyTx) }
  ELSE { SendBlock(c.from, n, h) : h \in {c.ID} \cap stored[n] }

HandleGetData(n, c) ==
  /\ Begins(n, c, "getdata")
  /\ ~IsOpen(n)
  /\ SendData(n, Answer(n, c))
  /\ Proceed(c, At(c, "close"), Answer(n, c))
  /\ UNCHANGED <<storage, status, starts, transit, pool, history>>

\* AddBlock, then the next block in transit is asked for, or Reindex.
HandleBlock(n, c) ==
  /\ Begins(n, c, "block")
  /\ ~IsOpen(n)
  /\ Store(n, c.ID)
  /\ tip' = IF c.ID \notin stored[n] /\ BecomesTip(n, c.ID)
            THEN [tip EXCEPT ![n] = c.ID] ELSE tip
  /\ LET sent == IF transit[n] = <<>> THEN {}
                 ELSE { SendGetData(c.from, n, "block", Head(transit[n])) }
         next == IF transit[n] = <<>> THEN "close" ELSE "trim"
     IN  SendData(n, sent) /\ Proceed(c, At(c, next), sent)
  /\ Misleads(n, BlockMisleads(n, c.from))
  /\ UNCHANGED <<blocks, status, starts, transit, pool, posts, offered>>

\* blocksInTransit[1:], read again after the send.
TrimTransit(n, c) ==
  /\ c.node = n /\ c.at = "trim"
  /\ transit[n] # <<>>
  /\ transit' = [transit EXCEPT ![n] = Tail(@)]
  /\ Proceed(c, {}, {})
  /\ UNCHANGED <<storage, status, starts, known, pool, history>>

\* Another inventory has emptied it: slice bounds out of range.
TrimPanics(n, c) ==
  /\ c.node = n /\ c.at = "trim"
  /\ transit[n] = <<>>
  /\ ProcessEnds(n)

\* The deferred CloseDB.
CloseDB(n, c) ==
  /\ c.node = n /\ c.at = "close"
  /\ Proceed(c, {}, {})
  /\ UNCHANGED <<storage, status, starts, memory, history>>

\* OpenDB while the store is open, by another handler or (at "again") by this.
OpenDBPanics(n, c) ==
  /\ \/ \E cmd \in {"version", "getblocks", "getdata", "block"} : Begins(n, c, cmd)
     \/ c.node = n /\ c.at \in {"mine", "again"}
  /\ IsOpen(n)
  /\ ProcessEnds(n)

----------------------------------------------------------------------------
(* Transactions.                                                            *)

\* POST /addtxn without minenow: a payment from an output on n's chain is sent
\* to NODE_ZERO, if that is there. Posting it again makes the same transaction;
\* whether the index still has the output is left open.
AddTXN(n, t) ==
  /\ status[n] = "up"
  /\ ~IsOpen(n)
  /\ Origin[t] = n
  /\ posts[t] < MaxPosts[t]
  /\ Source[t] \in TransactionsOf(n)
  /\ LET request == NewConn(n, "addtxn", n, 0, "", <<>>, t)
         sent == { SendTx(NODE_ZERO, n, t) }
     IN  /\ SendData(n, sent)
         /\ conns' = conns (+) SetToBag(At(request, "close") \cup
                                        { m \in sent : Listening(m.node) })
  /\ posts' = [posts EXCEPT ![t] = @ + 1]
  /\ UNCHANGED <<storage, status, starts, transit, pool, offered, misled>>

\* POST /addtxn with minenow: n mines the payment itself and tells nobody.
AddTXNNow(n, t, hash) ==
  /\ status[n] = "up"
  /\ ~IsOpen(n)
  /\ Origin[t] = n
  /\ posts[t] < MaxPosts[t]
  /\ t \in NowTxs \cap Verifies
  /\ Source[t] \in TransactionsOf(n)
  /\ MineBlock(n, {t}, hash)
  /\ LET request == NewConn(n, "addtxn", n, 0, "", <<>>, t)
     IN  conns' = conns (+) SetToBag(At(request, "close"))
  /\ posts' = [posts EXCEPT ![t] = @ + 1]
  /\ UNCHANGED <<status, starts, memory, offered, misled>>

\* HandleTx of NODE_ZERO: the pool and an inventory to the others.
HandleTxZero(n, c) ==
  /\ Begins(n, c, "tx") /\ n = NODE_ZERO
  /\ pool' = [pool EXCEPT ![n] = @ \cup {c.ID}]
  /\ LET others == known[n] \ {n, c.from}
         sent == { SendInv(m, n, "tx", <<c.ID>>) : m \in others }
     IN  /\ SendData(n, sent)
         /\ Proceed(c, {}, sent)
         /\ offered' = [offered EXCEPT ![c.ID] = @ \cup others]
  /\ UNCHANGED <<storage, status, starts, transit, posts, misled>>

HandleInvTx(n, c) ==
  /\ Begins(n, c, "inv") /\ c.Type = "tx"
  /\ LET sent == IF c.Items[1] \in pool[n] THEN {}
                 ELSE { SendGetData(c.from, n, "tx", c.Items[1]) }
     IN  SendData(n, sent) /\ Proceed(c, {}, sent)
  /\ UNCHANGED <<storage, status, starts, transit, pool, history>>

\* Mutant: two payments are not enough.
EnoughIsMore(payments) == Cardinality(payments) > 2

Enough(payments) == Cardinality(payments) >= 2

\* HandleTx of the others: with two in the pool MineTx is called.
HandleTx(n, c) ==
  /\ Begins(n, c, "tx") /\ n # NODE_ZERO
  /\ pool' = [pool EXCEPT ![n] = @ \cup {c.ID}]
  /\ Proceed(c, IF Enough(pool'[n]) THEN At(c, "mine") ELSE {}, {})
  /\ UNCHANGED <<storage, status, starts, known, transit, history>>

\* Mutant: a payment whose source is not on the chain is let through.
PoolPanicsNotOnSource(n) ==
  EmptyTx \in pool[n] \/ Cardinality(pool[n] \cap Verifies) > 3

\* VerifyTransaction panics on the empty transaction and on one whose source
\* is not on the chain; a block of more than four has no Merkle tree.
PoolPanics(n) ==
  \/ EmptyTx \in pool[n]
  \/ \E t \in pool[n] \ {EmptyTx} : Source[t] \notin TransactionsOf(n)
  \/ Cardinality(pool[n] \cap Verifies) > 3

MineTxPanics(n, c) ==
  /\ c.node = n /\ c.at = "mine"
  /\ PoolPanics(n)
  /\ ProcessEnds(n)

\* "All Transactions are invalid".
MineTxNothing(n, c) ==
  /\ c.node = n /\ c.at = "mine"
  /\ ~IsOpen(n) /\ ~PoolPanics(n)
  /\ pool[n] \cap Verifies = {}
  /\ Proceed(c, At(c, "close"), {})
  /\ UNCHANGED <<storage, status, starts, memory, history>>

\* MineBlock with the pool's valid transactions and a coinbase; Reindex.
MineTx(n, c, hash) ==
  /\ c.node = n /\ c.at = "mine"
  /\ ~IsOpen(n) /\ ~PoolPanics(n)
  /\ pool[n] \cap Verifies # {}
  /\ MineBlock(n, pool[n] \cap Verifies, hash)
  /\ Proceed(c, { [c EXCEPT !.at = "mined", !.ID = hash] }, {})
  /\ UNCHANGED <<status, starts, memory, history>>

\* Mutant: mining empties the pool.
LeavesPoolAll(n, hash) == pool[n]

LeavesPool(n, hash) == blocks[hash].Txs

\* The rest of MineTx: what was mined leaves the pool, the block is announced,
\* and if the pool is not empty MineTx calls itself.
MineTxAnnounces(n, c) ==
  /\ c.node = n /\ c.at = "mined"
  /\ pool' = [pool EXCEPT ![n] = @ \ LeavesPool(n, c.ID)]
  /\ LET sent == { SendInv(m, n, "block", <<c.ID>>) : m \in known[n] \ {n} }
         next == IF pool'[n] = {} THEN "close" ELSE "again"
     IN  SendData(n, sent) /\ Proceed(c, At(c, next), sent)
  /\ UNCHANGED <<storage, status, starts, transit, history>>

----------------------------------------------------------------------------
Handle(n, c) ==
  \/ HandleVersion(n, c) \/ HandleVersionPanics(n, c) \/ AddToKnown(n, c)
  \/ HandleGetBlocks(n, c) \/ HandleInvBlock(n, c) \/ FilterTransit(n, c)
  \/ HandleGetData(n, c) \/ HandleBlock(n, c)
  \/ TrimTransit(n, c) \/ TrimPanics(n, c)
  \/ CloseDB(n, c) \/ OpenDBPanics(n, c)
  \/ HandleTxZero(n, c) \/ HandleInvTx(n, c) \/ HandleTx(n, c)
  \/ MineTxPanics(n, c) \/ MineTxNothing(n, c) \/ MineTxAnnounces(n, c)
  \/ \E hash \in MinedHashes : MineTx(n, c, hash)

\* What the goroutines of n do.
Serve(n) == Accept(n) \/ \E c \in DOMAIN conns : Handle(n, c)

Next ==
  \E n \in Nodes :
    \/ StartServer(n)
    \/ Killed(n)
    \/ Serve(n)
    \/ \E t \in Txs : AddTXN(n, t)
    \/ \E t \in Txs : \E hash \in MinedHashes : AddTXNNow(n, t, hash)

\* A node whose goroutines can run runs them.
Fairness == \A n \in Nodes : WF_vars(Serve(n))

Spec == Init /\ [][Next]_vars /\ Fairness
----------------------------------------------------------------------------
(* Properties.                                                              *)

\* A node's process has ended at least once.
HasEnded(n) == starts[n] > (IF Listening(n) THEN 1 ELSE 0)

NoneHasEnded == \A n \in Nodes : ~HasEnded(n)

\* No message is under way, no handler at work.
Quiet == conns = EmptyBag /\ \A n \in Nodes : status[n] # "starting"

\* The branch below hash, hash included, in a world where nothing is missing.
Ancestors(hash) == ToSet(Iterate(blocks, hash))

Commands == {"version", "getblocks", "inv", "getdata", "block", "tx", "addtxn"}
Stages == OpenStages \cup {"new", "filter", "mine"}

Hashes == (UNION { DOMAIN old.blocks : old \in Before }) \cup MinedHashes

TypeOK ==
  /\ DOMAIN blocks \subseteq Hashes
  /\ stored \in [Nodes -> SUBSET DOMAIN blocks]
  /\ \A n \in Nodes : tip[n] \in stored[n]
  /\ status \in [Nodes -> {"down", "starting", "up"}]
  /\ \A n \in Nodes : starts[n] \in 0..MaxStarts[n]
  /\ known \in [Nodes -> SUBSET Nodes]
  /\ pool \in [Nodes -> SUBSET (Txs \cup {EmptyTx})]
  /\ \A c \in DOMAIN conns :
       c.node \in Nodes /\ c.at \in Stages /\ c.cmd \in Commands
  /\ \A t \in Txs : posts[t] \in 0..MaxPosts[t]

\* A connection or a handler outlives neither end of its node's process, and
\* one handler at most has a node's store open.
StoreIsHeldOnce ==
  \A n \in Nodes :
    LET open == { c \in DOMAIN conns : c.node = n /\ c.at \in OpenStages }
    IN  /\ open # {} => status[n] = "up"
        /\ \A c, d \in open : c = d /\ conns[c] = 1

\* An empty transaction is in a pool only if NODE_ZERO lost its own: until its
\* process ends every transaction it is asked for is still there.
EmptyOnlyAfterRestart ==
  (\E n \in Nodes : EmptyTx \in pool[n]) => HasEnded(NODE_ZERO)

\* No payment is mined before the one whose output it spends: on every branch
\* the source of a payment is in a block below.
SourcesComeFirst ==
  \A h \in DOMAIN blocks : \A t \in blocks[h].Txs \cap Txs :
    \E g \in Ancestors(h) \ {h} : Source[t] \in blocks[g].Txs

\* However messages cross and processes end, a node does not mine a payment more
\* often than it was posted: it hears of it once for each post, and forgets it
\* when it mines it (network.go, HandleInv and MineTx).
MinedBy(n, t) == { h \in DOMAIN blocks : t \in blocks[h].Txs /\ blocks[h].Miner = n }

MinedAsOftenAsPosted ==
  \A n \in Nodes : \A t \in Txs : Cardinality(MinedBy(n, t)) <= posts[t]

\* When all is quiet and no process has ended, every node that NODE_ZERO
\* offered a payment to has it in its pool or in a block.
OffersArrive ==
  Quiet /\ NoneHasEnded =>
    \A t \in Txs : \A n \in offered[t] :
      t \in pool[n] \/ \E h \in stored[n] : t \in blocks[h].Txs

\* A payment leaves a pool only into a block of that node, or with the process.
PooledIsKeptOrMined ==
  [][\A n \in Nodes : \A t \in pool[n] \ pool'[n] :
       status'[n] = "down" \/ \E h \in stored'[n] : t \in blocks'[h].Txs]_vars

\* However messages cross and processes end, blocks spread as BlockSpread says:
\* made on a tip, copied unchanged from a node that has them, never dropped; a
\* tip is the first of the highest blocks its node got.
Spread == INSTANCE BlockSpread
BlocksSpread == Spread!Spec

\* Each block is stored with its parent by some node, so that a node that misses
\* the parent can still get it.
ParentsAreSomewhere == Spread!ParentsAreSomewhere

\* GetAllBlocks, the answer to /printchain, gets to genesis when all is quiet, no
\* process has ended and the node was not misled: a block is missing only because
\* an inventory replaced another or fell short, or a block came too early or from
\* a node without the next one (network.go, HandleInv and HandleBlock).
PrintchainReturnsAll ==
  Quiet /\ NoneHasEnded =>
    \A n \in Nodes \ misled : GenesisHash \in ToSet(GetBlockHashes(n))

\* NODE_ZERO, when it is lower than a node it can be reached from, comes to be
\* as high, unless a process ends on the way.
NodeZeroCatchesUp ==
  \A n \in Nodes \ {NODE_ZERO} :
    (status[n] = "up" /\ NODE_ZERO \in known[n]) ~>
      \/ \E m \in Nodes : HasEnded(m)
      \/ GetBestHeight(NODE_ZERO) >= GetBestHeight(n)

\* A good payment that is not alone in a miner's pool comes to be in a block of
\* that miner, unless a process ends (network.go, HandleTx and MineTx).
PairsAreMined ==
  \A n \in Nodes \ {NODE_ZERO} : \A t \in Verifies :
    (t \in pool[n] /\ Cardinality(pool[n]) >= 2) ~>
      \/ \E m \in Nodes : HasEnded(m)
      \/ \E h \in stored[n] : t \in blocks[h].Txs
=============================================================================
