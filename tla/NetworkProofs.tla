--------------------------- MODULE NetworkProofs ---------------------------
(***************************************************************************)
(* Theorems about Network, for any nodes, payments, blocks and pasts: its  *)
(* types; that it implements BlockSpread, and what that says of blocks;    *)
(* that a store has one holder at most; when a transaction that was        *)
(* offered can be gone; that branches have what their payments spend; that *)
(* offers arrive and posts cover what is mined; and that a node that was   *)
(* not misled comes to have all of its branch. Each part adds to the       *)
(* inductive invariant what it needs, and uses the parts before it.        *)
(***************************************************************************)
EXTENDS Network, ChainProofs

\* What a connection carries: a block message names a block that some node
\* stores, a transaction message what a pool may hold, and a handler that has
\* mined names a block in its own node's store.
ConnOK(c) ==
  /\ c = [node |-> c.node, at |-> c.at, cmd |-> c.cmd, from |-> c.from,
          BestHeight |-> c.BestHeight, Type |-> c.Type, Items |-> c.Items,
          ID |-> c.ID]
  /\ c.node \in Nodes /\ c.from \in Nodes
  /\ c.at \in Stages /\ c.cmd \in Commands
  /\ c.at = "new" /\ c.cmd = "tx" => c.ID \in Txs \cup {EmptyTx}
  /\ c.at = "new" /\ c.cmd = "block" => \E m \in Nodes : c.ID \in stored[m]
  /\ c.at = "mined" => c.ID \in stored[c.node]

\* The inductive invariant: TypeOK needs to know what messages bring.
TypeInv ==
  /\ TypeOK
  /\ tip \in [Nodes -> DOMAIN blocks]
  /\ posts \in [Txs -> Nat]
  /\ starts \in [Nodes -> Nat]
  /\ \A c \in DOMAIN conns : ConnOK(c)

----------------------------------------------------------------------------
(* What makes a block, and a payment that its own node mines.               *)

\* A block of txs, made by n on its tip.
MakesBlock(n, txs, hash) ==
  /\ hash \in MinedHashes \ DOMAIN blocks
  /\ DOMAIN blocks' = DOMAIN blocks \cup {hash}
  /\ \A h \in DOMAIN blocks : blocks'[h] = blocks[h]
  /\ blocks'[hash] = [PrevHash |-> tip[n], Height |-> GetBestHeight(n) + 1,
                      Miner |-> n, Txs |-> txs]
  /\ stored' = [stored EXCEPT ![n] = @ \cup {hash}]
  /\ tip' = [tip EXCEPT ![n] = hash]

LEMMA MineMakesBlock ==
  ASSUME NEW n, NEW txs, NEW hash, MineBlock(n, txs, hash)
  PROVE  MakesBlock(n, txs, hash)
<1>1. PICK block : /\ block = [PrevHash |-> tip[n], Height |-> GetBestHeight(n) + 1,
                               Miner |-> n, Txs |-> txs]
                   /\ blocks' = [h \in DOMAIN blocks \cup {hash} |->
                                   IF h = hash THEN block ELSE blocks[h]]
  BY DEF MineBlock
<1> QED BY <1>1 DEF MineBlock, MakesBlock, Store

\* The request that is left of it has the store open and sends nothing.
LEMMA PostedNow ==
  ASSUME NEW n, NEW t, NEW hash, AddTXNNow(n, t, hash)
  PROVE  /\ status[n] = "up" /\ ~IsOpen(n)
         /\ UNCHANGED <<status, starts, known, transit, pool, offered, misled>>
         /\ MakesBlock(n, {t}, hash)
         /\ t \in Verifies /\ Source[t] \in TransactionsOf(n)
         /\ posts[t] < MaxPosts[t] /\ posts' = [posts EXCEPT ![t] = @ + 1]
         /\ \E r : /\ conns' = conns (+) SetToBag({r})
                   /\ r = [node |-> n, at |-> "close", cmd |-> "addtxn", from |-> n,
                           BestHeight |-> 0, Type |-> "", Items |-> <<>>, ID |-> t]
<1> DEFINE request == NewConn(n, "addtxn", n, 0, "", <<>>, t)
<1>1. PICK r : r = [request EXCEPT !.at = "close"]
  OBVIOUS
<1>2. r = [node |-> n, at |-> "close", cmd |-> "addtxn", from |-> n,
           BestHeight |-> 0, Type |-> "", Items |-> <<>>, ID |-> t]
  BY <1>1 DEF NewConn
<1>3. conns' = conns (+) SetToBag({r})
  <2>1. At(request, "close") = {r}
    BY <1>1 DEF At
  <2>2. conns' = conns (+) SetToBag(At(request, "close"))
    BY DEF AddTXNNow
  <2> QED BY <2>1, <2>2
<1>4. MakesBlock(n, {t}, hash)
  BY MineMakesBlock DEF AddTXNNow
<1> QED BY <1>2, <1>3, <1>4 DEF AddTXNNow, memory

----------------------------------------------------------------------------
(* Connections.                                                             *)

LEMMA BagDomain ==
  ASSUME NEW B, NEW c, NEW S
  PROVE  DOMAIN ((B (-) SetToBag({c})) (+) SetToBag(S)) \subseteq DOMAIN B \cup S
BY DEF (-), (+), SetToBag

LEMMA BagAddDomain ==
  ASSUME NEW B, NEW S
  PROVE  DOMAIN (B (+) SetToBag(S)) = DOMAIN B \cup S
BY DEF (+), SetToBag

\* After a step of a handler there are the old connections, the handler at its
\* next stage and what it sent.
LEMMA ProceedConns ==
  ASSUME NEW c, NEW next, NEW sent, Proceed(c, next, sent),
         NEW d \in DOMAIN conns'
  PROVE  d \in DOMAIN conns \/ d \in next \/ (d \in sent /\ Listening(d.node))
<1>1. PICK S : S = next \cup { m \in sent : Listening(m.node) }
  OBVIOUS
<1>2. conns' = (conns (-) SetToBag({c})) (+) SetToBag(S)
  BY <1>1 DEF Proceed
<1>3. DOMAIN conns' \subseteq DOMAIN conns \cup S
  BY <1>2, BagDomain
<1> QED BY <1>1, <1>3

\* Stores only grow, so that a connection that was all right stays so.
LEMMA ConnStaysOK ==
  ASSUME NEW c, ConnOK(c), \A m \in Nodes : stored[m] \subseteq stored'[m]
  PROVE  ConnOK(c)'
BY DEF ConnOK, Stages, Commands

LEMMA SameStores ==
  ASSUME UNCHANGED storage
  PROVE  \A m \in Nodes : stored[m] \subseteq stored'[m]
BY DEF storage

LEMMA ProceedOK ==
  ASSUME TypeInv, NEW c, NEW next, NEW sent, Proceed(c, next, sent),
         \A m \in Nodes : stored[m] \subseteq stored'[m],
         \A d \in next \cup sent : ConnOK(d)'
  PROVE  \A d \in DOMAIN conns' : ConnOK(d)'
<1> TAKE d \in DOMAIN conns'
<1>1. d \in DOMAIN conns \/ d \in next \/ d \in sent
  BY ProceedConns
<1> QED BY <1>1, ConnStaysOK DEF TypeInv

\* A handler that goes on to a stage other than "new" and "mined".
LEMMA AtOK ==
  ASSUME NEW c, ConnOK(c), NEW stage \in Stages \ {"new", "mined"}, NEW d \in At(c, stage)
  PROVE  ConnOK(d)'
BY DEF ConnOK, At, Stages, Commands

\* What handlers send.
LEMMA SentOK ==
  ASSUME NEW to \in Nodes, NEW from \in Nodes
  PROVE  /\ \A height : ConnOK(SendVersion(to, from, height))'
         /\ ConnOK(SendGetBlocks(to, from))'
         /\ \A kind, items : ConnOK(SendInv(to, from, kind, items))'
         /\ \A kind, id : ConnOK(SendGetData(to, from, kind, id))'
         /\ \A hash : (\E m \in Nodes : hash \in stored'[m]) =>
              ConnOK(SendBlock(to, from, hash))'
         /\ \A t \in Txs \cup {EmptyTx} : ConnOK(SendTx(to, from, t))'
<1> USE DEF ConnOK, NewConn, Stages, Commands
<1>1. ASSUME NEW height PROVE ConnOK(SendVersion(to, from, height))'
  BY DEF SendVersion
<1>2. ConnOK(SendGetBlocks(to, from))'
  BY DEF SendGetBlocks
<1>3. ASSUME NEW kind, NEW items PROVE ConnOK(SendInv(to, from, kind, items))'
  BY DEF SendInv
<1>4. ASSUME NEW kind, NEW id PROVE ConnOK(SendGetData(to, from, kind, id))'
  BY DEF SendGetData
<1>5. ASSUME NEW hash, \E m \in Nodes : hash \in stored'[m]
      PROVE  ConnOK(SendBlock(to, from, hash))'
  BY <1>5 DEF SendBlock
<1>6. ASSUME NEW t \in Txs \cup {EmptyTx} PROVE ConnOK(SendTx(to, from, t))'
  BY DEF SendTx
<1> HIDE DEF ConnOK
<1> QED BY <1>1, <1>2, <1>3, <1>4, <1>5, <1>6

LEMMA SendDataKnown ==
  ASSUME TypeInv, NEW n, NEW sent, SendData(n, sent)
  PROVE  known' \in [Nodes -> SUBSET Nodes]
BY DEF SendData, TypeInv, TypeOK

----------------------------------------------------------------------------
(* TypeInv.                                                                 *)

LEMMA TypeInit == Init => TypeInv
<1> SUFFICES ASSUME Init PROVE TypeInv
  OBVIOUS
<1>1. DOMAIN conns = {}
  BY DEF Init, EmptyBag, SetToBag
<1>2. PICK old \in Before :
         /\ blocks = old.blocks /\ stored = old.stored
         /\ tip = old.tip /\ posts = old.posts
  BY DEF Init
<1>3. /\ stored \in [Nodes -> SUBSET DOMAIN blocks]
      /\ tip \in [Nodes -> DOMAIN blocks]
      /\ \A n \in Nodes : tip[n] \in stored[n]
      /\ posts \in [Txs -> Nat] /\ \A t \in Txs : posts[t] \in 0..MaxPosts[t]
      /\ DOMAIN blocks \subseteq Hashes
  BY <1>2, BeforeAssumption DEF BeforeAssumption, Hashes
<1> QED BY <1>1, <1>3, NodeAssumption
        DEF Init, TypeInv, TypeOK, NodeAssumption

\* Most steps change memory and connections only.
LEMMA MemoryStep ==
  ASSUME TypeInv, UNCHANGED <<storage, status, starts, posts>>,
         known' \in [Nodes -> SUBSET Nodes],
         pool' \in [Nodes -> SUBSET (Txs \cup {EmptyTx})],
         \A d \in DOMAIN conns' : ConnOK(d)'
  PROVE  TypeInv'
<1>1. \A d \in DOMAIN conns' :
        d.node \in Nodes /\ d.at \in Stages /\ d.cmd \in Commands
  BY DEF ConnOK
<1> QED BY <1>1 DEF TypeInv, TypeOK, storage

LEMMA TypeProcessEnds ==
  ASSUME TypeInv, NEW n \in Nodes, ProcessEnds(n)
  PROVE  TypeInv'
<1>1. DOMAIN conns' \subseteq DOMAIN conns
  BY DEF ProcessEnds
<1>2. \A d \in DOMAIN conns' : ConnOK(d)'
  BY <1>1, SameStores, ConnStaysOK DEF ProcessEnds, TypeInv
<1>3. \A d \in DOMAIN conns' :
        d.node \in Nodes /\ d.at \in Stages /\ d.cmd \in Commands
  BY <1>2 DEF ConnOK
<1> QED BY <1>2, <1>3, NodeAssumption
        DEF ProcessEnds, TypeInv, TypeOK, storage, history, NodeAssumption

LEMMA TypeStart ==
  ASSUME TypeInv, NEW n \in Nodes, StartServer(n)
  PROVE  TypeInv'
<1> DEFINE sent == IF n = NODE_ZERO THEN {}
                   ELSE { SendVersion(NODE_ZERO, n, GetBestHeight(n)) }
<1>1. DOMAIN conns' \subseteq DOMAIN conns \cup sent
  BY BagAddDomain DEF StartServer
<1>2. \A d \in sent : ConnOK(d)'
  BY SentOK, NodeAssumption DEF NodeAssumption
<1>3. \A d \in DOMAIN conns' : ConnOK(d)'
  BY <1>1, <1>2, SameStores, ConnStaysOK DEF StartServer, TypeInv
<1>4. \A d \in DOMAIN conns' :
        d.node \in Nodes /\ d.at \in Stages /\ d.cmd \in Commands
  BY <1>3 DEF ConnOK
<1>5. known' \in [Nodes -> SUBSET Nodes]
  BY SendDataKnown DEF StartServer
<1>6. (\A m \in Nodes : starts'[m] \in 0..MaxStarts[m]) /\ starts' \in [Nodes -> Nat]
  <2>1. /\ starts \in [Nodes -> Nat]
        /\ \A m \in Nodes : starts[m] \in 0..MaxStarts[m]
    BY DEF TypeInv, TypeOK
  <2>2. starts[n] < MaxStarts[n] /\ starts' = [starts EXCEPT ![n] = starts[n] + 1]
    BY DEF StartServer
  <2>3. MaxStarts[n] \in Nat
    BY NodeAssumption DEF NodeAssumption
  <2>4. starts[n] + 1 \in 0..MaxStarts[n]
    BY <2>1, <2>2, <2>3
  <2>5. \A m \in Nodes : starts'[m] = IF m = n THEN starts[n] + 1 ELSE starts[m]
    BY <2>1, <2>2
  <2> QED BY <2>1, <2>2, <2>4, <2>5
<1> QED BY <1>3, <1>4, <1>5, <1>6
        DEF StartServer, TypeInv, TypeOK, storage, history

LEMMA TypePost ==
  ASSUME TypeInv, NEW t \in Txs, posts[t] < MaxPosts[t], posts' = [posts EXCEPT ![t] = @ + 1]
  PROVE  (\A x \in Txs : posts'[x] \in 0..MaxPosts[x]) /\ posts' \in [Txs -> Nat]
<1>1. /\ posts \in [Txs -> Nat]
      /\ \A x \in Txs : posts[x] \in 0..MaxPosts[x]
  BY DEF TypeInv, TypeOK
<1>2. MaxPosts[t] \in Nat
  BY TxAssumption DEF TxAssumption
<1>3. posts[t] + 1 \in 0..MaxPosts[t]
  BY <1>1, <1>2
<1>4. \A x \in Txs : posts'[x] = IF x = t THEN posts[t] + 1 ELSE posts[x]
  BY <1>1
<1> QED BY <1>1, <1>3, <1>4

LEMMA TypeAddTXN ==
  ASSUME TypeInv, NEW n \in Nodes, NEW t \in Txs, AddTXN(n, t)
  PROVE  TypeInv'
<1> DEFINE request == NewConn(n, "addtxn", n, 0, "", <<>>, t)
           sent == { SendTx(NODE_ZERO, n, t) }
<1>1. DOMAIN conns' \subseteq DOMAIN conns \cup At(request, "close") \cup sent
  <2> DEFINE new == At(request, "close") \cup { m \in sent : Listening(m.node) }
  <2>1. conns' = conns (+) SetToBag(new)
    BY DEF AddTXN
  <2>2. new \subseteq At(request, "close") \cup sent
    OBVIOUS
  <2> HIDE DEF new
  <2>3. DOMAIN conns' = DOMAIN conns \cup new
    BY <2>1, BagAddDomain
  <2> QED BY <2>2, <2>3
<1>2. \A d \in sent : ConnOK(d)'
  BY SentOK, NodeAssumption DEF NodeAssumption
<1>3. \A d \in At(request, "close") : ConnOK(d)'
  <2>1. ConnOK(request)
    BY DEF ConnOK, NewConn, Stages, OpenStages, Commands
  <2>2. "close" \in Stages \ {"new", "mined"}
    BY DEF Stages, OpenStages
  <2> QED BY <2>1, <2>2, AtOK
<1>4. \A d \in DOMAIN conns' : ConnOK(d)'
  <2>1. \A d \in DOMAIN conns : ConnOK(d)'
    BY SameStores, ConnStaysOK DEF AddTXN, TypeInv
  <2> QED BY <1>1, <1>2, <1>3, <2>1
<1>5. \A d \in DOMAIN conns' :
        d.node \in Nodes /\ d.at \in Stages /\ d.cmd \in Commands
  BY <1>4 DEF ConnOK
<1>6. known' \in [Nodes -> SUBSET Nodes]
  BY SendDataKnown DEF AddTXN
<1>7. (\A x \in Txs : posts'[x] \in 0..MaxPosts[x]) /\ posts' \in [Txs -> Nat]
  BY TypePost DEF AddTXN
<1> QED BY <1>4, <1>5, <1>6, <1>7 DEF AddTXN, TypeInv, TypeOK, storage

LEMMA TypeAddTXNNow ==
  ASSUME TypeInv, NEW n \in Nodes, NEW t \in Txs, NEW hash \in MinedHashes,
         AddTXNNow(n, t, hash)
  PROVE  TypeInv'
<1>1. PICK r : /\ conns' = conns (+) SetToBag({r})
               /\ r = [node |-> n, at |-> "close", cmd |-> "addtxn", from |-> n,
                       BestHeight |-> 0, Type |-> "", Items |-> <<>>, ID |-> t]
  BY PostedNow
<1>2. UNCHANGED <<status, starts, known, pool>> /\ MakesBlock(n, {t}, hash)
  BY PostedNow
<1>3. /\ stored' \in [Nodes -> SUBSET DOMAIN blocks']
      /\ tip' \in [Nodes -> DOMAIN blocks']
      /\ \A m \in Nodes : tip'[m] \in stored'[m] /\ stored[m] \subseteq stored'[m]
  BY <1>2 DEF MakesBlock, TypeInv, TypeOK
<1>4. DOMAIN blocks' \subseteq Hashes
  BY <1>2 DEF MakesBlock, TypeInv, TypeOK, Hashes
<1>5. \A d \in DOMAIN conns' : ConnOK(d)'
  <2>1. ConnOK(r)'
    BY <1>1 DEF ConnOK, Stages, OpenStages, Commands
  <2>2. \A d \in DOMAIN conns : ConnOK(d)'
    BY <1>3, ConnStaysOK DEF TypeInv
  <2>3. DOMAIN conns' = DOMAIN conns \cup {r}
    BY <1>1, BagAddDomain
  <2> QED BY <2>1, <2>2, <2>3
<1>6. \A d \in DOMAIN conns' :
        d.node \in Nodes /\ d.at \in Stages /\ d.cmd \in Commands
  BY <1>5 DEF ConnOK
<1>7. (\A x \in Txs : posts'[x] \in 0..MaxPosts[x]) /\ posts' \in [Txs -> Nat]
  BY PostedNow, TypePost
<1> QED BY <1>2, <1>3, <1>4, <1>5, <1>6, <1>7 DEF TypeInv, TypeOK

\* A handler's step that stores nothing, pools at most what may be pooled, goes
\* on to a stage that is typed and sends messages that are typed.
LEMMA HandlerStep ==
  ASSUME TypeInv, NEW c \in DOMAIN conns, NEW next, NEW sent, Proceed(c, next, sent),
         UNCHANGED <<storage, status, starts, posts>>,
         known' \in [Nodes -> SUBSET Nodes],
         pool' \in [Nodes -> SUBSET (Txs \cup {EmptyTx})],
         \A d \in next : \E stage \in Stages \ {"new", "mined"} : d \in At(c, stage),
         \A d \in sent : ConnOK(d)'
  PROVE  TypeInv'
<1>1. ConnOK(c)
  BY DEF TypeInv
<1>2. \A d \in next : ConnOK(d)'
  BY <1>1, AtOK
<1>3. \A m \in Nodes : stored[m] \subseteq stored'[m]
  BY SameStores
<1>4. \A d \in DOMAIN conns' : ConnOK(d)'
  BY <1>2, <1>3, ProceedOK
<1> QED BY <1>4, MemoryStep

LEMMA StageFacts ==
  {"close", "known", "trim", "again", "filter", "mine"} \subseteq Stages \ {"new", "mined"}
BY DEF Stages, OpenStages

LEMMA TypeHandleBlockMessages ==
  ASSUME TypeInv, NEW n \in Nodes, NEW c \in DOMAIN conns,
         \/ HandleVersion(n, c) \/ AddToKnown(n, c) \/ HandleGetBlocks(n, c)
         \/ HandleInvBlock(n, c) \/ FilterTransit(n, c) \/ HandleGetData(n, c)
         \/ TrimTransit(n, c) \/ CloseDB(n, c)
  PROVE  TypeInv'
<1>1. ConnOK(c) /\ c.from \in Nodes
  BY DEF TypeInv, ConnOK
<1>2. /\ known \in [Nodes -> SUBSET Nodes]
      /\ pool \in [Nodes -> SUBSET (Txs \cup {EmptyTx})]
  BY DEF TypeInv, TypeOK
<1> USE StageFacts DEF history, memory
<1>3. CASE HandleVersion(n, c)
  <2> DEFINE sent == IF GetBestHeight(n) < c.BestHeight
                     THEN { SendGetBlocks(c.from, n) } ELSE {}
  <2>1. \A d \in sent : ConnOK(d)'
    BY <1>1, SentOK
  <2>2. SendData(n, sent) /\ Proceed(c, At(c, "known"), sent)
    BY <1>3 DEF HandleVersion
  <2>3. known' \in [Nodes -> SUBSET Nodes]
    BY <2>2, SendDataKnown
  <2> QED BY <1>2, <1>3, <2>1, <2>2, <2>3, HandlerStep DEF HandleVersion
<1>4. CASE AddToKnown(n, c)
  <2>1. known' \in [Nodes -> SUBSET Nodes]
    BY <1>1, <1>2, <1>4 DEF AddToKnown
  <2> QED BY <1>2, <1>4, <2>1, HandlerStep DEF AddToKnown
<1>5. CASE HandleGetBlocks(n, c)
  <2> DEFINE sent == { SendInv(c.from, n, "block", GetBlockHashes(n)) }
  <2>1. \A d \in sent : ConnOK(d)'
    BY <1>1, SentOK
  <2>2. SendData(n, sent) /\ Proceed(c, At(c, "close"), sent)
    BY <1>5 DEF HandleGetBlocks
  <2>3. known' \in [Nodes -> SUBSET Nodes]
    BY <2>2, SendDataKnown
  <2> QED BY <1>2, <1>5, <2>1, <2>2, <2>3, HandlerStep DEF HandleGetBlocks
<1>6. CASE HandleInvBlock(n, c)
  <2> DEFINE sent == { SendGetData(c.from, n, "block", c.Items[1]) }
  <2>1. \A d \in sent : ConnOK(d)'
    BY <1>1, SentOK
  <2>2. SendData(n, sent) /\ Proceed(c, At(c, "filter"), sent)
    BY <1>6 DEF HandleInvBlock
  <2>3. known' \in [Nodes -> SUBSET Nodes]
    BY <2>2, SendDataKnown
  <2> QED BY <1>2, <1>6, <2>1, <2>2, <2>3, HandlerStep DEF HandleInvBlock
<1>7. CASE FilterTransit(n, c)
  BY <1>2, <1>7, HandlerStep DEF FilterTransit
<1>8. CASE HandleGetData(n, c)
  <2>1. \A d \in Answer(n, c) : ConnOK(d)'
    <3>1. CASE c.Type = "tx"
      BY <1>1, <1>2, <3>1, SentOK DEF Answer
    <3>2. CASE c.Type # "tx"
      <4>1. stored' = stored
        BY <1>8 DEF HandleGetData, storage
      <4> QED BY <1>1, <3>2, <4>1, SentOK DEF Answer
    <3> QED BY <3>1, <3>2
  <2>2. SendData(n, Answer(n, c)) /\ Proceed(c, At(c, "close"), Answer(n, c))
    BY <1>8 DEF HandleGetData
  <2>3. known' \in [Nodes -> SUBSET Nodes]
    BY <2>2, SendDataKnown
  <2> QED BY <1>2, <1>8, <2>1, <2>2, <2>3, HandlerStep DEF HandleGetData
<1>9. CASE TrimTransit(n, c)
  BY <1>2, <1>9, HandlerStep DEF TrimTransit
<1>10. CASE CloseDB(n, c)
  BY <1>2, <1>10, HandlerStep DEF CloseDB
<1> QED BY <1>3, <1>4, <1>5, <1>6, <1>7, <1>8, <1>9, <1>10

LEMMA TypeHandleTxMessages ==
  ASSUME TypeInv, NEW n \in Nodes, NEW c \in DOMAIN conns,
         \/ HandleTxZero(n, c) \/ HandleInvTx(n, c) \/ HandleTx(n, c)
         \/ MineTxNothing(n, c) \/ MineTxAnnounces(n, c)
  PROVE  TypeInv'
<1>1. ConnOK(c) /\ c.from \in Nodes
  BY DEF TypeInv, ConnOK
<1>2. /\ known \in [Nodes -> SUBSET Nodes]
      /\ pool \in [Nodes -> SUBSET (Txs \cup {EmptyTx})]
  BY DEF TypeInv, TypeOK
<1> USE StageFacts DEF history, memory
<1>3. CASE HandleTxZero(n, c)
  <2> DEFINE others == known[n] \ {n, c.from}
             sent == { SendInv(to, n, "tx", <<c.ID>>) : to \in others }
  <2>1. \A d \in sent : ConnOK(d)'
    <3>1. \A to \in others : to \in Nodes
      BY <1>2
    <3>2. ASSUME NEW to \in others
          PROVE  ConnOK(SendInv(to, n, "tx", <<c.ID>>))'
      BY <3>1, SentOK
    <3> QED BY <3>2
  <2>2. SendData(n, sent) /\ Proceed(c, {}, sent)
    BY <1>3 DEF HandleTxZero
  <2>3. known' \in [Nodes -> SUBSET Nodes]
    BY <2>2, SendDataKnown
  <2>4. pool' \in [Nodes -> SUBSET (Txs \cup {EmptyTx})]
    BY <1>1, <1>2, <1>3 DEF HandleTxZero, Begins, ConnOK
  <2>5. UNCHANGED <<storage, status, starts, posts>>
    BY <1>3 DEF HandleTxZero
  <2> HIDE DEF sent
  <2> QED BY <2>1, <2>2, <2>3, <2>4, <2>5, HandlerStep
<1>4. CASE HandleInvTx(n, c)
  <2> DEFINE sent == IF c.Items[1] \in pool[n] THEN {}
                     ELSE { SendGetData(c.from, n, "tx", c.Items[1]) }
  <2>1. \A d \in sent : ConnOK(d)'
    BY <1>1, SentOK
  <2>2. SendData(n, sent) /\ Proceed(c, {}, sent)
    BY <1>4 DEF HandleInvTx
  <2>3. known' \in [Nodes -> SUBSET Nodes]
    BY <2>2, SendDataKnown
  <2> QED BY <1>2, <1>4, <2>1, <2>2, <2>3, HandlerStep DEF HandleInvTx
<1>5. CASE HandleTx(n, c)
  <2>1. pool' \in [Nodes -> SUBSET (Txs \cup {EmptyTx})]
    BY <1>1, <1>2, <1>5 DEF HandleTx, Begins, ConnOK
  <2>2. PICK next \in SUBSET At(c, "mine") : Proceed(c, next, {})
    BY <1>5 DEF HandleTx
  <2>3. UNCHANGED <<storage, status, starts, posts, known>>
    BY <1>5 DEF HandleTx
  <2> QED BY <1>2, <2>1, <2>2, <2>3, HandlerStep
<1>6. CASE MineTxNothing(n, c)
  BY <1>2, <1>6, HandlerStep DEF MineTxNothing
<1>7. CASE MineTxAnnounces(n, c)
  <2> DEFINE sent == { SendInv(m, n, "block", <<c.ID>>) : m \in known[n] \ {n} }
             next == IF pool'[n] = {} THEN "close" ELSE "again"
  <2>1. \A d \in sent : ConnOK(d)'
    BY <1>2, SentOK
  <2>2. SendData(n, sent) /\ Proceed(c, At(c, next), sent)
    BY <1>7 DEF MineTxAnnounces
  <2>3. known' \in [Nodes -> SUBSET Nodes]
    BY <2>2, SendDataKnown
  <2>4. pool' \in [Nodes -> SUBSET (Txs \cup {EmptyTx})]
    BY <1>2, <1>7 DEF MineTxAnnounces
  <2>5. UNCHANGED <<storage, status, starts, posts>>
    BY <1>7 DEF MineTxAnnounces
  <2>6. next \in Stages \ {"new", "mined"}
    OBVIOUS
  <2> HIDE DEF sent, next
  <2> QED BY <2>1, <2>2, <2>3, <2>4, <2>5, <2>6, HandlerStep
<1> QED BY <1>3, <1>4, <1>5, <1>6, <1>7

LEMMA TypeHandleBlock ==
  ASSUME TypeInv, NEW n \in Nodes, NEW c \in DOMAIN conns, HandleBlock(n, c)
  PROVE  TypeInv'
<1> DEFINE sent == IF transit[n] = <<>> THEN {}
                   ELSE { SendGetData(c.from, n, "block", Head(transit[n])) }
           next == IF transit[n] = <<>> THEN "close" ELSE "trim"
<1>1. ConnOK(c) /\ c.from \in Nodes
  BY DEF TypeInv, ConnOK
<1>2. SendData(n, sent) /\ Proceed(c, At(c, next), sent)
  BY DEF HandleBlock
<1>3. c.ID \in DOMAIN blocks
  BY <1>1 DEF HandleBlock, Begins, ConnOK, TypeInv, TypeOK
<1>4. /\ stored' = [stored EXCEPT ![n] = @ \cup {c.ID}]
      /\ tip' = tip \/ tip' = [tip EXCEPT ![n] = c.ID]
      /\ UNCHANGED <<blocks, status, starts, pool, posts>>
  BY DEF HandleBlock, Store, history
<1>5. \A m \in Nodes : stored[m] \subseteq stored'[m]
  BY <1>4 DEF TypeInv, TypeOK
<1>6. \A d \in sent : ConnOK(d)'
  BY <1>1, SentOK
<1>7. \A d \in At(c, next) : ConnOK(d)'
  <2>1. next \in Stages \ {"new", "mined"}
    BY StageFacts
  <2> QED BY <1>1, <2>1, AtOK
<1>8. \A d \in DOMAIN conns' : ConnOK(d)'
  <2> HIDE DEF sent, next
  <2> QED BY <1>2, <1>5, <1>6, <1>7, ProceedOK
<1>9. \A d \in DOMAIN conns' :
        d.node \in Nodes /\ d.at \in Stages /\ d.cmd \in Commands
  BY <1>8 DEF ConnOK
<1>10. known' \in [Nodes -> SUBSET Nodes]
  BY <1>2, SendDataKnown
<1>11. /\ stored' \in [Nodes -> SUBSET DOMAIN blocks']
       /\ tip' \in [Nodes -> DOMAIN blocks']
       /\ \A m \in Nodes : tip'[m] \in stored'[m]
  BY <1>3, <1>4 DEF TypeInv, TypeOK
<1> QED BY <1>4, <1>8, <1>9, <1>10, <1>11 DEF TypeInv, TypeOK

\* A handler that has mined, and the block it names.
LEMMA MinedOK ==
  ASSUME NEW c, ConnOK(c), NEW hash, hash \in stored'[c.node]
  PROVE  ConnOK([c EXCEPT !.at = "mined", !.ID = hash])'
<1>1. PICK d : d = [c EXCEPT !.at = "mined", !.ID = hash]
  OBVIOUS
<1>2. d = [node |-> c.node, at |-> "mined", cmd |-> c.cmd, from |-> c.from,
           BestHeight |-> c.BestHeight, Type |-> c.Type, Items |-> c.Items,
           ID |-> hash]
  BY <1>1 DEF ConnOK
<1>3. ConnOK(d)'
  BY <1>2 DEF ConnOK, Stages, OpenStages
<1> QED BY <1>1, <1>3

LEMMA TypeMineTx ==
  ASSUME TypeInv, NEW n \in Nodes, NEW c \in DOMAIN conns, NEW hash \in MinedHashes,
         MineTx(n, c, hash)
  PROVE  TypeInv'
<1> DEFINE next == [c EXCEPT !.at = "mined", !.ID = hash]
<1>1. ConnOK(c) /\ c.node = n
  BY DEF TypeInv, MineTx
<1>2. /\ stored' = [stored EXCEPT ![n] = @ \cup {hash}]
      /\ tip' = [tip EXCEPT ![n] = hash]
      /\ UNCHANGED <<status, starts, known, pool, posts>>
      /\ DOMAIN blocks' = DOMAIN blocks \cup {hash}
  <2>1. MakesBlock(n, pool[n] \cap Verifies, hash)
    BY MineMakesBlock DEF MineTx
  <2>2. UNCHANGED <<status, starts, known, pool, posts>>
    BY DEF MineTx, history, memory
  <2> QED BY <2>1, <2>2 DEF MakesBlock
<1>3. \A m \in Nodes : stored[m] \subseteq stored'[m]
  BY <1>2 DEF TypeInv, TypeOK
<1>4. hash \in stored'[n]
  BY <1>2 DEF TypeInv, TypeOK
<1>5. ConnOK(next)'
  BY <1>1, <1>4, MinedOK
<1>6. \A d \in DOMAIN conns' : ConnOK(d)'
  <2>1. Proceed(c, {next}, {})
    BY DEF MineTx
  <2> HIDE DEF next
  <2> QED BY <1>3, <1>5, <2>1, ProceedOK
<1>7. \A d \in DOMAIN conns' :
        d.node \in Nodes /\ d.at \in Stages /\ d.cmd \in Commands
  BY <1>6 DEF ConnOK
<1>8. /\ stored' \in [Nodes -> SUBSET DOMAIN blocks']
      /\ tip' \in [Nodes -> DOMAIN blocks']
      /\ \A m \in Nodes : tip'[m] \in stored'[m]
  BY <1>2 DEF TypeInv, TypeOK
<1>9. DOMAIN blocks' \subseteq Hashes
  BY <1>2 DEF TypeInv, TypeOK, Hashes
<1>10. UNCHANGED <<status, starts, known, pool, posts>>
  BY DEF MineTx, memory, history
<1>11. TypeOK'
  BY <1>7, <1>8, <1>9, <1>10 DEF TypeInv, TypeOK
<1> QED BY <1>6, <1>8, <1>10, <1>11 DEF TypeInv

\* The steps of handlers that end their process.
Panics(n, c) ==
  HandleVersionPanics(n, c) \/ TrimPanics(n, c) \/ OpenDBPanics(n, c) \/ MineTxPanics(n, c)

LEMMA TypeNext == TypeInv /\ [Next]_vars => TypeInv'
<1> SUFFICES ASSUME TypeInv, [Next]_vars PROVE TypeInv'
  OBVIOUS
<1>1. CASE UNCHANGED vars
  <2>1. \A d \in DOMAIN conns' : ConnOK(d)'
    BY <1>1, SameStores, ConnStaysOK DEF vars, TypeInv
  <2> QED BY <1>1, <2>1, MemoryStep DEF vars, memory, history, TypeInv, TypeOK
<1>2. ASSUME NEW n \in Nodes, StartServer(n) PROVE TypeInv'
  BY <1>2, TypeStart
<1>3. ASSUME NEW n \in Nodes, Killed(n) PROVE TypeInv'
  BY <1>3, TypeProcessEnds DEF Killed
<1>4. ASSUME NEW n \in Nodes, NEW t \in Txs, AddTXN(n, t) PROVE TypeInv'
  BY <1>4, TypeAddTXN
<1>7. ASSUME NEW n \in Nodes, NEW t \in Txs, NEW hash \in MinedHashes, AddTXNNow(n, t, hash)
      PROVE  TypeInv'
  BY <1>7, TypeAddTXNNow
<1>5. ASSUME NEW n \in Nodes, Accept(n) PROVE TypeInv'
  <2>1. \A d \in DOMAIN conns' : ConnOK(d)'
    BY <1>5, SameStores, ConnStaysOK DEF Accept, TypeInv
  <2>2. \A d \in DOMAIN conns' :
          d.node \in Nodes /\ d.at \in Stages /\ d.cmd \in Commands
    BY <2>1 DEF ConnOK
  <2> QED BY <1>5, <2>1, <2>2
          DEF Accept, TypeInv, TypeOK, storage, memory, history
<1>6. ASSUME NEW n \in Nodes, NEW c \in DOMAIN conns, Handle(n, c) PROVE TypeInv'
  <2>1. CASE Panics(n, c)
    BY <2>1, TypeProcessEnds
       DEF Panics, HandleVersionPanics, TrimPanics, OpenDBPanics, MineTxPanics
  <2>2. CASE HandleBlock(n, c)
    BY <2>2, TypeHandleBlock
  <2>3. CASE \E hash \in MinedHashes : MineTx(n, c, hash)
    BY <2>3, TypeMineTx
  <2> QED BY <1>6, <2>1, <2>2, <2>3, TypeHandleBlockMessages, TypeHandleTxMessages
          DEF Handle, Panics
<1> QED BY <1>1, <1>2, <1>3, <1>4, <1>5, <1>6, <1>7 DEF Next, Serve

\* Every message, handler, pool and store holds what its type says, through
\* every interleaving of handlers and every end of a process.
THEOREM NetworkTypeCorrect == Spec => []TypeOK
<1>1. TypeInv => TypeOK
  BY DEF TypeInv
<1> QED BY <1>1, TypeInit, TypeNext, PTL DEF Spec

----------------------------------------------------------------------------
(* Blocks: Network implements BlockSpread.                                  *)

LEMMA SpreadInvInit == Spread!Init => Spread!Inv
BY DEF Spread!Init, Spread!Inv, Spread!TipIsHighest, Spread!ParentsAreSomewhere

LEMMA SpreadInvMine ==
  ASSUME Spread!Inv, NEW n \in Nodes, NEW hash \in MinedHashes, Spread!Mine(n, hash)
  PROVE  Spread!Inv'
<1> USE DEF Spread!Inv, Spread!Mine, Spread!Height
<1>1. /\ stored' \in [Nodes -> SUBSET DOMAIN blocks']
      /\ tip' \in [Nodes -> DOMAIN blocks']
  OBVIOUS
<1>2. \A h \in DOMAIN blocks' : blocks'[h].Height \in Nat
  OBVIOUS
<1>3. Spread!TipIsHighest'
  <2> SUFFICES ASSUME NEW m \in Nodes
               PROVE  /\ tip'[m] \in stored'[m]
                      /\ \A h \in stored'[m] :
                           blocks'[h].Height <= blocks'[tip'[m]].Height
    BY DEF Spread!TipIsHighest
  <2>1. CASE m = n
    BY <2>1 DEF Spread!TipIsHighest
  <2>2. CASE m # n
    BY <2>2 DEF Spread!TipIsHighest
  <2> QED BY <2>1, <2>2
<1>4. Spread!ParentsAreSomewhere'
  <2> SUFFICES ASSUME NEW h \in DOMAIN blocks'
               PROVE  \E m \in Nodes :
                        /\ h \in stored'[m]
                        /\ blocks'[h].PrevHash \in stored'[m] \cup {Nil}
    BY DEF Spread!ParentsAreSomewhere
  <2>1. CASE h = hash
    BY <2>1 DEF Spread!TipIsHighest
  <2>2. CASE h # hash
    BY <2>2 DEF Spread!ParentsAreSomewhere
  <2> QED BY <2>1, <2>2
<1> QED BY <1>1, <1>2, <1>3, <1>4

LEMMA SpreadInvLearn ==
  ASSUME Spread!Inv, NEW n \in Nodes, NEW hash \in DOMAIN blocks, Spread!Learn(n, hash)
  PROVE  Spread!Inv'
<1> USE DEF Spread!Inv, Spread!Learn, Spread!Height
<1>1. /\ stored' \in [Nodes -> SUBSET DOMAIN blocks']
      /\ tip' \in [Nodes -> DOMAIN blocks']
      /\ \A h \in DOMAIN blocks' : blocks'[h].Height \in Nat
  OBVIOUS
<1>2. Spread!TipIsHighest'
  <2> SUFFICES ASSUME NEW m \in Nodes
               PROVE  /\ tip'[m] \in stored'[m]
                      /\ \A h \in stored'[m] :
                           blocks[h].Height <= blocks[tip'[m]].Height
    BY DEF Spread!TipIsHighest
  <2>1. CASE m = n
    BY <2>1 DEF Spread!TipIsHighest
  <2>2. CASE m # n
    BY <2>2 DEF Spread!TipIsHighest
  <2> QED BY <2>1, <2>2
<1>3. Spread!ParentsAreSomewhere'
  BY DEF Spread!ParentsAreSomewhere
<1> QED BY <1>1, <1>2, <1>3

\* However blocks are mined and copied, tips are highest and no parent is lost.
THEOREM SpreadKeepsBlocks ==
  Spread!Spec => [](Spread!TipIsHighest /\ Spread!ParentsAreSomewhere)
<1>1. Spread!Inv /\ [Spread!Next]_(Spread!vars) => Spread!Inv'
  <2> SUFFICES ASSUME Spread!Inv, [Spread!Next]_(Spread!vars) PROVE Spread!Inv'
    OBVIOUS
  <2>1. CASE UNCHANGED Spread!vars
    BY <2>1 DEF Spread!vars, Spread!Inv, Spread!Height, Spread!TipIsHighest,
                Spread!ParentsAreSomewhere
  <2>2. CASE Spread!Next
    BY <2>2, SpreadInvMine, SpreadInvLearn DEF Spread!Next
  <2> QED BY <2>1, <2>2
<1>2. Spread!Inv => Spread!TipIsHighest /\ Spread!ParentsAreSomewhere
  BY DEF Spread!Inv
<1> QED BY <1>1, <1>2, SpreadInvInit, PTL DEF Spread!Spec

LEMMA SpreadInit == Init => Spread!Init
BY BeforeAssumption DEF Init, BeforeAssumption, Spread!Init, Spread!Height

\* A handler stores a block: new, it is one that some node has; old, nothing
\* changes.
LEMMA SpreadHandleBlock ==
  ASSUME TypeInv, NEW n \in Nodes, NEW c \in DOMAIN conns, HandleBlock(n, c)
  PROVE  (\E hash \in DOMAIN blocks : Spread!Learn(n, hash)) \/ UNCHANGED Spread!vars
<1>1. ConnOK(c)
  BY DEF TypeInv
<1>2. PICK m \in Nodes : c.ID \in stored[m]
  BY <1>1 DEF HandleBlock, Begins, ConnOK
<1>3. c.ID \in DOMAIN blocks
  BY <1>2 DEF TypeInv, TypeOK
<1>4. /\ stored' = [stored EXCEPT ![n] = @ \cup {c.ID}]
      /\ tip' = IF c.ID \notin stored[n] /\ BecomesTip(n, c.ID)
                THEN [tip EXCEPT ![n] = c.ID] ELSE tip
      /\ blocks' = blocks
  BY DEF HandleBlock, Store
<1>5. CASE c.ID \in stored[n]
  BY <1>4, <1>5 DEF TypeInv, TypeOK, Spread!vars
<1>6. CASE c.ID \notin stored[n]
  <2>1. Spread!Learn(n, c.ID)
    BY <1>2, <1>4, <1>6
       DEF Spread!Learn, Spread!Height, BecomesTip, GetBestHeight
  <2> QED BY <1>3, <2>1
<1> QED BY <1>5, <1>6

LEMMA SpreadMine ==
  ASSUME NEW n \in Nodes, NEW txs, NEW hash \in MinedHashes, MakesBlock(n, txs, hash)
  PROVE  Spread!Mine(n, hash)
BY DEF MakesBlock, Spread!Mine, Spread!Height, GetBestHeight

LEMMA SpreadStep == TypeInv /\ [Next]_vars => [Spread!Next]_(Spread!vars)
<1> SUFFICES ASSUME TypeInv, [Next]_vars PROVE [Spread!Next]_(Spread!vars)
  OBVIOUS
<1>1. UNCHANGED storage => UNCHANGED Spread!vars
  BY DEF storage, Spread!vars
<1>2. CASE UNCHANGED vars
  BY <1>1, <1>2 DEF vars
<1>3. ASSUME NEW n \in Nodes,
             StartServer(n) \/ Killed(n) \/ Accept(n) \/ \E t \in Txs : AddTXN(n, t)
      PROVE  UNCHANGED storage
  BY <1>3 DEF StartServer, Killed, ProcessEnds, Accept, AddTXN
<1>4. ASSUME NEW n \in Nodes, NEW c \in DOMAIN conns, Handle(n, c)
      PROVE  [Spread!Next]_(Spread!vars)
  <2>1. CASE HandleBlock(n, c)
    BY <2>1, SpreadHandleBlock DEF Spread!Next
  <2>2. CASE \E hash \in MinedHashes : MineTx(n, c, hash)
    BY <2>2, MineMakesBlock, SpreadMine DEF MineTx, Spread!Next
  <2>3. CASE Panics(n, c)
    BY <1>1, <2>3
       DEF Panics, HandleVersionPanics, TrimPanics, OpenDBPanics, MineTxPanics,
           ProcessEnds
  <2>4. CASE \/ HandleVersion(n, c) \/ AddToKnown(n, c) \/ HandleGetBlocks(n, c)
             \/ HandleInvBlock(n, c) \/ FilterTransit(n, c) \/ HandleGetData(n, c)
             \/ TrimTransit(n, c) \/ CloseDB(n, c)
    BY <1>1, <2>4
       DEF HandleVersion, AddToKnown, HandleGetBlocks, HandleInvBlock,
           FilterTransit, HandleGetData, TrimTransit, CloseDB
  <2>5. CASE \/ HandleTxZero(n, c) \/ HandleInvTx(n, c) \/ HandleTx(n, c)
             \/ MineTxNothing(n, c) \/ MineTxAnnounces(n, c)
    BY <1>1, <2>5
       DEF HandleTxZero, HandleInvTx, HandleTx, MineTxNothing, MineTxAnnounces
  <2> QED BY <1>4, <2>1, <2>2, <2>3, <2>4, <2>5 DEF Handle, Panics
<1>5. ASSUME NEW n \in Nodes, NEW t \in Txs, NEW hash \in MinedHashes, AddTXNNow(n, t, hash)
      PROVE  Spread!Next
  BY <1>5, PostedNow, SpreadMine DEF Spread!Next
<1> QED BY <1>1, <1>2, <1>3, <1>4, <1>5 DEF Next, Serve

\* Whatever messages cross and processes end, blocks are made on tips, copied
\* unchanged from nodes that have them and never dropped.
THEOREM NetworkImplementsSpread == Spec => BlocksSpread
BY TypeInit, TypeNext, SpreadInit, SpreadStep, PTL
   DEF Spec, BlocksSpread, Spread!Spec

\* What BlockSpread promises holds in the network: a missing parent can still
\* be got from some node.
THEOREM NetworkKeepsBlocks == Spec => []ParentsAreSomewhere
<1>1. BlocksSpread => [](Spread!TipIsHighest /\ Spread!ParentsAreSomewhere)
  BY SpreadKeepsBlocks DEF BlocksSpread
<1>2. Spread!ParentsAreSomewhere <=> ParentsAreSomewhere
  BY DEF ParentsAreSomewhere
<1> QED BY <1>1, <1>2, NetworkImplementsSpread, PTL

----------------------------------------------------------------------------
(* Payments in a pool.                                                      *)

\* A pool shrinks when its process ends or a block of the node takes what goes.
LEMMA PooledStep ==
  TypeInv /\ [Next]_vars =>
    \A n \in Nodes : \A t \in pool[n] \ pool'[n] :
      status'[n] = "down" \/ \E h \in stored'[n] : t \in blocks'[h].Txs
<1> SUFFICES ASSUME TypeInv, [Next]_vars, NEW n \in Nodes, NEW t \in pool[n] \ pool'[n]
             PROVE  status'[n] = "down" \/ \E h \in stored'[n] : t \in blocks'[h].Txs
  OBVIOUS
<1>1. pool' # pool
  OBVIOUS
<1>2. /\ status \in [Nodes -> {"down", "starting", "up"}]
      /\ pool \in [Nodes -> SUBSET (Txs \cup {EmptyTx})]
  BY DEF TypeInv, TypeOK
<1>3. ASSUME NEW m \in Nodes, ProcessEnds(m) PROVE status'[n] = "down"
  BY <1>2, <1>3 DEF ProcessEnds
<1>4. ASSUME NEW m \in Nodes,
             \/ StartServer(m) \/ Accept(m) \/ \E x \in Txs : AddTXN(m, x)
             \/ \E x \in Txs : \E hash \in MinedHashes : AddTXNNow(m, x, hash)
      PROVE  pool' = pool
  BY <1>4 DEF StartServer, Accept, AddTXN, AddTXNNow, memory
<1>5. ASSUME NEW m \in Nodes, NEW c \in DOMAIN conns, Handle(m, c)
      PROVE  status'[n] = "down" \/ \E h \in stored'[n] : t \in blocks'[h].Txs
  <2>1. CASE Panics(m, c)
    BY <1>3, <2>1
       DEF Panics, HandleVersionPanics, TrimPanics, OpenDBPanics, MineTxPanics
  <2>2. CASE MineTxAnnounces(m, c)
    <3>1. ConnOK(c) /\ c.node = m /\ c.at = "mined"
      BY <2>2 DEF TypeInv, MineTxAnnounces
    <3>2. c.ID \in stored[m] /\ UNCHANGED storage
      BY <2>2, <3>1 DEF ConnOK, MineTxAnnounces
    <3>3. pool' = [pool EXCEPT ![m] = @ \ blocks[c.ID].Txs]
      BY <2>2 DEF MineTxAnnounces, LeavesPool
    <3> QED BY <1>2, <3>2, <3>3 DEF storage
  <2>3. CASE \/ HandleVersion(m, c) \/ AddToKnown(m, c) \/ HandleGetBlocks(m, c)
             \/ HandleInvBlock(m, c) \/ FilterTransit(m, c) \/ HandleGetData(m, c)
             \/ TrimTransit(m, c) \/ CloseDB(m, c) \/ HandleBlock(m, c)
    BY <1>1, <2>3
       DEF HandleVersion, AddToKnown, HandleGetBlocks, HandleInvBlock, memory,
           FilterTransit, HandleGetData, TrimTransit, CloseDB, HandleBlock
  <2>4. CASE HandleTxZero(m, c) \/ HandleTx(m, c)
    BY <1>2, <2>4 DEF HandleTxZero, HandleTx
  <2>5. CASE \/ HandleInvTx(m, c) \/ MineTxNothing(m, c)
             \/ \E hash \in MinedHashes : MineTx(m, c, hash)
    BY <1>1, <2>5 DEF HandleInvTx, MineTxNothing, MineTx, memory
  <2> QED BY <1>5, <2>1, <2>2, <2>3, <2>4, <2>5 DEF Handle, Panics
<1>6. CASE UNCHANGED vars
  BY <1>1, <1>6 DEF vars, memory
<1> QED BY <1>1, <1>3, <1>4, <1>5, <1>6 DEF Next, Serve, Killed

\* Between a block that is mined and its transactions leaving the pool other
\* handlers may add to the pool; what they add is not lost.
THEOREM PooledPaymentsStay == Spec => PooledIsKeptOrMined
<1>1. TypeInv /\ [Next]_vars =>
        [\A n \in Nodes : \A t \in pool[n] \ pool'[n] :
           status'[n] = "down" \/ \E h \in stored'[n] : t \in blocks'[h].Txs]_vars
  BY PooledStep
<1> QED BY <1>1, TypeInit, TypeNext, PTL DEF Spec, PooledIsKeptOrMined

----------------------------------------------------------------------------
(* The store of a node.                                                     *)

\* conns is a bag, a handler belongs to a node that is up, and has the store
\* alone.
Held ==
  /\ conns \in [DOMAIN conns -> Nat \ {0}]
  /\ \A c \in DOMAIN conns : c.at # "new" => status[c.node] = "up"
  /\ StoreIsHeldOnce

LEMMA BagCounts ==
  ASSUME NEW B, NEW S, B \in [DOMAIN B -> Nat \ {0}]
  PROVE  LET new == B (+) SetToBag(S)
         IN  /\ DOMAIN new = DOMAIN B \cup S
             /\ new \in [DOMAIN new -> Nat \ {0}]
             /\ \A d \in DOMAIN B \ S : new[d] = B[d]
             /\ \A d \in S \ DOMAIN B : new[d] = 1
BY DEF (+), SetToBag

LEMMA BagRemoveCounts ==
  ASSUME NEW B, NEW c \in DOMAIN B, B \in [DOMAIN B -> Nat \ {0}]
  PROVE  LET new == B (-) SetToBag({c})
         IN  /\ DOMAIN new \subseteq DOMAIN B
             /\ new \in [DOMAIN new -> Nat \ {0}]
             /\ \A d \in DOMAIN new : new[d] <= B[d]
             /\ B[c] = 1 => c \notin DOMAIN new
BY DEF (-), SetToBag

LEMMA ProceedCounts ==
  ASSUME conns \in [DOMAIN conns -> Nat \ {0}], NEW c \in DOMAIN conns,
         NEW next, NEW sent, Proceed(c, next, sent)
  PROVE  /\ conns' \in [DOMAIN conns' -> Nat \ {0}]
         /\ \A d \in DOMAIN conns' \ (next \cup sent) :
              d \in DOMAIN conns /\ conns'[d] <= conns[d]
         /\ \A d \in DOMAIN conns' \ DOMAIN conns : conns'[d] = 1
         /\ conns[c] = 1 /\ c \notin next \cup sent => c \notin DOMAIN conns'
<1>1. PICK rest : rest = conns (-) SetToBag({c})
  OBVIOUS
<1>2. PICK S : S = next \cup { m \in sent : Listening(m.node) }
  OBVIOUS
<1>3. conns' = rest (+) SetToBag(S) /\ S \subseteq next \cup sent
  BY <1>1, <1>2 DEF Proceed
<1>4. /\ DOMAIN rest \subseteq DOMAIN conns
      /\ rest \in [DOMAIN rest -> Nat \ {0}]
      /\ \A d \in DOMAIN rest : rest[d] <= conns[d]
      /\ conns[c] = 1 => c \notin DOMAIN rest
  BY <1>1, BagRemoveCounts
<1>5. LET new == rest (+) SetToBag(S)
      IN  /\ DOMAIN new = DOMAIN rest \cup S
          /\ new \in [DOMAIN new -> Nat \ {0}]
          /\ \A d \in DOMAIN rest \ S : new[d] = rest[d]
          /\ \A d \in S \ DOMAIN rest : new[d] = 1
  BY <1>4, BagCounts
<1>6. /\ DOMAIN conns' = DOMAIN rest \cup S
      /\ conns' \in [DOMAIN conns' -> Nat \ {0}]
      /\ \A d \in DOMAIN rest \ S : conns'[d] = rest[d]
      /\ \A d \in S \ DOMAIN rest : conns'[d] = 1
  BY <1>3, <1>5
<1> QED BY <1>3, <1>4, <1>6

\* Of the handlers of a node one at most has the store, and there is no second
\* one like it.
LEMMA OneHolder ==
  ASSUME Held, NEW n \in Nodes, NEW d \in DOMAIN conns, NEW e \in DOMAIN conns,
         d.node = n, e.node = n, d.at \in OpenStages, e.at \in OpenStages
  PROVE  d = e /\ conns[d] = 1
BY DEF Held, StoreIsHeldOnce

\* A handler that goes on to one stage at most, and has the store afterwards only
\* if it had it before or nobody had, sends what has not begun.
LEMMA HandlerHolds ==
  ASSUME Held, TypeInv, NEW c \in DOMAIN conns, NEW next, NEW sent,
         Proceed(c, next, sent), UNCHANGED status, status[c.node] = "up",
         \A d \in sent : d.at = "new",
         \A d, e \in next : d = e,
         \A d \in next : d.node = c.node /\ d.at # "new" /\ d # c,
         \A d \in next : d.at \in OpenStages => c.at \in OpenStages \/ ~IsOpen(c.node)
  PROVE  Held'
<1>1. /\ conns' \in [DOMAIN conns' -> Nat \ {0}]
      /\ \A d \in DOMAIN conns' \ (next \cup sent) :
           d \in DOMAIN conns /\ conns'[d] <= conns[d]
      /\ \A d \in DOMAIN conns' \ DOMAIN conns : conns'[d] = 1
      /\ conns[c] = 1 /\ c \notin next \cup sent => c \notin DOMAIN conns'
  BY ProceedCounts DEF Held
<1>2. \A d \in DOMAIN conns' : d.at # "new" => status'[d.node] = "up"
  BY <1>1 DEF Held
<1>3. c.node \in Nodes /\ "new" \notin OpenStages
  BY DEF TypeInv, ConnOK, OpenStages
<1>4. conns \in [DOMAIN conns -> Nat \ {0}]
  BY DEF Held
<1>5. ASSUME NEW n \in Nodes, NEW d \in DOMAIN conns', NEW e \in DOMAIN conns',
             d.node = n, e.node = n, d.at \in OpenStages, e.at \in OpenStages,
             d \in next
      PROVE  d = e /\ conns'[d] = 1
  <2>1. n = c.node /\ d # c /\ c \notin next /\ e \notin sent
    BY <1>3, <1>5
  <2>2. CASE ~IsOpen(n)
    <3>1. d \notin DOMAIN conns /\ e \notin DOMAIN conns
      BY <1>5, <2>2 DEF IsOpen
    <3> QED BY <1>1, <1>5, <2>1, <3>1
  <2>3. CASE c.at \in OpenStages
    <3>1. conns[c] = 1 /\ (e \in DOMAIN conns => e = c) /\ d \notin DOMAIN conns
      BY <1>3, <1>5, <2>1, <2>3, OneHolder
    <3>2. c \notin DOMAIN conns'
      BY <1>1, <1>3, <2>1, <2>3, <3>1
    <3> QED BY <1>1, <1>5, <2>1, <3>1, <3>2
  <2> QED BY <1>5, <2>1, <2>2, <2>3
<1>6. ASSUME NEW n \in Nodes, NEW d \in DOMAIN conns', NEW e \in DOMAIN conns',
             d.node = n, e.node = n, d.at \in OpenStages, e.at \in OpenStages
      PROVE  d = e /\ conns'[d] = 1
  <2>1. d \notin sent /\ e \notin sent
    BY <1>3, <1>6
  <2>2. CASE d \in next \/ e \in next
    BY <1>5, <1>6, <2>2
  <2>3. CASE d \notin next /\ e \notin next
    <3>1. d \in DOMAIN conns /\ e \in DOMAIN conns /\ conns'[d] <= conns[d]
      BY <1>1, <1>6, <2>1, <2>3
    <3>2. d = e /\ conns[d] = 1
      BY <1>6, <3>1, OneHolder
    <3> QED BY <1>1, <3>1, <3>2
  <2> QED BY <2>2, <2>3
<1>7. StoreIsHeldOnce'
  BY <1>2, <1>3, <1>6 DEF StoreIsHeldOnce
<1> QED BY <1>1, <1>2, <1>7 DEF Held

\* A handler at its next stage, and a message, which has not begun.
LEMMA AtFacts ==
  ASSUME NEW c, ConnOK(c), NEW stage, stage # c.at, NEW d \in At(c, stage)
  PROVE  d.node = c.node /\ d.at = stage /\ d # c
BY DEF ConnOK, At

LEMMA SentIsNew ==
  /\ \A to, from, height : SendVersion(to, from, height).at = "new"
  /\ \A to, from : SendGetBlocks(to, from).at = "new"
  /\ \A to, from, kind, items : SendInv(to, from, kind, items).at = "new"
  /\ \A to, from, kind, id : SendGetData(to, from, kind, id).at = "new"
  /\ \A to, from, hash : SendBlock(to, from, hash).at = "new"
  /\ \A to, from, tx : SendTx(to, from, tx).at = "new"
BY DEF SendVersion, SendGetBlocks, SendInv, SendGetData, SendBlock, SendTx, NewConn

\* A handler goes on to stage: to the store only if it had it or nobody had.
LEMMA GoesOnHolds ==
  ASSUME Held, TypeInv, NEW c \in DOMAIN conns, NEW stage, NEW sent,
         Proceed(c, At(c, stage), sent), UNCHANGED status, status[c.node] = "up",
         \A d \in sent : d.at = "new",
         stage # "new", stage # c.at,
         stage \in OpenStages => c.at \in OpenStages \/ ~IsOpen(c.node)
  PROVE  Held'
<1>1. ConnOK(c)
  BY DEF TypeInv
<1>2. \A d \in At(c, stage) : d.node = c.node /\ d.at = stage /\ d # c
  BY <1>1, AtFacts
<1>3. \A d, e \in At(c, stage) : d = e
  BY DEF At
<1> QED BY <1>2, <1>3, HandlerHolds

\* A handler ends.
LEMMA LastStepHolds ==
  ASSUME Held, TypeInv, NEW c \in DOMAIN conns, NEW sent, Proceed(c, {}, sent),
         UNCHANGED status, status[c.node] = "up", \A d \in sent : d.at = "new"
  PROVE  Held'
BY HandlerHolds

LEMMA ProcessEndsHolds ==
  ASSUME Held, TypeInv, NEW n \in Nodes, ProcessEnds(n)
  PROVE  Held'
<1>1. /\ DOMAIN conns' = { c \in DOMAIN conns : c.node # n }
      /\ \A c \in DOMAIN conns' : conns'[c] = conns[c]
      /\ conns' \in [DOMAIN conns' -> Nat \ {0}]
  BY DEF ProcessEnds, Held
<1>2. \A m \in Nodes \ {n} : status'[m] = status[m]
  BY DEF ProcessEnds, TypeInv, TypeOK
<1>3. \A c \in DOMAIN conns' : c.at # "new" => status'[c.node] = "up"
  BY <1>1, <1>2 DEF Held, TypeInv, TypeOK
<1>4. \A m \in Nodes : \A c, d \in DOMAIN conns' :
        /\ c.node = m /\ d.node = m
        /\ c.at \in OpenStages /\ d.at \in OpenStages
        => c = d /\ conns'[c] = 1
  BY <1>1, OneHolder
<1>5. StoreIsHeldOnce'
  BY <1>3, <1>4 DEF StoreIsHeldOnce, OpenStages
<1> QED BY <1>1, <1>3, <1>5 DEF Held

\* A node starts: it had no handlers.
LEMMA StartHolds ==
  ASSUME Held, TypeInv, NEW n \in Nodes, StartServer(n)
  PROVE  Held'
<1>1. PICK S : /\ conns' = conns (+) SetToBag(S)
               /\ \A d \in S : d.at = "new"
  <2> DEFINE sent == IF n = NODE_ZERO THEN {}
                     ELSE { SendVersion(NODE_ZERO, n, GetBestHeight(n)) }
  <2>1. \A d \in sent : d.at = "new"
    BY SentIsNew
  <2>2. conns' = conns (+) SetToBag({ m \in sent : Listening(m.node) })
    BY DEF StartServer
  <2> QED BY <2>1, <2>2
<1>2. LET new == conns (+) SetToBag(S)
      IN  /\ DOMAIN new = DOMAIN conns \cup S
          /\ new \in [DOMAIN new -> Nat \ {0}]
          /\ \A d \in DOMAIN conns \ S : new[d] = conns[d]
  BY BagCounts DEF Held
<1>3. /\ DOMAIN conns' = DOMAIN conns \cup S
      /\ conns' \in [DOMAIN conns' -> Nat \ {0}]
      /\ \A d \in DOMAIN conns \ S : conns'[d] = conns[d]
  BY <1>1, <1>2
<1>4. \A m \in Nodes : status'[m] = status[m] \/ status[m] = "down"
  BY DEF StartServer, TypeInv, TypeOK
<1>5. \A c \in DOMAIN conns' : c.at # "new" => status'[c.node] = "up"
  BY <1>1, <1>3, <1>4 DEF Held, TypeInv, TypeOK
<1>6. \A m \in Nodes : \A c, d \in DOMAIN conns' :
        /\ c.node = m /\ d.node = m
        /\ c.at \in OpenStages /\ d.at \in OpenStages
        => c = d /\ conns'[c] = 1
  <2>1. "new" \notin OpenStages
    BY DEF OpenStages
  <2> QED BY <1>1, <1>3, <2>1, OneHolder
<1>7. StoreIsHeldOnce'
  BY <1>5, <1>6 DEF StoreIsHeldOnce, OpenStages
<1> QED BY <1>3, <1>5, <1>7 DEF Held

\* A request of the HTTP server takes the store when nobody has it.
LEMMA RequestHolds ==
  ASSUME Held, TypeInv, NEW n \in Nodes, status[n] = "up", ~IsOpen(n), UNCHANGED status,
         NEW S, conns' = conns (+) SetToBag(S),
         NEW r, r.node = n, r.at = "close", \A d \in S : d = r \/ d.at = "new"
  PROVE  Held'
<1>1. LET new == conns (+) SetToBag(S)
      IN  /\ DOMAIN new = DOMAIN conns \cup S
          /\ new \in [DOMAIN new -> Nat \ {0}]
          /\ \A d \in DOMAIN conns \ S : new[d] = conns[d]
          /\ \A d \in S \ DOMAIN conns : new[d] = 1
  BY BagCounts DEF Held
<1>2. /\ DOMAIN conns' = DOMAIN conns \cup S
      /\ conns' \in [DOMAIN conns' -> Nat \ {0}]
      /\ \A d \in DOMAIN conns \ S : conns'[d] = conns[d]
      /\ \A d \in S \ DOMAIN conns : conns'[d] = 1
  BY <1>1
<1>3. \A c \in DOMAIN conns' : c.at # "new" => status'[c.node] = "up"
  BY <1>2 DEF Held
<1>4. "new" \notin OpenStages /\ "close" \in OpenStages
  BY DEF OpenStages
<1>5. \A d \in DOMAIN conns : d.node = n => d.at \notin OpenStages
  BY DEF IsOpen
<1>6. ASSUME NEW m \in Nodes, NEW c \in DOMAIN conns', NEW d \in DOMAIN conns',
             c.node = m, d.node = m, c.at \in OpenStages, d.at \in OpenStages
      PROVE  c = d /\ conns'[c] = 1
  <2>1. CASE m = n
    <3>1. c \in S \ DOMAIN conns /\ d \in S \ DOMAIN conns
      BY <1>2, <1>5, <1>6, <2>1
    <3> QED BY <1>2, <1>4, <1>6, <3>1
  <2>2. CASE m # n
    <3>1. c \in DOMAIN conns \ S /\ d \in DOMAIN conns \ S
      BY <1>2, <1>4, <1>6, <2>2
    <3> QED BY <1>2, <1>6, <3>1, OneHolder
  <2> QED BY <2>1, <2>2
<1>7. StoreIsHeldOnce'
  BY <1>3, <1>4, <1>6 DEF StoreIsHeldOnce
<1> QED BY <1>2, <1>3, <1>7 DEF Held

LEMMA AddTXNHolds ==
  ASSUME Held, TypeInv, NEW n \in Nodes, NEW t \in Txs, AddTXN(n, t)
  PROVE  Held'
<1> DEFINE request == NewConn(n, "addtxn", n, 0, "", <<>>, t)
           S == At(request, "close") \cup
                { m \in { SendTx(NODE_ZERO, n, t) } : Listening(m.node) }
<1>1. /\ status[n] = "up" /\ ~IsOpen(n) /\ UNCHANGED status
      /\ conns' = conns (+) SetToBag(S)
  BY DEF AddTXN
<1>2. PICK r : At(request, "close") = {r} /\ r.node = n /\ r.at = "close"
  <2>1. PICK r : r = [request EXCEPT !.at = "close"]
    OBVIOUS
  <2>2. r.node = n /\ r.at = "close"
    BY <2>1 DEF NewConn
  <2> QED BY <2>1, <2>2 DEF At
<1>3. \A d \in S : d = r \/ d.at = "new"
  BY <1>2, SentIsNew
<1> HIDE DEF S
<1> QED BY <1>1, <1>2, <1>3, RequestHolds

LEMMA AddTXNNowHolds ==
  ASSUME Held, TypeInv, NEW n \in Nodes, NEW t \in Txs, NEW hash, AddTXNNow(n, t, hash)
  PROVE  Held'
<1>1. PICK r : /\ conns' = conns (+) SetToBag({r})
               /\ r = [node |-> n, at |-> "close", cmd |-> "addtxn", from |-> n,
                       BestHeight |-> 0, Type |-> "", Items |-> <<>>, ID |-> t]
  BY PostedNow
<1>2. r.node = n /\ r.at = "close"
  BY <1>1
<1>3. status[n] = "up" /\ ~IsOpen(n) /\ UNCHANGED status
  BY PostedNow
<1>4. PICK S : S = {r}
  OBVIOUS
<1>5. conns' = conns (+) SetToBag(S) /\ \A d \in S : d = r \/ d.at = "new"
  BY <1>1, <1>4
<1> QED BY <1>2, <1>3, <1>5, RequestHolds

LEMMA BlockHandlersHold ==
  ASSUME Held, TypeInv, NEW n \in Nodes, NEW c \in DOMAIN conns,
         \/ HandleVersion(n, c) \/ AddToKnown(n, c) \/ HandleGetBlocks(n, c)
         \/ HandleInvBlock(n, c) \/ FilterTransit(n, c) \/ HandleGetData(n, c)
         \/ HandleBlock(n, c) \/ TrimTransit(n, c) \/ CloseDB(n, c)
  PROVE  Held'
<1>1. CASE HandleVersion(n, c)
  <2> DEFINE sent == IF GetBestHeight(n) < c.BestHeight
                     THEN { SendGetBlocks(c.from, n) } ELSE {}
  <2>1. Proceed(c, At(c, "known"), sent) /\ ~IsOpen(n) /\ UNCHANGED status
    BY <1>1 DEF HandleVersion
  <2>2. c.node = n /\ c.at = "new" /\ status[n] = "up"
    BY <1>1 DEF HandleVersion, Begins
  <2>3. \A d \in sent : d.at = "new"
    BY SentIsNew
  <2> QED BY <2>1, <2>2, <2>3, GoesOnHolds
<1>2. CASE AddToKnown(n, c) \/ FilterTransit(n, c) \/ TrimTransit(n, c) \/ CloseDB(n, c)
  <2>1. c.node = n /\ c.at # "new" /\ Proceed(c, {}, {}) /\ UNCHANGED status
    BY <1>2 DEF AddToKnown, FilterTransit, TrimTransit, CloseDB
  <2> QED BY <2>1, LastStepHolds DEF Held
<1>3. CASE HandleGetBlocks(n, c)
  <2> DEFINE sent == { SendInv(c.from, n, "block", GetBlockHashes(n)) }
  <2>1. Proceed(c, At(c, "close"), sent) /\ ~IsOpen(n) /\ UNCHANGED status
    BY <1>3 DEF HandleGetBlocks
  <2>2. c.node = n /\ c.at = "new" /\ status[n] = "up"
    BY <1>3 DEF HandleGetBlocks, Begins
  <2>3. \A d \in sent : d.at = "new"
    BY SentIsNew
  <2> QED BY <2>1, <2>2, <2>3, GoesOnHolds
<1>4. CASE HandleInvBlock(n, c)
  <2> DEFINE sent == { SendGetData(c.from, n, "block", c.Items[1]) }
  <2>1. Proceed(c, At(c, "filter"), sent) /\ UNCHANGED status
    BY <1>4 DEF HandleInvBlock
  <2>2. c.node = n /\ c.at = "new" /\ status[n] = "up"
    BY <1>4 DEF HandleInvBlock, Begins
  <2>3. \A d \in sent : d.at = "new"
    BY SentIsNew
  <2>4. "filter" \notin OpenStages
    BY DEF OpenStages
  <2> QED BY <2>1, <2>2, <2>3, <2>4, GoesOnHolds
<1>5. CASE HandleGetData(n, c)
  <2>1. Proceed(c, At(c, "close"), Answer(n, c)) /\ ~IsOpen(n) /\ UNCHANGED status
    BY <1>5 DEF HandleGetData
  <2>2. c.node = n /\ c.at = "new" /\ status[n] = "up"
    BY <1>5 DEF HandleGetData, Begins
  <2>3. \A d \in Answer(n, c) : d.at = "new"
    BY SentIsNew DEF Answer
  <2> QED BY <2>1, <2>2, <2>3, GoesOnHolds
<1>6. CASE HandleBlock(n, c)
  <2> DEFINE sent == IF transit[n] = <<>> THEN {}
                     ELSE { SendGetData(c.from, n, "block", Head(transit[n])) }
             next == IF transit[n] = <<>> THEN "close" ELSE "trim"
  <2>1. Proceed(c, At(c, next), sent) /\ ~IsOpen(n) /\ UNCHANGED status
    BY <1>6 DEF HandleBlock
  <2>2. c.node = n /\ c.at = "new" /\ status[n] = "up"
    BY <1>6 DEF HandleBlock, Begins
  <2>3. \A d \in sent : d.at = "new"
    BY SentIsNew
  <2>4. next # "new"
    OBVIOUS
  <2> HIDE DEF sent, next
  <2> QED BY <2>1, <2>2, <2>3, <2>4, GoesOnHolds
<1> QED BY <1>1, <1>2, <1>3, <1>4, <1>5, <1>6

LEMMA TxHandlersHold ==
  ASSUME Held, TypeInv, NEW n \in Nodes, NEW c \in DOMAIN conns,
         \/ HandleTxZero(n, c) \/ HandleInvTx(n, c) \/ HandleTx(n, c)
         \/ MineTxNothing(n, c) \/ MineTxAnnounces(n, c)
         \/ \E hash \in MinedHashes : MineTx(n, c, hash)
  PROVE  Held'
<1>1. CASE HandleTxZero(n, c)
  <2> DEFINE others == known[n] \ {n, c.from}
             sent == { SendInv(to, n, "tx", <<c.ID>>) : to \in others }
  <2>1. Proceed(c, {}, sent) /\ \A d \in sent : d.at = "new"
    <3>1. ASSUME NEW d \in sent PROVE d.at = "new"
      <4>1. PICK to \in others : d = SendInv(to, n, "tx", <<c.ID>>)
        OBVIOUS
      <4> QED BY <4>1 DEF SendInv, NewConn
    <3>2. Proceed(c, {}, sent)
      BY <1>1 DEF HandleTxZero
    <3> QED BY <3>1, <3>2
  <2>2. c.node = n /\ status[n] = "up" /\ UNCHANGED status
    BY <1>1 DEF HandleTxZero, Begins
  <2> QED BY <2>1, <2>2, LastStepHolds
<1>2. CASE HandleInvTx(n, c)
  <2>1. PICK sent : Proceed(c, {}, sent) /\ \A d \in sent : d.at = "new"
    BY <1>2, SentIsNew DEF HandleInvTx
  <2>2. c.node = n /\ status[n] = "up" /\ UNCHANGED status
    BY <1>2 DEF HandleInvTx, Begins
  <2> QED BY <2>1, <2>2, LastStepHolds
<1>3. CASE HandleTx(n, c)
  <2>1. c.node = n /\ c.at = "new" /\ status[n] = "up" /\ UNCHANGED status
    BY <1>3 DEF HandleTx, Begins
  <2>2. Proceed(c, {}, {}) \/ Proceed(c, At(c, "mine"), {})
    BY <1>3 DEF HandleTx
  <2>3. "mine" \notin OpenStages
    BY DEF OpenStages
  <2> QED BY <2>1, <2>2, <2>3, LastStepHolds, GoesOnHolds
<1>4. CASE MineTxNothing(n, c)
  <2>1. /\ c.node = n /\ c.at = "mine" /\ ~IsOpen(n)
        /\ Proceed(c, At(c, "close"), {}) /\ UNCHANGED status
    BY <1>4 DEF MineTxNothing
  <2>2. status[n] = "up"
    BY <2>1 DEF Held
  <2> QED BY <2>1, <2>2, GoesOnHolds
<1>5. CASE MineTxAnnounces(n, c)
  <2> DEFINE sent == { SendInv(m, n, "block", <<c.ID>>) : m \in known[n] \ {n} }
             next == IF pool'[n] = {} THEN "close" ELSE "again"
  <2>1. c.node = n /\ c.at = "mined" /\ Proceed(c, At(c, next), sent) /\ UNCHANGED status
    BY <1>5 DEF MineTxAnnounces
  <2>2. status[n] = "up"
    BY <2>1 DEF Held
  <2>3. \A d \in sent : d.at = "new"
    BY SentIsNew
  <2>4. next # "new" /\ next # c.at /\ c.at \in OpenStages
    BY <2>1 DEF OpenStages
  <2> HIDE DEF sent, next
  <2> QED BY <2>1, <2>2, <2>3, <2>4, GoesOnHolds
<1>6. ASSUME NEW hash \in MinedHashes, MineTx(n, c, hash)
      PROVE  Held'
  <2>1. PICK d : d = [c EXCEPT !.at = "mined", !.ID = hash]
    OBVIOUS
  <2>2. /\ c.node = n /\ c.at = "mine" /\ ~IsOpen(n)
        /\ Proceed(c, {d}, {}) /\ UNCHANGED status
    BY <1>6, <2>1 DEF MineTx
  <2>3. ConnOK(c) /\ status[n] = "up"
    BY <2>2 DEF Held, TypeInv
  <2>4. d.node = c.node /\ d.at = "mined" /\ d # c
    BY <2>1, <2>2, <2>3 DEF ConnOK
  <2> QED BY <2>2, <2>3, <2>4, HandlerHolds
<1> QED BY <1>1, <1>2, <1>3, <1>4, <1>5, <1>6

LEMMA HeldNext == TypeInv /\ Held /\ [Next]_vars => Held'
<1> SUFFICES ASSUME TypeInv, Held, [Next]_vars PROVE Held'
  OBVIOUS
<1>1. ASSUME UNCHANGED <<status, conns>>
      PROVE  Held'
  BY <1>1 DEF Held, StoreIsHeldOnce
<1>2. ASSUME NEW n \in Nodes, StartServer(n) PROVE Held'
  BY <1>2, StartHolds
<1>3. ASSUME NEW n \in Nodes, Killed(n) PROVE Held'
  BY <1>3, ProcessEndsHolds DEF Killed
<1>4. ASSUME NEW n \in Nodes, Accept(n) PROVE Held'
  <2>1. UNCHANGED conns /\ \A m \in Nodes : status'[m] = status[m] \/ status'[m] = "up"
    BY <1>4 DEF Accept, TypeInv, TypeOK
  <2>2. \A c \in DOMAIN conns' : c.at # "new" => status'[c.node] = "up"
    BY <2>1 DEF Held, TypeInv, TypeOK
  <2>3. StoreIsHeldOnce'
    BY <2>1, <2>2, OneHolder DEF StoreIsHeldOnce, OpenStages
  <2> QED BY <2>1, <2>2, <2>3 DEF Held
<1>5. ASSUME NEW n \in Nodes, NEW t \in Txs, AddTXN(n, t) PROVE Held'
  BY <1>5, AddTXNHolds
<1>8. ASSUME NEW n \in Nodes, NEW t \in Txs, NEW hash \in MinedHashes, AddTXNNow(n, t, hash)
      PROVE  Held'
  BY <1>8, AddTXNNowHolds
<1>6. ASSUME NEW n \in Nodes, NEW c \in DOMAIN conns, Handle(n, c) PROVE Held'
  <2>1. CASE \/ HandleVersionPanics(n, c) \/ TrimPanics(n, c)
             \/ OpenDBPanics(n, c) \/ MineTxPanics(n, c)
    BY <2>1, ProcessEndsHolds
       DEF HandleVersionPanics, TrimPanics, OpenDBPanics, MineTxPanics
  <2> QED BY <1>6, <2>1, BlockHandlersHold, TxHandlersHold DEF Handle
<1>7. CASE UNCHANGED vars
  BY <1>1, <1>7 DEF vars
<1> QED BY <1>2, <1>3, <1>4, <1>5, <1>6, <1>7, <1>8 DEF Next, Serve

LEMMA HeldInit == Init => Held
<1> SUFFICES ASSUME Init PROVE Held
  OBVIOUS
<1>1. DOMAIN conns = {} /\ conns \in [DOMAIN conns -> Nat \ {0}]
  BY DEF Init, EmptyBag, SetToBag
<1> QED BY <1>1 DEF Held, StoreIsHeldOnce

\* However the steps of handlers, requests and processes mix, one handler at most
\* has a node's store open, and none is left of a process that ended.
THEOREM StoreHasOneHolder == Spec => []StoreIsHeldOnce
<1>1. TypeInv /\ Held /\ [Next]_vars => TypeInv' /\ Held'
  BY TypeNext, HeldNext
<1>2. Held => StoreIsHeldOnce
  BY DEF Held
<1> QED BY <1>1, <1>2, TypeInit, HeldInit, PTL DEF Spec

----------------------------------------------------------------------------
(* The empty transaction.                                                   *)

\* NODE_ZERO offers what it has, is asked for what it offered, and does not
\* mine; nobody else is asked for a transaction.
ConnBrings(c) ==
  /\ c.at = "new" /\ c.cmd = "tx" => c.ID # EmptyTx
  /\ c.at = "new" /\ c.cmd = "inv" /\ c.Type = "tx" =>
       c.from = NODE_ZERO /\ c.Items[1] \in pool[NODE_ZERO]
  /\ c.at = "new" /\ c.cmd = "getdata" /\ c.Type = "tx" =>
       c.node = NODE_ZERO /\ c.ID \in pool[NODE_ZERO]
  /\ c.at \in {"mine", "mined", "again"} => c.node # NODE_ZERO

NoneLost ==
  /\ \A n \in Nodes : EmptyTx \notin pool[n]
  /\ \A c \in DOMAIN conns : ConnBrings(c)

\* Until the process of NODE_ZERO ends, no transaction is lost.
Kept ==
  /\ Listening(NODE_ZERO) => starts[NODE_ZERO] >= 1
  /\ HasEnded(NODE_ZERO) \/ NoneLost

LEMMA KeptInit == Init => Kept
<1> SUFFICES ASSUME Init PROVE Kept
  OBVIOUS
<1>1. DOMAIN conns = {}
  BY DEF Init, EmptyBag, SetToBag
<1> QED BY <1>1, NodeAssumption DEF Init, Kept, NoneLost, Listening

\* Messages and stages that NoneLost says nothing of.
LEMMA BringsNothing ==
  ASSUME NEW d,
         d.at = "new" => d.cmd # "tx" /\ d.Type # "tx",
         d.at \in {"mine", "mined", "again"} => d.node # NODE_ZERO
  PROVE  ConnBrings(d)'
BY DEF ConnBrings

LEMMA BlockMessages ==
  /\ \A to, from, height : ConnBrings(SendVersion(to, from, height))'
  /\ \A to, from : ConnBrings(SendGetBlocks(to, from))'
  /\ \A to, from, items : ConnBrings(SendInv(to, from, "block", items))'
  /\ \A to, from, id : ConnBrings(SendGetData(to, from, "block", id))'
  /\ \A to, from, hash : ConnBrings(SendBlock(to, from, hash))'
BY DEF SendVersion, SendGetBlocks, SendInv, SendGetData, SendBlock, NewConn, ConnBrings

\* The process of NODE_ZERO goes on, so that what is to be kept is NoneLost.
LEMMA SameProcess ==
  ASSUME TypeInv, Kept, UNCHANGED starts,
         Listening(NODE_ZERO)' <=> Listening(NODE_ZERO),
         NoneLost => NoneLost'
  PROVE  Kept'
BY DEF Kept, HasEnded

\* Connections that are old or bring what they may keep NoneLost.
LEMMA NoneLostStep ==
  ASSUME NoneLost, pool[NODE_ZERO] \subseteq pool'[NODE_ZERO],
         \A n \in Nodes : EmptyTx \notin pool'[n],
         \A d \in DOMAIN conns' : d \in DOMAIN conns \/ ConnBrings(d)'
  PROVE  NoneLost'
BY DEF NoneLost, ConnBrings

LEMMA HandlerKeeps ==
  ASSUME TypeInv, Kept, UNCHANGED <<starts, status>>,
         NEW c \in DOMAIN conns, NEW next, NEW sent, Proceed(c, next, sent),
         NoneLost =>
           /\ pool[NODE_ZERO] \subseteq pool'[NODE_ZERO]
           /\ \A n \in Nodes : EmptyTx \notin pool'[n]
           /\ \A d \in next \cup sent : ConnBrings(d)'
  PROVE  Kept'
<1>1. Listening(NODE_ZERO)' <=> Listening(NODE_ZERO)
  BY DEF Listening
<1>2. ASSUME NoneLost PROVE NoneLost'
  BY <1>2, ProceedConns, NoneLostStep
<1> QED BY <1>1, <1>2, SameProcess

\* The same for a handler that leaves the pools alone.
LEMMA BlockHandlerKeeps ==
  ASSUME TypeInv, Kept, UNCHANGED <<starts, status, pool>>,
         NEW c \in DOMAIN conns, NEW next, NEW sent, Proceed(c, next, sent),
         NoneLost => \A d \in next \cup sent : ConnBrings(d)'
  PROVE  Kept'
BY HandlerKeeps DEF NoneLost

\* A handler goes on to a stage that is not one of mining.
LEMMA StageBrings ==
  ASSUME NEW c, ConnOK(c), NEW stage, NEW d \in At(c, stage),
         stage # "new", stage \in {"mine", "mined", "again"} => c.node # NODE_ZERO
  PROVE  ConnBrings(d)'
<1>1. d.at = stage /\ d.node = c.node
  BY DEF At, ConnOK
<1> QED BY <1>1, BringsNothing

LEMMA ProcessEndsKeeps ==
  ASSUME TypeInv, Kept, NEW n \in Nodes, Listening(n), ProcessEnds(n)
  PROVE  Kept'
<1>1. DOMAIN conns' \subseteq DOMAIN conns /\ UNCHANGED starts
  BY DEF ProcessEnds
<1>2. CASE n = NODE_ZERO
  <2>1. starts'[NODE_ZERO] >= 1 /\ ~Listening(NODE_ZERO)'
    BY <1>1, <1>2 DEF ProcessEnds, Kept, Listening, TypeInv, TypeOK
  <2> QED BY <1>1, <2>1, NodeAssumption DEF Kept, HasEnded, TypeInv
<1>3. CASE n # NODE_ZERO
  <2>1. Listening(NODE_ZERO)' <=> Listening(NODE_ZERO)
    BY <1>3, NodeAssumption DEF ProcessEnds, Listening, TypeInv, TypeOK
  <2>2. /\ pool'[NODE_ZERO] = pool[NODE_ZERO]
        /\ \A m \in Nodes : pool'[m] \subseteq pool[m]
    BY <1>3, NodeAssumption DEF ProcessEnds, TypeInv, TypeOK
  <2>3. NoneLost => NoneLost'
    BY <1>1, <2>2, NoneLostStep DEF NoneLost
  <2> QED BY <1>1, <2>1, <2>3, SameProcess
<1> QED BY <1>2, <1>3

LEMMA StartKeeps ==
  ASSUME TypeInv, Kept, NEW n \in Nodes, StartServer(n)
  PROVE  Kept'
<1> DEFINE sent == IF n = NODE_ZERO THEN {}
                   ELSE { SendVersion(NODE_ZERO, n, GetBestHeight(n)) }
           S == { m \in sent : Listening(m.node) }
<1>1. \A d \in S : ConnBrings(d)'
  BY BlockMessages
<1>2. conns' = conns (+) SetToBag(S) /\ UNCHANGED pool
  BY DEF StartServer
<1> HIDE DEF S
<1>3. DOMAIN conns' = DOMAIN conns \cup S
  BY <1>2, BagAddDomain
<1>4. NoneLost => NoneLost'
  BY <1>1, <1>2, <1>3, NoneLostStep DEF NoneLost
<1>5. CASE n = NODE_ZERO
  <2>1. starts'[n] = starts[n] + 1 /\ status[n] = "down" /\ starts[n] \in Nat
    BY DEF StartServer, TypeInv, TypeOK
  <2>2. HasEnded(NODE_ZERO) => HasEnded(NODE_ZERO)'
    BY <1>5, <2>1 DEF HasEnded, Listening
  <2> QED BY <1>4, <1>5, <2>1, <2>2 DEF Kept
<1>6. CASE n # NODE_ZERO
  <2>1. /\ starts'[NODE_ZERO] = starts[NODE_ZERO]
        /\ status'[NODE_ZERO] = status[NODE_ZERO]
    BY <1>6, NodeAssumption DEF StartServer, TypeInv, TypeOK
  <2> QED BY <1>4, <2>1 DEF Kept, HasEnded, Listening
<1> QED BY <1>5, <1>6

LEMMA AcceptKeeps ==
  ASSUME TypeInv, Kept, NEW n \in Nodes, Accept(n)
  PROVE  Kept'
<1>1. UNCHANGED <<starts, pool, conns>>
  BY DEF Accept, memory
<1>2. Listening(NODE_ZERO)' <=> Listening(NODE_ZERO)
  BY NodeAssumption DEF Accept, Listening, TypeInv, TypeOK
<1>3. NoneLost => NoneLost'
  BY <1>1 DEF NoneLost, ConnBrings
<1> QED BY <1>1, <1>2, <1>3, SameProcess

LEMMA AddTXNKeeps ==
  ASSUME TypeInv, Kept, NEW n \in Nodes, NEW t \in Txs, AddTXN(n, t)
  PROVE  Kept'
<1> DEFINE request == NewConn(n, "addtxn", n, 0, "", <<>>, t)
           S == At(request, "close") \cup
                { m \in { SendTx(NODE_ZERO, n, t) } : Listening(m.node) }
<1>1. conns' = conns (+) SetToBag(S) /\ UNCHANGED <<status, starts, pool>>
  BY DEF AddTXN
<1>2. \A d \in At(request, "close") : ConnBrings(d)'
  <2>1. PICK r : r = [request EXCEPT !.at = "close"]
    OBVIOUS
  <2>2. r.at = "close"
    BY <2>1 DEF NewConn
  <2> QED BY <2>1, <2>2, BringsNothing DEF At
<1>3. ConnBrings(SendTx(NODE_ZERO, n, t))'
  BY TxAssumption DEF ConnBrings, SendTx, NewConn
<1>4. \A d \in S : ConnBrings(d)'
  BY <1>2, <1>3
<1> HIDE DEF S
<1>5. DOMAIN conns' = DOMAIN conns \cup S
  BY <1>1, BagAddDomain
<1>6. NoneLost => NoneLost'
  BY <1>1, <1>4, <1>5, NoneLostStep DEF NoneLost
<1>7. Listening(NODE_ZERO)' <=> Listening(NODE_ZERO)
  BY <1>1 DEF Listening
<1> QED BY <1>1, <1>6, <1>7, SameProcess

LEMMA AddTXNNowKeeps ==
  ASSUME TypeInv, Kept, NEW n \in Nodes, NEW t \in Txs, NEW hash, AddTXNNow(n, t, hash)
  PROVE  Kept'
<1>1. PICK r : /\ conns' = conns (+) SetToBag({r})
               /\ r = [node |-> n, at |-> "close", cmd |-> "addtxn", from |-> n,
                       BestHeight |-> 0, Type |-> "", Items |-> <<>>, ID |-> t]
  BY PostedNow
<1>2. UNCHANGED <<status, starts, pool>>
  BY PostedNow
<1>3. r.at = "close"
  BY <1>1
<1>4. ConnBrings(r)'
  BY <1>3, BringsNothing
<1>5. DOMAIN conns' = DOMAIN conns \cup {r}
  BY <1>1, BagAddDomain
<1>6. NoneLost => NoneLost'
  BY <1>2, <1>4, <1>5, NoneLostStep DEF NoneLost
<1>7. Listening(NODE_ZERO)' <=> Listening(NODE_ZERO)
  BY <1>2 DEF Listening
<1> QED BY <1>2, <1>6, <1>7, SameProcess

LEMMA BlockHandlersKeep ==
  ASSUME TypeInv, Kept, NEW n \in Nodes, NEW c \in DOMAIN conns,
         \/ HandleVersion(n, c) \/ AddToKnown(n, c) \/ HandleGetBlocks(n, c)
         \/ HandleInvBlock(n, c) \/ FilterTransit(n, c)
         \/ HandleBlock(n, c) \/ TrimTransit(n, c) \/ CloseDB(n, c)
  PROVE  Kept'
<1>1. ConnOK(c)
  BY DEF TypeInv
<1>2. CASE HandleVersion(n, c)
  <2> DEFINE sent == IF GetBestHeight(n) < c.BestHeight
                     THEN { SendGetBlocks(c.from, n) } ELSE {}
  <2>1. Proceed(c, At(c, "known"), sent) /\ UNCHANGED <<starts, status, pool>>
    BY <1>2 DEF HandleVersion
  <2>2. \A d \in At(c, "known") \cup sent : ConnBrings(d)'
    BY <1>1, StageBrings, BlockMessages
  <2> QED BY <2>1, <2>2, BlockHandlerKeeps
<1>3. CASE AddToKnown(n, c) \/ FilterTransit(n, c) \/ TrimTransit(n, c) \/ CloseDB(n, c)
  <2>1. Proceed(c, {}, {}) /\ UNCHANGED <<starts, status, pool>>
    BY <1>3 DEF AddToKnown, FilterTransit, TrimTransit, CloseDB, memory
  <2> QED BY <2>1, BlockHandlerKeeps
<1>4. CASE HandleGetBlocks(n, c)
  <2> DEFINE sent == { SendInv(c.from, n, "block", GetBlockHashes(n)) }
  <2>1. Proceed(c, At(c, "close"), sent) /\ UNCHANGED <<starts, status, pool>>
    BY <1>4 DEF HandleGetBlocks
  <2>2. \A d \in At(c, "close") \cup sent : ConnBrings(d)'
    BY <1>1, StageBrings, BlockMessages
  <2> QED BY <2>1, <2>2, BlockHandlerKeeps
<1>5. CASE HandleInvBlock(n, c)
  <2> DEFINE sent == { SendGetData(c.from, n, "block", c.Items[1]) }
  <2>1. Proceed(c, At(c, "filter"), sent) /\ UNCHANGED <<starts, status, pool>>
    BY <1>5 DEF HandleInvBlock
  <2>2. \A d \in At(c, "filter") \cup sent : ConnBrings(d)'
    BY <1>1, StageBrings, BlockMessages
  <2> QED BY <2>1, <2>2, BlockHandlerKeeps
<1>6. CASE HandleBlock(n, c)
  <2> DEFINE sent == IF transit[n] = <<>> THEN {}
                     ELSE { SendGetData(c.from, n, "block", Head(transit[n])) }
             next == IF transit[n] = <<>> THEN "close" ELSE "trim"
  <2>1. Proceed(c, At(c, next), sent) /\ UNCHANGED <<starts, status, pool>>
    BY <1>6 DEF HandleBlock
  <2>2. \A d \in sent : ConnBrings(d)'
    BY BlockMessages
  <2>3. next \in {"close", "trim"}
    OBVIOUS
  <2> HIDE DEF sent, next
  <2>4. \A d \in At(c, next) : ConnBrings(d)'
    BY <1>1, <2>3, StageBrings
  <2> QED BY <2>1, <2>2, <2>4, BlockHandlerKeeps
<1> QED BY <1>2, <1>3, <1>4, <1>5, <1>6

\* NODE_ZERO, asked for a transaction, still has it.
LEMMA GetDataKeeps ==
  ASSUME TypeInv, Kept, NEW n \in Nodes, NEW c \in DOMAIN conns, HandleGetData(n, c)
  PROVE  Kept'
<1>1. Proceed(c, At(c, "close"), Answer(n, c)) /\ UNCHANGED <<starts, status, pool>>
  BY DEF HandleGetData
<1>2. c.node = n /\ c.at = "new" /\ c.cmd = "getdata" /\ ConnOK(c)
  BY DEF HandleGetData, Begins, TypeInv
<1>3. \A d \in At(c, "close") : ConnBrings(d)'
  BY <1>2, StageBrings
<1>4. ASSUME NoneLost, NEW d \in Answer(n, c) PROVE ConnBrings(d)'
  <2>1. CASE c.Type = "tx"
    <3>1. c.ID \in pool[n] /\ c.ID # EmptyTx
      BY <1>2, <1>4, <2>1 DEF NoneLost, ConnBrings
    <3>2. d = SendTx(c.from, n, c.ID)
      BY <1>4, <2>1, <3>1 DEF Answer
    <3> QED BY <3>1, <3>2 DEF ConnBrings, SendTx, NewConn
  <2>2. CASE c.Type # "tx"
    BY <1>4, <2>2, BlockMessages DEF Answer
  <2> QED BY <2>1, <2>2
<1> QED BY <1>1, <1>3, <1>4, BlockHandlerKeeps

LEMMA TxZeroKeeps ==
  ASSUME TypeInv, Kept, NEW n \in Nodes, NEW c \in DOMAIN conns, HandleTxZero(n, c)
  PROVE  Kept'
<1> DEFINE others == known[n] \ {n, c.from}
           sent == { SendInv(to, n, "tx", <<c.ID>>) : to \in others }
<1>1. /\ Proceed(c, {}, sent) /\ UNCHANGED <<starts, status>>
      /\ n = NODE_ZERO /\ c.at = "new" /\ c.cmd = "tx"
      /\ pool' = [pool EXCEPT ![n] = @ \cup {c.ID}]
  BY DEF HandleTxZero, Begins
<1>2. /\ pool'[n] = pool[n] \cup {c.ID}
      /\ \A m \in Nodes : pool'[m] \subseteq pool[m] \cup {c.ID}
  BY <1>1 DEF TypeInv, TypeOK
<1>3. ASSUME NEW d \in sent PROVE ConnBrings(d)'
  <2>1. PICK to \in others : d = SendInv(to, n, "tx", <<c.ID>>)
    OBVIOUS
  <2>2. /\ d.at = "new" /\ d.cmd = "inv" /\ d.from = NODE_ZERO /\ d.Items[1] = c.ID
    BY <1>1, <2>1 DEF SendInv, NewConn
  <2> QED BY <1>1, <1>2, <2>2 DEF ConnBrings
<1>4. NoneLost => c.ID # EmptyTx
  BY <1>1 DEF NoneLost, ConnBrings
<1>5. NoneLost => \A m \in Nodes : EmptyTx \notin pool'[m]
  BY <1>2, <1>4 DEF NoneLost
<1> HIDE DEF sent
<1> QED BY <1>1, <1>2, <1>3, <1>5, HandlerKeeps

LEMMA TxKeeps ==
  ASSUME TypeInv, Kept, NEW n \in Nodes, NEW c \in DOMAIN conns, HandleTx(n, c)
  PROVE  Kept'
<1>1. /\ n # NODE_ZERO /\ c.node = n /\ c.at = "new" /\ c.cmd = "tx" /\ ConnOK(c)
      /\ UNCHANGED <<starts, status>>
      /\ Proceed(c, {}, {}) \/ Proceed(c, At(c, "mine"), {})
      /\ pool' = [pool EXCEPT ![n] = @ \cup {c.ID}]
  BY DEF HandleTx, Begins, TypeInv
<1>2. /\ pool'[NODE_ZERO] = pool[NODE_ZERO]
      /\ \A m \in Nodes : pool'[m] \subseteq pool[m] \cup {c.ID}
  BY <1>1, NodeAssumption DEF TypeInv, TypeOK
<1>3. NoneLost => \A m \in Nodes : EmptyTx \notin pool'[m]
  BY <1>1, <1>2 DEF NoneLost, ConnBrings
<1>4. \A d \in At(c, "mine") : ConnBrings(d)'
  BY <1>1, StageBrings
<1> QED BY <1>1, <1>2, <1>3, <1>4, HandlerKeeps

\* NODE_ZERO does not mine: no handler of it is at a stage of MineTx.
LEMMA MiningKeeps ==
  ASSUME TypeInv, Kept, NEW n \in Nodes, NEW c \in DOMAIN conns,
         \/ HandleInvTx(n, c) \/ MineTxNothing(n, c) \/ MineTxAnnounces(n, c)
         \/ \E hash \in MinedHashes : MineTx(n, c, hash)
  PROVE  Kept'
<1>1. ConnOK(c)
  BY DEF TypeInv
<1>2. CASE HandleInvTx(n, c)
  <2> DEFINE sent == IF c.Items[1] \in pool[n] THEN {}
                     ELSE { SendGetData(c.from, n, "tx", c.Items[1]) }
  <2>1. /\ Proceed(c, {}, sent) /\ UNCHANGED <<starts, status, pool>>
        /\ c.at = "new" /\ c.cmd = "inv" /\ c.Type = "tx"
    BY <1>2 DEF HandleInvTx, Begins
  <2>2. ASSUME NoneLost, NEW d \in sent PROVE ConnBrings(d)'
    <3>1. c.from = NODE_ZERO /\ c.Items[1] \in pool'[NODE_ZERO]
      BY <2>1, <2>2 DEF NoneLost, ConnBrings
    <3>2. d = SendGetData(NODE_ZERO, n, "tx", c.Items[1])
      BY <2>2, <3>1
    <3> QED BY <3>1, <3>2 DEF ConnBrings, SendGetData, NewConn
  <2> HIDE DEF sent
  <2> QED BY <2>1, <2>2, BlockHandlerKeeps
<1>3. CASE MineTxNothing(n, c)
  <2>1. Proceed(c, At(c, "close"), {}) /\ UNCHANGED <<starts, status, pool>>
    BY <1>3 DEF MineTxNothing, memory
  <2>2. \A d \in At(c, "close") : ConnBrings(d)'
    BY <1>1, StageBrings
  <2> QED BY <2>1, <2>2, BlockHandlerKeeps
<1>4. CASE MineTxAnnounces(n, c)
  <2> DEFINE sent == { SendInv(m, n, "block", <<c.ID>>) : m \in known[n] \ {n} }
             next == IF pool'[n] = {} THEN "close" ELSE "again"
  <2>1. /\ c.node = n /\ c.at = "mined" /\ UNCHANGED <<starts, status>>
        /\ Proceed(c, At(c, next), sent)
        /\ pool' = [pool EXCEPT ![n] = @ \ LeavesPool(n, c.ID)]
    BY <1>4 DEF MineTxAnnounces
  <2>2. \A d \in sent : ConnBrings(d)'
    BY BlockMessages
  <2>3. next \in {"close", "again"}
    OBVIOUS
  <2> HIDE DEF sent, next
  <2>4. NoneLost => c.node # NODE_ZERO
    BY <2>1 DEF NoneLost, ConnBrings
  <2>5. NoneLost => \A d \in At(c, next) : ConnBrings(d)'
    BY <1>1, <2>3, <2>4, StageBrings
  <2>6. /\ \A m \in Nodes : pool'[m] \subseteq pool[m]
        /\ n # NODE_ZERO => pool'[NODE_ZERO] = pool[NODE_ZERO]
    BY <2>1, NodeAssumption DEF TypeInv, TypeOK
  <2>7. NoneLost => \A m \in Nodes : EmptyTx \notin pool'[m]
    BY <2>6 DEF NoneLost
  <2> QED BY <2>1, <2>2, <2>4, <2>5, <2>6, <2>7, HandlerKeeps
<1>5. ASSUME NEW hash \in MinedHashes, MineTx(n, c, hash)
      PROVE  Kept'
  <2>1. PICK d : d = [c EXCEPT !.at = "mined", !.ID = hash]
    OBVIOUS
  <2>2. /\ c.at = "mine" /\ Proceed(c, {d}, {}) /\ UNCHANGED <<starts, status, pool>>
    BY <1>5, <2>1 DEF MineTx, memory
  <2>3. d.at = "mined" /\ d.node = c.node
    BY <1>1, <2>1 DEF ConnOK
  <2>4. NoneLost => c.node # NODE_ZERO
    BY <2>2 DEF NoneLost, ConnBrings
  <2>5. NoneLost => ConnBrings(d)'
    BY <2>3, <2>4, BringsNothing
  <2> QED BY <2>2, <2>5, BlockHandlerKeeps
<1> QED BY <1>2, <1>3, <1>4, <1>5

LEMMA KeptNext == TypeInv /\ Held /\ Kept /\ [Next]_vars => Kept'
<1> SUFFICES ASSUME TypeInv, Held, Kept, [Next]_vars PROVE Kept'
  OBVIOUS
<1>1. ASSUME NEW n \in Nodes, StartServer(n) PROVE Kept'
  BY <1>1, StartKeeps
<1>2. ASSUME NEW n \in Nodes, Killed(n) PROVE Kept'
  BY <1>2, ProcessEndsKeeps DEF Killed
<1>3. ASSUME NEW n \in Nodes, Accept(n) PROVE Kept'
  BY <1>3, AcceptKeeps
<1>4. ASSUME NEW n \in Nodes, NEW t \in Txs, AddTXN(n, t) PROVE Kept'
  BY <1>4, AddTXNKeeps
<1>7. ASSUME NEW n \in Nodes, NEW t \in Txs, NEW hash \in MinedHashes, AddTXNNow(n, t, hash)
      PROVE  Kept'
  BY <1>7, AddTXNNowKeeps
<1>5. ASSUME NEW n \in Nodes, NEW c \in DOMAIN conns, Handle(n, c) PROVE Kept'
  <2>1. CASE \/ HandleVersionPanics(n, c) \/ TrimPanics(n, c)
             \/ OpenDBPanics(n, c) \/ MineTxPanics(n, c)
    <3>1. ProcessEnds(n)
      BY <2>1 DEF HandleVersionPanics, TrimPanics, OpenDBPanics, MineTxPanics
    <3>2. c.node = n /\ (status[n] = "up" \/ c.at # "new")
      BY <2>1 DEF HandleVersionPanics, TrimPanics, OpenDBPanics, MineTxPanics, Begins
    <3>3. Listening(n)
      BY <3>2 DEF Held, Listening
    <3> QED BY <3>1, <3>3, ProcessEndsKeeps
  <2> QED BY <1>5, <2>1, BlockHandlersKeep, GetDataKeeps, TxZeroKeeps, TxKeeps,
             MiningKeeps DEF Handle
<1>6. CASE UNCHANGED vars
  BY <1>6 DEF vars, memory, Kept, HasEnded, Listening, NoneLost, ConnBrings
<1> QED BY <1>1, <1>2, <1>3, <1>4, <1>5, <1>6, <1>7 DEF Next, Serve

\* Whatever messages cross, a pool gets an empty transaction only after NODE_ZERO
\* has lost its own: until then what it offered is there when it is asked for.
THEOREM EmptyAfterRestart == Spec => []EmptyOnlyAfterRestart
<1>1. TypeInv /\ Held /\ Kept /\ [Next]_vars => TypeInv' /\ Held' /\ Kept'
  BY TypeNext, HeldNext, KeptNext
<1>2. Kept => EmptyOnlyAfterRestart
  BY DEF Kept, NoneLost, EmptyOnlyAfterRestart
<1> QED BY <1>1, <1>2, TypeInit, HeldInit, KeptInit, PTL DEF Spec

----------------------------------------------------------------------------
(* Branches.                                                                *)

\* The blocks that were ever made are a tree of finitely many, and genesis is
\* its root.
Tree ==
  /\ IsFiniteSet(DOMAIN blocks)
  /\ Nil \notin DOMAIN blocks \cup MinedHashes
  /\ Linked(blocks)
  /\ GenesisHash \in DOMAIN blocks /\ blocks[GenesisHash].PrevHash = Nil
  /\ \A h \in DOMAIN blocks \ {GenesisHash} : blocks[h].PrevHash \in DOMAIN blocks

LEMMA TreeInit == Init => Tree /\ SourcesComeFirst
<1> SUFFICES ASSUME Init PROVE Tree /\ SourcesComeFirst
  OBVIOUS
<1>1. PICK old \in Before : blocks = old.blocks
  BY DEF Init
<1>2. /\ GenesisHash \in DOMAIN blocks /\ IsFiniteSet(DOMAIN blocks)
      /\ blocks[GenesisHash] =
           [PrevHash |-> Nil, Height |-> 0, Miner |-> Nil, Txs |-> {GenesisTx}]
      /\ Nil \notin DOMAIN blocks \cup MinedHashes
      /\ \A h \in DOMAIN blocks :
           /\ blocks[h].Height \in Nat
           /\ h # GenesisHash =>
                /\ blocks[h].PrevHash \in DOMAIN blocks
                /\ blocks[h].Height = blocks[blocks[h].PrevHash].Height + 1
                /\ blocks[h].Txs = {}
  BY <1>1, BeforeAssumption DEF BeforeAssumption
<1>3. Linked(blocks)
  BY <1>2 DEF Linked
<1>4. \A h \in DOMAIN blocks : blocks[h].Txs \cap Txs = {}
  BY <1>2, TxAssumption DEF TxAssumption
<1>5. SourcesComeFirst
  BY <1>4 DEF SourcesComeFirst
<1> QED BY <1>2, <1>3, <1>5 DEF Tree

\* Only these change blocks.
LEMMA BlocksStay ==
  ASSUME [Next]_vars
  PROVE  \/ UNCHANGED blocks
         \/ \E n \in Nodes, c \in DOMAIN conns, hash \in MinedHashes : MineTx(n, c, hash)
         \/ \E n \in Nodes, t \in Txs, hash \in MinedHashes : AddTXNNow(n, t, hash)
<1> USE DEF storage
<1>1. CASE UNCHANGED vars
  BY <1>1 DEF vars
<1>2. ASSUME NEW n \in Nodes,
             StartServer(n) \/ Killed(n) \/ Accept(n) \/ \E t \in Txs : AddTXN(n, t)
      PROVE  UNCHANGED blocks
  BY <1>2 DEF StartServer, Killed, ProcessEnds, Accept, AddTXN
<1>3. ASSUME NEW n \in Nodes, NEW c \in DOMAIN conns, Handle(n, c),
             ~\E hash \in MinedHashes : MineTx(n, c, hash)
      PROVE  UNCHANGED blocks
  <2>1. CASE Panics(n, c)
    BY <2>1
       DEF Panics, HandleVersionPanics, TrimPanics, OpenDBPanics, MineTxPanics,
           ProcessEnds
  <2>2. CASE \/ HandleVersion(n, c) \/ AddToKnown(n, c) \/ HandleGetBlocks(n, c)
             \/ HandleInvBlock(n, c) \/ FilterTransit(n, c) \/ HandleGetData(n, c)
             \/ TrimTransit(n, c) \/ CloseDB(n, c) \/ HandleBlock(n, c)
    BY <2>2
       DEF HandleVersion, AddToKnown, HandleGetBlocks, HandleInvBlock,
           FilterTransit, HandleGetData, TrimTransit, CloseDB, HandleBlock
  <2>3. CASE \/ HandleTxZero(n, c) \/ HandleInvTx(n, c) \/ HandleTx(n, c)
             \/ MineTxNothing(n, c) \/ MineTxAnnounces(n, c)
    BY <2>3
       DEF HandleTxZero, HandleInvTx, HandleTx, MineTxNothing, MineTxAnnounces
  <2> QED BY <1>3, <2>1, <2>2, <2>3 DEF Handle, Panics
<1> QED BY <1>1, <1>2, <1>3 DEF Next, Serve

\* What is made is a block of payments whose sources are on the branch of its node.
LEMMA NewBlocks ==
  ASSUME [Next]_vars
  PROVE  \/ UNCHANGED blocks
         \/ \E n \in Nodes, hash \in MinedHashes : \E txs :
              /\ MakesBlock(n, txs, hash)
              /\ \A t \in txs \cap Txs : Source[t] \in TransactionsOf(n)
<1>1. ASSUME NEW n \in Nodes, NEW c, NEW hash \in MinedHashes, MineTx(n, c, hash)
      PROVE  \E txs : /\ MakesBlock(n, txs, hash)
                     /\ \A t \in txs \cap Txs : Source[t] \in TransactionsOf(n)
  <2>1. MakesBlock(n, pool[n] \cap Verifies, hash) /\ ~PoolPanics(n)
    BY <1>1, MineMakesBlock DEF MineTx
  <2>2. ASSUME NEW t \in (pool[n] \cap Verifies) \cap Txs PROVE Source[t] \in TransactionsOf(n)
    BY <2>1, <2>2, TxAssumption DEF PoolPanics, TxAssumption
  <2> QED BY <2>1, <2>2
<1>2. ASSUME NEW n \in Nodes, NEW t \in Txs, NEW hash \in MinedHashes, AddTXNNow(n, t, hash)
      PROVE  \E txs : /\ MakesBlock(n, txs, hash)
                     /\ \A x \in txs \cap Txs : Source[x] \in TransactionsOf(n)
  <2>1. MakesBlock(n, {t}, hash) /\ Source[t] \in TransactionsOf(n)
    BY <1>2, PostedNow
  <2> QED BY <2>1
<1>3. CASE \E n \in Nodes, c \in DOMAIN conns, hash \in MinedHashes : MineTx(n, c, hash)
  <2>1. PICK n \in Nodes, c \in DOMAIN conns, hash \in MinedHashes : MineTx(n, c, hash)
    BY <1>3
  <2>2. \E txs : /\ MakesBlock(n, txs, hash)
                 /\ \A t \in txs \cap Txs : Source[t] \in TransactionsOf(n)
    BY <2>1, <1>1
  <2> QED BY <2>2
<1>4. CASE \E n \in Nodes, t \in Txs, hash \in MinedHashes : AddTXNNow(n, t, hash)
  <2>1. PICK n \in Nodes, t \in Txs, hash \in MinedHashes : AddTXNNow(n, t, hash)
    BY <1>4
  <2>2. \E txs : /\ MakesBlock(n, txs, hash)
                 /\ \A x \in txs \cap Txs : Source[x] \in TransactionsOf(n)
    BY <2>1, <1>2
  <2> QED BY <2>2
<1> QED BY <1>3, <1>4, BlocksStay

LEMMA TreeGrows ==
  ASSUME TypeInv, Tree, NEW n \in Nodes, NEW txs,
         NEW hash \in MinedHashes, MakesBlock(n, txs, hash)
  PROVE  Tree'
<1>1. tip[n] \in DOMAIN blocks /\ hash # Nil
  BY DEF TypeInv, Tree
<1>2. IsFiniteSet(DOMAIN blocks')
  <2>1. IsFiniteSet(DOMAIN blocks) /\ DOMAIN blocks' = DOMAIN blocks \cup {hash}
    BY DEF MakesBlock, Tree
  <2> QED BY <2>1, FS_AddElement
<1>3. Linked(blocks')
  <2> SUFFICES ASSUME NEW h \in DOMAIN blocks'
               PROVE  /\ blocks'[h].Height \in Nat
                      /\ blocks'[h].PrevHash \in DOMAIN blocks' =>
                           blocks'[h].Height = blocks'[blocks'[h].PrevHash].Height + 1
    BY DEF Linked
  <2>1. CASE h = hash
    BY <1>1, <2>1 DEF MakesBlock, Tree, Linked, GetBestHeight
  <2>2. CASE h # hash
    <3>1. h \in DOMAIN blocks /\ blocks'[h] = blocks[h]
      BY <2>2 DEF MakesBlock
    <3>2. blocks[h].PrevHash # hash
      BY <1>1, <3>1 DEF Tree, MakesBlock
    <3>3. /\ blocks[h].Height \in Nat
          /\ blocks[h].PrevHash \in DOMAIN blocks =>
               blocks[h].Height = blocks[blocks[h].PrevHash].Height + 1
      BY <3>1 DEF Tree, Linked
    <3> QED BY <3>1, <3>2, <3>3 DEF MakesBlock
  <2> QED BY <2>1, <2>2
<1> QED BY <1>1, <1>2, <1>3 DEF MakesBlock, Tree

\* A branch keeps what it has, and a new block goes on top of the one its node is
\* on.
LEMMA BranchesStay ==
  ASSUME TypeInv, Tree, NEW n \in Nodes, NEW txs,
         NEW hash \in MinedHashes, MakesBlock(n, txs, hash),
         NEW h \in DOMAIN blocks
  PROVE  Ancestors(h) \subseteq Ancestors(h)' /\ hash \notin Ancestors(h)'
<1>1. Tree' /\ IsFiniteSet(DOMAIN blocks) /\ IsFiniteSet(DOMAIN blocks')
  BY TreeGrows DEF Tree
<1>2. /\ Nil \notin DOMAIN blocks /\ Nil \notin DOMAIN blocks'
      /\ Linked(blocks')
      /\ h \in DOMAIN blocks'
      /\ \A x \in DOMAIN blocks : blocks'[x] = blocks[x] /\ x \in DOMAIN blocks'
  BY <1>1 DEF Tree, MakesBlock
<1>3. ToSet(Iterate(blocks, h)) \subseteq ToSet(Iterate(blocks', h))
  <2> DEFINE T == ToSet(Iterate(blocks', h))
  <2>1. h \in T
    BY <1>1, <1>2, WalkStarts
  <2>2. ASSUME NEW x \in T \cap DOMAIN blocks, blocks[x].PrevHash \in DOMAIN blocks
        PROVE  blocks[x].PrevHash \in T
    <3>1. blocks'[x].PrevHash = blocks[x].PrevHash /\ blocks'[x].PrevHash \in DOMAIN blocks'
      BY <1>2, <2>2
    <3> QED BY <1>1, <1>2, <3>1, WalkGoesOn
  <2> HIDE DEF T
  <2>3. ToSet(Iterate(blocks, h)) \subseteq T
    BY <1>1, <1>2, <2>1, <2>2, WalkLeast
  <2> QED BY <2>3 DEF T
<1>4. ToSet(Iterate(blocks', h)) \subseteq DOMAIN blocks
  <2> DEFINE T == DOMAIN blocks
  <2>1. ASSUME NEW x \in T \cap DOMAIN blocks', blocks'[x].PrevHash \in DOMAIN blocks'
        PROVE  blocks'[x].PrevHash \in T
    BY <1>2, <2>1 DEF Tree
  <2>2. h \in T
    OBVIOUS
  <2> HIDE DEF T
  <2>3. ToSet(Iterate(blocks', h)) \subseteq T
    BY <1>1, <1>2, <2>1, <2>2, WalkLeast
  <2> QED BY <2>3 DEF T
<1> QED BY <1>3, <1>4 DEF Ancestors, MakesBlock

LEMMA BranchGrows ==
  ASSUME TypeInv, Tree, NEW n \in Nodes, NEW txs,
         NEW hash \in MinedHashes, MakesBlock(n, txs, hash)
  PROVE  ToSet(GetBlockHashes(n)) \subseteq Ancestors(hash)' \ {hash}
<1> DEFINE T == Ancestors(hash)' \ {hash}
           B == [h \in stored[n] |-> blocks[h]]
<1>1. Tree' /\ IsFiniteSet(DOMAIN blocks')
  BY TreeGrows DEF Tree
<1>2. /\ Nil \notin DOMAIN blocks'
      /\ Linked(blocks')
      /\ hash \in DOMAIN blocks' /\ hash \notin DOMAIN blocks
      /\ blocks'[hash].PrevHash = tip[n]
      /\ \A x \in DOMAIN blocks : blocks'[x] = blocks[x] /\ x \in DOMAIN blocks'
  BY <1>1 DEF Tree, MakesBlock
<1>3. /\ stored[n] \subseteq DOMAIN blocks /\ tip[n] \in stored[n]
      /\ IsFiniteSet(stored[n]) /\ Nil \notin stored[n]
  <2>1. stored[n] \in SUBSET DOMAIN blocks /\ tip[n] \in stored[n]
    BY DEF TypeInv, TypeOK
  <2>2. IsFiniteSet(DOMAIN blocks) /\ Nil \notin DOMAIN blocks
    BY DEF Tree
  <2> QED BY <2>1, <2>2, FS_Subset
<1>4. tip[n] \in T
  <2>1. hash \in ToSet(Iterate(blocks', hash))
    BY <1>1, <1>2, WalkStarts
  <2>2. blocks'[hash].PrevHash \in DOMAIN blocks'
    BY <1>2, <1>3
  <2>3. tip[n] \in ToSet(Iterate(blocks', hash))
    BY <1>1, <1>2, <2>1, <2>2, WalkGoesOn
  <2> QED BY <1>2, <1>3, <2>3 DEF Ancestors
<1>5. ASSUME NEW x \in T \cap DOMAIN B, B[x].PrevHash \in DOMAIN B
      PROVE  B[x].PrevHash \in T
  <2>1. x \in ToSet(Iterate(blocks', hash)) /\ x \in stored[n]
    BY <1>5 DEF Ancestors
  <2>2. B[x].PrevHash = blocks'[x].PrevHash /\ B[x].PrevHash \in stored[n]
    BY <1>2, <1>3, <1>5, <2>1
  <2>3. blocks'[x].PrevHash \in DOMAIN blocks' /\ B[x].PrevHash # hash
    BY <1>2, <1>3, <2>2
  <2>4. blocks'[x].PrevHash \in ToSet(Iterate(blocks', hash))
    BY <1>1, <1>2, <2>1, <2>3, WalkGoesOn
  <2> QED BY <2>2, <2>3, <2>4 DEF Ancestors
<1>6. DOMAIN B = stored[n]
  OBVIOUS
<1> HIDE DEF T, B
<1>7. ToSet(Iterate(B, tip[n])) \subseteq T
  BY <1>3, <1>4, <1>5, <1>6, WalkLeast
<1> QED BY <1>7 DEF T, B, GetBlockHashes

LEMMA TreeNext ==
  TypeInv /\ Tree /\ SourcesComeFirst /\ [Next]_vars => Tree' /\ SourcesComeFirst'
<1> SUFFICES ASSUME TypeInv, Tree, SourcesComeFirst, [Next]_vars
             PROVE  Tree' /\ SourcesComeFirst'
  OBVIOUS
<1>1. CASE UNCHANGED blocks
  BY <1>1 DEF Tree, SourcesComeFirst, Ancestors
<1>2. ASSUME NEW n \in Nodes, NEW txs, NEW hash \in MinedHashes, MakesBlock(n, txs, hash),
             \A t \in txs \cap Txs : Source[t] \in TransactionsOf(n)
      PROVE  Tree' /\ SourcesComeFirst'
  <2>1. MakesBlock(n, txs, hash)
    BY <1>2
  <2>2. Tree'
    BY <2>1, TreeGrows
  <2>3. ASSUME NEW h \in DOMAIN blocks', NEW t \in blocks'[h].Txs \cap Txs
        PROVE  \E g \in Ancestors(h)' \ {h} : Source[t] \in blocks'[g].Txs
    <3>1. CASE h = hash
      <4>2. Source[t] \in TransactionsOf(n)
        BY <1>2, <2>3, <3>1 DEF MakesBlock
      <4>3. PICK g \in ToSet(GetBlockHashes(n)) : Source[t] \in blocks[g].Txs
        BY <4>2 DEF TransactionsOf
      <4>4. g \in Ancestors(h)' \ {h} /\ g \in DOMAIN blocks' /\ g # hash
        <5>1. g \in Ancestors(hash)' \ {hash}
          BY <2>1, BranchGrows
        <5>2. Ancestors(hash)' \subseteq DOMAIN blocks'
          BY <2>2, WalkStarts DEF Tree, Ancestors
        <5> QED BY <3>1, <5>1, <5>2
      <4>5. g \in DOMAIN blocks
        BY <2>1, <4>4 DEF MakesBlock
      <4> QED BY <2>1, <4>3, <4>4, <4>5 DEF MakesBlock
    <3>2. CASE h # hash
      <4>1. h \in DOMAIN blocks /\ t \in blocks[h].Txs \cap Txs
        BY <2>1, <2>3, <3>2 DEF MakesBlock
      <4>2. PICK g \in Ancestors(h) \ {h} : Source[t] \in blocks[g].Txs
        BY <4>1 DEF SourcesComeFirst
      <4>3. g \in Ancestors(h)' \ {h} /\ g \in DOMAIN blocks
        <5>1. Ancestors(h) \subseteq DOMAIN blocks
          BY WalkStarts DEF Tree, Ancestors
        <5> QED BY <2>1, <4>1, <4>2, <5>1, BranchesStay
      <4> QED BY <2>1, <4>2, <4>3 DEF MakesBlock
    <3> QED BY <3>1, <3>2
  <2>4. SourcesComeFirst'
    BY <2>3 DEF SourcesComeFirst
  <2> QED BY <2>2, <2>4
<1> QED BY <1>1, <1>2, NewBlocks

\* On every branch a payment comes after the transaction whose output it spends.
THEOREM SourcesAlwaysComeFirst == Spec => []SourcesComeFirst
BY TypeInit, TypeNext, TreeInit, TreeNext, PTL DEF Spec

----------------------------------------------------------------------------
(* Who talks to whom.                                                       *)

\* The messages that bring a payment t from where it was posted to node n.
Post(t) == SendTx(NODE_ZERO, Origin[t], t)
Offer(n, t) == SendInv(n, NODE_ZERO, "tx", <<t>>)
Ask(n, t) == SendGetData(NODE_ZERO, n, "tx", t)
Bring(n, t) == SendTx(n, NODE_ZERO, t)

\* There are no other messages about payments, and NODE_ZERO does not mine.
Fits(c) ==
  /\ c.at = "new" /\ c.cmd = "inv" /\ c.Type = "tx" =>
       c.node # NODE_ZERO /\ \E t \in Txs : c = Offer(c.node, t)
  /\ c.at = "new" /\ c.cmd = "getdata" /\ c.Type = "tx" =>
       c.from # NODE_ZERO /\ \E t \in Txs : c = Ask(c.from, t)
  /\ c.at = "new" /\ c.cmd = "tx" =>
       IF c.node = NODE_ZERO THEN \E t \in Txs : c = Post(t) ELSE c = Bring(c.node, c.ID)
  /\ c.at \in {"mine", "mined", "again"} => c.node # NODE_ZERO

\* Who listens, sends, is known or is sent to has been started.
Addressed ==
  /\ \A n \in Nodes : Listening(n) => starts[n] >= 1
  /\ \A n \in Nodes : \A m \in known[n] : m = NODE_ZERO \/ starts[m] >= 1
  /\ \A c \in DOMAIN conns : starts[c.node] >= 1 /\ starts[c.from] >= 1 /\ Fits(c)

\* A message of a node.
Message(d, from) == d.at = "new" /\ d.from = from /\ Fits(d)

\* It is about a payment.
IsPayment(d) == d.cmd = "tx" \/ d.Type = "tx"

\* What any handler's step does to the connections, if its process goes on.
Acts(n, c, next, sent) ==
  /\ Proceed(c, next, sent)
  /\ UNCHANGED <<status, starts>>
  /\ \A d \in next : d.node = c.node /\ d.from = c.from /\ d.at # "new" /\ Fits(d)
  /\ \A d \in sent : Message(d, n)
  /\ \A m \in Nodes : known'[m] \subseteq known[m] \cup {c.from}

BlockMessage(d, from) == Message(d, from) /\ ~IsPayment(d)

LEMMA MessagesFit ==
  ASSUME NEW to, NEW from
  PROVE  /\ \A height : BlockMessage(SendVersion(to, from, height), from)
         /\ BlockMessage(SendGetBlocks(to, from), from)
         /\ \A items : BlockMessage(SendInv(to, from, "block", items), from)
         /\ \A id : BlockMessage(SendGetData(to, from, "block", id), from)
         /\ \A hash : BlockMessage(SendBlock(to, from, hash), from)
BY DEF BlockMessage, IsPayment, Message, Fits, SendVersion, SendGetBlocks, SendInv, SendGetData, SendBlock, NewConn

LEMMA PaymentMessagesFit ==
  ASSUME NEW t
  PROVE  /\ t \in Txs => Message(Post(t), Origin[t])
         /\ \A n \in Nodes \ {NODE_ZERO} :
              /\ t \in Txs => Message(Offer(n, t), NODE_ZERO) /\ Message(Ask(n, t), n)
              /\ Message(Bring(n, t), NODE_ZERO)
<1> USE DEF Message, Fits, SendInv, SendGetData, SendTx, NewConn, Post, Offer, Ask, Bring
<1>1. t \in Txs => Message(Post(t), Origin[t])
  OBVIOUS
<1>2. ASSUME t \in Txs, NEW n \in Nodes \ {NODE_ZERO}
      PROVE  Message(Offer(n, t), NODE_ZERO)
  BY <1>2
<1>3. ASSUME t \in Txs, NEW n \in Nodes \ {NODE_ZERO}
      PROVE  Message(Ask(n, t), n)
  BY <1>3
<1>4. ASSUME NEW n \in Nodes \ {NODE_ZERO}
      PROVE  Message(Bring(n, t), NODE_ZERO)
  BY <1>4
<1> HIDE DEF Message, Post, Offer, Ask, Bring
<1> QED BY <1>1, <1>2, <1>3, <1>4

\* A handler at a later stage.
LEMMA StageFits ==
  ASSUME NEW c, ConnOK(c), NEW stage, stage # "new", NEW d \in At(c, stage),
         stage \in {"mine", "mined", "again"} => c.node # NODE_ZERO
  PROVE  d.node = c.node /\ d.from = c.from /\ d.at = stage /\ Fits(d)
<1>1. d.node = c.node /\ d.from = c.from /\ d.at = stage
  BY DEF At, ConnOK
<1> QED BY <1>1 DEF Fits

LEMMA SendDataForgets ==
  ASSUME TypeInv, NEW n, NEW sent, SendData(n, sent)
  PROVE  \A m \in Nodes : known'[m] \subseteq known[m]
BY DEF SendData, TypeInv, TypeOK

\* The same for a step that sends nothing about payments.
ActsOnBlocks(n, c, next, sent) ==
  Acts(n, c, next, sent) /\ \A d \in sent : ~IsPayment(d)

LEMMA BlockHandlersAct ==
  ASSUME TypeInv, Addressed, NEW n \in Nodes, NEW c \in DOMAIN conns,
         \/ HandleVersion(n, c) \/ AddToKnown(n, c) \/ HandleGetBlocks(n, c)
         \/ HandleInvBlock(n, c) \/ FilterTransit(n, c)
         \/ HandleBlock(n, c) \/ TrimTransit(n, c) \/ CloseDB(n, c)
  PROVE  c.node = n /\ \E next, sent : ActsOnBlocks(n, c, next, sent)
<1>1. ConnOK(c)
  BY DEF TypeInv
<1>2. CASE HandleVersion(n, c)
  <2> DEFINE sent == IF GetBestHeight(n) < c.BestHeight
                     THEN { SendGetBlocks(c.from, n) } ELSE {}
  <2>1. /\ c.node = n /\ Proceed(c, At(c, "known"), sent) /\ SendData(n, sent)
        /\ UNCHANGED <<status, starts>>
    BY <1>2 DEF HandleVersion, Begins
  <2>2. \A d \in sent : BlockMessage(d, n)
    BY MessagesFit
  <2>3. \A d \in At(c, "known") : d.node = c.node /\ d.from = c.from /\ d.at # "new" /\ Fits(d)
    BY <1>1, StageFits
  <2> HIDE DEF sent
  <2>4. ActsOnBlocks(n, c, At(c, "known"), sent)
    BY <2>1, <2>2, <2>3, SendDataForgets DEF ActsOnBlocks, Acts, BlockMessage
  <2> QED BY <2>1, <2>4
<1>3. CASE AddToKnown(n, c) \/ FilterTransit(n, c) \/ TrimTransit(n, c) \/ CloseDB(n, c)
  <2>1. /\ c.node = n /\ Proceed(c, {}, {}) /\ UNCHANGED <<status, starts>>
        /\ \A m \in Nodes : known'[m] \subseteq known[m] \cup {c.from}
    BY <1>3 DEF AddToKnown, FilterTransit, TrimTransit, CloseDB, memory, TypeInv, TypeOK
  <2>2. ActsOnBlocks(n, c, {}, {})
    BY <2>1 DEF ActsOnBlocks, Acts, BlockMessage
  <2> QED BY <2>1, <2>2
<1>4. CASE HandleGetBlocks(n, c)
  <2> DEFINE sent == { SendInv(c.from, n, "block", GetBlockHashes(n)) }
  <2>1. /\ c.node = n /\ Proceed(c, At(c, "close"), sent) /\ SendData(n, sent)
        /\ UNCHANGED <<status, starts>>
    BY <1>4 DEF HandleGetBlocks, Begins
  <2>2. \A d \in sent : BlockMessage(d, n)
    BY MessagesFit
  <2>3. \A d \in At(c, "close") : d.node = c.node /\ d.from = c.from /\ d.at # "new" /\ Fits(d)
    BY <1>1, StageFits
  <2> HIDE DEF sent
  <2>4. ActsOnBlocks(n, c, At(c, "close"), sent)
    BY <2>1, <2>2, <2>3, SendDataForgets DEF ActsOnBlocks, Acts, BlockMessage
  <2> QED BY <2>1, <2>4
<1>5. CASE HandleInvBlock(n, c)
  <2> DEFINE sent == { SendGetData(c.from, n, "block", c.Items[1]) }
  <2>1. /\ c.node = n /\ Proceed(c, At(c, "filter"), sent) /\ SendData(n, sent)
        /\ UNCHANGED <<status, starts>>
    BY <1>5 DEF HandleInvBlock, Begins
  <2>2. \A d \in sent : BlockMessage(d, n)
    BY MessagesFit
  <2>3. \A d \in At(c, "filter") : d.node = c.node /\ d.from = c.from /\ d.at # "new" /\ Fits(d)
    BY <1>1, StageFits
  <2> HIDE DEF sent
  <2>4. ActsOnBlocks(n, c, At(c, "filter"), sent)
    BY <2>1, <2>2, <2>3, SendDataForgets DEF ActsOnBlocks, Acts, BlockMessage
  <2> QED BY <2>1, <2>4
<1>6. CASE HandleBlock(n, c)
  <2> DEFINE sent == IF transit[n] = <<>> THEN {}
                     ELSE { SendGetData(c.from, n, "block", Head(transit[n])) }
             next == IF transit[n] = <<>> THEN "close" ELSE "trim"
  <2>1. /\ c.node = n /\ Proceed(c, At(c, next), sent) /\ SendData(n, sent)
        /\ UNCHANGED <<status, starts>>
    BY <1>6 DEF HandleBlock, Begins
  <2>2. \A d \in sent : BlockMessage(d, n)
    BY MessagesFit
  <2>3. next \in {"close", "trim"}
    OBVIOUS
  <2> HIDE DEF sent, next
  <2>4. \A d \in At(c, next) : d.node = c.node /\ d.from = c.from /\ d.at # "new" /\ Fits(d)
    BY <1>1, <2>3, StageFits
  <2>5. ActsOnBlocks(n, c, At(c, next), sent)
    BY <2>1, <2>2, <2>4, SendDataForgets DEF ActsOnBlocks, Acts, BlockMessage
  <2> QED BY <2>1, <2>5
<1> QED BY <1>2, <1>3, <1>4, <1>5, <1>6

\* The same for a step that takes a message about a payment and sends the next.
Relays(n, c, next, sent) ==
  /\ Acts(n, c, next, sent)
  /\ \/ \E t \in Txs : c = Post(t) /\ \A d \in sent : \E x \in Nodes \ {NODE_ZERO} : d = Offer(x, t)
     \/ n # NODE_ZERO /\ \E t \in Txs : c = Offer(n, t) /\ sent \subseteq {Ask(n, t)}
     \/ /\ c.from \in Nodes \ {NODE_ZERO}
        /\ \E t \in Txs : /\ c = Ask(c.from, t)
                          /\ sent \subseteq { Bring(c.from, t), Bring(c.from, EmptyTx) }
     \/ n # NODE_ZERO /\ c = Bring(n, c.ID) /\ sent = {}

LEMMA HandleTxActs ==
  ASSUME TypeInv, Addressed, NEW n \in Nodes, NEW c \in DOMAIN conns, HandleTx(n, c)
  PROVE  /\ c.node = n /\ n # NODE_ZERO /\ c = Bring(n, c.ID)
         /\ \E next : Acts(n, c, next, {})
<1>1. ConnOK(c) /\ Fits(c)
  BY DEF TypeInv, Addressed
<1>2. /\ c.node = n /\ n # NODE_ZERO /\ UNCHANGED <<status, starts, known>>
      /\ c.at = "new" /\ c.cmd = "tx"
      /\ \E next \in SUBSET At(c, "mine") : Proceed(c, next, {})
  BY DEF HandleTx, Begins
<1>3. PICK next \in SUBSET At(c, "mine") : Proceed(c, next, {})
  BY <1>2
<1>4. \A d \in next : d.node = c.node /\ d.from = c.from /\ d.at # "new" /\ Fits(d)
  BY <1>1, <1>2, StageFits
<1>5. Acts(n, c, next, {})
  BY <1>2, <1>3, <1>4 DEF Acts
<1>6. c = Bring(n, c.ID)
  BY <1>1, <1>2 DEF Fits
<1> QED BY <1>2, <1>5, <1>6

LEMMA PaymentHandlersAct ==
  ASSUME TypeInv, Addressed, NEW n \in Nodes, NEW c \in DOMAIN conns,
         HandleGetData(n, c) \/ HandleTxZero(n, c) \/ HandleInvTx(n, c) \/ HandleTx(n, c)
  PROVE  /\ c.node = n
         /\ \E next, sent : Relays(n, c, next, sent) \/ ActsOnBlocks(n, c, next, sent)
<1>1. ConnOK(c) /\ Fits(c) /\ c.from \in Nodes /\ NODE_ZERO \in Nodes
  BY NodeAssumption DEF TypeInv, Addressed, ConnOK, NodeAssumption
<1>2. CASE HandleGetData(n, c)
  <2>1. /\ c.node = n /\ Proceed(c, At(c, "close"), Answer(n, c)) /\ SendData(n, Answer(n, c))
        /\ UNCHANGED <<status, starts>> /\ c.at = "new" /\ c.cmd = "getdata"
    BY <1>2 DEF HandleGetData, Begins
  <2>2. ASSUME NEW d \in Answer(n, c) PROVE Message(d, n)
    <3>1. CASE c.Type = "tx"
      <4>1. n = NODE_ZERO /\ c.from # NODE_ZERO
        BY <1>1, <2>1, <3>1 DEF Fits, Ask, SendGetData, NewConn
      <4>2. PICK t : d = Bring(c.from, t)
        BY <2>2, <3>1, <4>1 DEF Answer, Bring
      <4> QED BY <1>1, <4>1, <4>2, PaymentMessagesFit
    <3>2. CASE c.Type # "tx"
      <4>1. PICK h : d = SendBlock(c.from, n, h)
        BY <2>2, <3>2 DEF Answer
      <4> QED BY <4>1, MessagesFit DEF BlockMessage
    <3> QED BY <3>1, <3>2
  <2>3. \A d \in At(c, "close") : d.node = c.node /\ d.from = c.from /\ d.at # "new" /\ Fits(d)
    BY <1>1, StageFits
  <2>4. Acts(n, c, At(c, "close"), Answer(n, c))
    BY <2>1, <2>2, <2>3, SendDataForgets DEF Acts
  <2>5. CASE c.Type = "tx"
    <3>1. PICK t \in Txs : c.from # NODE_ZERO /\ c = Ask(c.from, t)
      BY <1>1, <2>1, <2>5 DEF Fits
    <3>2. n = NODE_ZERO /\ c.ID = t
      <4>1. Ask(c.from, t).node = NODE_ZERO /\ Ask(c.from, t).ID = t
        BY DEF Ask, SendGetData, NewConn
      <4> QED BY <2>1, <3>1, <4>1
    <3>3. Answer(n, c) \subseteq { Bring(c.from, t), Bring(c.from, EmptyTx) }
      BY <2>5, <3>2 DEF Answer, Bring
    <3>4. Relays(n, c, At(c, "close"), Answer(n, c))
      BY <1>1, <2>4, <3>1, <3>3 DEF Relays
    <3> QED BY <2>1, <3>4
  <2>6. CASE c.Type # "tx"
    <3>1. ASSUME NEW d \in Answer(n, c) PROVE ~IsPayment(d)
      <4>1. PICK h : d = SendBlock(c.from, n, h)
        BY <2>6 DEF Answer
      <4> QED BY <4>1, MessagesFit DEF BlockMessage
    <3> QED BY <2>1, <2>4, <3>1 DEF ActsOnBlocks
  <2> QED BY <2>5, <2>6
<1>3. CASE HandleTxZero(n, c)
  <2> DEFINE others == known[n] \ {n, c.from}
             sent == { SendInv(to, n, "tx", <<c.ID>>) : to \in others }
  <2>1. /\ c.node = n /\ n = NODE_ZERO /\ Proceed(c, {}, sent) /\ SendData(n, sent)
        /\ UNCHANGED <<status, starts>> /\ c.at = "new" /\ c.cmd = "tx"
    BY <1>3 DEF HandleTxZero, Begins
  <2>2. c.ID \in Txs /\ c = Post(c.ID)
    <3>1. PICK t \in Txs : c = Post(t)
      BY <1>1, <2>1 DEF Fits
    <3>2. Post(t).ID = t
      BY DEF Post, SendTx, NewConn
    <3> QED BY <3>1, <3>2
  <2>3. ASSUME NEW d \in sent PROVE Message(d, n) /\ \E x \in Nodes \ {NODE_ZERO} : d = Offer(x, c.ID)
    <3>1. PICK to \in others : d = SendInv(to, n, "tx", <<c.ID>>)
      OBVIOUS
    <3>2. to \in Nodes \ {NODE_ZERO}
      BY <2>1 DEF TypeInv, TypeOK
    <3>3. d = Offer(to, c.ID)
      BY <2>1, <3>1, <3>2 DEF Offer
    <3> QED BY <2>1, <2>2, <3>2, <3>3, PaymentMessagesFit
  <2> HIDE DEF sent
  <2>4. Acts(n, c, {}, sent)
    BY <2>1, <2>3, SendDataForgets DEF Acts
  <2>5. Relays(n, c, {}, sent)
    BY <2>2, <2>3, <2>4 DEF Relays
  <2> QED BY <2>1, <2>5
<1>4. CASE HandleInvTx(n, c)
  <2> DEFINE sent == IF c.Items[1] \in pool[n] THEN {}
                     ELSE { SendGetData(c.from, n, "tx", c.Items[1]) }
  <2>1. /\ c.node = n /\ Proceed(c, {}, sent) /\ SendData(n, sent)
        /\ UNCHANGED <<status, starts>> /\ c.at = "new" /\ c.cmd = "inv" /\ c.Type = "tx"
    BY <1>4 DEF HandleInvTx, Begins
  <2>2. PICK t \in Txs : n # NODE_ZERO /\ c = Offer(n, t)
    BY <1>1, <2>1 DEF Fits
  <2>3. c.from = NODE_ZERO /\ c.Items[1] = t
    BY <2>2 DEF Offer, SendInv, NewConn
  <2>4. sent \subseteq { Ask(n, t) }
    BY <2>3 DEF Ask
  <2> HIDE DEF sent
  <2>5. \A d \in sent : Message(d, n)
    BY <2>2, <2>4, PaymentMessagesFit
  <2>6. Acts(n, c, {}, sent)
    BY <2>1, <2>5, SendDataForgets DEF Acts
  <2>7. Relays(n, c, {}, sent)
    BY <2>2, <2>4, <2>6 DEF Relays
  <2> QED BY <2>1, <2>7
<1>5. CASE HandleTx(n, c)
  BY <1>5, HandleTxActs DEF Relays
<1> QED BY <1>2, <1>3, <1>4, <1>5

LEMMA MinersAct ==
  ASSUME TypeInv, Addressed, NEW n \in Nodes, NEW c \in DOMAIN conns,
         \/ MineTxNothing(n, c) \/ MineTxAnnounces(n, c)
         \/ \E hash \in MinedHashes : MineTx(n, c, hash)
  PROVE  c.node = n /\ \E next, sent : ActsOnBlocks(n, c, next, sent)
<1>1. ConnOK(c) /\ Fits(c)
  BY DEF TypeInv, Addressed
<1>2. CASE MineTxNothing(n, c)
  <2>1. c.node = n /\ Proceed(c, At(c, "close"), {}) /\ UNCHANGED <<status, starts, known>>
    BY <1>2 DEF MineTxNothing, memory
  <2>2. \A d \in At(c, "close") : d.node = c.node /\ d.from = c.from /\ d.at # "new" /\ Fits(d)
    BY <1>1, StageFits
  <2>3. ActsOnBlocks(n, c, At(c, "close"), {})
    BY <2>1, <2>2 DEF ActsOnBlocks, Acts, BlockMessage
  <2> QED BY <2>1, <2>3
<1>3. CASE MineTxAnnounces(n, c)
  <2> DEFINE sent == { SendInv(m, n, "block", <<c.ID>>) : m \in known[n] \ {n} }
             next == IF pool'[n] = {} THEN "close" ELSE "again"
  <2>1. /\ c.node = n /\ c.at = "mined" /\ Proceed(c, At(c, next), sent) /\ SendData(n, sent)
        /\ UNCHANGED <<status, starts>>
    BY <1>3 DEF MineTxAnnounces
  <2>2. \A d \in sent : BlockMessage(d, n)
    BY MessagesFit
  <2>3. next \in {"close", "again"}
    OBVIOUS
  <2> HIDE DEF sent, next
  <2>4. c.node # NODE_ZERO
    BY <1>1, <2>1 DEF Fits
  <2>5. \A d \in At(c, next) : d.node = c.node /\ d.from = c.from /\ d.at # "new" /\ Fits(d)
    BY <1>1, <2>3, <2>4, StageFits
  <2>6. ActsOnBlocks(n, c, At(c, next), sent)
    BY <2>1, <2>2, <2>5, SendDataForgets DEF ActsOnBlocks, Acts, BlockMessage
  <2> QED BY <2>1, <2>6
<1>4. ASSUME NEW hash \in MinedHashes, MineTx(n, c, hash)
      PROVE  c.node = n /\ \E next, sent : ActsOnBlocks(n, c, next, sent)
  <2>1. PICK d : d = [c EXCEPT !.at = "mined", !.ID = hash]
    OBVIOUS
  <2>2. /\ c.node = n /\ c.at = "mine" /\ Proceed(c, {d}, {})
        /\ UNCHANGED <<status, starts, known>>
    BY <1>4, <2>1 DEF MineTx, memory
  <2>3. d.node = c.node /\ d.from = c.from /\ d.at = "mined"
    BY <1>1, <2>1 DEF ConnOK
  <2>4. Fits(d)
    BY <1>1, <2>2, <2>3 DEF Fits
  <2>5. ActsOnBlocks(n, c, {d}, {})
    BY <2>2, <2>3, <2>4 DEF ActsOnBlocks, Acts, BlockMessage
  <2> QED BY <2>2, <2>5
<1> QED BY <1>2, <1>3, <1>4

\* Every step of a handler ends its process or acts.
LEMMA HandlersAct ==
  ASSUME TypeInv, Addressed, NEW n \in Nodes, NEW c \in DOMAIN conns, Handle(n, c)
  PROVE  /\ c.node = n
         /\ (Panics(n, c) /\ ProcessEnds(n)) \/ \E next, sent : Acts(n, c, next, sent)
<1>1. CASE Panics(n, c)
  BY <1>1
     DEF Panics, HandleVersionPanics, TrimPanics, OpenDBPanics, MineTxPanics, Begins
<1> QED BY <1>1, BlockHandlersAct, PaymentHandlersAct, MinersAct
       DEF Handle, Panics, ActsOnBlocks, Relays

LEMMA AddressedInit == Init => Addressed
<1> SUFFICES ASSUME Init PROVE Addressed
  OBVIOUS
<1>1. DOMAIN conns = {}
  BY DEF Init, EmptyBag, SetToBag
<1> QED BY <1>1 DEF Init, Addressed, Listening

LEMMA AddressedNext == TypeInv /\ Addressed /\ [Next]_vars => Addressed'
<1> SUFFICES ASSUME TypeInv, Addressed, [Next]_vars PROVE Addressed'
  OBVIOUS
<1>0. /\ starts \in [Nodes -> Nat] /\ known \in [Nodes -> SUBSET Nodes]
      /\ status \in [Nodes -> {"down", "starting", "up"}]
      /\ \A c \in DOMAIN conns : c.node \in Nodes /\ c.from \in Nodes
  BY DEF TypeInv, TypeOK, ConnOK
<1>1. CASE UNCHANGED vars
  BY <1>1 DEF vars, memory, Addressed, Listening
<1>2. ASSUME NEW n \in Nodes, StartServer(n) PROVE Addressed'
  <2> DEFINE sent == IF n = NODE_ZERO THEN {}
                     ELSE { SendVersion(NODE_ZERO, n, GetBestHeight(n)) }
             S == { m \in sent : Listening(m.node) }
  <2>1. conns' = conns (+) SetToBag(S) /\ SendData(n, sent)
    BY <1>2 DEF StartServer
  <2>2. ASSUME NEW d \in S
        PROVE  d.from = n /\ Fits(d) /\ d.node = NODE_ZERO /\ starts[NODE_ZERO] >= 1
    <3>1. d = SendVersion(NODE_ZERO, n, GetBestHeight(n)) /\ Listening(d.node)
      OBVIOUS
    <3>2. SendVersion(NODE_ZERO, n, GetBestHeight(n)).node = NODE_ZERO
      BY DEF SendVersion, NewConn
    <3>3. Message(d, n)
      BY <3>1, MessagesFit DEF BlockMessage
    <3> QED BY <3>1, <3>2, <3>3, NodeAssumption DEF Addressed, NodeAssumption, Message
  <2> HIDE DEF S, sent
  <2>3. DOMAIN conns' = DOMAIN conns \cup S
    BY <2>1, BagAddDomain
  <2>4. starts'[n] >= 1 /\ \A m \in Nodes : starts'[m] >= starts[m] /\ starts'[m] \in Nat
    BY <1>0, <1>2 DEF StartServer
  <2>5. \A m \in Nodes : Listening(m)' => m = n \/ Listening(m)
    BY <1>0, <1>2 DEF StartServer, Listening
  <2>6. \A m \in Nodes : known'[m] \subseteq known[m]
    BY <2>1, SendDataForgets
  <2>7. \A m \in Nodes : starts[m] >= 1 => starts'[m] >= 1
    BY <1>0, <2>4
  <2>8. \A c \in DOMAIN conns' : starts'[c.node] >= 1 /\ starts'[c.from] >= 1 /\ Fits(c)
    BY <1>0, <2>2, <2>3, <2>4, <2>7, NodeAssumption DEF Addressed, NodeAssumption
  <2> QED BY <1>0, <2>4, <2>5, <2>6, <2>7, <2>8 DEF Addressed
<1>3. ASSUME NEW n \in Nodes, ProcessEnds(n) PROVE Addressed'
  <2>1. DOMAIN conns' \subseteq DOMAIN conns /\ UNCHANGED starts
    BY <1>3 DEF ProcessEnds
  <2>2. \A m \in Nodes : Listening(m)' => Listening(m)
    BY <1>0, <1>3 DEF ProcessEnds, Listening
  <2>3. \A m \in Nodes : known'[m] \subseteq known[m] \cup {NODE_ZERO}
    BY <1>0, <1>3 DEF ProcessEnds
  <2> QED BY <2>1, <2>2, <2>3 DEF Addressed
<1>4. ASSUME NEW n \in Nodes, Accept(n) PROVE Addressed'
  <2>1. \A m \in Nodes : Listening(m)' => Listening(m)
    BY <1>0, <1>4 DEF Accept, Listening
  <2> QED BY <1>4, <2>1 DEF Accept, Addressed, memory
<1>5. ASSUME NEW n \in Nodes, NEW t \in Txs, AddTXN(n, t) PROVE Addressed'
  <2> DEFINE request == NewConn(n, "addtxn", n, 0, "", <<>>, t)
             sent == { SendTx(NODE_ZERO, n, t) }
             S == At(request, "close") \cup { m \in sent : Listening(m.node) }
  <2>1. /\ conns' = conns (+) SetToBag(S) /\ SendData(n, sent) /\ UNCHANGED <<status, starts>>
        /\ Origin[t] = n /\ Listening(n)
    BY <1>5 DEF AddTXN, Listening
  <2>2. PICK r : At(request, "close") = {r} /\ r.node = n /\ r.from = n /\ r.at = "close"
    <3>1. PICK r : r = [request EXCEPT !.at = "close"]
      OBVIOUS
    <3>2. r.node = n /\ r.from = n /\ r.at = "close"
      BY <3>1 DEF NewConn
    <3> QED BY <3>1, <3>2 DEF At
  <2>3. Fits(r)
    BY <2>2 DEF Fits
  <2>4. \A d \in sent : d.node = NODE_ZERO /\ d.from = n /\ Fits(d)
    <3>1. \A d \in sent : d = Post(t)
      BY <2>1 DEF Post
    <3>2. Post(t).node = NODE_ZERO
      BY DEF Post, SendTx, NewConn
    <3> QED BY <2>1, <3>1, <3>2, PaymentMessagesFit DEF Message
  <2>5. \A d \in S : starts[d.node] >= 1 /\ starts[d.from] >= 1 /\ Fits(d)
    BY <2>1, <2>2, <2>3, <2>4, NodeAssumption DEF Addressed, NodeAssumption
  <2> HIDE DEF S, sent
  <2>6. DOMAIN conns' = DOMAIN conns \cup S
    BY <2>1, BagAddDomain
  <2>7. \A m \in Nodes : known'[m] \subseteq known[m]
    BY <2>1, SendDataForgets
  <2> QED BY <2>1, <2>5, <2>6, <2>7 DEF Addressed, Listening
<1>7. ASSUME NEW n \in Nodes, NEW t \in Txs, NEW hash, AddTXNNow(n, t, hash)
      PROVE  Addressed'
  <2>1. PICK r : /\ conns' = conns (+) SetToBag({r})
                 /\ r = [node |-> n, at |-> "close", cmd |-> "addtxn", from |-> n,
                         BestHeight |-> 0, Type |-> "", Items |-> <<>>, ID |-> t]
    BY <1>7, PostedNow
  <2>2. UNCHANGED <<status, starts, known>> /\ Listening(n)
    BY <1>7, PostedNow DEF Listening
  <2>3. starts[r.node] >= 1 /\ starts[r.from] >= 1 /\ Fits(r)
    BY <2>1, <2>2 DEF Addressed, Fits
  <2>4. DOMAIN conns' = DOMAIN conns \cup {r}
    BY <2>1, BagAddDomain
  <2> QED BY <2>2, <2>3, <2>4 DEF Addressed, Listening
<1>6. ASSUME NEW n \in Nodes, NEW c \in DOMAIN conns, NEW next, NEW sent,
             c.node = n, Acts(n, c, next, sent)
      PROVE  Addressed'
  <2>1. UNCHANGED <<status, starts>> /\ Proceed(c, next, sent)
    BY <1>6 DEF Acts
  <2>2. ASSUME NEW d \in DOMAIN conns'
        PROVE  starts[d.node] >= 1 /\ starts[d.from] >= 1 /\ Fits(d)
    <3>1. d \in DOMAIN conns \/ d \in next \/ (d \in sent /\ Listening(d.node))
      BY <2>1, ProceedConns
    <3>2. CASE d \in DOMAIN conns \/ d \in next
      BY <1>6, <3>2 DEF Acts, Addressed
    <3>3. CASE d \in sent /\ Listening(d.node)
      <4>1. d.node \in Nodes
        BY <2>2, TypeNext DEF TypeInv, ConnOK
      <4> QED BY <1>6, <3>3, <4>1 DEF Acts, Addressed, Message
    <3> QED BY <3>1, <3>2, <3>3
  <2>3. \A m \in Nodes : \A x \in known'[m] : x = NODE_ZERO \/ starts[x] >= 1
    BY <1>6 DEF Acts, Addressed
  <2> QED BY <2>1, <2>2, <2>3 DEF Addressed, Listening
<1> QED BY <1>1, <1>2, <1>3, <1>4, <1>5, <1>6, <1>7, HandlersAct DEF Next, Serve, Killed

----------------------------------------------------------------------------
(* What leaves conns, and who has ended.                                    *)

\* How many copies of d a bag has.
Copies(d, bag) == IF d \in DOMAIN bag THEN bag[d] ELSE 0

LEMMA BagExactly ==
  ASSUME NEW B, B \in [DOMAIN B -> Nat \ {0}], NEW c \in DOMAIN B, NEW S, NEW d
  PROVE  LET new == (B (-) SetToBag({c})) (+) SetToBag(S)
         IN  Copies(d, new) = Copies(d, B) - (IF d = c THEN 1 ELSE 0)
                                               + (IF d \in S THEN 1 ELSE 0)
<1> DEFINE rest == B (-) SetToBag({c})
           new == rest (+) SetToBag(S)
<1>1. /\ Copies(d, B) \in Nat
      /\ d = c => Copies(d, B) >= 1
  BY DEF Copies
<1>2. /\ rest \in [DOMAIN rest -> Nat \ {0}]
      /\ Copies(d, rest) = Copies(d, B) - (IF d = c THEN 1 ELSE 0)
  BY DEF (-), SetToBag, Copies
<1> HIDE DEF rest
<1>3. Copies(d, new) = Copies(d, rest) + (IF d \in S THEN 1 ELSE 0)
  BY <1>2 DEF (+), SetToBag, Copies
<1> QED BY <1>1, <1>2, <1>3 DEF rest

\* A handler's step takes one copy of it away and adds one of what comes.
LEMMA ProceedCopies ==
  ASSUME conns \in [DOMAIN conns -> Nat \ {0}], NEW c \in DOMAIN conns,
         NEW next, NEW sent, Proceed(c, next, sent), NEW d
  PROVE  Copies(d, conns') =
           Copies(d, conns)
             - (IF d = c THEN 1 ELSE 0)
             + (IF d \in next \/ (d \in sent /\ Listening(d.node)) THEN 1 ELSE 0)
<1>1. PICK S : S = next \cup { m \in sent : Listening(m.node) }
  OBVIOUS
<1>2. conns' = (conns (-) SetToBag({c})) (+) SetToBag(S)
  BY <1>1 DEF Proceed
<1>3. d \in S <=> d \in next \/ (d \in sent /\ Listening(d.node))
  BY <1>1
<1> QED BY <1>2, <1>3, BagExactly

LEMMA CopiesAre ==
  ASSUME NEW B, B \in [DOMAIN B -> Nat \ {0}], NEW d
  PROVE  Copies(d, B) \in Nat /\ (Copies(d, B) > 0 <=> d \in DOMAIN B)
BY DEF Copies

LEMMA AddedCopies ==
  ASSUME conns \in [DOMAIN conns -> Nat \ {0}], NEW S, conns' = conns (+) SetToBag(S), NEW d
  PROVE  Copies(d, conns') = Copies(d, conns) + (IF d \in S THEN 1 ELSE 0)
BY DEF (+), SetToBag, Copies

\* Only its own handler's step and the end of its node's process take a connection
\* away.
LEMMA ProceedLeaves ==
  ASSUME Held, NEW c \in DOMAIN conns, NEW next, NEW sent, Proceed(c, next, sent)
  PROVE  /\ \A d \in DOMAIN conns : d = c \/ d \in DOMAIN conns'
         /\ \A d : d \in next \/ (d \in sent /\ Listening(d.node)) => d \in DOMAIN conns'
<1>1. conns \in [DOMAIN conns -> Nat \ {0}]
  BY DEF Held
<1>2. conns' \in [DOMAIN conns' -> Nat \ {0}]
  BY <1>1, ProceedCounts
<1>3. ASSUME NEW d, d \in DOMAIN conns' <=> Copies(d, conns') > 0,
             \/ d \in DOMAIN conns /\ d # c
             \/ d \in next \/ (d \in sent /\ Listening(d.node))
      PROVE  d \in DOMAIN conns'
  BY <1>1, <1>3, CopiesAre, ProceedCopies
<1>4. \A d : d \in DOMAIN conns' <=> Copies(d, conns') > 0
  BY <1>2 DEF Copies
<1> QED BY <1>3, <1>4

\* A process does not end unless it has begun.
LEMMA HasEndedStays ==
  TypeInv /\ Held /\ Addressed /\ [Next]_vars =>
    \A n \in Nodes : starts'[n] >= starts[n] /\ (HasEnded(n) => HasEnded(n)')
<1> SUFFICES ASSUME TypeInv, Held, Addressed, [Next]_vars, NEW n \in Nodes
             PROVE  starts'[n] >= starts[n] /\ (HasEnded(n) => HasEnded(n)')
  OBVIOUS
<1>1. /\ starts \in [Nodes -> Nat] /\ status \in [Nodes -> {"down", "starting", "up"}]
      /\ Listening(n) => starts[n] >= 1
  BY DEF TypeInv, TypeOK, Addressed
<1>2. CASE UNCHANGED <<status, starts>>
  BY <1>1, <1>2 DEF HasEnded, Listening
<1>3. ASSUME NEW m \in Nodes, StartServer(m)
      PROVE  starts'[n] >= starts[n] /\ (HasEnded(n) => HasEnded(n)')
  BY <1>1, <1>3 DEF StartServer, HasEnded, Listening
<1>4. ASSUME NEW m \in Nodes, ProcessEnds(m)
      PROVE  starts'[n] >= starts[n] /\ (HasEnded(n) => HasEnded(n)')
  BY <1>1, <1>4 DEF ProcessEnds, HasEnded, Listening
<1>5. ASSUME NEW m \in Nodes, Accept(m)
      PROVE  starts'[n] >= starts[n] /\ (HasEnded(n) => HasEnded(n)')
  BY <1>1, <1>5 DEF Accept, HasEnded, Listening
<1>6. ASSUME NEW m \in Nodes, NEW t \in Txs, AddTXN(m, t)
      PROVE  UNCHANGED <<status, starts>>
  BY <1>6 DEF AddTXN
<1>9. ASSUME NEW m \in Nodes, NEW t \in Txs, NEW hash, AddTXNNow(m, t, hash)
      PROVE  UNCHANGED <<status, starts>>
  BY <1>9, PostedNow
<1>7. ASSUME NEW m \in Nodes, NEW c \in DOMAIN conns, Handle(m, c)
      PROVE  ProcessEnds(m) \/ UNCHANGED <<status, starts>>
  BY <1>7, HandlersAct DEF Acts
<1>8. CASE UNCHANGED vars
  BY <1>2, <1>8 DEF vars
<1> QED BY <1>2, <1>3, <1>4, <1>5, <1>6, <1>7, <1>8, <1>9 DEF Next, Serve, Killed

LEMMA EndsAreNoticed ==
  ASSUME TypeInv, Held, Addressed, NEW n \in Nodes, Listening(n), ProcessEnds(n)
  PROVE  HasEnded(n)'
BY DEF TypeInv, TypeOK, Addressed, ProcessEnds, HasEnded, Listening

\* As long as no process has ended, steps are these.
LEMMA StepsGoOn ==
  ASSUME TypeInv, Held, Addressed, [Next]_vars, NoneHasEnded'
  PROVE  /\ NoneHasEnded
         /\ \/ UNCHANGED vars
            \/ \E n \in Nodes : StartServer(n) \/ Accept(n) \/ \E t \in Txs : AddTXN(n, t)
            \/ \E n \in Nodes, t \in Txs, hash \in MinedHashes : AddTXNNow(n, t, hash)
            \/ \E n \in Nodes, c \in DOMAIN conns : Handle(n, c) /\ ~Panics(n, c)
<1>1. NoneHasEnded
  BY HasEndedStays DEF NoneHasEnded
<1>2. ASSUME NEW n \in Nodes, Killed(n) PROVE FALSE
  BY <1>2, EndsAreNoticed DEF Killed, NoneHasEnded
<1>3. ASSUME NEW n \in Nodes, NEW c \in DOMAIN conns, Panics(n, c) PROVE FALSE
  <2>1. ProcessEnds(n)
    BY <1>3 DEF Panics, HandleVersionPanics, TrimPanics, OpenDBPanics, MineTxPanics
  <2>2. c.node = n /\ (status[n] = "up" \/ c.at # "new")
    BY <1>3
       DEF Panics, HandleVersionPanics, TrimPanics, OpenDBPanics, MineTxPanics, Begins
  <2>3. Listening(n)
    BY <2>2 DEF Held, Listening
  <2> QED BY <2>1, <2>3, EndsAreNoticed DEF NoneHasEnded
<1> QED BY <1>1, <1>2, <1>3 DEF Next, Serve

\* Then who has been started listens, and a connection goes only by its handler.
LEMMA StartedListens ==
  ASSUME TypeInv, NoneHasEnded, NEW n \in Nodes, starts[n] >= 1
  PROVE  Listening(n)
BY DEF TypeInv, NoneHasEnded, HasEnded

LEMMA ConnLeaves ==
  ASSUME TypeInv, Held, Addressed, [Next]_vars, NoneHasEnded',
         NEW d \in DOMAIN conns, d \notin DOMAIN conns'
  PROVE  \E n \in Nodes : Handle(n, d) /\ ~Panics(n, d)
<1>1. UNCHANGED conns => FALSE
  OBVIOUS
<1>2. ASSUME NEW n \in Nodes,
             \/ StartServer(n) \/ \E t \in Txs : AddTXN(n, t)
             \/ \E t \in Txs, hash \in MinedHashes : AddTXNNow(n, t, hash)
      PROVE  FALSE
  <2>1. PICK S : conns' = conns (+) SetToBag(S)
    BY <1>2, PostedNow DEF StartServer, AddTXN
  <2> QED BY <2>1, BagAddDomain
<1>3. ASSUME NEW n \in Nodes, NEW c \in DOMAIN conns, Handle(n, c), ~Panics(n, c)
      PROVE  d = c
  <2>1. \E next, sent : Acts(n, c, next, sent)
    BY <1>3, HandlersAct
  <2>2. PICK next, sent : Proceed(c, next, sent)
    BY <2>1 DEF Acts
  <2> QED BY <2>2, ProceedLeaves
<1> QED BY <1>1, <1>2, <1>3, StepsGoOn DEF vars, Accept

----------------------------------------------------------------------------
(* Offers.                                                                  *)

\* A node has a payment, or the message that brings it the next step nearer is
\* under way.
OnItsWay(n, t) ==
  \/ Offer(n, t) \in DOMAIN conns \/ Ask(n, t) \in DOMAIN conns \/ Bring(n, t) \in DOMAIN conns
  \/ t \in pool[n]
  \/ \E h \in stored[n] : t \in blocks[h].Txs

Arriving ==
  /\ offered \in [Txs -> SUBSET (Nodes \ {NODE_ZERO})]
  /\ \A t \in Txs : \A n \in offered[t] : starts[n] >= 1
  /\ NoneHasEnded => \A t \in Txs : \A n \in offered[t] : OnItsWay(n, t)

LEMMA PaymentFields ==
  ASSUME NEW n, NEW t
  PROVE  /\ LET d == Offer(n, t)
            IN  /\ d.node = n /\ d.at = "new" /\ d.cmd = "inv" /\ d.Type = "tx"
                /\ d.from = NODE_ZERO /\ d.Items[1] = t
         /\ LET d == Ask(n, t)
            IN  /\ d.node = NODE_ZERO /\ d.at = "new" /\ d.cmd = "getdata" /\ d.Type = "tx"
                /\ d.from = n /\ d.ID = t
         /\ LET d == Bring(n, t)
            IN  /\ d.node = n /\ d.at = "new" /\ d.cmd = "tx" /\ d.from = NODE_ZERO /\ d.ID = t
         /\ LET d == Post(t)
            IN  /\ d.node = NODE_ZERO /\ d.at = "new" /\ d.cmd = "tx" /\ d.from = Origin[t]
                /\ d.ID = t
BY DEF Offer, Ask, Bring, Post, SendInv, SendGetData, SendTx, NewConn

\* What handles a message about a payment.
LEMMA PaymentHandlers ==
  ASSUME NEW n, NEW c, Handle(n, c), ~Panics(n, c), c.at = "new"
  PROVE  /\ c.cmd = "inv" /\ c.Type = "tx" => HandleInvTx(n, c)
         /\ c.cmd = "getdata" => HandleGetData(n, c)
         /\ c.cmd = "tx" => HandleTxZero(n, c) \/ HandleTx(n, c)
<1>1. CASE \/ HandleVersion(n, c) \/ HandleGetBlocks(n, c) \/ HandleBlock(n, c)
           \/ HandleInvBlock(n, c)
  BY <1>1 DEF HandleVersion, HandleGetBlocks, HandleBlock, HandleInvBlock, Begins
<1>2. CASE \/ AddToKnown(n, c) \/ FilterTransit(n, c) \/ TrimTransit(n, c) \/ CloseDB(n, c)
  BY <1>2 DEF AddToKnown, FilterTransit, TrimTransit, CloseDB
<1>3. CASE \/ MineTxNothing(n, c) \/ MineTxAnnounces(n, c)
           \/ \E hash \in MinedHashes : MineTx(n, c, hash)
  BY <1>3 DEF MineTxNothing, MineTxAnnounces, MineTx
<1>4. CASE HandleGetData(n, c) \/ HandleTxZero(n, c) \/ HandleInvTx(n, c) \/ HandleTx(n, c)
  BY <1>4 DEF HandleGetData, HandleTxZero, HandleInvTx, HandleTx, Begins
<1> QED BY <1>1, <1>2, <1>3, <1>4 DEF Handle, Panics

\* Blocks are not changed and stay where they are.
LEMMA StoresGrow ==
  ASSUME TypeInv, [Next]_vars, NEW n \in Nodes, NEW h \in stored[n]
  PROVE  h \in stored'[n] /\ blocks'[h] = blocks[h]
<1>0. stored \in [Nodes -> SUBSET DOMAIN blocks]
  BY DEF TypeInv, TypeOK
<1>1. [Spread!Next]_(Spread!vars)
  BY SpreadStep
<1>2. CASE UNCHANGED Spread!vars
  BY <1>2 DEF Spread!vars
<1>3. ASSUME NEW m \in Nodes, NEW hash, Spread!Mine(m, hash) \/ Spread!Learn(m, hash)
      PROVE  h \in stored'[n] /\ blocks'[h] = blocks[h]
  BY <1>0, <1>3 DEF Spread!Mine, Spread!Learn
<1> QED BY <1>1, <1>2, <1>3 DEF Spread!Next

\* Each message is followed by the next, as long as no process ends.
LEMMA OnItsWayStays ==
  ASSUME TypeInv, TypeInv', Held, Kept, Addressed, [Next]_vars, NoneHasEnded',
         NEW t \in Txs, NEW n \in Nodes \ {NODE_ZERO}, starts[n] >= 1, OnItsWay(n, t)
  PROVE  OnItsWay(n, t)'
<1>1. NoneHasEnded /\ NODE_ZERO \in Nodes
  BY StepsGoOn, NodeAssumption DEF NodeAssumption
<1>2. CASE Offer(n, t) \in DOMAIN conns
  <2> SUFFICES ASSUME Offer(n, t) \notin DOMAIN conns' PROVE OnItsWay(n, t)'
    BY DEF OnItsWay, Offer
  <2>1. PICK c : c = Offer(n, t)
    OBVIOUS
  <2>2. /\ c.node = n /\ c.at = "new" /\ c.cmd = "inv" /\ c.Type = "tx"
        /\ c.from = NODE_ZERO /\ c.Items[1] = t /\ c \in DOMAIN conns
    BY <1>2, <2>1, PaymentFields
  <2>3. PICK m \in Nodes : Handle(m, c) /\ ~Panics(m, c)
    BY <2>1, <2>2, ConnLeaves
  <2>4. HandleInvTx(m, c)
    BY <2>2, <2>3, PaymentHandlers
  <2>5. m = n /\ UNCHANGED pool
    BY <2>2, <2>4 DEF HandleInvTx, Begins
  <2>6. CASE t \in pool[n]
    BY <2>5, <2>6 DEF OnItsWay
  <2>7. CASE t \notin pool[n]
    <3>1. Proceed(c, {}, {Ask(n, t)})
      BY <2>2, <2>4, <2>5, <2>7 DEF HandleInvTx, Ask
    <3>2. Listening(Ask(n, t).node)
      <4>1. starts[NODE_ZERO] >= 1
        BY <2>2 DEF Addressed
      <4> QED BY <1>1, <4>1, StartedListens, PaymentFields
    <3>3. Ask(n, t) \in DOMAIN conns'
      BY <2>2, <3>1, <3>2, ProceedLeaves
    <3> QED BY <3>3 DEF OnItsWay, Ask
  <2> QED BY <2>6, <2>7
<1>3. CASE Ask(n, t) \in DOMAIN conns
  <2> SUFFICES ASSUME Ask(n, t) \notin DOMAIN conns' PROVE OnItsWay(n, t)'
    BY DEF OnItsWay, Ask
  <2>1. PICK c : c = Ask(n, t)
    OBVIOUS
  <2>2. /\ c.node = NODE_ZERO /\ c.at = "new" /\ c.cmd = "getdata" /\ c.Type = "tx"
        /\ c.from = n /\ c.ID = t /\ c \in DOMAIN conns
    BY <1>3, <2>1, PaymentFields
  <2>3. PICK m \in Nodes : Handle(m, c) /\ ~Panics(m, c)
    BY <2>1, <2>2, ConnLeaves
  <2>4. HandleGetData(m, c)
    BY <2>2, <2>3, PaymentHandlers
  <2>5. m = NODE_ZERO /\ Proceed(c, At(c, "close"), Answer(m, c))
    BY <2>2, <2>4 DEF HandleGetData, Begins
  <2>6. t \in pool[NODE_ZERO]
    <3>1. NoneLost
      BY <1>1 DEF Kept, NoneHasEnded
    <3> QED BY <2>2, <3>1 DEF NoneLost, ConnBrings
  <2>7. Bring(n, t) \in Answer(m, c)
    BY <2>2, <2>5, <2>6 DEF Answer, Bring
  <2>8. Listening(Bring(n, t).node)
    BY <1>1, StartedListens, PaymentFields
  <2>9. Bring(n, t) \in DOMAIN conns'
    BY <2>2, <2>5, <2>7, <2>8, ProceedLeaves
  <2> QED BY <2>9 DEF OnItsWay, Bring
<1>4. CASE Bring(n, t) \in DOMAIN conns
  <2> SUFFICES ASSUME Bring(n, t) \notin DOMAIN conns' PROVE OnItsWay(n, t)'
    BY DEF OnItsWay, Bring
  <2>1. PICK c : c = Bring(n, t)
    OBVIOUS
  <2>2. c.node = n /\ c.at = "new" /\ c.cmd = "tx" /\ c.ID = t /\ c \in DOMAIN conns
    BY <1>4, <2>1, PaymentFields
  <2>3. PICK m \in Nodes : Handle(m, c) /\ ~Panics(m, c)
    BY <2>1, <2>2, ConnLeaves
  <2>4. HandleTxZero(m, c) \/ HandleTx(m, c)
    BY <2>2, <2>3, PaymentHandlers
  <2>5. pool' = [pool EXCEPT ![n] = @ \cup {t}]
    BY <2>2, <2>4 DEF HandleTxZero, HandleTx, Begins
  <2>6. t \in pool'[n]
    BY <2>5 DEF TypeInv, TypeOK
  <2> QED BY <2>6 DEF OnItsWay
<1>5. CASE t \in pool[n]
  <2>1. CASE t \in pool'[n]
    BY <2>1 DEF OnItsWay
  <2>2. CASE \E h \in stored'[n] : t \in blocks'[h].Txs
    BY <2>2 DEF OnItsWay
  <2>3. CASE status'[n] = "down"
    <3>1. starts'[n] >= 1 /\ starts'[n] \in Nat
      <4>1. starts'[n] >= starts[n] /\ starts[n] \in Nat /\ starts'[n] \in Nat
        BY HasEndedStays DEF TypeInv
      <4> QED BY <4>1
    <3> QED BY <2>3, <3>1 DEF NoneHasEnded, HasEnded, Listening
  <2> QED BY <1>5, <2>1, <2>2, <2>3, PooledStep
<1>6. CASE \E h \in stored[n] : t \in blocks[h].Txs
  <2>1. PICK h \in stored[n] : t \in blocks[h].Txs
    BY <1>6
  <2>2. h \in stored'[n] /\ t \in blocks'[h].Txs
    BY <2>1, StoresGrow
  <2> QED BY <2>2 DEF OnItsWay
<1> QED BY <1>2, <1>3, <1>4, <1>5, <1>6 DEF OnItsWay

\* Only HandleTx of NODE_ZERO offers.
LEMMA OfferedStays ==
  ASSUME [Next]_vars
  PROVE  \/ UNCHANGED offered
         \/ \E c \in DOMAIN conns : HandleTxZero(NODE_ZERO, c)
<1> USE DEF history
<1>1. ASSUME NEW n \in Nodes,
             StartServer(n) \/ Killed(n) \/ Accept(n) \/ \E t \in Txs : AddTXN(n, t)
      PROVE  UNCHANGED offered
  BY <1>1 DEF StartServer, Killed, ProcessEnds, Accept, AddTXN
<1>4. ASSUME NEW n \in Nodes, NEW t \in Txs, NEW hash, AddTXNNow(n, t, hash)
      PROVE  UNCHANGED offered
  BY <1>4, PostedNow
<1>2. ASSUME NEW n \in Nodes, NEW c \in DOMAIN conns, Handle(n, c), ~HandleTxZero(n, c)
      PROVE  UNCHANGED offered
  <2>1. CASE Panics(n, c)
    BY <2>1
       DEF Panics, HandleVersionPanics, TrimPanics, OpenDBPanics, MineTxPanics,
           ProcessEnds
  <2>2. CASE \/ HandleVersion(n, c) \/ AddToKnown(n, c) \/ HandleGetBlocks(n, c)
             \/ HandleInvBlock(n, c) \/ FilterTransit(n, c) \/ HandleGetData(n, c)
             \/ TrimTransit(n, c) \/ CloseDB(n, c) \/ HandleBlock(n, c)
    BY <2>2
       DEF HandleVersion, AddToKnown, HandleGetBlocks, HandleInvBlock,
           FilterTransit, HandleGetData, TrimTransit, CloseDB, HandleBlock
  <2>3. CASE \/ HandleInvTx(n, c) \/ HandleTx(n, c)
             \/ MineTxNothing(n, c) \/ MineTxAnnounces(n, c)
             \/ \E hash \in MinedHashes : MineTx(n, c, hash)
    BY <2>3 DEF HandleInvTx, HandleTx, MineTxNothing, MineTxAnnounces, MineTx
  <2> QED BY <1>2, <2>1, <2>2, <2>3 DEF Handle, Panics
<1>3. \A n, c : HandleTxZero(n, c) => n = NODE_ZERO
  BY DEF HandleTxZero
<1> QED BY <1>1, <1>2, <1>3, <1>4 DEF Next, Serve, vars

LEMMA ArrivingInit == Init => Arriving
BY DEF Init, Arriving

LEMMA ArrivingNext ==
  /\ TypeInv /\ Held /\ Kept /\ Addressed /\ Arriving
  /\ TypeInv' /\ [Next]_vars
  => Arriving'
<1> SUFFICES ASSUME TypeInv, Held, Kept, Addressed, Arriving, TypeInv', [Next]_vars
             PROVE  Arriving'
  OBVIOUS
<1>1. \A n \in Nodes : starts'[n] >= starts[n] /\ starts'[n] \in Nat /\ starts[n] \in Nat
  BY HasEndedStays DEF TypeInv
<1>2. ASSUME NoneHasEnded', NEW t \in Txs, NEW n \in offered[t]
      PROVE  OnItsWay(n, t)'
  <2>1. n \in Nodes \ {NODE_ZERO} /\ starts[n] >= 1
    BY DEF Arriving
  <2>2. OnItsWay(n, t)
    BY <1>2, StepsGoOn DEF Arriving
  <2> QED BY <1>2, <2>1, <2>2, OnItsWayStays
<1>3. CASE UNCHANGED offered
  <2>1. \A t \in Txs : \A n \in offered[t] : starts'[n] >= 1
    BY <1>1 DEF Arriving
  <2> QED BY <1>2, <1>3, <2>1 DEF Arriving
<1>4. ASSUME NEW c \in DOMAIN conns, HandleTxZero(NODE_ZERO, c)
      PROVE  Arriving'
  <2> DEFINE n0 == NODE_ZERO
             others == known[n0] \ {n0, c.from}
             sent == { SendInv(to, n0, "tx", <<c.ID>>) : to \in others }
  <2>1. /\ Proceed(c, {}, sent) /\ offered' = [offered EXCEPT ![c.ID] = @ \cup others]
        /\ c.node = n0 /\ c.at = "new" /\ c.cmd = "tx" /\ UNCHANGED starts
    BY <1>4 DEF HandleTxZero, Begins
  <2>2. c.ID \in Txs
    <3>1. PICK t \in Txs : c = Post(t)
      BY <2>1 DEF Addressed, Fits
    <3>2. Post(t).ID = t
      BY DEF Post, SendTx, NewConn
    <3> QED BY <3>1, <3>2
  <2>3. others \subseteq Nodes \ {n0} /\ \A n \in others : starts[n] >= 1
    <3>1. known[n0] \subseteq Nodes
      BY NodeAssumption DEF NodeAssumption, TypeInv, TypeOK
    <3> QED BY <3>1, NodeAssumption DEF NodeAssumption, Addressed
  <2>4. ASSUME NoneHasEnded', NEW n \in others PROVE Offer(n, c.ID) \in DOMAIN conns'
    <3>1. Listening(n)
      BY <2>3, <2>4, StepsGoOn, StartedListens
    <3>2. Offer(n, c.ID) \in sent
      BY <2>4 DEF Offer
    <3>3. Offer(n, c.ID).node = n
      BY PaymentFields
    <3> HIDE DEF sent
    <3> QED BY <2>1, <3>1, <3>2, <3>3, ProceedLeaves
  <2>5. /\ offered' \in [Txs -> SUBSET (Nodes \ {n0})]
        /\ \A t \in Txs : offered'[t] = IF t = c.ID THEN offered[t] \cup others ELSE offered[t]
    BY <2>1, <2>2, <2>3 DEF Arriving
  <2> HIDE DEF sent, others
  <2>6. ASSUME NEW t \in Txs, NEW n \in offered'[t] PROVE starts'[n] >= 1
    BY <2>1, <2>3, <2>5 DEF Arriving
  <2>7. ASSUME NoneHasEnded', NEW t \in Txs, NEW n \in offered'[t]
        PROVE  OnItsWay(n, t)'
    <3>1. CASE n \in offered[t]
      BY <1>2, <2>7, <3>1
    <3>2. CASE t = c.ID /\ n \in others
      BY <2>4, <2>7, <3>2 DEF OnItsWay, Offer
    <3> QED BY <2>5, <2>7, <3>1, <3>2
  <2> QED BY <2>5, <2>6, <2>7 DEF Arriving
<1> QED BY <1>3, <1>4, OfferedStays

\* However the messages of several payments cross, a node that was offered one gets
\* it: NODE_ZERO still has it when it is asked, and no message is lost.
THEOREM OfferedPaymentsArrive == Spec => []OffersArrive
<1>1. /\ TypeInv /\ Held /\ Kept /\ Addressed /\ Arriving /\ [Next]_vars
      => TypeInv' /\ Held' /\ Kept' /\ Addressed' /\ Arriving'
  BY TypeNext, HeldNext, KeptNext, AddressedNext, ArrivingNext
<1>2. Arriving => OffersArrive
  <2> SUFFICES ASSUME Arriving, Quiet, NoneHasEnded, NEW t \in Txs, NEW n \in offered[t]
               PROVE  t \in pool[n] \/ \E h \in stored[n] : t \in blocks[h].Txs
    BY DEF OffersArrive
  <2>1. DOMAIN conns = {}
    BY DEF Quiet, EmptyBag, SetToBag
  <2> QED BY <2>1 DEF Arriving, OnItsWay
<1> QED BY <1>1, <1>2, TypeInit, HeldInit, KeptInit, AddressedInit, ArrivingInit, PTL DEF Spec

----------------------------------------------------------------------------
(* A post's worth.  Each post of a payment t lets a node n hear of it once. *)
(* What is left of that is a message on the way to n, t in the pool of n,   *)
(* or a block of n: posts[t] bounds the number of all these together.       *)

Ways(n, t, bag) ==
  Copies(Post(t), bag) + Copies(Offer(n, t), bag)
    + Copies(Ask(n, t), bag) + Copies(Bring(n, t), bag)

\* t is about to leave the pool: a handler has mined it and not yet said so.
JustMined(n, t) ==
  \E c \in DOMAIN conns : c.node = n /\ c.at = "mined" /\ t \in blocks[c.ID].Txs

InPool(n, t) == IF t \in pool[n] /\ ~JustMined(n, t) THEN 1 ELSE 0

Paid ==
  /\ \A t \in Txs : Cardinality(MinedBy(NODE_ZERO, t)) <= posts[t]
  /\ \A n \in Nodes \ {NODE_ZERO} : \A t \in Txs :
       Ways(n, t, conns) + InPool(n, t) + Cardinality(MinedBy(n, t)) <= posts[t]

\* The messages that count are four.
Counted(d, n, t) == d = Post(t) \/ d = Offer(n, t) \/ d = Ask(n, t) \/ d = Bring(n, t)

LEMMA CountedArePayments ==
  ASSUME NEW n, NEW t, NEW d, Counted(d, n, t)
  PROVE  d.at = "new" /\ IsPayment(d)
<1>1. /\ Post(t).at = "new" /\ Post(t).cmd = "tx"
      /\ Offer(n, t).at = "new" /\ Offer(n, t).Type = "tx"
      /\ Ask(n, t).at = "new" /\ Ask(n, t).Type = "tx"
      /\ Bring(n, t).at = "new" /\ Bring(n, t).cmd = "tx"
  BY PaymentFields
<1> QED BY <1>1 DEF Counted, IsPayment

LEMMA CountedDiffer ==
  ASSUME NEW n \in Nodes \ {NODE_ZERO}, NEW t
  PROVE  /\ Post(t) # Offer(n, t) /\ Post(t) # Ask(n, t) /\ Post(t) # Bring(n, t)
         /\ Offer(n, t) # Ask(n, t) /\ Offer(n, t) # Bring(n, t) /\ Ask(n, t) # Bring(n, t)
<1>1. /\ Offer(n, t).cmd = "inv" /\ Ask(n, t).cmd = "getdata"
      /\ Bring(n, t).cmd = "tx" /\ Bring(n, t).node = n
      /\ Post(t).cmd = "tx" /\ Post(t).node = NODE_ZERO
  BY PaymentFields
<1> QED BY <1>1

LEMMA WaysNat ==
  ASSUME NEW B, B \in [DOMAIN B -> Nat \ {0}], NEW n, NEW t
  PROVE  Ways(n, t, B) \in Nat
BY CopiesAre DEF Ways

\* None of the four gets more copies.
LEMMA NoMoreCopies ==
  ASSUME NEW B, B \in [DOMAIN B -> Nat \ {0}], NEW C, C \in [DOMAIN C -> Nat \ {0}],
         NEW n, NEW t, \A d : Counted(d, n, t) => Copies(d, C) <= Copies(d, B)
  PROVE  Ways(n, t, C) <= Ways(n, t, B)
<1>1. \A d : Copies(d, B) \in Nat /\ Copies(d, C) \in Nat
  BY CopiesAre
<1>2. /\ Copies(Post(t), C) <= Copies(Post(t), B)
      /\ Copies(Offer(n, t), C) <= Copies(Offer(n, t), B)
      /\ Copies(Ask(n, t), C) <= Copies(Ask(n, t), B)
      /\ Copies(Bring(n, t), C) <= Copies(Bring(n, t), B)
  BY DEF Counted
<1> QED BY <1>1, <1>2 DEF Ways

LEMMA JustMinedStays ==
  ASSUME Held, UNCHANGED blocks, NEW c \in DOMAIN conns, NEW next, NEW sent,
         Proceed(c, next, sent), c.at # "mined", NEW n, NEW t, JustMined(n, t)
  PROVE  JustMined(n, t)'
<1>1. PICK d \in DOMAIN conns : d.node = n /\ d.at = "mined" /\ t \in blocks[d.ID].Txs
  BY DEF JustMined
<1>2. d \in DOMAIN conns'
  BY <1>1, ProceedLeaves
<1> QED BY <1>1, <1>2 DEF JustMined

\* A step that leaves the blocks and the posts alone.
LEMMA BudgetFalls ==
  ASSUME Held, Held', UNCHANGED <<blocks, posts>>, TypeInv, Tree,
         NEW n \in Nodes, NEW t \in Txs,
         Ways(n, t, conns) + InPool(n, t) + Cardinality(MinedBy(n, t)) <= posts[t],
         Ways(n, t, conns') + InPool(n, t)' <= Ways(n, t, conns) + InPool(n, t)
  PROVE  Ways(n, t, conns') + InPool(n, t)' + Cardinality(MinedBy(n, t)') <= posts'[t]
<1>1. Ways(n, t, conns) \in Nat /\ Ways(n, t, conns') \in Nat
  BY WaysNat DEF Held
<1>2. MinedBy(n, t)' = MinedBy(n, t) /\ Cardinality(MinedBy(n, t)) \in Nat
  <2>1. MinedBy(n, t) \subseteq DOMAIN blocks /\ IsFiniteSet(DOMAIN blocks)
    BY DEF MinedBy, Tree
  <2>2. IsFiniteSet(MinedBy(n, t))
    BY <2>1, FS_Subset
  <2> QED BY <2>2, FS_CardinalityType DEF MinedBy
<1>3. InPool(n, t) \in Nat /\ InPool(n, t)' \in Nat
  BY DEF InPool
<1>4. posts[t] \in Nat /\ posts'[t] = posts[t]
  BY DEF TypeInv
<1> QED BY <1>1, <1>2, <1>3, <1>4

\* What a handler's step does to the copies of a message that counts.
LEMMA CountedCopies ==
  ASSUME Held, NEW m, NEW c \in DOMAIN conns, NEW next, NEW sent, Acts(m, c, next, sent),
         NEW n, NEW t, NEW d, Counted(d, n, t)
  PROVE  /\ Copies(d, conns') =
              Copies(d, conns) - (IF d = c THEN 1 ELSE 0)
                               + (IF d \in sent /\ Listening(d.node) THEN 1 ELSE 0)
         /\ Copies(d, conns) \in Nat /\ (d = c => Copies(d, conns) >= 1)
<1>1. d \notin next
  BY CountedArePayments DEF Acts
<1> QED BY <1>1, ProceedCopies, CopiesAre DEF Acts, Held

\* Handlers that send nothing about payments take copies away at most.
LEMMA BlockStepWays ==
  ASSUME Held, Held', NEW m, NEW c \in DOMAIN conns, NEW next, NEW sent,
         ActsOnBlocks(m, c, next, sent), NEW n, NEW t
  PROVE  Ways(n, t, conns') <= Ways(n, t, conns)
<1>1. ASSUME NEW d, Counted(d, n, t)
      PROVE  Copies(d, conns') <= Copies(d, conns)
  <2>1. d \notin sent
    BY <1>1, CountedArePayments DEF ActsOnBlocks
  <2> QED BY <1>1, <2>1, CountedCopies DEF ActsOnBlocks
<1> QED BY <1>1, NoMoreCopies DEF Held

LEMMA InPoolFalls ==
  ASSUME Held, UNCHANGED blocks, NEW c \in DOMAIN conns, NEW next, NEW sent,
         Proceed(c, next, sent), c.at # "mined",
         NEW n, NEW t, t \in pool'[n] => t \in pool[n]
  PROVE  InPool(n, t)' <= InPool(n, t)
<1>1. JustMined(n, t) => JustMined(n, t)'
  BY JustMinedStays
<1> QED BY <1>1 DEF InPool

LEMMA SideStep ==
  ASSUME Held, Held', TypeInv, Tree, UNCHANGED <<blocks, posts>>,
         NEW m, NEW c \in DOMAIN conns, NEW next, NEW sent, Acts(m, c, next, sent),
         c.at # "mined", NEW n \in Nodes, NEW t \in Txs,
         t \in pool'[n] => t \in pool[n],
         Ways(n, t, conns') <= Ways(n, t, conns),
         Ways(n, t, conns) + InPool(n, t) + Cardinality(MinedBy(n, t)) <= posts[t]
  PROVE  Ways(n, t, conns') + InPool(n, t)' + Cardinality(MinedBy(n, t)') <= posts'[t]
<1>1. InPool(n, t)' <= InPool(n, t)
  BY InPoolFalls DEF Acts
<1>2. /\ Ways(n, t, conns) \in Nat /\ Ways(n, t, conns') \in Nat
      /\ InPool(n, t) \in Nat /\ InPool(n, t)' \in Nat
  BY WaysNat DEF Held, InPool
<1>3. Ways(n, t, conns') + InPool(n, t)' <= Ways(n, t, conns) + InPool(n, t)
  BY <1>1, <1>2
<1> QED BY <1>3, BudgetFalls

\* Two messages that count are the same only for the same node and payment.
LEMMA SameMessage ==
  ASSUME NEW n \in Nodes \ {NODE_ZERO}, NEW t, NEW m \in Nodes \ {NODE_ZERO}, NEW x
  PROVE  /\ Offer(m, x) = Offer(n, t) => m = n /\ x = t
         /\ Ask(m, x) = Ask(n, t) => m = n /\ x = t
         /\ Bring(m, x) = Bring(n, t) => m = n /\ x = t
         /\ Post(x) = Post(t) => x = t
         /\ Offer(m, x) # Post(t) /\ Offer(m, x) # Ask(n, t) /\ Offer(m, x) # Bring(n, t)
         /\ Ask(m, x) # Post(t) /\ Ask(m, x) # Offer(n, t) /\ Ask(m, x) # Bring(n, t)
         /\ Bring(m, x) # Post(t) /\ Bring(m, x) # Offer(n, t) /\ Bring(m, x) # Ask(n, t)
<1>1. /\ Offer(n, t).cmd = "inv" /\ Ask(n, t).cmd = "getdata"
      /\ Bring(n, t).cmd = "tx" /\ Bring(n, t).node = n /\ Bring(n, t).ID = t
      /\ Offer(n, t).node = n /\ Offer(n, t).Items[1] = t
      /\ Ask(n, t).from = n /\ Ask(n, t).ID = t
      /\ Post(t).cmd = "tx" /\ Post(t).node = NODE_ZERO /\ Post(t).ID = t
  BY PaymentFields
<1>2. /\ Offer(m, x).cmd = "inv" /\ Ask(m, x).cmd = "getdata"
      /\ Bring(m, x).cmd = "tx" /\ Bring(m, x).node = m /\ Bring(m, x).ID = x
      /\ Offer(m, x).node = m /\ Offer(m, x).Items[1] = x
      /\ Ask(m, x).from = m /\ Ask(m, x).ID = x
  BY PaymentFields
<1>3. Post(x).ID = x
  BY DEF Post, SendTx, NewConn
<1> QED BY <1>1, <1>2, <1>3

\* A handler that takes one message that counts and sends at most the next.
LEMMA OneForOne ==
  ASSUME Held, Held', NEW k, NEW c \in DOMAIN conns, NEW next, NEW sent, Acts(k, c, next, sent),
         NEW n \in Nodes \ {NODE_ZERO}, NEW t, NEW a, NEW b,
         Counted(a, n, t), Counted(b, n, t), a # b,
         c = a \/ b \notin sent,
         \A d \in sent : Counted(d, n, t) => d = b
  PROVE  Ways(n, t, conns') <= Ways(n, t, conns)
<1>1. \A d : Counted(d, n, t) =>
        /\ Copies(d, conns') =
             Copies(d, conns) - (IF d = c THEN 1 ELSE 0)
                              + (IF d \in sent /\ Listening(d.node) THEN 1 ELSE 0)
        /\ Copies(d, conns) \in Nat /\ (d = c => Copies(d, conns) >= 1)
  BY CountedCopies
<1>2. CASE b \notin sent
  <2>1. ASSUME NEW d, Counted(d, n, t) PROVE Copies(d, conns') <= Copies(d, conns)
    <3>1. d \notin sent
      BY <1>2, <2>1
    <3> QED BY <1>1, <2>1, <3>1
  <2> QED BY <2>1, NoMoreCopies DEF Held
<1>3. CASE c = a
  <2>1. /\ Copies(a, conns') = Copies(a, conns) - 1 /\ Copies(a, conns) \in Nat
        /\ Copies(b, conns') <= Copies(b, conns) + 1 /\ Copies(b, conns) \in Nat
        /\ Copies(b, conns') \in Nat
    <3>1. a \notin sent
      OBVIOUS
    <3> QED BY <1>1, <1>3, <3>1
  <2>2. \A d : Counted(d, n, t) /\ d # a /\ d # b =>
          Copies(d, conns') = Copies(d, conns) /\ Copies(d, conns) \in Nat
    BY <1>1, <1>3
  <2>3. Counted(Post(t), n, t) /\ Counted(Offer(n, t), n, t)
        /\ Counted(Ask(n, t), n, t) /\ Counted(Bring(n, t), n, t)
    BY DEF Counted
  <2> QED BY <2>1, <2>2, <2>3, CountedDiffer DEF Ways, Counted
<1> QED BY <1>2, <1>3

LEMMA RelayWays ==
  ASSUME Held, Held', NEW k \in Nodes, NEW c \in DOMAIN conns, NEW next, NEW sent,
         Relays(k, c, next, sent), NEW n \in Nodes \ {NODE_ZERO}, NEW t \in Txs
  PROVE  Ways(n, t, conns') <= Ways(n, t, conns)
<1>0. /\ Acts(k, c, next, sent)
      /\ Counted(Post(t), n, t) /\ Counted(Offer(n, t), n, t)
      /\ Counted(Ask(n, t), n, t) /\ Counted(Bring(n, t), n, t)
  BY DEF Relays, Counted
<1>1. ASSUME NEW x \in Txs, c = Post(x),
             \A d \in sent : \E m \in Nodes \ {NODE_ZERO} : d = Offer(m, x)
      PROVE  Ways(n, t, conns') <= Ways(n, t, conns)
  <2>1. ASSUME NEW d \in sent, Counted(d, n, t) PROVE d = Offer(n, t) /\ x = t
    <3>1. PICK m \in Nodes \ {NODE_ZERO} : d = Offer(m, x)
      BY <1>1
    <3> QED BY <2>1, <3>1, SameMessage DEF Counted
  <2>2. c = Post(t) \/ Offer(n, t) \notin sent
    BY <1>0, <1>1, <2>1
  <2> QED BY <1>0, <2>1, <2>2, OneForOne, CountedDiffer
<1>2. ASSUME k # NODE_ZERO, NEW x \in Txs, c = Offer(k, x), sent \subseteq {Ask(k, x)}
      PROVE  Ways(n, t, conns') <= Ways(n, t, conns)
  <2>1. ASSUME NEW d \in sent, Counted(d, n, t) PROVE d = Ask(n, t) /\ k = n /\ x = t
    <3>1. d = Ask(k, x)
      BY <1>2
    <3> QED BY <1>2, <2>1, <3>1, SameMessage DEF Counted
  <2>2. c = Offer(n, t) \/ Ask(n, t) \notin sent
    BY <1>0, <1>2, <2>1
  <2> QED BY <1>0, <2>1, <2>2, OneForOne, CountedDiffer
<1>3. ASSUME NEW m \in Nodes \ {NODE_ZERO}, NEW x \in Txs, c = Ask(m, x),
             sent \subseteq { Bring(m, x), Bring(m, EmptyTx) }
      PROVE  Ways(n, t, conns') <= Ways(n, t, conns)
  <2>1. ASSUME NEW d \in sent, Counted(d, n, t) PROVE d = Bring(n, t) /\ m = n /\ x = t
    <3>1. d = Bring(m, x) \/ d = Bring(m, EmptyTx)
      BY <1>3
    <3>2. t # EmptyTx
      BY TxAssumption DEF TxAssumption
    <3> QED BY <2>1, <3>1, <3>2, SameMessage DEF Counted
  <2>2. c = Ask(n, t) \/ Bring(n, t) \notin sent
    BY <1>0, <1>3, <2>1
  <2> QED BY <1>0, <2>1, <2>2, OneForOne, CountedDiffer
<1>4. ASSUME sent = {} PROVE Ways(n, t, conns') <= Ways(n, t, conns)
  BY <1>0, <1>4, OneForOne, CountedDiffer
<1> QED BY <1>1, <1>2, <1>3, <1>4 DEF Relays

\* The message that brings a payment is gone when the payment is in the pool.
LEMMA BroughtWays ==
  ASSUME Held, Held', NEW n \in Nodes \ {NODE_ZERO}, NEW t \in Txs, NEW next, NEW k,
         Bring(n, t) \in DOMAIN conns, Acts(k, Bring(n, t), next, {})
  PROVE  Ways(n, t, conns') + 1 <= Ways(n, t, conns)
<1>1. \A d : Counted(d, n, t) =>
        /\ Copies(d, conns') = Copies(d, conns) - (IF d = Bring(n, t) THEN 1 ELSE 0)
        /\ Copies(d, conns) \in Nat
  BY CountedCopies
<1>2. Counted(Post(t), n, t) /\ Counted(Offer(n, t), n, t)
        /\ Counted(Ask(n, t), n, t) /\ Counted(Bring(n, t), n, t)
  BY DEF Counted
<1> QED BY <1>1, <1>2, CountedDiffer DEF Ways

\* The budget of one node and payment.
Covered(n, t) ==
  Ways(n, t, conns) + InPool(n, t) + Cardinality(MinedBy(n, t)) <= posts[t]

LEMMA CoveredOnBlocks ==
  ASSUME Held, Held', TypeInv, Tree, Addressed, NEW m \in Nodes, NEW c \in DOMAIN conns,
         \/ HandleVersion(m, c) \/ AddToKnown(m, c) \/ HandleGetBlocks(m, c)
         \/ HandleInvBlock(m, c) \/ FilterTransit(m, c)
         \/ HandleBlock(m, c) \/ TrimTransit(m, c) \/ CloseDB(m, c) \/ MineTxNothing(m, c),
         NEW n \in Nodes \ {NODE_ZERO}, NEW t \in Txs, Covered(n, t)
  PROVE  Covered(n, t)'
<1>1. PICK next, sent : ActsOnBlocks(m, c, next, sent)
  BY BlockHandlersAct, MinersAct
<1>2. UNCHANGED <<blocks, pool, posts>> /\ c.at # "mined"
  BY DEF HandleVersion, AddToKnown, HandleGetBlocks, HandleInvBlock, FilterTransit,
         HandleBlock, TrimTransit, CloseDB, MineTxNothing, Begins, storage, memory, history
<1>3. Ways(n, t, conns') <= Ways(n, t, conns)
  BY <1>1, BlockStepWays
<1> QED BY <1>1, <1>2, <1>3, SideStep DEF ActsOnBlocks, Covered

LEMMA CoveredOnPayments ==
  ASSUME Held, Held', TypeInv, Tree, Addressed, NEW m \in Nodes, NEW c \in DOMAIN conns,
         HandleGetData(m, c) \/ HandleTxZero(m, c) \/ HandleInvTx(m, c),
         NEW n \in Nodes \ {NODE_ZERO}, NEW t \in Txs, Covered(n, t)
  PROVE  Covered(n, t)'
<1>1. PICK next, sent : Relays(m, c, next, sent) \/ ActsOnBlocks(m, c, next, sent)
  BY PaymentHandlersAct
<1>2. UNCHANGED <<blocks, posts>> /\ c.at # "mined" /\ pool'[n] = pool[n]
  BY DEF HandleGetData, HandleTxZero, HandleInvTx, Begins, storage, history, TypeInv, TypeOK
<1>3. Ways(n, t, conns') <= Ways(n, t, conns)
  BY <1>1, BlockStepWays, RelayWays
<1> QED BY <1>1, <1>2, <1>3, SideStep DEF ActsOnBlocks, Relays, Covered

LEMMA CoveredOnTx ==
  ASSUME Held, Held', TypeInv, Tree, Addressed, NEW m \in Nodes, NEW c \in DOMAIN conns,
         HandleTx(m, c), NEW n \in Nodes \ {NODE_ZERO}, NEW t \in Txs, Covered(n, t)
  PROVE  Covered(n, t)'
<1>1. /\ c.node = m /\ c.at = "new" /\ c.cmd = "tx" /\ m # NODE_ZERO
      /\ UNCHANGED <<blocks, posts>> /\ pool' = [pool EXCEPT ![m] = @ \cup {c.ID}]
  BY DEF HandleTx, Begins, storage, history
<1>2. c = Bring(m, c.ID)
  BY HandleTxActs
<1>3. PICK next : Acts(m, c, next, {})
  BY HandleTxActs
<1>4. CASE m = n /\ c.ID = t
  <2>1. Ways(n, t, conns') + 1 <= Ways(n, t, conns)
    BY <1>2, <1>3, <1>4, BroughtWays
  <2>2. InPool(n, t) \in 0..1 /\ InPool(n, t)' \in 0..1
    BY DEF InPool
  <2>3. Ways(n, t, conns') + InPool(n, t)' <= Ways(n, t, conns) + InPool(n, t)
    BY <2>1, <2>2, WaysNat DEF Held
  <2> QED BY <1>1, <2>3, BudgetFalls DEF Covered
<1>5. CASE ~(m = n /\ c.ID = t)
  <2>1. t \in pool'[n] => t \in pool[n]
    BY <1>1, <1>5 DEF TypeInv, TypeOK
  <2>2. Ways(n, t, conns') <= Ways(n, t, conns)
    BY <1>3, BlockStepWays DEF ActsOnBlocks
  <2> QED BY <1>1, <1>3, <2>1, <2>2, SideStep DEF Covered
<1> QED BY <1>4, <1>5

LEMMA CoveredOnMining ==
  ASSUME Held, Held', TypeInv, Tree, Addressed, NEW m \in Nodes, NEW c \in DOMAIN conns,
         NEW hash \in MinedHashes, MineTx(m, c, hash),
         NEW n \in Nodes \ {NODE_ZERO}, NEW t \in Txs, Covered(n, t)
  PROVE  Covered(n, t)'
<1>1. PICK d : d = [c EXCEPT !.at = "mined", !.ID = hash]
  OBVIOUS
<1>2. /\ c.node = m /\ c.at = "mine" /\ ~IsOpen(m) /\ UNCHANGED <<pool, posts>>
      /\ Proceed(c, {d}, {}) /\ MakesBlock(m, pool[m] \cap Verifies, hash)
  BY <1>1, MineMakesBlock DEF MineTx, memory, history
<1>3. d.node = m /\ d.at = "mined" /\ d.ID = hash /\ d \in DOMAIN conns'
  <2>1. d.node = c.node /\ d.at = "mined" /\ d.ID = hash
    BY <1>1 DEF TypeInv, ConnOK
  <2>2. d \in DOMAIN conns'
    BY <1>2, ProceedLeaves
  <2> QED BY <1>2, <2>1, <2>2
<1>4. Ways(n, t, conns') <= Ways(n, t, conns)
  <2>1. ASSUME NEW e, Counted(e, n, t) PROVE Copies(e, conns') <= Copies(e, conns)
    <3>1. e \notin {d}
      BY <1>3, <2>1, CountedArePayments
    <3>2. Proceed(c, {d}, {}) /\ conns \in [DOMAIN conns -> Nat \ {0}]
      BY <1>2 DEF Held
    <3>3. Copies(e, conns) \in Nat
      BY <3>2, CopiesAre
    <3> QED BY <3>1, <3>2, <3>3, ProceedCopies
  <2> QED BY <2>1, NoMoreCopies DEF Held
<1>5. /\ Ways(n, t, conns) \in Nat /\ Ways(n, t, conns') \in Nat
      /\ InPool(n, t) \in 0..1 /\ InPool(n, t)' \in 0..1
      /\ posts[t] \in Nat /\ posts'[t] = posts[t]
  BY <1>2, WaysNat DEF Held, InPool, TypeInv
<1>6. IsFiniteSet(MinedBy(n, t)) /\ Cardinality(MinedBy(n, t)) \in Nat
  <2>1. MinedBy(n, t) \subseteq DOMAIN blocks /\ IsFiniteSet(DOMAIN blocks)
    BY DEF MinedBy, Tree
  <2> QED BY <2>1, FS_Subset, FS_CardinalityType
<1>7. CASE n = m /\ t \in pool[n] \cap Verifies
  <2>1. ~JustMined(n, t) /\ JustMined(n, t)'
    <3>1. ~JustMined(n, t)
      BY <1>2, <1>7 DEF JustMined, IsOpen, OpenStages
    <3>2. t \in blocks'[hash].Txs
      BY <1>2, <1>7 DEF MakesBlock
    <3> QED BY <1>3, <1>7, <3>1, <3>2 DEF JustMined
  <2>2. InPool(n, t) = 1 /\ InPool(n, t)' = 0
    BY <1>7, <2>1 DEF InPool
  <2>3. MinedBy(n, t)' = MinedBy(n, t) \cup {hash} /\ hash \notin MinedBy(n, t)
    BY <1>2, <1>7 DEF MakesBlock, MinedBy
  <2>4. Cardinality(MinedBy(n, t)') = Cardinality(MinedBy(n, t)) + 1
    BY <1>6, <2>3, FS_AddElement
  <2> QED BY <1>4, <1>5, <1>6, <2>2, <2>4 DEF Covered
<1>8. CASE ~(n = m /\ t \in pool[n] \cap Verifies)
  <2>1. MinedBy(n, t)' = MinedBy(n, t)
    BY <1>2, <1>8 DEF MakesBlock, MinedBy
  <2>2. InPool(n, t)' <= InPool(n, t)
    <3>1. CASE n = m
      <4>1. ~JustMined(n, t)
        BY <1>2, <3>1 DEF JustMined, IsOpen, OpenStages
      <4> QED BY <1>2, <4>1 DEF InPool
    <3>2. CASE n # m
      <4>1. ASSUME JustMined(n, t) PROVE JustMined(n, t)'
        <5>1. PICK e \in DOMAIN conns : e.node = n /\ e.at = "mined" /\ t \in blocks[e.ID].Txs
          BY <4>1 DEF JustMined
        <5>2. e \in DOMAIN conns'
          BY <1>2, <5>1, ProceedLeaves
        <5>3. e.ID \in DOMAIN blocks
          BY <5>1 DEF TypeInv, ConnOK, TypeOK
        <5>4. blocks'[e.ID] = blocks[e.ID]
          BY <1>2, <5>3 DEF MakesBlock
        <5> QED BY <5>1, <5>2, <5>4 DEF JustMined
      <4> QED BY <1>2, <4>1 DEF InPool
    <3> QED BY <3>1, <3>2
  <2> QED BY <1>4, <1>5, <1>6, <2>1, <2>2 DEF Covered
<1> QED BY <1>7, <1>8

LEMMA CoveredOnAnnouncing ==
  ASSUME Held, Held', TypeInv, Tree, Addressed, NEW m \in Nodes, NEW c \in DOMAIN conns,
         MineTxAnnounces(m, c),
         NEW n \in Nodes \ {NODE_ZERO}, NEW t \in Txs, Covered(n, t)
  PROVE  Covered(n, t)'
<1>1. PICK next, sent : ActsOnBlocks(m, c, next, sent)
  BY MinersAct
<1>2. /\ c.node = m /\ c.at = "mined" /\ UNCHANGED <<blocks, posts>>
      /\ pool' = [pool EXCEPT ![m] = @ \ blocks[c.ID].Txs]
  BY DEF MineTxAnnounces, LeavesPool, storage, history
<1>3. Ways(n, t, conns') <= Ways(n, t, conns)
  BY <1>1, BlockStepWays
<1>4. InPool(n, t)' <= InPool(n, t)
  <2>1. CASE n = m
    <3>1. ASSUME t \notin blocks[c.ID].Txs PROVE ~JustMined(n, t)
      <4>1. "mined" \in OpenStages
        BY DEF OpenStages
      <4> QED BY <1>2, <2>1, <3>1, <4>1, OneHolder DEF JustMined
    <3>2. pool'[n] = pool[n] \ blocks[c.ID].Txs
      BY <1>2, <2>1 DEF TypeInv, TypeOK
    <3> QED BY <3>1, <3>2 DEF InPool
  <2>2. CASE n # m
    <3>1. pool'[n] = pool[n]
      BY <1>2, <2>2 DEF TypeInv, TypeOK
    <3>2. ASSUME JustMined(n, t) PROVE JustMined(n, t)'
      <4>1. PICK e \in DOMAIN conns : e.node = n /\ e.at = "mined" /\ t \in blocks[e.ID].Txs
        BY <3>2 DEF JustMined
      <4>2. e # c
        BY <1>2, <2>2, <4>1
      <4>3. e \in DOMAIN conns'
        BY <1>1, <4>1, <4>2, ProceedLeaves DEF ActsOnBlocks, Acts
      <4> QED BY <1>2, <4>1, <4>3 DEF JustMined
    <3> QED BY <3>1, <3>2 DEF InPool
  <2> QED BY <2>1, <2>2
<1>5. /\ Ways(n, t, conns) \in Nat /\ Ways(n, t, conns') \in Nat
      /\ InPool(n, t) \in Nat /\ InPool(n, t)' \in Nat
  BY WaysNat DEF Held, InPool
<1>6. Ways(n, t, conns') + InPool(n, t)' <= Ways(n, t, conns) + InPool(n, t)
  BY <1>3, <1>4, <1>5
<1> QED BY <1>2, <1>6, BudgetFalls DEF Covered

LEMMA CoveredOnEnd ==
  ASSUME Held, Held', TypeInv, Tree, NEW m \in Nodes, ProcessEnds(m),
         NEW n \in Nodes \ {NODE_ZERO}, NEW t \in Txs, Covered(n, t)
  PROVE  Covered(n, t)'
<1>1. /\ UNCHANGED <<blocks, posts>> /\ pool' = [pool EXCEPT ![m] = {}]
      /\ DOMAIN conns' = { c \in DOMAIN conns : c.node # m }
      /\ \A c \in DOMAIN conns' : conns'[c] = conns[c]
  BY DEF ProcessEnds, storage, history
<1>2. Ways(n, t, conns') <= Ways(n, t, conns)
  <2>1. ASSUME NEW d PROVE Copies(d, conns') <= Copies(d, conns)
    <3>1. Copies(d, conns) \in Nat
      BY CopiesAre DEF Held
    <3> QED BY <1>1, <3>1 DEF Copies
  <2> QED BY <2>1, NoMoreCopies DEF Held
<1>3. InPool(n, t)' <= InPool(n, t)
  <2>1. CASE n = m
    BY <1>1, <2>1 DEF InPool, TypeInv, TypeOK
  <2>2. CASE n # m
    <3>1. pool'[n] = pool[n]
      BY <1>1, <2>2 DEF TypeInv, TypeOK
    <3>2. JustMined(n, t) => JustMined(n, t)'
      BY <1>1, <2>2 DEF JustMined
    <3> QED BY <3>1, <3>2 DEF InPool
  <2> QED BY <2>1, <2>2
<1>4. /\ Ways(n, t, conns) \in Nat /\ Ways(n, t, conns') \in Nat
      /\ InPool(n, t) \in Nat /\ InPool(n, t)' \in Nat
  BY WaysNat DEF Held, InPool
<1>5. Ways(n, t, conns') + InPool(n, t)' <= Ways(n, t, conns) + InPool(n, t)
  BY <1>2, <1>3, <1>4
<1> QED BY <1>1, <1>5, BudgetFalls DEF Covered

\* A node starts: a version is no payment.
LEMMA CoveredOnStart ==
  ASSUME Held, Held', TypeInv, Tree, NEW m \in Nodes, StartServer(m),
         NEW n \in Nodes \ {NODE_ZERO}, NEW t \in Txs, Covered(n, t)
  PROVE  Covered(n, t)'
<1>1. UNCHANGED <<blocks, posts, pool>>
  BY DEF StartServer, storage, history
<1>2. PICK S : /\ conns' = conns (+) SetToBag(S)
               /\ \A d \in S : d.at = "new" /\ ~IsPayment(d)
  <2> DEFINE sent == IF m = NODE_ZERO THEN {}
                     ELSE { SendVersion(NODE_ZERO, m, GetBestHeight(m)) }
  <2>1. conns' = conns (+) SetToBag({ x \in sent : Listening(x.node) })
    BY DEF StartServer
  <2>2. ASSUME NEW d \in sent PROVE d.at = "new" /\ ~IsPayment(d)
    <3>1. d = SendVersion(NODE_ZERO, m, GetBestHeight(m))
      OBVIOUS
    <3>2. BlockMessage(SendVersion(NODE_ZERO, m, GetBestHeight(m)), m)
      BY MessagesFit
    <3> QED BY <3>1, <3>2 DEF BlockMessage, Message
  <2> QED BY <2>1, <2>2
<1>3. Ways(n, t, conns') <= Ways(n, t, conns)
  <2>1. ASSUME NEW d, Counted(d, n, t) PROVE Copies(d, conns') <= Copies(d, conns)
    <3>1. d \notin S
      BY <1>2, <2>1, CountedArePayments
    <3> QED BY <1>2, <3>1, AddedCopies, CopiesAre DEF Held
  <2> QED BY <2>1, NoMoreCopies DEF Held
<1>4. InPool(n, t)' <= InPool(n, t)
  <2>1. DOMAIN conns \subseteq DOMAIN conns'
    BY <1>2, BagAddDomain
  <2>2. JustMined(n, t) => JustMined(n, t)'
    BY <1>1, <2>1 DEF JustMined
  <2> QED BY <1>1, <2>2 DEF InPool
<1>5. /\ Ways(n, t, conns) \in Nat /\ Ways(n, t, conns') \in Nat
      /\ InPool(n, t) \in Nat /\ InPool(n, t)' \in Nat
  BY WaysNat DEF Held, InPool
<1>6. Ways(n, t, conns') + InPool(n, t)' <= Ways(n, t, conns) + InPool(n, t)
  BY <1>3, <1>4, <1>5
<1> QED BY <1>1, <1>6, BudgetFalls DEF Covered

\* Another post, another message.
LEMMA CoveredOnPost ==
  ASSUME Held, Held', TypeInv, Tree, NEW m \in Nodes, NEW x \in Txs, AddTXN(m, x),
         NEW n \in Nodes \ {NODE_ZERO}, NEW t \in Txs, Covered(n, t)
  PROVE  Covered(n, t)'
<1> DEFINE request == NewConn(m, "addtxn", m, 0, "", <<>>, x)
           S == At(request, "close") \cup
                { y \in { SendTx(NODE_ZERO, m, x) } : Listening(y.node) }
<1>1. /\ UNCHANGED <<blocks, pool>> /\ conns' = conns (+) SetToBag(S) /\ Origin[x] = m
      /\ posts' = [posts EXCEPT ![x] = @ + 1]
  BY DEF AddTXN, storage
<1>2. ASSUME NEW d \in S PROVE d = Post(x) \/ d.at = "close"
  <2>1. CASE d \in At(request, "close")
    <3>1. d = [request EXCEPT !.at = "close"]
      BY <2>1 DEF At
    <3> QED BY <3>1 DEF NewConn
  <2>2. CASE d = SendTx(NODE_ZERO, m, x)
    BY <1>1, <2>2 DEF Post
  <2> QED BY <2>1, <2>2
<1> HIDE DEF S
<1>3. ASSUME NEW d, Counted(d, n, t), d # Post(x) PROVE Copies(d, conns') = Copies(d, conns)
  <2>1. d \notin S
    BY <1>2, <1>3, CountedArePayments
  <2> QED BY <1>1, <2>1, AddedCopies, CopiesAre DEF Held
<1>4. Copies(Post(x), conns') <= Copies(Post(x), conns) + 1
  BY <1>1, AddedCopies, CopiesAre DEF Held
<1>5. \A d : Copies(d, conns) \in Nat /\ Copies(d, conns') \in Nat
  BY CopiesAre DEF Held
<1>6. Counted(Post(t), n, t) /\ Counted(Offer(n, t), n, t)
        /\ Counted(Ask(n, t), n, t) /\ Counted(Bring(n, t), n, t)
  BY DEF Counted
<1>7. InPool(n, t)' <= InPool(n, t) /\ InPool(n, t) \in Nat /\ InPool(n, t)' \in Nat
  <2>1. DOMAIN conns \subseteq DOMAIN conns'
    BY <1>1, BagAddDomain
  <2>2. JustMined(n, t) => JustMined(n, t)'
    BY <1>1, <2>1 DEF JustMined
  <2> QED BY <1>1, <2>2 DEF InPool
<1>8. MinedBy(n, t)' = MinedBy(n, t) /\ Cardinality(MinedBy(n, t)) \in Nat
  <2>1. MinedBy(n, t) \subseteq DOMAIN blocks /\ IsFiniteSet(DOMAIN blocks)
    BY DEF MinedBy, Tree
  <2>2. IsFiniteSet(MinedBy(n, t))
    BY <2>1, FS_Subset
  <2> QED BY <1>1, <2>2, FS_CardinalityType DEF MinedBy
<1>9. posts[t] \in Nat /\ posts'[t] = IF x = t THEN posts[t] + 1 ELSE posts[t]
  BY <1>1 DEF TypeInv
<1>10. CASE x = t
  <2>1. Ways(n, t, conns') <= Ways(n, t, conns) + 1
    BY <1>3, <1>4, <1>5, <1>6, <1>10, CountedDiffer DEF Ways
  <2> QED BY <1>7, <1>8, <1>9, <1>10, <2>1, WaysNat DEF Covered, Held
<1>11. CASE x # t
  <2>1. ASSUME NEW d, Counted(d, n, t) PROVE d # Post(x)
    <3>1. Post(x).node = NODE_ZERO /\ Post(x).ID = x /\ Post(x).cmd = "tx"
      BY DEF Post, SendTx, NewConn
    <3> QED BY <1>11, <2>1, <3>1, PaymentFields DEF Counted
  <2>2. Ways(n, t, conns') = Ways(n, t, conns)
    BY <1>3, <1>6, <2>1 DEF Ways
  <2> QED BY <1>7, <1>8, <1>9, <1>11, <2>2, WaysNat DEF Covered, Held
<1> QED BY <1>10, <1>11

\* A payment that its own node mines at once: one more post, one more block.
LEMMA NowCounts ==
  ASSUME TypeInv, Tree, NEW m \in Nodes, NEW x \in Txs, NEW hash, AddTXNNow(m, x, hash),
         NEW n \in Nodes, NEW t \in Txs
  PROVE  /\ Cardinality(MinedBy(n, t)) \in Nat /\ Cardinality(MinedBy(n, t)') \in Nat
         /\ posts[t] \in Nat /\ posts'[t] \in Nat
         /\ \/ posts'[t] = posts[t] /\ Cardinality(MinedBy(n, t)') = Cardinality(MinedBy(n, t))
            \/ /\ posts'[t] = posts[t] + 1
               /\ Cardinality(MinedBy(n, t)') <= Cardinality(MinedBy(n, t)) + 1
<1>1. MakesBlock(m, {x}, hash) /\ posts' = [posts EXCEPT ![x] = @ + 1]
  BY PostedNow
<1>2. posts \in [Txs -> Nat]
  BY DEF TypeInv
<1>3. posts[t] \in Nat /\ posts'[t] = IF x = t THEN posts[t] + 1 ELSE posts[t]
  BY <1>1, <1>2
<1>4. IsFiniteSet(MinedBy(n, t)) /\ Cardinality(MinedBy(n, t)) \in Nat
  <2>1. MinedBy(n, t) \subseteq DOMAIN blocks /\ IsFiniteSet(DOMAIN blocks)
    BY DEF MinedBy, Tree
  <2> QED BY <2>1, FS_Subset, FS_CardinalityType
<1>5. CASE x = t /\ n = m
  <2>1. MinedBy(n, t)' = MinedBy(n, t) \cup {hash} /\ hash \notin MinedBy(n, t)
    BY <1>1, <1>5 DEF MakesBlock, MinedBy
  <2>2. Cardinality(MinedBy(n, t)') = Cardinality(MinedBy(n, t)) + 1
    BY <1>4, <2>1, FS_AddElement
  <2> QED BY <1>3, <1>4, <1>5, <2>2
<1>6. CASE ~(x = t /\ n = m)
  <2>1. MinedBy(n, t)' = MinedBy(n, t)
    BY <1>1, <1>6 DEF MakesBlock, MinedBy
  <2> QED BY <1>3, <1>4, <2>1
<1> QED BY <1>5, <1>6

LEMMA CoveredOnNow ==
  ASSUME Held, Held', TypeInv, Tree, NEW m \in Nodes, NEW x \in Txs, NEW hash,
         AddTXNNow(m, x, hash),
         NEW n \in Nodes \ {NODE_ZERO}, NEW t \in Txs, Covered(n, t)
  PROVE  Covered(n, t)'
<1>1. PICK r : /\ conns' = conns (+) SetToBag({r})
               /\ r = [node |-> m, at |-> "close", cmd |-> "addtxn", from |-> m,
                       BestHeight |-> 0, Type |-> "", Items |-> <<>>, ID |-> x]
  BY PostedNow
<1>2. UNCHANGED pool /\ MakesBlock(m, {x}, hash)
  BY PostedNow
<1>3. Ways(n, t, conns') <= Ways(n, t, conns)
  <2>1. ASSUME NEW d, Counted(d, n, t) PROVE Copies(d, conns') <= Copies(d, conns)
    <3>1. r.at # "new"
      BY <1>1
    <3>2. PICK S : S = {r}
      OBVIOUS
    <3>3. d \notin S /\ conns' = conns (+) SetToBag(S)
      BY <1>1, <2>1, <3>1, <3>2, CountedArePayments
    <3>4. conns \in [DOMAIN conns -> Nat \ {0}]
      BY DEF Held
    <3> QED BY <3>3, <3>4, AddedCopies, CopiesAre
  <2> QED BY <2>1, NoMoreCopies DEF Held
<1>4. InPool(n, t)' <= InPool(n, t)
  <2>1. ASSUME JustMined(n, t) PROVE JustMined(n, t)'
    <3>1. PICK e \in DOMAIN conns : e.node = n /\ e.at = "mined" /\ t \in blocks[e.ID].Txs
      BY <2>1 DEF JustMined
    <3>2. e \in DOMAIN conns'
      <4>1. PICK S : conns' = conns (+) SetToBag(S)
        BY <1>1
      <4> QED BY <4>1, BagAddDomain
    <3>3. e.ID \in DOMAIN blocks
      BY <3>1 DEF TypeInv, ConnOK, TypeOK
    <3>4. blocks'[e.ID] = blocks[e.ID]
      BY <1>2, <3>3 DEF MakesBlock
    <3> QED BY <3>1, <3>2, <3>4 DEF JustMined
  <2> QED BY <1>2, <2>1 DEF InPool
<1>5. /\ Ways(n, t, conns) \in Nat /\ Ways(n, t, conns') \in Nat
      /\ InPool(n, t) \in Nat /\ InPool(n, t)' \in Nat
  BY WaysNat DEF Held, InPool
<1> QED BY <1>3, <1>4, <1>5, NowCounts DEF Covered

LEMMA PaidInit == Init => Paid
<1> SUFFICES ASSUME Init PROVE Paid
  OBVIOUS
<1>1. PICK old \in Before : blocks = old.blocks /\ posts = old.posts
  BY DEF Init
<1>2. ASSUME NEW n \in Nodes, NEW t \in Txs PROVE MinedBy(n, t) = {}
  <2>1. /\ blocks[GenesisHash].Txs = {GenesisTx}
        /\ \A h \in DOMAIN blocks : h # GenesisHash => blocks[h].Txs = {}
    BY <1>1, BeforeAssumption DEF BeforeAssumption
  <2>2. \A h \in DOMAIN blocks : t \notin blocks[h].Txs
    BY <2>1, TxAssumption DEF TxAssumption
  <2> QED BY <2>2 DEF MinedBy
<1>3. Cardinality({}) = 0
  BY FS_EmptySet
<1>4. \A d : Copies(d, conns) = 0
  BY DEF Init, EmptyBag, SetToBag, Copies
<1>5. \A n \in Nodes, t \in Txs : Ways(n, t, conns) = 0 /\ InPool(n, t) = 0
  BY <1>4 DEF Init, Ways, InPool
<1>6. \A t \in Txs : posts[t] \in Nat
  BY <1>1, BeforeAssumption DEF BeforeAssumption
<1>7. ASSUME NEW n \in Nodes, NEW t \in Txs
      PROVE  Ways(n, t, conns) + InPool(n, t) + Cardinality(MinedBy(n, t)) <= posts[t]
  <2>1. Cardinality(MinedBy(n, t)) = 0
    BY <1>2, <1>3
  <2> QED BY <1>5, <1>6, <2>1
<1>8. \A t \in Txs : Cardinality(MinedBy(NODE_ZERO, t)) <= posts[t]
  BY <1>2, <1>3, <1>6, NodeAssumption DEF NodeAssumption
<1> QED BY <1>7, <1>8 DEF Paid

LEMMA CoveredNext ==
  ASSUME Held, Held', TypeInv, Tree, Addressed, [Next]_vars,
         NEW n \in Nodes \ {NODE_ZERO}, NEW t \in Txs, Covered(n, t)
  PROVE  Covered(n, t)'
<1>1. CASE UNCHANGED vars
  BY <1>1 DEF vars, storage, memory, history, Covered, Ways, Copies, InPool, JustMined,
              MinedBy, Post, Offer, Ask, Bring, SendTx, SendInv, SendGetData, NewConn
<1>2. ASSUME NEW m \in Nodes, StartServer(m) PROVE Covered(n, t)'
  BY <1>2, CoveredOnStart
<1>3. ASSUME NEW m \in Nodes, ProcessEnds(m) PROVE Covered(n, t)'
  BY <1>3, CoveredOnEnd
<1>4. ASSUME NEW m \in Nodes, Accept(m) PROVE Covered(n, t)'
  BY <1>4 DEF Accept, storage, memory, history, Covered, Ways, Copies, InPool, JustMined,
              MinedBy, Post, Offer, Ask, Bring, SendTx, SendInv, SendGetData, NewConn
<1>5. ASSUME NEW m \in Nodes, NEW x \in Txs, AddTXN(m, x) PROVE Covered(n, t)'
  BY <1>5, CoveredOnPost
<1>7. ASSUME NEW m \in Nodes, NEW x \in Txs, NEW hash \in MinedHashes, AddTXNNow(m, x, hash)
      PROVE  Covered(n, t)'
  BY <1>7, CoveredOnNow
<1>6. ASSUME NEW m \in Nodes, NEW c \in DOMAIN conns, Handle(m, c) PROVE Covered(n, t)'
  <2>1. CASE Panics(m, c)
    BY <1>3, <2>1
       DEF Panics, HandleVersionPanics, TrimPanics, OpenDBPanics, MineTxPanics
  <2> QED BY <1>6, <2>1, CoveredOnBlocks, CoveredOnPayments, CoveredOnTx,
             CoveredOnMining, CoveredOnAnnouncing DEF Handle, Panics
<1> QED BY <1>1, <1>2, <1>3, <1>4, <1>5, <1>6, <1>7 DEF Next, Serve, Killed

\* Posts are not taken back.
LEMMA PostsGrow ==
  ASSUME TypeInv, [Next]_vars, NEW t \in Txs
  PROVE  posts[t] \in Nat /\ posts'[t] \in Nat /\ posts'[t] >= posts[t]
<1> USE DEF history
<1>0. posts \in [Txs -> Nat]
  BY DEF TypeInv
<1>1. ASSUME NEW n \in Nodes, StartServer(n) \/ Killed(n) \/ Accept(n)
      PROVE  UNCHANGED posts
  BY <1>1 DEF StartServer, Killed, ProcessEnds, Accept
<1>2. ASSUME NEW n \in Nodes, NEW x \in Txs,
             AddTXN(n, x) \/ \E hash \in MinedHashes : AddTXNNow(n, x, hash)
      PROVE  posts' = [posts EXCEPT ![x] = @ + 1]
  BY <1>2 DEF AddTXN, AddTXNNow
<1>3. ASSUME NEW n \in Nodes, NEW c \in DOMAIN conns, Handle(n, c)
      PROVE  UNCHANGED posts
  <2>1. CASE Panics(n, c)
    BY <2>1
       DEF Panics, HandleVersionPanics, TrimPanics, OpenDBPanics, MineTxPanics,
           ProcessEnds
  <2>2. CASE \/ HandleVersion(n, c) \/ AddToKnown(n, c) \/ HandleGetBlocks(n, c)
             \/ HandleInvBlock(n, c) \/ FilterTransit(n, c) \/ HandleGetData(n, c)
             \/ TrimTransit(n, c) \/ CloseDB(n, c) \/ HandleBlock(n, c)
    BY <2>2
       DEF HandleVersion, AddToKnown, HandleGetBlocks, HandleInvBlock,
           FilterTransit, HandleGetData, TrimTransit, CloseDB, HandleBlock
  <2>3. CASE \/ HandleTxZero(n, c) \/ HandleInvTx(n, c) \/ HandleTx(n, c)
             \/ MineTxNothing(n, c) \/ MineTxAnnounces(n, c)
             \/ \E hash \in MinedHashes : MineTx(n, c, hash)
    BY <2>3
       DEF HandleTxZero, HandleInvTx, HandleTx, MineTxNothing, MineTxAnnounces, MineTx
  <2> QED BY <1>3, <2>1, <2>2, <2>3 DEF Handle, Panics
<1>4. UNCHANGED posts \/ \E x \in Txs : posts' = [posts EXCEPT ![x] = @ + 1]
  BY <1>1, <1>2, <1>3 DEF Next, Serve, vars
<1> QED BY <1>0, <1>4

\* NODE_ZERO mines what is posted to it with minenow, and nothing else.
LEMMA ZeroMinesAsPosted ==
  ASSUME TypeInv, Tree, Addressed, [Next]_vars, NEW t \in Txs,
         Cardinality(MinedBy(NODE_ZERO, t)) <= posts[t]
  PROVE  Cardinality(MinedBy(NODE_ZERO, t)') <= posts'[t]
<1>0. NODE_ZERO \in Nodes
  BY NodeAssumption DEF NodeAssumption
<1>1. ASSUME MinedBy(NODE_ZERO, t)' = MinedBy(NODE_ZERO, t)
      PROVE  Cardinality(MinedBy(NODE_ZERO, t)') <= posts'[t]
  <2>1. MinedBy(NODE_ZERO, t) \subseteq DOMAIN blocks /\ IsFiniteSet(DOMAIN blocks)
    BY DEF MinedBy, Tree
  <2>2. Cardinality(MinedBy(NODE_ZERO, t)) \in Nat
    BY <2>1, FS_Subset, FS_CardinalityType
  <2> QED BY <1>1, <2>2, PostsGrow
<1>2. CASE UNCHANGED blocks
  BY <1>1, <1>2 DEF MinedBy
<1>3. ASSUME NEW n \in Nodes, NEW c \in DOMAIN conns, NEW hash \in MinedHashes,
             MineTx(n, c, hash)
      PROVE  Cardinality(MinedBy(NODE_ZERO, t)') <= posts'[t]
  <2>1. n # NODE_ZERO
    BY <1>3 DEF MineTx, Addressed, Fits
  <2>2. PICK txs : MakesBlock(n, txs, hash)
    BY <1>3, MineMakesBlock DEF MineTx
  <2>3. MinedBy(NODE_ZERO, t)' = MinedBy(NODE_ZERO, t)
    BY <2>1, <2>2 DEF MakesBlock, MinedBy
  <2> QED BY <1>1, <2>3
<1>4. ASSUME NEW n \in Nodes, NEW x \in Txs, NEW hash \in MinedHashes, AddTXNNow(n, x, hash)
      PROVE  Cardinality(MinedBy(NODE_ZERO, t)') <= posts'[t]
  BY <1>0, <1>4, NowCounts
<1> QED BY <1>2, <1>3, <1>4, BlocksStay

\* However messages cross and processes end, and whatever a miner has in its pool
\* again, it does not mine a payment more often than it was posted.
THEOREM MinedOncePerPost == Spec => []MinedAsOftenAsPosted
<1> DEFINE Inv == TypeInv /\ Held /\ Addressed /\ Tree /\ SourcesComeFirst /\ Paid
<1>1. Init => Inv
  BY TypeInit, HeldInit, AddressedInit, TreeInit, PaidInit
<1>2. Inv /\ [Next]_vars => Inv'
  <2> SUFFICES ASSUME Inv, [Next]_vars PROVE Inv'
    OBVIOUS
  <2>1. TypeInv' /\ Held' /\ Addressed' /\ Tree' /\ SourcesComeFirst'
    BY TypeNext, HeldNext, AddressedNext, TreeNext
  <2>2. ASSUME NEW n \in Nodes \ {NODE_ZERO}, NEW t \in Txs PROVE Covered(n, t)'
    BY <2>1, CoveredNext DEF Paid, Covered
  <2>3. \A t \in Txs : Cardinality(MinedBy(NODE_ZERO, t)') <= posts'[t]
    BY ZeroMinesAsPosted DEF Paid
  <2>4. Paid'
    BY <2>2, <2>3 DEF Paid, Covered
  <2> QED BY <2>1, <2>4
<1>3. Inv => MinedAsOftenAsPosted
  <2> SUFFICES ASSUME Inv, NEW n \in Nodes, NEW t \in Txs
               PROVE  Cardinality(MinedBy(n, t)) <= posts[t]
    BY DEF MinedAsOftenAsPosted
  <2>1. posts[t] \in Nat
    BY DEF TypeInv
  <2>2. CASE n = NODE_ZERO
    BY <2>2 DEF Paid
  <2>3. CASE n # NODE_ZERO
    <3>1. MinedBy(n, t) \subseteq DOMAIN blocks /\ IsFiniteSet(DOMAIN blocks)
      BY DEF MinedBy, Tree
    <3>2. Cardinality(MinedBy(n, t)) \in Nat
      BY <3>1, FS_Subset, FS_CardinalityType
    <3>3. Ways(n, t, conns) \in Nat /\ InPool(n, t) \in Nat
      BY WaysNat DEF Held, InPool
    <3>4. Ways(n, t, conns) + InPool(n, t) + Cardinality(MinedBy(n, t)) <= posts[t]
      BY <2>3 DEF Paid
    <3> QED BY <2>1, <3>2, <3>3, <3>4
  <2> QED BY <2>2, <2>3
<1> HIDE DEF Inv
<1>4. Spec => []Inv
  BY <1>1, <1>2, PTL DEF Spec
<1> QED BY <1>3, <1>4, PTL

----------------------------------------------------------------------------
(* Lists of hashes.                                                         *)

\* Without one hash a list has the others.
LEMMA WithoutKeeps ==
  ASSUME NEW S, NEW s \in Seq(S), NEW h
  PROVE  /\ Without(s, h) \in Seq(S)
         /\ ToSet(s) \subseteq ToSet(Without(s, h)) \cup {h}
         /\ ToSet(Without(s, h)) \subseteq ToSet(s)
<1>1. PICK P : P = { i \in DOMAIN s : s[i] # h }
  OBVIOUS
<1>2. /\ Without(s, h) \in Seq(S)
      /\ ToSet(Without(s, h)) = { s[i] : i \in P \cap DOMAIN s }
  BY <1>1, PickedKeeps DEF Without
<1> QED BY <1>1, <1>2, Members

\* A list and its first hash.
LEMMA HeadAndTail ==
  ASSUME NEW S, NEW s \in Seq(S), s # <<>>
  PROVE  /\ Head(s) \in ToSet(s) /\ Head(s) = s[1] /\ Head(s) \in S
         /\ Tail(s) \in Seq(S)
         /\ ToSet(s) \subseteq ToSet(Tail(s)) \cup {Head(s)}
         /\ ToSet(Tail(s)) \subseteq ToSet(s)
<1>1. Len(s) \in Nat \ {0} /\ Tail(s) \in Seq(S) /\ Len(Tail(s)) = Len(s) - 1
      /\ Head(s) = s[1] /\ \A i \in 1..Len(Tail(s)) : Tail(s)[i] = s[i + 1]
  OBVIOUS
<1>2. Head(s) \in ToSet(s) /\ Head(s) \in S
  BY <1>1 DEF ToSet
<1>3. PICK t : t = Tail(s)
  OBVIOUS
<1>4. ASSUME NEW i \in 1..Len(s) PROVE s[i] \in ToSet(t) \cup {s[1]}
  <2>1. CASE i # 1
    <3>1. i - 1 \in 1..Len(t) /\ (i - 1) + 1 = i
      BY <1>1, <1>3, <2>1
    <3>2. t[i - 1] = s[i]
      BY <1>1, <1>3, <3>1
    <3> QED BY <1>1, <1>3, <3>1, <3>2, Members
  <2> QED BY <2>1
<1>5. ASSUME NEW i \in 1..Len(t) PROVE t[i] \in ToSet(s)
  <2>1. i + 1 \in 1..Len(s)
    BY <1>1, <1>3
  <2> QED BY <1>1, <1>3, <2>1 DEF ToSet
<1>6. ToSet(s) \subseteq ToSet(t) \cup {s[1]}
  BY <1>4 DEF ToSet
<1>7. ToSet(t) \subseteq ToSet(s)
  <2>1. ToSet(t) = { t[i] : i \in 1..Len(t) }
    <3>1. DOMAIN t = 1..Len(t)
      BY <1>1, <1>3
    <3> QED BY <3>1 DEF ToSet
  <2> QED BY <1>5, <2>1
<1> QED BY <1>1, <1>2, <1>3, <1>6, <1>7
----------------------------------------------------------------------------
(* Following a branch.  A node that was not misled asks for the blocks of a *)
(* branch one after the other, and has, awaits or has listed the parent of  *)
(* each block that it has, awaits or has listed.                            *)

\* The request for a block from n, or the block that answers it.
Asks(n, d) ==
  /\ d.at = "new"
  /\ \/ d.cmd = "getdata" /\ d.Type # "tx" /\ d.from = n
     \/ d.cmd = "block" /\ d.node = n

Got(n) == stored[n] \cup { d.ID : d \in { c \in DOMAIN conns : Asks(n, c) } }
Wanted(n) == Got(n) \cup ToSet(transit[n])

Closed(n) ==
  \A h \in Wanted(n) : h \in DOMAIN blocks /\ blocks[h].PrevHash \in Wanted(n) \cup {Nil}

\* n asks who has the block, and takes from its list what it has asked for.
Steady(n, d) ==
  /\ Asks(n, d) /\ d.cmd = "getdata" => d.ID \in stored[d.node]
  /\ d.node = n /\ d.at = "filter" => d.Items[1] \in Got(n)
  /\ d.node = n /\ d.at = "trim" =>
       /\ transit[n] # <<>> /\ Head(transit[n]) \in Got(n)
       /\ \A c \in DOMAIN conns : ~(c.node = n /\ c.at = "filter")

Following(n) ==
  /\ Closed(n)
  /\ transit[n] \in Seq(DOMAIN blocks)
  /\ transit[n] # <<>> => \E d \in DOMAIN conns : Asks(n, d)
  /\ \A d \in DOMAIN conns : Steady(n, d)

\* An inventory of blocks is part of a branch that its sender has.
Branch(items, n) ==
  /\ items \in Seq(stored[n]) /\ items # <<>>
  /\ \A i \in 1..(Len(items) - 1) : blocks[items[i]].PrevHash = items[i + 1]

Told ==
  \A d \in DOMAIN conns :
    d.at = "new" /\ d.cmd = "inv" /\ d.Type = "block" => Branch(d.Items, d.from)

FollowInv ==
  /\ DOMAIN transit = Nodes
  /\ Told
  /\ NoneHasEnded => \A n \in Nodes \ misled : Following(n)

LEMMA FollowInit == Init => FollowInv
<1> SUFFICES ASSUME Init PROVE FollowInv
  OBVIOUS
<1>1. DOMAIN conns = {}
  BY DEF Init, EmptyBag, SetToBag
<1>2. PICK old \in Before : blocks = old.blocks /\ stored = old.stored
  BY DEF Init
<1>3. ASSUME NEW n \in Nodes PROVE Following(n)
  <2>1. transit[n] = <<>> /\ <<>> \in Seq(DOMAIN blocks)
    BY DEF Init
  <2>2. ToSet(<<>>) = {}
    <3>1. DOMAIN <<>> = {}
      OBVIOUS
    <3> QED BY <3>1 DEF ToSet
  <2>3. Wanted(n) = stored[n]
    BY <1>1, <2>1, <2>2 DEF Wanted, Got
  <2>4. stored[n] \subseteq DOMAIN blocks
        /\ \A h \in stored[n] : blocks[h].PrevHash \in stored[n] \cup {Nil}
    BY <1>2, BeforeAssumption DEF BeforeAssumption
  <2> QED BY <1>1, <2>1, <2>3, <2>4 DEF Following, Closed
<1> QED BY <1>1, <1>3 DEF FollowInv, Told, Init

\* What every step does to the blocks.
BlocksGrow ==
  /\ \A h \in DOMAIN blocks : h \in DOMAIN blocks' /\ blocks'[h] = blocks[h]
  /\ \A n \in Nodes : stored[n] \subseteq stored'[n]

LEMMA BlocksDoGrow ==
  ASSUME TypeInv, [Next]_vars
  PROVE  BlocksGrow
<1>1. \A h \in DOMAIN blocks : h \in DOMAIN blocks' /\ blocks'[h] = blocks[h]
  BY NewBlocks DEF MakesBlock
<1>2. \A n \in Nodes : stored[n] \subseteq stored'[n]
  BY StoresGrow
<1> QED BY <1>1, <1>2 DEF BlocksGrow

LEMMA BranchStays ==
  ASSUME TypeInv, BlocksGrow, NEW n \in Nodes, NEW items, Branch(items, n)
  PROVE  Branch(items, n)'
<1>1. stored[n] \subseteq DOMAIN blocks /\ stored[n] \subseteq stored'[n]
  BY DEF TypeInv, TypeOK, BlocksGrow
<1>2. items \in Seq(stored[n]) /\ items \in Seq(stored'[n]) /\ items # <<>>
  BY <1>1 DEF Branch
<1>3. ASSUME NEW i \in 1..(Len(items) - 1) PROVE blocks'[items[i]].PrevHash = items[i + 1]
  <2>1. items[i] \in DOMAIN blocks
    BY <1>1, <1>2
  <2> QED BY <2>1 DEF Branch, BlocksGrow
<1> QED BY <1>2, <1>3 DEF Branch

LEMMA ClosedGrows ==
  ASSUME BlocksGrow, NEW n \in Nodes, Closed(n), Wanted(n) \subseteq Wanted(n)',
         \A h \in Wanted(n)' \ Wanted(n) :
           h \in DOMAIN blocks' /\ blocks'[h].PrevHash \in Wanted(n)' \cup {Nil}
  PROVE  Closed(n)'
BY DEF BlocksGrow, Closed

\* What n has got and awaits.
LEMMA GotIs ==
  ASSUME NEW n
  PROVE  \A h : h \in Got(n) <=> h \in stored[n] \/ \E d \in DOMAIN conns : Asks(n, d) /\ h = d.ID
BY DEF Got

\* A step that does not concern the blocks of n.
LEMMA FollowsOn ==
  ASSUME TypeInv, BlocksGrow, NEW n \in Nodes, Following(n),
         stored'[n] = stored[n], transit'[n] = transit[n],
         \A d \in DOMAIN conns : Asks(n, d) => d \in DOMAIN conns',
         \A d \in DOMAIN conns' :
           \/ d \in DOMAIN conns
           \/ ~Asks(n, d) /\ ~(d.node = n /\ d.at \in {"filter", "trim"})
  PROVE  Following(n)'
<1>1. \A d : Asks(n, d)' <=> Asks(n, d)
  BY DEF Asks
<1>2. Got(n)' = Got(n)
  BY <1>1 DEF Got
<1>3. Wanted(n)' = Wanted(n)
  BY <1>2 DEF Wanted
<1>4. Closed(n)'
  BY <1>3, ClosedGrows DEF Following
<1>5. transit'[n] \in Seq(DOMAIN blocks')
  <2>1. DOMAIN blocks \subseteq DOMAIN blocks'
    BY DEF BlocksGrow
  <2> QED BY <2>1 DEF Following
<1>6. transit'[n] # <<>> => \E d \in DOMAIN conns' : Asks(n, d)'
  BY <1>1 DEF Following
<1>7. ASSUME NEW d \in DOMAIN conns' PROVE Steady(n, d)'
  <2>1. CASE d \in DOMAIN conns
    <3>1. Steady(n, d) /\ d.node \in Nodes
      BY <2>1 DEF Following, TypeInv, TypeOK
    <3>2. stored[d.node] \subseteq stored'[d.node]
      BY <3>1 DEF BlocksGrow
    <3>3. \A c \in DOMAIN conns' : c.node = n /\ c.at = "filter" => c \in DOMAIN conns
      OBVIOUS
    <3> QED BY <1>1, <1>2, <3>1, <3>2, <3>3 DEF Steady
  <2>2. CASE ~Asks(n, d) /\ ~(d.node = n /\ d.at \in {"filter", "trim"})
    BY <1>1, <2>2 DEF Steady
  <2> QED BY <2>1, <2>2
<1> QED BY <1>4, <1>5, <1>6, <1>7 DEF Following

\* If it is the step of a handler.
LEMMA FollowsOnActs ==
  ASSUME TypeInv, Held, BlocksGrow, NEW n \in Nodes, Following(n),
         stored'[n] = stored[n], transit'[n] = transit[n],
         NEW c \in DOMAIN conns, NEW next, NEW sent, Proceed(c, next, sent),
         ~Asks(n, c),
         \A d \in next \cup sent : ~Asks(n, d) /\ ~(d.node = n /\ d.at \in {"filter", "trim"})
  PROVE  Following(n)'
<1>1. \A d \in DOMAIN conns : Asks(n, d) => d \in DOMAIN conns'
  BY ProceedLeaves
<1>2. \A d \in DOMAIN conns' :
           \/ d \in DOMAIN conns
           \/ ~Asks(n, d) /\ ~(d.node = n /\ d.at \in {"filter", "trim"})
  <2> TAKE d \in DOMAIN conns'
  <2>1. d \in DOMAIN conns \/ d \in next \/ d \in sent
    BY ProceedConns
  <2> QED BY <2>1
<1> QED BY <1>1, <1>2, FollowsOn

Tells(d) ==
  d.at = "new" /\ d.cmd = "inv" /\ d.Type = "block" => Branch(d.Items, d.from)

\* A connection that neither asks for blocks nor works on a list.
Aside(d) == (\A n : ~Asks(n, d)) /\ d.at \notin {"filter", "trim"}

\* A message that asks for the block id, or answers with it, on behalf of who.
IsRequest(d, cmd, to, id, who) ==
  /\ d.at = "new" /\ d.cmd = cmd /\ d.ID = id /\ d.node = to
  /\ \A n : Asks(n, d) <=> n = who

LEMMA WhoAsks ==
  ASSUME NEW to, NEW from
  PROVE  /\ \A height : Aside(SendVersion(to, from, height)) /\ Tells(SendVersion(to, from, height))
         /\ Aside(SendGetBlocks(to, from)) /\ Tells(SendGetBlocks(to, from))
         /\ \A kind, items : /\ Aside(SendInv(to, from, kind, items))
                             /\ kind = "tx" \/ Branch(items, from) =>
                                  Tells(SendInv(to, from, kind, items))
         /\ \A tx : Aside(SendTx(to, from, tx)) /\ Tells(SendTx(to, from, tx))
         /\ \A id : Aside(SendGetData(to, from, "tx", id)) /\ Tells(SendGetData(to, from, "tx", id))
         /\ \A id : IsRequest(SendGetData(to, from, "block", id), "getdata", to, id, from)
         /\ \A id : IsRequest(SendBlock(to, from, id), "block", to, id, to)
<1> USE DEF NewConn, Aside, Asks, Tells, IsRequest
<1>1. \A height : Aside(SendVersion(to, from, height)) /\ Tells(SendVersion(to, from, height))
  BY DEF SendVersion
<1>2. Aside(SendGetBlocks(to, from)) /\ Tells(SendGetBlocks(to, from))
  BY DEF SendGetBlocks
<1>3. \A kind, items : /\ Aside(SendInv(to, from, kind, items))
                       /\ kind = "tx" \/ Branch(items, from) => Tells(SendInv(to, from, kind, items))
  BY DEF SendInv
<1>4. \A tx : Aside(SendTx(to, from, tx)) /\ Tells(SendTx(to, from, tx))
  BY DEF SendTx
<1>5. \A id : Aside(SendGetData(to, from, "tx", id)) /\ Tells(SendGetData(to, from, "tx", id))
  BY DEF SendGetData
<1>6. ASSUME NEW id
      PROVE  IsRequest(SendGetData(to, from, "block", id), "getdata", to, id, from)
  BY DEF SendGetData
<1>7. ASSUME NEW id
      PROVE  IsRequest(SendBlock(to, from, id), "block", to, id, to)
  BY DEF SendBlock
<1> HIDE DEF Aside, Asks, Tells, IsRequest
<1> QED BY <1>1, <1>2, <1>3, <1>4, <1>5, <1>6, <1>7

LEMMA StageAside ==
  ASSUME NEW c, ConnOK(c), NEW stage \in {"close", "known", "mine", "mined", "again"},
         NEW d \in At(c, stage)
  PROVE  Aside(d) /\ Tells(d)
<1>1. d.at = stage
  BY DEF At, ConnOK
<1> QED BY <1>1 DEF Aside, Asks, Tells

\* What GetBlockHashes returns is part of a branch.
LEMMA HashesBranch ==
  ASSUME TypeInv, Tree, NEW n \in Nodes
  PROVE  Branch(GetBlockHashes(n), n)
<1> DEFINE B == [h \in stored[n] |-> blocks[h]]
<1>1. stored[n] \subseteq DOMAIN blocks /\ tip[n] \in stored[n]
  BY DEF TypeInv, TypeOK
<1>2. IsFiniteSet(DOMAIN B) /\ Nil \notin DOMAIN B /\ tip[n] \in DOMAIN B
  <2>1. IsFiniteSet(stored[n])
    BY <1>1, FS_Subset DEF Tree
  <2> QED BY <1>1, <2>1 DEF Tree
<1>3. PICK s : s = Iterate(B, tip[n])
  OBVIOUS
<1>4. /\ s \in Seq(DOMAIN B) /\ Len(s) >= 1
      /\ \A i \in 1..(Len(s) - 1) : s[i + 1] = B[s[i]].PrevHash
  <2> HIDE DEF B
  <2> QED BY <1>2, <1>3, IterateChain
<1>5. s \in Seq(stored[n]) /\ s # <<>>
  BY <1>4
<1>6. ASSUME NEW i \in 1..(Len(s) - 1) PROVE blocks[s[i]].PrevHash = s[i + 1]
  <2>1. s[i] \in stored[n]
    BY <1>5
  <2> QED BY <1>4, <2>1
<1>7. s = GetBlockHashes(n)
  BY <1>3 DEF GetBlockHashes
<1> QED BY <1>5, <1>6, <1>7 DEF Branch

\* A step of a handler that has nothing to do with asking for blocks.
AsideStep(c, next, sent) ==
  /\ Proceed(c, next, sent) /\ UNCHANGED <<blocks, stored, transit, misled>>
  /\ Aside(c)
  /\ \A d \in next \cup sent : Aside(d) /\ Tells(d)

LEMMA SideHandlers ==
  ASSUME TypeInv, Tree, NEW m \in Nodes, NEW c \in DOMAIN conns,
         \/ HandleVersion(m, c) \/ AddToKnown(m, c) \/ HandleGetBlocks(m, c)
         \/ CloseDB(m, c) \/ HandleTxZero(m, c) \/ HandleInvTx(m, c) \/ HandleTx(m, c)
         \/ MineTxNothing(m, c) \/ MineTxAnnounces(m, c)
  PROVE  \E next, sent : AsideStep(c, next, sent)
<1> USE DEF storage, memory, history
<1>1. ConnOK(c)
  BY DEF TypeInv
<1>2. CASE HandleVersion(m, c)
  <2> DEFINE sent == IF GetBestHeight(m) < c.BestHeight
                     THEN { SendGetBlocks(c.from, m) } ELSE {}
  <2>1. Proceed(c, At(c, "known"), sent) /\ UNCHANGED <<blocks, stored, transit, misled>> /\ Aside(c)
    BY <1>2 DEF HandleVersion, Begins, Aside, Asks
  <2>2. \A d \in At(c, "known") \cup sent : Aside(d) /\ Tells(d)
    BY <1>1, StageAside, WhoAsks
  <2> HIDE DEF sent
  <2> QED BY <2>1, <2>2 DEF AsideStep
<1>3. CASE AddToKnown(m, c) \/ CloseDB(m, c)
  <2>1. AsideStep(c, {}, {})
    BY <1>3 DEF AddToKnown, CloseDB, AsideStep, Aside, Asks
  <2> QED BY <2>1
<1>4. CASE HandleGetBlocks(m, c)
  <2> DEFINE sent == { SendInv(c.from, m, "block", GetBlockHashes(m)) }
  <2>1. Proceed(c, At(c, "close"), sent) /\ UNCHANGED <<blocks, stored, transit, misled>> /\ Aside(c)
    BY <1>4 DEF HandleGetBlocks, Begins, Aside, Asks
  <2>2. \A d \in At(c, "close") : Aside(d) /\ Tells(d)
    BY <1>1, StageAside
  <2>3. \A d \in sent : Aside(d) /\ Tells(d)
    <3> TAKE d \in sent
    <3>1. d = SendInv(c.from, m, "block", GetBlockHashes(m))
      OBVIOUS
    <3> QED BY <3>1, HashesBranch, WhoAsks
  <2> HIDE DEF sent
  <2> QED BY <2>1, <2>2, <2>3 DEF AsideStep
<1>5. CASE HandleTxZero(m, c)
  <2> DEFINE others == known[m] \ {m, c.from}
             sent == { SendInv(to, m, "tx", <<c.ID>>) : to \in others }
  <2>1. Proceed(c, {}, sent) /\ UNCHANGED <<blocks, stored, transit, misled>> /\ Aside(c)
    BY <1>5 DEF HandleTxZero, Begins, Aside, Asks
  <2>2. ASSUME NEW d \in sent PROVE Aside(d) /\ Tells(d)
    <3>1. PICK to : d = SendInv(to, m, "tx", <<c.ID>>)
      OBVIOUS
    <3> QED BY <3>1, WhoAsks
  <2> HIDE DEF sent
  <2> QED BY <2>1, <2>2 DEF AsideStep
<1>6. CASE HandleInvTx(m, c)
  <2> DEFINE sent == IF c.Items[1] \in pool[m] THEN {}
                     ELSE { SendGetData(c.from, m, "tx", c.Items[1]) }
  <2>1. Proceed(c, {}, sent) /\ UNCHANGED <<blocks, stored, transit, misled>> /\ Aside(c)
    BY <1>6 DEF HandleInvTx, Begins, Aside, Asks
  <2>2. ASSUME NEW d \in sent PROVE Aside(d) /\ Tells(d)
    <3>1. d = SendGetData(c.from, m, "tx", c.Items[1])
      OBVIOUS
    <3> QED BY <3>1, WhoAsks
  <2> HIDE DEF sent
  <2> QED BY <2>1, <2>2 DEF AsideStep
<1>7. CASE HandleTx(m, c)
  <2>1. /\ \E next \in SUBSET At(c, "mine") : Proceed(c, next, {})
        /\ UNCHANGED <<blocks, stored, transit, misled>> /\ Aside(c)
    BY <1>7 DEF HandleTx, Begins, Aside, Asks
  <2>2. PICK next \in SUBSET At(c, "mine") : Proceed(c, next, {})
    BY <2>1
  <2>3. \A d \in next : Aside(d) /\ Tells(d)
    BY <1>1, StageAside
  <2> QED BY <2>1, <2>2, <2>3 DEF AsideStep
<1>8. CASE MineTxNothing(m, c)
  <2>1. Proceed(c, At(c, "close"), {}) /\ UNCHANGED <<blocks, stored, transit, misled>> /\ Aside(c)
    BY <1>8 DEF MineTxNothing, Aside, Asks
  <2>2. \A d \in At(c, "close") : Aside(d) /\ Tells(d)
    BY <1>1, StageAside
  <2> QED BY <2>1, <2>2 DEF AsideStep
<1>9. CASE MineTxAnnounces(m, c)
  <2> DEFINE sent == { SendInv(x, m, "block", <<c.ID>>) : x \in known[m] \ {m} }
             next == IF pool'[m] = {} THEN "close" ELSE "again"
  <2>1. Proceed(c, At(c, next), sent) /\ UNCHANGED <<blocks, stored, transit, misled>> /\ Aside(c)
    BY <1>9 DEF MineTxAnnounces, Aside, Asks
  <2>2. \A d \in At(c, next) : Aside(d) /\ Tells(d)
    BY <1>1, StageAside
  <2>3. Branch(<<c.ID>>, m)
    <3>1. c.ID \in stored[m]
      BY <1>1, <1>9 DEF MineTxAnnounces, ConnOK
    <3>2. PICK s : s = <<c.ID>>
      OBVIOUS
    <3>3. s \in Seq(stored[m]) /\ s # <<>> /\ Len(s) = 1
      <4>1. ASSUME NEW S, NEW x \in S, s = <<x>>
            PROVE  s \in Seq(S) /\ s # <<>> /\ Len(s) = 1
        BY <4>1
      <4> QED BY <3>1, <3>2, <4>1
    <3>4. 1..(1 - 1) = {}
      OBVIOUS
    <3> QED BY <3>2, <3>3, <3>4 DEF Branch
  <2>4. ASSUME NEW d \in sent PROVE Aside(d) /\ Tells(d)
    <3>1. PICK x : d = SendInv(x, m, "block", <<c.ID>>)
      OBVIOUS
    <3> QED BY <2>3, <3>1, WhoAsks
  <2> HIDE DEF sent, next
  <2> QED BY <2>1, <2>2, <2>4 DEF AsideStep
<1> QED BY <1>2, <1>3, <1>4, <1>5, <1>6, <1>7, <1>8, <1>9

LEMMA ToldOn ==
  ASSUME TypeInv, Told, BlocksGrow, NEW c \in DOMAIN conns, NEW next, NEW sent,
         Proceed(c, next, sent),
         \A d \in next \cup sent : d.at = "new" /\ d.cmd = "inv" => Tells(d)'
  PROVE  Told'
<1> SUFFICES ASSUME NEW d \in DOMAIN conns', d.at = "new", d.cmd = "inv", d.Type = "block"
             PROVE  Branch(d.Items, d.from)'
  BY DEF Told
<1>1. d \in DOMAIN conns \/ d \in next \/ d \in sent
  BY ProceedConns
<1>2. CASE d \in DOMAIN conns
  <2>1. Branch(d.Items, d.from) /\ d.from \in Nodes
    BY <1>2 DEF Told, TypeInv, ConnOK
  <2>2. \A n \in Nodes : \A items : Branch(items, n) => Branch(items, n)'
    BY BranchStays
  <2> QED BY <2>1, <2>2
<1>3. CASE d \in next \/ d \in sent
  BY <1>3 DEF Tells
<1> QED BY <1>1, <1>2, <1>3

LEMMA GotNext ==
  ASSUME NEW n
  PROVE  \A h : h \in Got(n)' <=>
           h \in stored'[n] \/ \E d \in DOMAIN conns' : Asks(n, d) /\ h = d.ID
<1>1. \A d : Asks(n, d)' <=> Asks(n, d)
  BY DEF Asks
<1> QED BY <1>1 DEF Got

\* What a handler's step does to what n has got and awaits.
LEMMA GotGrows ==
  ASSUME Held, BlocksGrow, NEW n \in Nodes, NEW c \in DOMAIN conns, NEW next, NEW sent,
         Proceed(c, next, sent), Asks(n, c) => c.ID \in Got(n)'
  PROVE  Got(n) \subseteq Got(n)'
<1> SUFFICES ASSUME NEW h \in Got(n) PROVE h \in Got(n)'
  OBVIOUS
<1>1. CASE h \in stored[n]
  BY <1>1, GotNext DEF BlocksGrow
<1>2. ASSUME NEW d \in DOMAIN conns, Asks(n, d), h = d.ID PROVE h \in Got(n)'
  <2>1. d = c \/ d \in DOMAIN conns'
    BY ProceedLeaves
  <2> QED BY <1>2, <2>1, GotNext
<1> QED BY <1>1, <1>2, GotIs

LEMMA GotAtMost ==
  ASSUME NEW n \in Nodes, NEW c, NEW next, NEW sent, Proceed(c, next, sent),
         NEW h \in Got(n)'
  PROVE  \/ h \in Got(n) \/ h \in stored'[n]
         \/ \E d \in next \cup sent : Asks(n, d) /\ h = d.ID
<1>1. CASE h \in stored'[n]
  BY <1>1
<1>2. ASSUME NEW d \in DOMAIN conns', Asks(n, d), h = d.ID
      PROVE  h \in Got(n) \/ \E e \in next \cup sent : Asks(n, e) /\ h = e.ID
  <2>1. d \in DOMAIN conns \/ d \in next \/ d \in sent
    BY ProceedConns
  <2> QED BY <1>2, <2>1, GotIs
<1> QED BY <1>1, <1>2, GotNext

LEMMA SteadyStays ==
  ASSUME TypeInv, BlocksGrow, NEW n \in Nodes, Following(n), Got(n) \subseteq Got(n)',
         NEW d \in DOMAIN conns,
         d.node = n /\ d.at = "trim" =>
           /\ transit'[n] = transit[n]
           /\ \A c \in DOMAIN conns' : c.node = n /\ c.at = "filter" => c \in DOMAIN conns
  PROVE  Steady(n, d)'
<1>1. Asks(n, d)' <=> Asks(n, d)
  BY DEF Asks
<1>2. Steady(n, d) /\ d.node \in Nodes
  BY DEF Following, TypeInv, TypeOK
<1>3. stored[d.node] \subseteq stored'[d.node]
  BY <1>2 DEF BlocksGrow
<1> QED BY <1>1, <1>2, <1>3 DEF Steady

LEMMA SteadyNew ==
  ASSUME NEW n, NEW d, d.at \notin {"filter", "trim"} \/ d.node # n,
         Asks(n, d) => d.cmd = "block" \/ d.ID \in stored'[d.node]
  PROVE  Steady(n, d)'
<1>1. Asks(n, d)' <=> Asks(n, d)
  BY DEF Asks
<1> QED BY <1>1 DEF Steady

LEMMA GetDataFollows ==
  ASSUME TypeInv, Held, Addressed, Told, BlocksGrow,
         NEW m \in Nodes, NEW c \in DOMAIN conns, HandleGetData(m, c)
  PROVE  /\ Told'
         /\ NoneHasEnded => \A n \in Nodes : Following(n) => Following(n)'
<1> DEFINE sent == Answer(m, c)
           next == At(c, "close")
           block == SendBlock(c.from, m, c.ID)
<1>1. /\ Proceed(c, next, sent) /\ UNCHANGED <<blocks, stored, transit, misled>>
      /\ c.at = "new" /\ c.cmd = "getdata" /\ ConnOK(c)
  BY DEF HandleGetData, Begins, TypeInv, storage, history
<1>2. \A d \in next : Aside(d) /\ Tells(d)
  BY <1>1, StageAside
<1>3. ASSUME NEW d \in sent
      PROVE  IF c.Type = "tx" THEN Aside(d) /\ Tells(d) ELSE d = block /\ c.ID \in stored[m]
  <2>1. CASE c.Type = "tx"
    <3>1. PICK t : d = SendTx(c.from, m, t)
      BY <2>1 DEF Answer
    <3> QED BY <2>1, <3>1, WhoAsks
  <2>2. CASE c.Type # "tx"
    BY <2>2 DEF Answer
  <2> QED BY <2>1, <2>2
<1>4. c.Type # "tx" /\ c.ID \in stored[m] => block \in sent
  BY DEF Answer
<1>5. /\ block.at = "new" /\ block.cmd = "block" /\ block.ID = c.ID /\ block.node = c.from
      /\ \A n : Asks(n, block) <=> n = c.from
  <2>1. IsRequest(block, "block", c.from, c.ID, c.from)
    BY WhoAsks
  <2> HIDE DEF block
  <2> QED BY <2>1 DEF IsRequest
<1> HIDE DEF sent, next, block
<1>6. Told'
  <2>1. \A d \in next \cup sent : d.at = "new" /\ d.cmd = "inv" => Tells(d)
    BY <1>2, <1>3, <1>5
  <2>2. \A d : Tells(d)' <=> Tells(d)
    BY <1>1 DEF Tells, Branch
  <2> QED BY <1>1, <2>1, <2>2, ToldOn
<1>7. ASSUME NoneHasEnded, NEW n \in Nodes, Following(n) PROVE Following(n)'
  <2>1. \A d \in next \cup sent :
          /\ d.at \notin {"filter", "trim"}
          /\ Asks(n, d) => n = c.from /\ d = block
    BY <1>2, <1>3, <1>5 DEF Aside
  <2>2. CASE Asks(n, c)
    <3>1. n = c.from /\ c.Type # "tx" /\ c.ID \in stored[m]
      <4>1. n = c.from /\ c.Type # "tx"
        BY <1>1, <2>2 DEF Asks
      <4>2. Steady(n, c) /\ c.node = m
        BY <1>7 DEF Following, HandleGetData, Begins
      <4> QED BY <1>1, <2>2, <4>1, <4>2 DEF Steady
    <3>2. Listening(block.node)
      <4>1. starts[n] >= 1
        BY <3>1 DEF Addressed
      <4> QED BY <1>5, <1>7, <3>1, <4>1, StartedListens
    <3>3. block \in DOMAIN conns'
      BY <1>1, <1>4, <3>1, <3>2, ProceedLeaves
    <3>4. Got(n) \subseteq Got(n)'
      BY <1>1, <1>5, <3>1, <3>3, GotGrows, GotNext
    <3>5. Got(n)' \subseteq Got(n)
      <4> SUFFICES ASSUME NEW h \in Got(n)' PROVE h \in Got(n)
        OBVIOUS
      <4>1. h \in Got(n) \/ h \in stored'[n] \/ \E d \in next \cup sent : Asks(n, d) /\ h = d.ID
        BY <1>1, GotAtMost
      <4>2. c.ID \in Got(n)
        BY <2>2, GotIs
      <4> QED BY <1>1, <1>5, <2>1, <4>1, <4>2, GotIs
    <3>6. Wanted(n)' = Wanted(n)
      BY <1>1, <3>4, <3>5 DEF Wanted
    <3>7. Closed(n)'
      BY <1>7, <3>6, ClosedGrows DEF Following
    <3>8. ASSUME NEW d \in DOMAIN conns' PROVE Steady(n, d)'
      <4>1. d \in DOMAIN conns \/ d \in next \/ d \in sent
        BY <1>1, ProceedConns
      <4>2. \A e \in DOMAIN conns' : e.node = n /\ e.at = "filter" => e \in DOMAIN conns
        <5> TAKE e \in DOMAIN conns'
        <5>1. e \in DOMAIN conns \/ e \in next \/ e \in sent
          BY <1>1, ProceedConns
        <5> QED BY <2>1, <5>1
      <4>3. CASE d \in DOMAIN conns
        BY <1>1, <1>7, <3>4, <4>2, <4>3, SteadyStays
      <4>4. CASE d \in next \/ d \in sent
        BY <1>5, <2>1, <4>4, SteadyNew
      <4> QED BY <4>1, <4>3, <4>4
    <3>9. transit'[n] \in Seq(DOMAIN blocks')
      BY <1>1, <1>7 DEF Following
    <3>10. \E d \in DOMAIN conns' : Asks(n, d)'
      <4>1. Asks(n, block)' <=> Asks(n, block)
        BY DEF Asks, block
      <4> QED BY <1>5, <3>1, <3>3, <4>1
    <3> QED BY <3>7, <3>8, <3>9, <3>10 DEF Following
  <2>3. CASE ~Asks(n, c)
    <3>1. \A d \in next \cup sent : ~Asks(n, d)
      <4>1. n = c.from => c.Type = "tx"
        BY <1>1, <2>3 DEF Asks
      <4> QED BY <1>2, <1>3, <2>1, <4>1 DEF Aside
    <3> QED BY <1>1, <1>7, <2>1, <2>3, <3>1, FollowsOnActs
  <2> QED BY <2>2, <2>3
<1> QED BY <1>6, <1>7

LEMMA InvBlockFollows ==
  ASSUME TypeInv, Held, Addressed, Told, BlocksGrow, DOMAIN transit = Nodes,
         NEW m \in Nodes, NEW c \in DOMAIN conns, HandleInvBlock(m, c)
  PROVE  /\ Told'
         /\ NoneHasEnded => \A n \in Nodes \ misled' : Following(n) => Following(n)'
<1> DEFINE next == At(c, "filter")
           ask == SendGetData(c.from, m, "block", c.Items[1])
           sent == {ask}
<1>1. /\ Proceed(c, next, sent) /\ UNCHANGED <<blocks, stored>>
      /\ transit' = [transit EXCEPT ![m] = c.Items]
      /\ Misleads(m, InventoryMisleads(m, c.Items))
      /\ c.at = "new" /\ c.cmd = "inv" /\ c.Type = "block" /\ c.node = m /\ ConnOK(c)
  BY DEF HandleInvBlock, Begins, TypeInv, storage
<1>2. \A d \in next : /\ d.at = "filter" /\ d.node = m /\ d.Items = c.Items
                      /\ \A n : ~Asks(n, d)
  BY <1>1 DEF At, ConnOK, Asks
<1>3. /\ ask.at = "new" /\ ask.cmd = "getdata" /\ ask.ID = c.Items[1] /\ ask.node = c.from
      /\ \A n : Asks(n, ask) <=> n = m
  <2>1. IsRequest(ask, "getdata", c.from, c.Items[1], m)
    BY WhoAsks
  <2> HIDE DEF ask
  <2> QED BY <2>1 DEF IsRequest
<1>4. \A n : ~Asks(n, c)
  BY <1>1 DEF Asks
<1> HIDE DEF next, ask
<1>5. Told'
  <2>1. \A d \in next \cup sent : d.at = "new" /\ d.cmd = "inv" => Tells(d)'
    BY <1>2, <1>3
  <2> QED BY <1>1, <2>1, ToldOn
<1>6. ASSUME NoneHasEnded, NEW n \in Nodes \ misled', Following(n), n # m
      PROVE  Following(n)'
  <2>1. stored'[n] = stored[n] /\ transit'[n] = transit[n]
    BY <1>1, <1>6
  <2>2. \A d \in next \cup sent : ~Asks(n, d) /\ ~(d.node = n /\ d.at \in {"filter", "trim"})
    BY <1>2, <1>3, <1>6
  <2> QED BY <1>1, <1>4, <1>6, <2>1, <2>2, FollowsOnActs
<1>7. ASSUME NoneHasEnded, m \notin misled', Following(m)
      PROVE  Following(m)'
  <2>1. transit[m] = <<>> /\ blocks[Last(c.Items)].PrevHash \in stored[m] \cup {Nil}
    BY <1>1, <1>7 DEF Misleads, InventoryMisleads
  <2>2. PICK items : items = c.Items /\ Branch(items, c.from)
    BY <1>1 DEF Told
  <2>3. c.from \in Nodes /\ stored[c.from] \subseteq DOMAIN blocks /\ starts[c.from] >= 1
    BY <1>1 DEF ConnOK, TypeInv, TypeOK, Addressed
  <2>4. /\ items \in Seq(stored[c.from]) /\ items \in Seq(DOMAIN blocks)
        /\ Len(items) \in Nat \ {0} /\ items[1] \in stored[c.from]
    BY <2>2, <2>3 DEF Branch
  <2>5. transit'[m] = items
    BY <1>1, <2>2
  <2>6. ask \in DOMAIN conns'
    BY <1>1, <1>3, <1>7, <2>3, StartedListens, ProceedLeaves
  <2>7. Got(m) \subseteq Got(m)' /\ items[1] \in Got(m)'
    BY <1>1, <1>3, <1>4, <2>2, <2>6, GotGrows, GotNext
  <2>8. Got(m)' \subseteq Got(m) \cup ToSet(items)
    <3> SUFFICES ASSUME NEW h \in Got(m)' PROVE h \in Got(m) \cup ToSet(items)
      OBVIOUS
    <3>1. h \in Got(m) \/ h \in stored'[m] \/ \E d \in next \cup sent : Asks(m, d) /\ h = d.ID
      BY <1>1, GotAtMost
    <3>2. items[1] \in ToSet(items)
      BY <2>4, Members
    <3> QED BY <1>1, <1>2, <1>3, <2>2, <3>1, <3>2, GotIs
  <2>9. Wanted(m) = Got(m) /\ Wanted(m)' = Got(m)' \cup ToSet(items)
    <3>1. ToSet(<<>>) = {}
      <4>1. DOMAIN <<>> = {}
        OBVIOUS
      <4> QED BY <4>1 DEF ToSet
    <3> QED BY <2>1, <2>5, <3>1 DEF Wanted
  <2>10. Closed(m)'
    <3>1. ASSUME NEW h \in ToSet(items)
          PROVE  h \in DOMAIN blocks' /\ blocks'[h].PrevHash \in Wanted(m)' \cup {Nil}
      <4>1. PICK i \in 1..Len(items) : h = items[i]
        BY <2>4, <3>1, Members
      <4>2. h \in DOMAIN blocks
        BY <2>4, <4>1
      <4>3. CASE i = Len(items)
        <5>1. h = Last(items)
          BY <4>1, <4>3 DEF Last
        <5>2. blocks[h].PrevHash \in Got(m) \cup {Nil}
          BY <2>1, <2>2, <5>1, GotIs
        <5> QED BY <1>1, <2>7, <2>9, <4>2, <5>2
      <4>4. CASE i # Len(items)
        <5>1. i \in 1..(Len(items) - 1) /\ i + 1 \in 1..Len(items)
          BY <2>4, <4>1, <4>4
        <5>2. blocks[h].PrevHash = items[i + 1]
          BY <2>2, <4>1, <5>1 DEF Branch
        <5>3. items[i + 1] \in ToSet(items)
          BY <2>4, <5>1, Members
        <5> QED BY <1>1, <2>9, <4>2, <5>2, <5>3
      <4> QED BY <4>3, <4>4
    <3>2. Wanted(m) \subseteq Wanted(m)'
      BY <2>7, <2>9
    <3>3. \A h \in Wanted(m)' \ Wanted(m) : h \in ToSet(items)
      BY <2>8, <2>9
    <3> QED BY <1>7, <3>1, <3>2, <3>3, ClosedGrows DEF Following
  <2>11. ASSUME NEW d \in DOMAIN conns' PROVE Steady(m, d)'
    <3>1. d \in DOMAIN conns \/ d \in next \/ d \in sent
      BY <1>1, ProceedConns
    <3>2. CASE d \in DOMAIN conns
      <4>1. ~(d.node = m /\ d.at = "trim")
        BY <1>7, <2>1, <3>2 DEF Following, Steady
      <4> QED BY <1>7, <2>7, <3>2, <4>1, SteadyStays
    <3>3. CASE d \in next
      <4>1. d.at = "filter" /\ d.Items[1] = items[1] /\ \A x : ~Asks(x, d)
        BY <1>2, <2>2, <3>3
      <4>2. ~Asks(m, d)'
        BY <4>1 DEF Asks
      <4> QED BY <2>7, <4>1, <4>2 DEF Steady
    <3>4. CASE d \in sent
      <4>1. d = ask /\ ask.ID \in stored'[ask.node]
        BY <1>1, <1>3, <2>2, <2>4, <3>4
      <4> QED BY <1>3, <4>1, SteadyNew
    <3> QED BY <3>1, <3>2, <3>3, <3>4
  <2>12. \E d \in DOMAIN conns' : Asks(m, d)'
    <3>1. Asks(m, ask)' <=> Asks(m, ask)
      BY DEF Asks, ask
    <3> QED BY <1>3, <2>6, <3>1
  <2>13. transit'[m] \in Seq(DOMAIN blocks')
    BY <1>1, <2>4, <2>5
  <2> QED BY <2>10, <2>11, <2>12, <2>13 DEF Following
<1> QED BY <1>5, <1>6, <1>7

\* A handler takes from its node's list what n has got or awaits.
LEMMA ListFollows ==
  ASSUME TypeInv, Held, Told, BlocksGrow, DOMAIN transit = Nodes,
         NEW m \in Nodes, NEW c \in DOMAIN conns, FilterTransit(m, c) \/ TrimTransit(m, c)
  PROVE  /\ Told'
         /\ \A n \in Nodes : Following(n) => Following(n)'
<1>1. /\ Proceed(c, {}, {}) /\ UNCHANGED <<blocks, stored, misled>>
      /\ c.node = m /\ c.at \in {"filter", "trim"}
      /\ c.at = "filter" => transit' = [transit EXCEPT ![m] = Without(@, c.Items[1])]
      /\ c.at = "trim" => transit' = [transit EXCEPT ![m] = Tail(@)]
  BY DEF FilterTransit, TrimTransit, storage, history
<1>2. \A n : ~Asks(n, c)
  BY <1>1 DEF Asks
<1>3. Told'
  BY <1>1, ToldOn
<1>4. ASSUME NEW n \in Nodes, Following(n), n # m
      PROVE  Following(n)'
  <2>1. stored'[n] = stored[n] /\ transit'[n] = transit[n]
    BY <1>1, <1>4
  <2> QED BY <1>1, <1>2, <1>4, <2>1, FollowsOnActs
<1>5. ASSUME Following(m)
      PROVE  Following(m)'
  <2>1. PICK hashes, hash : /\ hashes = transit[m]
                            /\ hash = IF c.at = "filter" THEN c.Items[1] ELSE Head(hashes)
    OBVIOUS
  <2>2. hashes \in Seq(DOMAIN blocks) /\ Steady(m, c)
    BY <1>5, <2>1 DEF Following
  <2>3. hash \in Got(m) /\ (c.at = "trim" => hashes # <<>>)
    BY <1>1, <2>1, <2>2 DEF Steady
  <2>4. /\ transit'[m] \in Seq(DOMAIN blocks)
        /\ ToSet(hashes) \subseteq ToSet(transit'[m]) \cup {hash}
        /\ ToSet(transit'[m]) \subseteq ToSet(hashes)
    <3>1. CASE c.at = "filter"
      <4>1. transit'[m] = Without(hashes, hash)
        BY <1>1, <2>1, <3>1
      <4> QED BY <2>2, <4>1, WithoutKeeps
    <3>2. CASE c.at = "trim"
      <4>1. transit'[m] = Tail(hashes) /\ hash = Head(hashes)
        BY <1>1, <2>1, <3>2
      <4> QED BY <2>2, <2>3, <3>2, <4>1, HeadAndTail
    <3> QED BY <1>1, <3>1, <3>2
  <2>5. Got(m)' = Got(m)
    <3>1. Got(m) \subseteq Got(m)'
      BY <1>1, <1>2, GotGrows
    <3>2. Got(m)' \subseteq Got(m)
      <4> SUFFICES ASSUME NEW h \in Got(m)' PROVE h \in Got(m)
        OBVIOUS
      <4>1. h \in Got(m) \/ h \in stored'[m] \/ \E d \in {} : Asks(m, d) /\ h = d.ID
        BY <1>1, GotAtMost
      <4> QED BY <1>1, <4>1, GotIs
    <3> QED BY <3>1, <3>2
  <2>6. Wanted(m)' = Wanted(m)
    BY <2>1, <2>3, <2>4, <2>5 DEF Wanted
  <2>7. Closed(m)'
    BY <1>5, <2>6, ClosedGrows DEF Following
  <2>8. transit'[m] # <<>> => \E d \in DOMAIN conns' : Asks(m, d)'
    <3> SUFFICES ASSUME transit'[m] # <<>> PROVE \E d \in DOMAIN conns' : Asks(m, d)'
      OBVIOUS
    <3>1. Head(transit'[m]) \in ToSet(hashes)
      BY <2>4, HeadAndTail
    <3>2. hashes # <<>>
      <4>1. DOMAIN <<>> = {}
        OBVIOUS
      <4>2. ToSet(<<>>) = {}
        BY <4>1 DEF ToSet
      <4> QED BY <3>1, <4>2
    <3>3. PICK d \in DOMAIN conns : Asks(m, d)
      BY <1>5, <2>1, <3>2 DEF Following
    <3>4. d \in DOMAIN conns'
      BY <1>1, <1>2, <3>3, ProceedLeaves
    <3>5. Asks(m, d)' <=> Asks(m, d)
      BY DEF Asks
    <3> QED BY <3>3, <3>4, <3>5
  <2>9. ASSUME NEW d \in DOMAIN conns' PROVE Steady(m, d)'
    <3>1. d \in DOMAIN conns
      BY <1>1, ProceedConns
    <3>2. ~(d.node = m /\ d.at = "trim")
      <4> SUFFICES ASSUME d.node = m, d.at = "trim" PROVE FALSE
        OBVIOUS
      <4>1. CASE c.at = "filter"
        BY <1>1, <1>5, <3>1, <4>1 DEF Following, Steady
      <4>2. CASE c.at = "trim"
        <5>1. d = c /\ conns[c] = 1
          BY <1>1, <3>1, <4>2, OneHolder DEF OpenStages
        <5>2. c \notin DOMAIN conns'
          BY <1>1, <5>1, ProceedCounts DEF Held
        <5> QED BY <5>1, <5>2
      <4> QED BY <1>1, <4>1, <4>2
    <3> QED BY <1>5, <2>5, <3>1, <3>2, SteadyStays
  <2>10. transit'[m] \in Seq(DOMAIN blocks')
    BY <1>1, <2>4
  <2> QED BY <2>7, <2>8, <2>9, <2>10 DEF Following
<1> QED BY <1>3, <1>4, <1>5

\* A node that makes a block on its tip has the parent.
LEMMA MadeFollows ==
  ASSUME TypeInv, Told, BlocksGrow, NEW m \in Nodes, NEW txs, NEW hash,
         MakesBlock(m, txs, hash), UNCHANGED transit,
         \A d \in DOMAIN conns' :
           d \in DOMAIN conns \/ (Aside(d) /\ d.at \notin {"new", "filter", "trim"}),
         \A d \in DOMAIN conns : d \in DOMAIN conns' \/ Aside(d)
  PROVE  /\ Told'
         /\ \A n \in Nodes : Following(n) => Following(n)'
<1>1. stored' = [stored EXCEPT ![m] = @ \cup {hash}]
  BY DEF MakesBlock
<1>2. hash \in DOMAIN blocks' /\ blocks'[hash].PrevHash = tip[m] /\ tip[m] \in stored[m]
  BY DEF MakesBlock, TypeInv, TypeOK
<1>3. ASSUME NEW n PROVE \A d \in DOMAIN conns : Asks(n, d) => d \in DOMAIN conns'
  BY DEF Aside
<1>4. ASSUME NEW n
      PROVE  \A d \in DOMAIN conns' :
               \/ d \in DOMAIN conns
               \/ ~Asks(n, d) /\ ~(d.node = n /\ d.at \in {"filter", "trim"})
  BY DEF Aside
<1>5. Told'
  <2> SUFFICES ASSUME NEW d \in DOMAIN conns', d.at = "new", d.cmd = "inv", d.Type = "block"
               PROVE  Branch(d.Items, d.from)'
    BY DEF Told
  <2>1. d \in DOMAIN conns
    OBVIOUS
  <2>2. Branch(d.Items, d.from) /\ d.from \in Nodes
    BY <2>1 DEF Told, TypeInv, ConnOK
  <2>3. \A n \in Nodes : \A items : Branch(items, n) => Branch(items, n)'
    BY BranchStays
  <2> QED BY <2>2, <2>3
<1>6. ASSUME NEW n \in Nodes, Following(n), n # m
      PROVE  Following(n)'
  <2>1. stored'[n] = stored[n] /\ transit'[n] = transit[n]
    BY <1>1, <1>6 DEF TypeInv, TypeOK
  <2> QED BY <1>3, <1>4, <1>6, <2>1, FollowsOn
<1>7. ASSUME Following(m)
      PROVE  Following(m)'
  <2>1. stored'[m] = stored[m] \cup {hash}
    BY <1>1 DEF TypeInv, TypeOK
  <2>2. Got(m)' = Got(m) \cup {hash}
    <3>1. Got(m) \subseteq Got(m)'
      BY <1>3, <2>1, GotIs, GotNext
    <3>2. hash \in Got(m)'
      BY <2>1, GotNext
    <3>3. Got(m)' \subseteq Got(m) \cup {hash}
      BY <1>4, <2>1, GotIs, GotNext
    <3> QED BY <3>1, <3>2, <3>3
  <2>3. Wanted(m)' = Wanted(m) \cup {hash}
    BY <2>2 DEF Wanted
  <2>4. Closed(m)'
    <3>1. tip[m] \in Wanted(m)'
      BY <1>2, <2>2, <2>3, GotIs DEF Wanted
    <3> QED BY <1>2, <1>7, <2>3, <3>1, ClosedGrows DEF Following
  <2>5. transit'[m] # <<>> => \E d \in DOMAIN conns' : Asks(m, d)'
    <3> SUFFICES ASSUME transit'[m] # <<>> PROVE \E d \in DOMAIN conns' : Asks(m, d)'
      OBVIOUS
    <3>1. PICK d \in DOMAIN conns : Asks(m, d)
      BY <1>7 DEF Following
    <3>2. d \in DOMAIN conns'
      BY <1>3, <3>1
    <3>3. Asks(m, d)' <=> Asks(m, d)
      BY DEF Asks
    <3> QED BY <3>1, <3>2, <3>3
  <2>6. ASSUME NEW d \in DOMAIN conns' PROVE Steady(m, d)'
    <3>1. CASE d \in DOMAIN conns
      <4>1. \A e \in DOMAIN conns' : e.node = m /\ e.at = "filter" => e \in DOMAIN conns
        OBVIOUS
      <4> QED BY <1>7, <2>2, <3>1, <4>1, SteadyStays
    <3>2. CASE d \notin DOMAIN conns
      <4>1. ~Asks(m, d) /\ d.at \notin {"filter", "trim"}
        BY <3>2 DEF Aside
      <4> QED BY <4>1, SteadyNew
    <3> QED BY <3>1, <3>2
  <2>7. transit'[m] \in Seq(DOMAIN blocks')
    <3>1. DOMAIN blocks \subseteq DOMAIN blocks'
      BY DEF BlocksGrow
    <3> QED BY <1>7, <3>1 DEF Following
  <2> QED BY <2>4, <2>5, <2>6, <2>7 DEF Following
<1> QED BY <1>5, <1>6, <1>7

LEMMA MineFollows ==
  ASSUME TypeInv, Held, Told, BlocksGrow,
         NEW m \in Nodes, NEW c \in DOMAIN conns, NEW hash \in MinedHashes, MineTx(m, c, hash)
  PROVE  /\ Told'
         /\ \A n \in Nodes : Following(n) => Following(n)'
<1> DEFINE next == { [c EXCEPT !.at = "mined", !.ID = hash] }
<1>1. /\ Proceed(c, next, {}) /\ UNCHANGED transit
      /\ c.node = m /\ c.at = "mine" /\ ConnOK(c)
  BY DEF MineTx, TypeInv, memory
<1>2. PICK txs : MakesBlock(m, txs, hash)
  BY MineMakesBlock DEF MineTx
<1>3. \A d \in next : Aside(d) /\ d.at = "mined"
  BY <1>1 DEF ConnOK, Aside, Asks
<1>4. Aside(c)
  BY <1>1 DEF Aside, Asks
<1> HIDE DEF next
<1>5. \A d \in DOMAIN conns' :
        d \in DOMAIN conns \/ (Aside(d) /\ d.at \notin {"new", "filter", "trim"})
  BY <1>1, <1>3, ProceedConns
<1>6. \A d \in DOMAIN conns : d \in DOMAIN conns' \/ Aside(d)
  BY <1>1, <1>4, ProceedLeaves
<1> QED BY <1>1, <1>2, <1>5, <1>6, MadeFollows

LEMMA NowFollows ==
  ASSUME TypeInv, Told, BlocksGrow,
         NEW m \in Nodes, NEW t, NEW hash, AddTXNNow(m, t, hash)
  PROVE  /\ Told' /\ UNCHANGED <<transit, misled>>
         /\ \A n \in Nodes : Following(n) => Following(n)'
<1>1. PICK r : /\ conns' = conns (+) SetToBag({r})
               /\ r = [node |-> m, at |-> "close", cmd |-> "addtxn", from |-> m,
                       BestHeight |-> 0, Type |-> "", Items |-> <<>>, ID |-> t]
  BY PostedNow
<1>2. DOMAIN conns' = DOMAIN conns \cup {r} /\ Aside(r) /\ r.at = "close"
  BY <1>1, BagAddDomain DEF Aside, Asks
<1>3. UNCHANGED <<transit, misled>> /\ MakesBlock(m, {t}, hash)
  BY PostedNow
<1> QED BY <1>2, <1>3, MadeFollows

\* A block that comes to a node that was not misled is one it asked for, and the
\* next is asked for where it is.
LEMMA BlockFollows ==
  ASSUME TypeInv, Held, Addressed, Told, BlocksGrow, DOMAIN transit = Nodes,
         NEW m \in Nodes, NEW c \in DOMAIN conns, HandleBlock(m, c)
  PROVE  /\ Told'
         /\ NoneHasEnded => \A n \in Nodes \ misled' : Following(n) => Following(n)'
<1> DEFINE ask == SendGetData(c.from, m, "block", Head(transit[m]))
           sent == IF transit[m] = <<>> THEN {} ELSE {ask}
           stage == IF transit[m] = <<>> THEN "close" ELSE "trim"
           next == At(c, stage)
<1>1. /\ Proceed(c, next, sent) /\ UNCHANGED <<blocks, transit>>
      /\ stored' = [stored EXCEPT ![m] = @ \cup {c.ID}]
      /\ Misleads(m, BlockMisleads(m, c.from))
      /\ c.at = "new" /\ c.cmd = "block" /\ c.node = m /\ ConnOK(c) /\ ~IsOpen(m)
  BY DEF HandleBlock, Begins, TypeInv, Store
<1>2. \A d \in next : /\ d.at = stage /\ d.node = m
                      /\ \A n : ~Asks(n, d)
  <2>1. stage # "new"
    OBVIOUS
  <2> HIDE DEF stage
  <2> QED BY <1>1, <2>1 DEF At, ConnOK, Asks
<1>3. /\ ask.at = "new" /\ ask.cmd = "getdata" /\ ask.ID = Head(transit[m])
      /\ ask.node = c.from
      /\ \A n : Asks(n, ask) <=> n = m
  <2>1. IsRequest(ask, "getdata", c.from, Head(transit[m]), m)
    BY WhoAsks
  <2> HIDE DEF ask
  <2> QED BY <2>1 DEF IsRequest
<1>4. \A n : Asks(n, c) <=> n = m
  BY <1>1 DEF Asks
<1>5. \A d \in sent : d = ask /\ transit[m] # <<>>
  OBVIOUS
<1>6. stage = IF transit[m] = <<>> THEN "close" ELSE "trim"
  OBVIOUS
<1>7. transit[m] # <<>> => ask \in sent
  OBVIOUS
<1> HIDE DEF next, ask, sent, stage
<1>8. Told'
  <2>1. \A d \in next \cup sent : d.at = "new" /\ d.cmd = "inv" => Tells(d)'
    BY <1>2, <1>3, <1>5, <1>6
  <2> QED BY <1>1, <2>1, ToldOn
<1>9. ASSUME NoneHasEnded, NEW n \in Nodes \ misled', Following(n), n # m
      PROVE  Following(n)'
  <2>1. stored'[n] = stored[n] /\ transit'[n] = transit[n]
    BY <1>1, <1>9 DEF TypeInv, TypeOK
  <2>2. \A d \in next \cup sent : ~Asks(n, d) /\ ~(d.node = n /\ d.at \in {"filter", "trim"})
    BY <1>2, <1>3, <1>5, <1>9
  <2> QED BY <1>1, <1>4, <1>9, <2>1, <2>2, FollowsOnActs
<1>10. ASSUME NoneHasEnded, m \notin misled', Following(m)
       PROVE  Following(m)'
  <2>1. /\ \A d \in DOMAIN conns : ~(d.node = m /\ d.at = "filter")
        /\ transit[m] # <<>> => Head(transit[m]) \in stored[c.from]
    BY <1>1, <1>10 DEF Misleads, BlockMisleads
  <2>2. PICK list : list = transit[m] /\ list \in Seq(DOMAIN blocks)
    BY <1>10 DEF Following
  <2>3. \A d \in DOMAIN conns : ~(d.node = m /\ d.at = "trim")
    BY <1>1 DEF IsOpen, OpenStages
  <2>4. c.from \in Nodes /\ starts[c.from] >= 1 /\ stored[c.from] \subseteq stored'[c.from]
    BY <1>1 DEF ConnOK, Addressed, BlocksGrow
  <2>5. stored'[m] = stored[m] \cup {c.ID} /\ c.ID \in Got(m)
    BY <1>1, <1>4, GotIs DEF TypeInv, TypeOK
  <2>6. list # <<>> => ask \in DOMAIN conns'
    BY <1>1, <1>3, <1>7, <1>10, <2>2, <2>4, StartedListens, ProceedLeaves
  <2>7. Got(m) \subseteq Got(m)' /\ (list # <<>> => Head(list) \in Got(m)')
    <3>1. c.ID \in Got(m)'
      BY <2>5, GotNext
    <3>2. Got(m) \subseteq Got(m)'
      BY <1>1, <3>1, GotGrows
    <3> QED BY <1>3, <2>2, <2>6, <3>2, GotNext
  <2>8. Wanted(m)' = Wanted(m)
    <3>1. Got(m)' \subseteq Wanted(m)
      <4> SUFFICES ASSUME NEW h \in Got(m)' PROVE h \in Wanted(m)
        OBVIOUS
      <4>1. h \in Got(m) \/ h \in stored'[m] \/ \E d \in next \cup sent : Asks(m, d) /\ h = d.ID
        BY <1>1, GotAtMost
      <4>2. CASE h \in Got(m)
        BY <4>2 DEF Wanted
      <4>3. CASE h \in stored'[m]
        BY <2>5, <4>3, GotIs DEF Wanted
      <4>4. ASSUME NEW d \in next \cup sent, Asks(m, d), h = d.ID PROVE h \in Wanted(m)
        <5>1. d = ask /\ list # <<>> /\ h = Head(list)
          BY <1>2, <1>3, <1>5, <2>2, <4>4
        <5>2. h \in ToSet(list)
          BY <2>2, <5>1, HeadAndTail
        <5> QED BY <2>2, <5>2 DEF Wanted
      <4> QED BY <4>1, <4>2, <4>3, <4>4
    <3>2. transit'[m] = transit[m]
      BY <1>1
    <3> QED BY <2>7, <3>1, <3>2 DEF Wanted
  <2>9. Closed(m)'
    BY <1>10, <2>8, ClosedGrows DEF Following
  <2>10. transit'[m] # <<>> => \E d \in DOMAIN conns' : Asks(m, d)'
    <3>1. \A d : Asks(m, d)' <=> Asks(m, d)
      BY DEF Asks
    <3> QED BY <1>1, <1>3, <2>2, <2>6, <3>1
  <2>11. \A d \in DOMAIN conns' : d \in DOMAIN conns \/ d \in next \/ d \in sent
    BY <1>1, ProceedConns
  <2>12. ASSUME NEW d \in DOMAIN conns' PROVE Steady(m, d)'
    <3>1. CASE d \in DOMAIN conns
      BY <1>10, <2>3, <2>7, <3>1, SteadyStays
    <3>2. CASE d \in next /\ list = <<>>
      <4>1. d.at = "close" /\ ~Asks(m, d)
        BY <1>2, <1>6, <2>2, <3>2
      <4> QED BY <4>1, SteadyNew
    <3>3. CASE d \in next /\ list # <<>>
      <4>1. d.at = "trim" /\ ~Asks(m, d)'
        BY <1>2, <1>6, <2>2, <3>3 DEF Asks
      <4>2. \A e \in DOMAIN conns' : ~(e.node = m /\ e.at = "filter")
        BY <1>2, <1>3, <1>5, <1>6, <2>1, <2>11
      <4>3. transit'[m] # <<>> /\ Head(transit'[m]) \in Got(m)'
        BY <1>1, <2>2, <2>7, <3>3
      <4> QED BY <4>1, <4>2, <4>3 DEF Steady
    <3>4. CASE d \in sent
      <4>1. d = ask /\ ask.ID \in stored'[ask.node]
        BY <1>3, <1>5, <2>1, <2>4, <3>4
      <4> QED BY <1>3, <4>1, SteadyNew
    <3> QED BY <2>11, <3>1, <3>2, <3>3, <3>4
  <2>13. transit'[m] \in Seq(DOMAIN blocks')
    BY <1>1, <2>2
  <2> QED BY <2>9, <2>10, <2>12, <2>13 DEF Following
<1> QED BY <1>8, <1>9, <1>10

\* A step of a handler that does not end its process.
LEMMA HandlerFollows ==
  ASSUME TypeInv, Held, Addressed, Tree, FollowInv, BlocksGrow,
         NEW m \in Nodes, NEW c \in DOMAIN conns, Handle(m, c), ~Panics(m, c)
  PROVE  /\ Told' /\ DOMAIN transit' = Nodes /\ misled \subseteq misled'
         /\ NoneHasEnded => \A n \in Nodes \ misled' : Following(n) => Following(n)'
<1> USE DEF FollowInv, storage, history, memory
<1>1. CASE \/ HandleVersion(m, c) \/ AddToKnown(m, c) \/ HandleGetBlocks(m, c)
           \/ CloseDB(m, c) \/ HandleTxZero(m, c) \/ HandleInvTx(m, c) \/ HandleTx(m, c)
           \/ MineTxNothing(m, c) \/ MineTxAnnounces(m, c)
  <2>1. PICK next, sent : AsideStep(c, next, sent)
    BY <1>1, SideHandlers
  <2>2. /\ Proceed(c, next, sent) /\ UNCHANGED <<blocks, stored, transit, misled>>
        /\ \A d \in next \cup sent : Aside(d) /\ Tells(d)
        /\ \A n : ~Asks(n, c)
    BY <2>1 DEF AsideStep, Aside
  <2>3. Told'
    <3>1. \A d : Tells(d)' <=> Tells(d)
      BY <2>2 DEF Tells, Branch
    <3> QED BY <2>2, <3>1, ToldOn
  <2>4. ASSUME NEW n \in Nodes, Following(n) PROVE Following(n)'
    <3>1. \A d \in next \cup sent : ~Asks(n, d) /\ ~(d.node = n /\ d.at \in {"filter", "trim"})
      BY <2>2 DEF Aside
    <3> QED BY <2>2, <2>4, <3>1, FollowsOnActs
  <2> QED BY <2>2, <2>3, <2>4
<1>2. CASE HandleGetData(m, c)
  <2>1. UNCHANGED <<transit, misled>>
    BY <1>2 DEF HandleGetData
  <2> QED BY <1>2, <2>1, GetDataFollows
<1>3. CASE HandleInvBlock(m, c)
  <2>1. DOMAIN transit' = DOMAIN transit /\ misled \subseteq misled'
    BY <1>3 DEF HandleInvBlock, Misleads
  <2> QED BY <1>3, <2>1, InvBlockFollows
<1>4. CASE HandleBlock(m, c)
  <2>1. UNCHANGED transit /\ misled \subseteq misled'
    BY <1>4 DEF HandleBlock, Misleads
  <2> QED BY <1>4, <2>1, BlockFollows
<1>5. CASE FilterTransit(m, c) \/ TrimTransit(m, c)
  <2>1. DOMAIN transit' = DOMAIN transit /\ UNCHANGED misled
    BY <1>5 DEF FilterTransit, TrimTransit
  <2> QED BY <1>5, <2>1, ListFollows
<1>6. ASSUME NEW hash \in MinedHashes, MineTx(m, c, hash)
      PROVE  /\ Told' /\ DOMAIN transit' = Nodes /\ misled \subseteq misled'
             /\ NoneHasEnded => \A n \in Nodes \ misled' : Following(n) => Following(n)'
  <2>1. UNCHANGED <<transit, misled>>
    BY <1>6 DEF MineTx
  <2> QED BY <1>6, <2>1, MineFollows
<1> QED BY <1>1, <1>2, <1>3, <1>4, <1>5, <1>6 DEF Handle, Panics

\* A step outside the handlers adds connections that do not ask for blocks.
LEMMA OutsideFollows ==
  ASSUME TypeInv, Held, FollowInv, BlocksGrow, NEW m \in Nodes,
         StartServer(m) \/ Accept(m) \/ \E t \in Txs : AddTXN(m, t)
  PROVE  /\ Told' /\ UNCHANGED <<transit, misled>>
         /\ \A n \in Nodes : Following(n) => Following(n)'
<1> USE DEF storage, memory, history
<1>1. UNCHANGED <<blocks, stored, transit, misled>>
  BY DEF StartServer, Accept, AddTXN
<1>2. \E S : /\ conns' = conns (+) SetToBag(S) \/ (S = {} /\ conns' = conns)
             /\ \A d \in S : Aside(d) /\ Tells(d)
  <2>1. CASE StartServer(m)
    <3> DEFINE sent == IF m = NODE_ZERO THEN {}
                       ELSE { SendVersion(NODE_ZERO, m, GetBestHeight(m)) }
               S == { d \in sent : Listening(d.node) }
    <3>1. conns' = conns (+) SetToBag(S)
      BY <2>1 DEF StartServer
    <3>2. \A d \in S : Aside(d) /\ Tells(d)
      BY WhoAsks
    <3> HIDE DEF S
    <3> QED BY <3>1, <3>2
  <2>2. CASE Accept(m)
    <3>1. conns' = conns
      BY <2>2 DEF Accept
    <3> SUFFICES \E S : S = {}
      BY <3>1
    <3> QED OBVIOUS
  <2>3. ASSUME NEW t \in Txs, AddTXN(m, t)
        PROVE  \E S : /\ conns' = conns (+) SetToBag(S)
                      /\ \A d \in S : Aside(d) /\ Tells(d)
    <3> DEFINE request == NewConn(m, "addtxn", m, 0, "", <<>>, t)
               sent == { SendTx(NODE_ZERO, m, t) }
               S == At(request, "close") \cup { d \in sent : Listening(d.node) }
    <3>1. conns' = conns (+) SetToBag(S)
      BY <2>3 DEF AddTXN
    <3>2. \A d \in At(request, "close") : Aside(d) /\ Tells(d)
      BY DEF At, NewConn, Aside, Asks, Tells
    <3>3. \A d \in sent : Aside(d) /\ Tells(d)
      BY WhoAsks
    <3>4. \A d \in S : Aside(d) /\ Tells(d)
      BY <3>2, <3>3
    <3> HIDE DEF S
    <3> QED BY <3>1, <3>4
  <2> QED BY <2>1, <2>2, <2>3
<1>3. PICK S : /\ conns' = conns (+) SetToBag(S) \/ (S = {} /\ conns' = conns)
               /\ \A d \in S : Aside(d) /\ Tells(d)
  BY <1>2
<1>4. DOMAIN conns' = DOMAIN conns \cup S
  BY <1>3, BagAddDomain
<1>5. Told'
  <2>1. \A d : Tells(d)' <=> Tells(d)
    BY <1>1 DEF Tells, Branch
  <2>2. \A d \in DOMAIN conns' : Tells(d)
    BY <1>3, <1>4 DEF FollowInv, Told, Tells
  <2>3. \A d \in DOMAIN conns' : Tells(d)'
    BY <2>1, <2>2
  <2> QED BY <2>3 DEF Told, Tells
<1>6. ASSUME NEW n \in Nodes, Following(n) PROVE Following(n)'
  BY <1>1, <1>3, <1>4, <1>6, FollowsOn DEF Aside
<1> QED BY <1>1, <1>5, <1>6

LEMMA FollowNext ==
  /\ TypeInv /\ Held /\ Addressed /\ Tree /\ FollowInv /\ [Next]_vars
  => FollowInv'
<1> SUFFICES ASSUME TypeInv, Held, Addressed, Tree, FollowInv, [Next]_vars
             PROVE  FollowInv'
  OBVIOUS
<1>1. BlocksGrow
  BY BlocksDoGrow
<1>2. NoneHasEnded' => NoneHasEnded
  BY StepsGoOn
<1>3. CASE UNCHANGED vars
  <2>1. UNCHANGED <<blocks, stored, transit, misled, conns>>
    BY <1>3 DEF vars, storage, memory, history
  <2>2. \A n \in Nodes : Following(n) => Following(n)'
    BY <1>1, <2>1, FollowsOn
  <2>3. Told'
    BY <2>1 DEF FollowInv, Told, Branch
  <2> QED BY <1>2, <2>1, <2>2, <2>3 DEF FollowInv
<1>4. ASSUME NEW m \in Nodes, StartServer(m) \/ Accept(m) \/ \E t \in Txs : AddTXN(m, t)
      PROVE  FollowInv'
  BY <1>1, <1>2, <1>4, OutsideFollows DEF FollowInv
<1>9. ASSUME NEW m \in Nodes, NEW t \in Txs, NEW hash \in MinedHashes, AddTXNNow(m, t, hash)
      PROVE  FollowInv'
  BY <1>1, <1>2, <1>9, NowFollows DEF FollowInv
<1>5. ASSUME NEW m \in Nodes, NEW c \in DOMAIN conns, Handle(m, c), ~Panics(m, c)
      PROVE  FollowInv'
  BY <1>1, <1>2, <1>5, HandlerFollows DEF FollowInv
<1>6. ASSUME NEW m \in Nodes, ProcessEnds(m), ~NoneHasEnded'
      PROVE  FollowInv'
  <2>1. /\ DOMAIN conns' \subseteq DOMAIN conns /\ UNCHANGED <<blocks, stored>>
        /\ DOMAIN transit' = DOMAIN transit
    BY <1>6 DEF ProcessEnds, storage
  <2>2. Told'
    BY <2>1 DEF FollowInv, Told, Branch
  <2> QED BY <1>6, <2>1, <2>2 DEF FollowInv
<1>7. CASE NoneHasEnded'
  BY <1>3, <1>4, <1>5, <1>7, <1>9, StepsGoOn
<1>8. CASE ~NoneHasEnded'
  <2>1. ASSUME NEW m \in Nodes, NEW c \in DOMAIN conns, Panics(m, c)
        PROVE  ProcessEnds(m)
    BY <2>1 DEF Panics, HandleVersionPanics, TrimPanics, OpenDBPanics, MineTxPanics
  <2> QED BY <1>3, <1>4, <1>5, <1>6, <1>8, <1>9, <2>1 DEF Next, Serve, Killed
<1> QED BY <1>7, <1>8

\* A node whose store has the parent of each block it has gets to genesis.
LEMMA ClosedStoreReachesGenesis ==
  ASSUME TypeInv, Tree, NEW n \in Nodes,
         \A h \in stored[n] : blocks[h].PrevHash \in stored[n] \cup {Nil}
  PROVE  GenesisHash \in ToSet(GetBlockHashes(n))
<1> DEFINE B == [h \in stored[n] |-> blocks[h]]
<1>1. stored[n] \subseteq DOMAIN blocks /\ tip[n] \in stored[n]
  BY DEF TypeInv, TypeOK
<1>2. IsFiniteSet(DOMAIN B) /\ Nil \notin DOMAIN B /\ tip[n] \in DOMAIN B
  <2>1. IsFiniteSet(stored[n])
    BY <1>1, FS_Subset DEF Tree
  <2> QED BY <1>1, <2>1 DEF Tree
<1>3. Linked(B)
  <2> SUFFICES ASSUME NEW h \in stored[n]
               PROVE  /\ blocks[h].Height \in Nat
                      /\ blocks[h].PrevHash \in stored[n] =>
                           blocks[h].Height = blocks[blocks[h].PrevHash].Height + 1
    BY DEF Linked
  <2> QED BY <1>1 DEF Tree, Linked
<1>4. PICK s : s = Iterate(B, tip[n])
  OBVIOUS
<1>5. s \in Seq(DOMAIN B) /\ Len(s) >= 1
  <2> HIDE DEF B
  <2> QED BY <1>2, <1>4, IterateChain
<1>6. B[s[Len(s)]].PrevHash \notin DOMAIN B
  <2> HIDE DEF B
  <2> QED BY <1>2, <1>3, <1>4, IterateEnds
<1>7. s[Len(s)] \in stored[n] /\ s[Len(s)] \in ToSet(s)
  <2>1. s \in Seq(stored[n]) /\ Len(s) \in 1..Len(s)
    BY <1>5
  <2> QED BY <2>1, Members
<1>8. blocks[s[Len(s)]].PrevHash = Nil
  BY <1>6, <1>7
<1>9. s[Len(s)] = GenesisHash
  BY <1>1, <1>7, <1>8 DEF Tree
<1> QED BY <1>4, <1>7, <1>9 DEF GetBlockHashes

\* Once all is quiet, a node that was not misled, and no process has ended, has the
\* whole branch of its tip, for any number of nodes, blocks and messages.
THEOREM PrintchainReachesGenesis == Spec => []PrintchainReturnsAll
<1>1. /\ TypeInv /\ Held /\ Addressed /\ Tree /\ SourcesComeFirst /\ FollowInv /\ [Next]_vars
      => TypeInv' /\ Held' /\ Addressed' /\ Tree' /\ SourcesComeFirst' /\ FollowInv'
  BY TypeNext, HeldNext, AddressedNext, TreeNext, FollowNext
<1>2. TypeInv /\ Tree /\ FollowInv => PrintchainReturnsAll
  <2> SUFFICES ASSUME TypeInv, Tree, FollowInv, Quiet, NoneHasEnded, NEW n \in Nodes \ misled
               PROVE  GenesisHash \in ToSet(GetBlockHashes(n))
    BY DEF PrintchainReturnsAll
  <2>1. DOMAIN conns = {}
    BY DEF Quiet, EmptyBag, SetToBag
  <2>2. Following(n)
    BY DEF FollowInv
  <2>3. transit[n] = <<>>
    BY <2>1, <2>2 DEF Following
  <2>4. Wanted(n) = stored[n]
    <3>1. DOMAIN <<>> = {}
      OBVIOUS
    <3>2. ToSet(<<>>) = {}
      BY <3>1 DEF ToSet
    <3> QED BY <2>1, <2>3, <3>2 DEF Wanted, Got
  <2> QED BY <2>2, <2>4, ClosedStoreReachesGenesis DEF Following, Closed
<1> QED BY <1>1, <1>2, TypeInit, HeldInit, AddressedInit, TreeInit, FollowInit, PTL DEF Spec
=============================================================================
