# A verification of blockchain-Tensor

TLA+ models of the node in `src/`, runs of TLC on small instances of them, and
theorems about them checked by TLAPS. References like chain.go:128 are to the
files under `src/`.

## 1. The system

A node is one process: an HTTP server (`blockchain_server/`), a TCP server for
peers (`network/`), a ledger in a badger key-value store (`blockchain/`) and a
wallet file (`wallet/`).

| Component | State it keeps | Operations | What makes it correct |
|---|---|---|---|
| Chain store (chain.go, block.go) | hash -> block and the newest hash in badger; `LastHash` in the `Blockchain` object | `LoadBlockchain`, `MineBlock`, `AddBlock`, iterator, `FindTransaction`, `VerifyTransaction` | the stored tip is a stored block, is the highest one, never sinks, agrees with memory |
| Index of unspent outputs (utxo.go, `FindUTXO`) | `utxo-<id>` -> outputs left, in badger | `Reindex` (delete, then fill), `Update`, `FindSpendableOutputs` | the index is what the chain says is unspent, before and after each operation and each crash |
| Transactions (transaction.go, tx.go) | none | `NewTransaction`, `CoinbaseTX`, `Sign`, `Verify` | inputs name the outputs they were chosen for |
| HTTP server | `cache` (the chain object), one goroutine per request | nine routes; each opens the store, works, closes it | every request ends; no request disturbs another's use of the store |
| Network server (network.go) | `KnownNodes`, `memoryPool`, `blocksInTransit`, unguarded globals; one goroutine per connection | `HandleVersion`, `HandleGetBlocks`, `HandleInv`, `HandleGetData`, `HandleBlock`, `HandleTx`, `HandleAddr`, `MineTx` | nodes converge on the highest chain; a pooled transaction is mined once |
| Wallet file (wallet.go) | `../tmp/wallets.data`, shared by every node of the machine | `CreateWallets` (load), `AddAccount`, `SaveFile` | an account that was handed out stays in the file |
| Accounts (account.go), Merkle tree, proof of work | none | pure | split and join of keys are inverse; the tree is total |

How they interact. Every HTTP handler takes the `Blockchain` object from
`cache`, opens the store (`OpenDB` puts the handle into the object), defers
`CloseDB` and works. The network's handlers do the same with the object that
`StartServer` was given. Nothing but badger's lock on the store's directory
keeps two of them apart: the second `badger.Open` fails, and `OpenDB` panics.
net/http recovers a panic in a handler; in every other goroutine it ends the
process. `Run` loads the chain, starts the network's goroutine, which loads it
*again* into a second object while HTTP requests are already served, and
replaces the first one in `cache`. Nodes exchange one message per connection.

The hard parts: who may use the store and who closes it; operations of several
database transactions with a crash between them; blocks arriving in any order;
the positions of outputs in an index whose lists shrink; two servers that share
unguarded memory. PROJECT.json lists each hazard at its line.

**The tip key.** `LoadBlockchain` keeps the newest hash under
`LAST_HASH_KEY = "lastHash"` (chain.go:21), `MineBlock` and `AddBlock` under the
literal `"lh"` (chain.go:128, 155, 179, 190). `"lh"` is never written before it
has been read, so `MineBlock` and `AddBlock` always panic and no chain grows.
Ledger takes both spellings as constants. With the two different, they are
the source as it stands; theorem `ChainNeverGrows` and the run `addtxn` are
about that. With the two equal they are the same code in the one respect
repaired, which is the only way to say anything about the rest of it: the run
`one_key` and the findings `inputs` and `utxoset` are about that, and say so.
Network and TwoChains have one key throughout: what they show is about the code
after that repair.

## 2. Modules

- **Chain** - data and pure functions of package `blockchain`: transactions,
  their identity, the iterator, `FindTransaction`, `VerifyTransaction`,
  `FindUTXO`, `UTXOSet.Update`, `FindSpendableOutputs`, `NewTransaction`,
  `GetUnspentOutputs`. A block hash is a name; a transaction's `HashID` is its
  content (equal contents, equal ids; the signature is not hashed, because
  `tx.Hash` runs before signing); key, key hash and address are one name, the
  owner; a signature is the bit `Verifies`. That bit may be false for any
  payment: transaction.go:90 and :121-133 join and split numbers of unequal
  length, and the hash covers gob's type numbers, which differ between
  processes. Output positions count from 0 as in the source.
- **ChainProofs** - what the functions of Chain compute, for any store and any
  index; LedgerProofs and NetworkProofs extend it.
- **Ledger** (EXTENDS Chain) - one node's store and its operations.
  `blocks`, `tips`, `index` survive a crash; `LastHash` and `step` do not.
  `step` says which database transaction of the operation in progress is next:
  `LoadBlockchain` -> `ReindexDelete` -> `ReindexFill`, `AddTxnMined` ->
  `AddTxnUpdate`, `HandleBlock` -> (reindex unless more blocks are in transit).
  `Crash` may come anywhere. `lastTxn` is a history variable, the payment the
  last /addtxn built. Panics are outcomes: recovered ones leave the store as it
  was (`AddTxnRefused`, `AddTxnNotMined`), the network's end the process
  (`HandleBlockPanics`).
- **MCLedger** - two blocks of a peer (one spends genesis), amounts, symmetry.
- **LedgerProofs** (EXTENDS ChainProofs) - the theorems about Ledger.
- **Sessions** - the process: goroutines, the two chain objects and the handle
  in each, badger's lock, the cache, signals, kills, restarts. It abstracts from
  what sessions do with the store (that is Ledger) and keeps who has it: every
  handler that opens it is the same to this module, whichever route or message
  it serves. Its runs need no module of their own: `MCSessions.cfg` gives it
  sets of model values.
- **StoreAccess** - what Sessions promises: the store is taken in turns and
  let go every time.
- **SessionsProofs** - the theorems about Sessions.
- **Network** (EXTENDS Chain) - several nodes. A message is one TCP connection
  and a connection is one goroutine of its receiver, so that one bag, `conns`,
  holds both: a connection nobody has handled yet is at "new", a handler between
  two of its steps at the next one. A handler that read state, sent something
  and writes state afterwards is two actions (`HandleInvBlock` and
  `FilterTransit`, `HandleBlock` and `TrimTransit`, `HandleVersion` and
  `AddToKnown`, `MineTx` and `MineTxAnnounces`), since what it sent is answered
  by another goroutine at once. A handler in one of `OpenStages` has its node's
  store open; another that needs it panics and ends the process
  (`OpenDBPanics`), and so do `HandleVersion` and `MineTx` when they open it
  again themselves. `SendData` to a node that does not listen drops it from
  `known`. `stored`, `tip` survive `ProcessEnds`; `known`, `transit`, `pool` and
  the node's connections do not. A block is its hash and a payment its id;
  which transaction a payment spends from is the constant `Source`. The tip key
  is one key here, or nothing would ever be mined. Every node but NODE_ZERO
  mines the pool, as `startNetworkServer` makes it. A payment posted with
  minenow (`AddTXNNow`, for the payments in `NowTxs`) is mined at once by the node
  it is posted to, NODE_ZERO included, and announced to nobody.
- **MCNetwork** - the nodes, the payments and the pasts of its instance.
- **BlockSpread** - what Network promises about blocks: each is made on a tip,
  copied unchanged from a node that has it, never dropped, and a tip is the
  first of the highest blocks its node got.
- **NetworkProofs** (EXTENDS ChainProofs) - the theorems about Network and
  BlockSpread.
- **WalletFile** - the wallet file and the requests of several nodes that read
  it, change it, truncate it and write it. `Truncate` and `Write` are the two
  halves of `os.WriteFile`, with the file `Torn` in between. `Abandon` is a
  writer that fails (`SaveFilePanics`) or a node that is killed (`Crash`).
- **MCWalletFile**, **WalletProofs** - instances and theorems.
- **Halves** - two numbers joined to one byte string and cut in its middle, as
  signatures and public keys are.
- **Signing** (EXTENDS Halves) - processes that start, stop, encode, sign and
  verify. A gob stream names types by numbers that the process gives out when
  it first encodes a value of each; the hash that is signed is of such a
  stream, so the model keeps `number` per process and takes from a payment's
  bytes only what the numbering contributes.
- **MCSigning**, **SigningProofs** - an instance and theorems, Halves' too.
- **BlockMaking** - `CreateBlock`: the Merkle tree level by level, its panics,
  and the search for a nonce. Hashes are constructors.
- **BlockMakingProofs** - its theorems.
- **TwoChains** (EXTENDS Chain) - the two `Blockchain` objects of a process over
  one store, the cache, and requests that hold the object they took from it.
  Blocks are made here, on the stored tip, or by a peer on any block, and
  `HandleBlock` stores a peer's in any order, whether or not the parent is there,
  as `AddBlock` does. `blocks` are all made so far, `stored` those in the store.
- **TwoChainsProofs** (EXTENDS ChainProofs) - its theorems.

How they fit together. Sessions shows that the store is used in turns, which is
why Ledger, TwoChains and Network may take a session's work on it as steps of
one actor. Ledger has the index and every database transaction but one node;
Network has many nodes and of each only its chain. BlockMaking shows of how
many transactions a block can be made, which Network's `PoolPanics` uses.
Signing says when the bit `Verifies`, which Ledger and Network leave open, is
true.

Operators whose comment begins with "Mutant" are changed forms of the operator
below them (a dropped guard, a lost `+1`, a missing `defer`). No specification
uses them; each property of a passing run is violated when one of them takes
the operator's place.

## 3. Runs

| Run | Instance | Shows |
|---|---|---|
| `sessions` | 2 requests, 2 connections, not NODE_ZERO; 14113 states | ownership of the handle, exclusion, no leak, every request and start-up end, refinement of StoreAccess with fairness |
| `as_written` | keys differ; 3 accounts, every amount from -1 to 21 (genesis pays 20), two blocks of a peer | the store never holds more than genesis; every operation starts from an exact index |
| `one_key` | keys equal; 2 accounts, amount 15, 2 blocks mined here, 2 from a peer; 9838 states | the tip invariants, `Update` finds its inputs, `Reindex` is exact |
| `addtxn` | as `as_written` | violated: /addtxn adds the transaction (README.md:48) |
| `inputs` | as `one_key` | violated: each input references the output it came from (utxo.go:118) |
| `utxoset` | as `one_key` | violated: /utxoset answers the unspent outputs (README.md:54) |
| `network` | NODE_ZERO, killed and restarted once, and a miner; 117341 states, from five pasts (below) | blocks spread as BlockSpread says; NODE_ZERO catches up; one handler at most has a store; what was offered arrives; an empty transaction comes only of a lost pool; payments come after their source, are mined no more often than posted, in pairs surely, and are not lost from a pool; /printchain reaches genesis unless the node was misled (below) |
| `wallets` | 2 writers, 1 reader, 2 nodes, 3 accounts; 2433 | a torn file has a writer, or had one that failed; it stays torn then; requests that do not overlap lose nothing |
| `newaccount` | 2 writers | violated: the account is added to the wallet (README.md:24) |
| `signing` | 2 nodes, 3 starts, 1 payment, 5 kinds of values, 3 pairs of numbers; 323653 | who accepts whose payments, whatever was encoded before; uneven pairs never are |
| `blockmaking` | 0 to 9 transactions, 3 nonces, every set of good ones; 39514 | one to four transactions make a tree, the right one; the nonce is the first good one; it ends |
| `twochains` | 2 requests, 3 blocks made here or by a peer; 27869 | no object forks the chain; one is always current; every answer goes down from a hash that was the tip, and ends before genesis only at a block that was stored before its parent; once the second object is current it stays so |

The type invariants of Sessions, Network, WalletFile, Signing, BlockMaking and
TwoChains are proved and not run.

Why the bounds are enough. Amount 15 of 20 leaves change, so that an entry has
two outputs and loses one; 5 and 20 together are needed to pay 15 again, so
that a payment has several inputs from several entries. Two blocks mined here
and two of a peer make two branches of equal height, a branch that overtakes
the other, a child stored before its parent, and a mined block on a peer's.
Three goroutines racing for the store is what it takes for a loser to close a
winner's handle and a third to get in; `sessions` has five. Bounds:
`MinedHashes`, `PeerBlocks`, `Amounts`, `Owners`, `Requests`, `Connections`.

`network` begins in one of five pasts (`Pasts`). In three of them both nodes have
genesis. In the first there are three good payments, of which one spends another's
output: NODE_ZERO may mine that other itself (`AddTXNNow`), tell nobody, and offer
the other two, so that a miner has them in its pool and not the source on its
chain, which is what `SourcesComeFirst` is about (network.go:421). In the second
there are two good payments, one of them posted twice, so that one can be offered
again when it was mined, and be left in the pool when others are mined; in the
third a good one and two that do not verify, so that there may be nothing to
mine. In the fourth the miner is a block ahead and may mine another, the least in
which an announcement can cross a fetch in progress. In the fifth it is two
blocks ahead, which NODE_ZERO fetches one after the other, the second from what
it keeps in `blocksInTransit`. Two blocks can be mined.
What was posted before counts against `MaxPosts`, which is how each past leaves
its own payments to come. `Before`, `MaxStarts`, `MaxPosts`, `NowTxs`,
`Mortal` and `MinedHashes` are its bounds. In WalletFile two writers are what it takes to
lose an account and two nodes what it takes for one to die under the other. In
Signing three starts are two runs that create their store and one that finds
it, in any order. In BlockMaking five, six, seven, eight and nine transactions
have different reasons to panic (an odd level, and an empty one for none).

Deadlock is checked where the system cannot stop: in Ledger, Sessions and
TwoChains a process that is down can start again, in WalletFile a request can
always come. `network` and `signing` end when their bounds are reached and all
is quiet, and BlockMaking when the block is made; their
configurations say so.

**Fairness** (Sessions). The Go scheduler runs every goroutine that can run:
weak fairness of each goroutine's own steps, one formula per goroutine, and of
the `os.Exit` after the signal. Nothing makes requests, connections, signals,
crashes or restarts happen. A step "the handler returns" stands for whatever
the handler does, `net.Dial` included, which has no timeout of its own but the
operating system's. Ledger states no fairness: its properties are safety.

**Fairness** (Network, BlockMaking). Network: weak fairness of
`Serve(n)`, one formula per node: as long as some goroutine of a node can take
a step, one does. Since a node's connections are finitely many and each step
uses one up, that is enough for all of them to be served; nothing makes nodes
start, payments come or kills happen. `NodeZeroCatchesUp` and
`PairsAreMined` give up when a process ends, since nothing restarts it.
BlockMaking: weak fairness of `Next`, one goroutine that is never held up.
WalletFile, Signing and TwoChains have safety properties only.

**History variables.** `posts`, `offered`, `saved`, `lost`, `aborted`, `signed`,
`checked`, `printed`, `tips` and `orphans` remember what happened; no guard but those of
bounds and of what can be verified reads them. Two of them mark what a property
excludes: `overlapped` (WalletFile) that two /newaccount were at work together,
and `misled` (Network) the nodes whose `blocksInTransit` went wrong: an inventory
replaced a list that was worked on, or its last block has a parent that the node
lacks (`InventoryMisleads`); or a block came before `HandleInv` had taken it from
the list, or from a node that does not have the one to be asked for next
(`BlockMisleads`).

**What does not hold.** Beside the four findings, these stronger forms of the
properties fail, each for a reason in the code; the conditions in the properties
are there for them, and taking one out makes TLC show the behaviour:

- /printchain can stop at a gap (`PrintchainReturnsAll` without `misled`):
  `HandleInv` replaces `blocksInTransit` with the inventory that came last
  (network.go:249), so that a block announced while others are fetched makes the
  node forget these; and it takes the hash it asked for out of the list only
  after it has asked (network.go:252, 254-260), so that the block may come first,
  be asked for again, and the trim (network.go:313) takes off another. And what
  `MineTx` announces is its new block alone (network.go:447-451): a node that
  lacks the parent too does not ask for it. The new block becomes the tip all
  the same.
- `Reindex` can count outputs twice (`ReindexIsExact` without `IdsAreNew`): after
  the wrong positions of the finding `inputs` the same output can be chosen
  again, and a payment made again to the letter has the id of the first.
  `FindUTXO` then appends the outputs of both to one entry (chain.go:524), where
  `Update` replaces the entry.
- A payment may be mined on two nodes, or by one node as often as it was posted:
  `MinedAsOftenAsPosted` counts the blocks of each miner (`MinedBy`).
- One payment alone is never mined: `HandleTx` waits for two (network.go:229),
  so `PairsAreMined` speaks of pairs.
- A reader may meet the file between truncation and write and be aborted
  (wallet.go:81-84, 99): `LoadWalletAnswers` excepts the time a writer is at work.
- A node that was started on an existing store may refuse good payments of the
  others: it encodes a `TxOutputs` first (chain.go:490-491), so that gob numbers
  the types of a `Transaction` otherwise and the hash differs
  (transaction.go:118). So `CreatorsAccept` speaks of runs that created their
  store.
- A key or a signature whose first number is longer than its second is cut at
  the wrong byte (transaction.go:121-133, 90) and the payment is refused:
  `UnevenIsRefused`.
- A request that found the first `Blockchain` object in `cache` prints the chain
  from that object's `LastHash`, however old (blockchain_server.go:36, 43), and as
  far as parents are stored (chain.go:232-237): `PrintedFromATip` says from a hash
  that was the tip, not from the tip, and not down to genesis if a block came before
  its parent.

## 4. Proofs

All for every value of the constants, under the assumptions named in the
modules: hashes of genesis, own and peers' blocks are distinct and none is
empty; a peer's block is one higher than its parent, which is genesis or a
peer's block, and a list of transactions with lists of outputs; the data of the
coinbases this node makes is new (random bytes in the source), so that no
coinbase of genesis or of a peer is one of them and no payment's key is; what
happened before a Network began left trees of blocks rooted in genesis
(`BeforeAssumption`); goroutines have distinct names.

*Chain.* The models' iterator, `FlattenSeq`, `Picked` and the rest are recursive
functions; ChainProofs proves what each computes, by an induction theorem of its
own over sets of numbers (`NatSetInduction`, by the pigeonhole: were a number left
out, n -> n - 1 would map the finite set of those left out into itself, one to one
but not onto). `IterateVisits`, `IterateChain` and `IterateEnds`: the iterator
gives the hashes from a block down, each followed by its parent, until one is
missing, if parents are lower. `PaymentDraws`: the inputs of a payment name
positions that the entries of the index have, no two of them the same.
`UpdateGoesWell`: `Update` finds an entry for every input of such a payment,
because what is yet to be spent of an entry is never more than what is left of
it (`DrawsSuffice`, `SpendOne`, `SpendsAll`). `FindsEntries`: `FindUTXO` gives lists, none empty.

*Ledger, any keys.* `TypeCorrect`: `TypeOK` is not inductive, since
`MineBlock` takes the height of the block its tip names; the invariant adds
`TipsAreStored`.

*Ledger, two keys.* `ChainNeverGrows` and `IndexExactWhenIdle`: the invariant
is `NothingUnderLh`, that `tips["lh"]` is empty, the store holds genesis at
most, and the step between `MineBlock` and `Update` is never reached. It is
inductive because every writer of "lh" reads it first.

*Ledger's index, any keys.* `UpdatesFindTheirInputs`: the invariant, `LedgerInv`,
says that the stored blocks are well made, that the index has nonempty lists, that
no coinbase to come is in either, and that between `MineBlock` and `Update` the
newest block holds a payment whose inputs draw on the index (`Updates`).
`UpdateGoesWell` is then the step. `ReindexesAreExact`: for a branch whose
transactions have ids of their own, `FlattenSeq` joins one nonempty list per id at
most, and the outputs that newer transactions spend are all that any spends
(`BackwardPassIsExact`); the blocks need to be well made, which is `RecordsInv`.

*Ledger, one key.* `TipStaysStored`, `TipStaysHighest`, `HeightsStayExact`,
`TipOnlyRises`: the invariant `OneKeyInv` adds `StoredAsMade`, that a stored
block of a peer is the block the peer made, since a parent that arrives after
its child must have the height the child was made for. Each way to store a
block has a lemma (first load, mined, added), every other step leaves blocks
and tips alone (`OneKeySameStore`).

*Sessions.* `HandlesStayOwned`, `SessionsExclude`, `HandlesNeverLeak`: the
invariant is `Settled` (what start-up settles: objects, cache, who can be
running) and `Owned`. A session opens only a free store, so it excludes
others; a refused `OpenDB` leaves before its `CloseDB` is deferred, so the
field that the owner's `CloseDB` reads still holds the owner's handle.
`SessionsRefineAccess` is the safety part of the refinement.

*Network.* `NetworkTypeCorrect`: the invariant `TypeInv` adds to `TypeOK` what
messages may carry (`ConnOK`): a block message names a block that some node
stores, a transaction message what a pool may hold, a handler that has mined a
block of its own node. It is inductive because no store ever loses a block.
`NetworkImplementsSpread` maps each step to `Mine`, `Learn` or a stutter, and
needs that about block messages. What `BeforeAssumption` says of the pasts gives the initial
state. `NetworkKeepsBlocks` then follows from the
abstract theorem `SpreadKeepsBlocks`: no argument about messages is made twice.
`PooledPaymentsStay` needs that the block whose payments leave the pool is
stored by its node. `StoreHasOneHolder`: its invariant, `Held`, adds to
`StoreIsHeldOnce` that `conns` is a bag and that a handler that has begun belongs
to a node that is up; a step takes the store only when nobody has it (`IsOpen`),
keeps it while it has it alone, or ends the process (`HandlerHolds`,
`ProcessEndsHolds`). `EmptyAfterRestart`: until the process of NODE_ZERO ends,
`NoneLost` holds - a transaction it offers, or is asked for, is in its pool, which only
grows because NODE_ZERO never comes to a stage of `MineTx` (what it mines for
/addtxn with minenow does not go through its pool).

`SourcesAlwaysComeFirst`: `Tree` says that the blocks ever made are a finite tree;
a new block, of `MineTx` or of /addtxn with minenow (`NewBlocks`), is put on a tip,
and its node verified the payments against the branch of that tip, which is the same in its store and in all blocks as far as the
store has it. `Addressed` says which messages about payments there can be and
between whom. `OfferedPaymentsArrive`: `Arriving` follows each payment from the
offer over the request and the answer to the pool and the block, and says that
one of the four is there as long as no process has ended. `MinedOncePerPost`:
`Paid` is a budget. The copies of the four messages that bring a payment to a node,
the place in its pool and the blocks it has made of it are together no more than the
posts (NODE_ZERO makes blocks only of what is posted to it with minenow); a step takes at least as much from one as it gives to the next.
`PrintchainReachesGenesis`: `Following` says of a node that was not misled that
what it has, awaits or has listed has its parent there too, that its list is empty
unless a request or its answer is under way, and that it asks only who has the
block; `Told`, that an inventory is part of a branch its sender has. When all is
quiet the node awaits nothing, so its store has every ancestor of its tip.

*WalletFile.* `TornFilesHaveWriters` and `AbandonedFilesStay` are steps from
`TypeOK`: whoever makes the file torn is at "saving", and nobody gets from
"idle" to "loaded" while it is torn. `AbortsHaveWriters` follows from the first.
`OneWriterLosesNothing` is about any requests that have not overlapped; its
invariant, `OneAtATime`, adds that one of them at most is at work and that what
it loaded covers what was answered.

*Halves and Signing.* `EvenPairsAreRecovered` is by arithmetic on lengths and
extensionality of sequences. `SignersAlwaysAccept`: a number once given is never
changed while the process runs, so that a run that has encoded a Transaction
hashes all later ones alike (`SignersAreSettled`). `CreatorsAlwaysAccept`:
`AfterCreate` numbers a transaction's types before everything else, to the same
numbers in every process (`CreatorsAreSettled`). `UnevenAlwaysRefused` is
`EvenPairsAreRecovered` in the other direction.

*BlockMaking.* `BlocksHoldOneToFour`: how wide each level is, by the number of
transactions up to four, and that a wider tree meets an odd level before the
loop ends. `RootsAreBalanced`: after d levels the list holds the nodes of depth d
of the reference tree, whose last leaf is repeated (`Grown`), so that the one node
at the end is its root.
`MinedBlocksValidate`: no nonce below the current one is good.

*TwoChains.* The invariant is the type, `TipIsHighest` and `OneIsCurrent`
together: MineBlock builds on the stored tip, which is highest, whichever object
it works for, and moves that object to it, so that it becomes the current one.
`AnswersGoDownFromATip` adds `AnswerInv`: an object is only ever moved to the tip,
and a stored block has its parent stored or is in `orphans`. What `GetAllBlocks`
then gives is by ChainProofs' `IterateChain` and `IterateEnds`, which hold of a
store with gaps.

Only model-checked: liveness (`NodeZeroCatchesUp`, `PairsAreMined`, the ends of
requests, start-ups and of BlockMaking) and the fairness of the refinement of
StoreAccess, which are out of the prover's reach. The four findings are runs:
each needs one counterexample, not a proof.

## 5. Not modelled, and why

- Peers in Ledger extend only genesis and one another, not blocks mined here;
  Network, where they extend any, has no index. A payment that is not mined at
  once leaves the ledger alone and is in Network.
- Two payments that spend the same output go into one block (network.go:421):
  nothing in the code prevents it and nothing in the repository promises
  otherwise, so there is no property to state. Network keeps which transaction
  a payment spends from, not which output.
- `HandleAddr`, `SendAddr`, `RequestBlocks`: no node ever sends an addr message.
- What Go's map does when two goroutines use `memoryPool` at once, beyond the
  end of the process, which `Killed` covers for nodes in `Mortal`; the same for
  the cache in Sessions (`CacheRace`).
- A connection that breaks while `SendData` writes to it (network.go:146-148, a
  panic) is no outcome of its own: in Network it is one of the ends that `Killed`
  stands for, for nodes in `Mortal`.
- Payments of zero or less in Network: they have no input, and `MineTx` panics on
  them in `IsCoinbase` (transaction.go:203), as on `EmptyTx`, which is there.
  Ledger has them in the run `as_written`, where nothing can be mined.
- The address of a key (SHA-256, RIPEMD-160, checksum, base58): a conversion
  from key to name, and the models use one name for both. `ValidateAddress` is
  dead code.
- `PostBlockToDB` (dead code), `FindUnspentTransactions`' sum for /balance and
  other read-only answers, except /utxoset and /printchain.
- I/O errors of badger other than its lock, JSON and printing, the gob form of
  private keys.

## 6. What could come next

An abstract ledger in which an output is spent once, and where exactly Ledger
stops implementing it; the index as part of Network's nodes; that
`FindTransaction` and `VerifyTransaction` accept exactly what the branch of the
tip has, as a theorem of ChainProofs.
