----------------------------- MODULE BlockMaking ----------------------------
(***************************************************************************)
(* CreateBlock: the Merkle tree over a block's transactions, level by      *)
(* level, and the search for the nonce.  InitData builds the same tree     *)
(* again for every nonce; here it is built once.                           *)
(*                                                                         *)
(* SHA-256 is a constructor: of a leaf, of a pair, or of a nonce with all  *)
(* that InitData joins to it.  Which nonces hash below the target is the   *)
(* input's to say.                                                         *)
(***************************************************************************)
EXTENDS Naturals, Sequences

CONSTANTS
  Txs,       \* serialized transactions
  MaxTxs,    \* bounds the transactions of a block
  MaxNonce   \* math.MaxInt64

ASSUME BlockMakingAssumption == MaxTxs \in Nat /\ MaxNonce \in Nat \ {0}

VARIABLES
  txs,    \* the block's transactions
  below,  \* the nonces whose hash is below the target
  pc,     \* "leaves", "levels", "search", "done" or "panicked"
  width,  \* len(data), after padding
  nodes,  \* the level built so far
  i,      \* the loop counter of NewMerkleTree
  nonce,  \* of Run
  hash    \* the nonce of the last hash, MaxNonce before there is one

vars == <<txs, below, pc, width, nodes, i, nonce, hash>>

Nonces == 0 .. MaxNonce - 1

Leaf(tx) == <<"leaf", tx>>
Node(left, right) == <<"node", left, right>>

Init ==
  /\ txs \in UNION { [1 .. n -> Txs] : n \in 0 .. MaxTxs }
  /\ below \in SUBSET Nonces
  /\ pc = "leaves" /\ width = 0 /\ nodes = <<>> /\ i = 0
  /\ nonce = 0 /\ hash = MaxNonce
----------------------------------------------------------------------------
Pad(list) == IF Len(list) % 2 # 0 THEN Append(list, list[Len(list)]) ELSE list

MakeLeaves ==
  /\ pc = "leaves"
  /\ LET data == Pad(txs)
     IN  /\ width' = Len(data)
         /\ nodes' = [ j \in 1 .. Len(data) |-> Leaf(data[j]) ]
  /\ pc' = "levels"
  /\ UNCHANGED <<txs, below, i, nonce, hash>>

\* Mutant: the two are taken in the other order on the upper level.
PairsTurned(level) ==
  [ j \in 1 .. Len(level) \div 2 |->
      IF Len(level) = 2 THEN Node(level[2], level[1])
                        ELSE Node(level[2 * j - 1], level[2 * j]) ]

Pairs(level) ==
  [ j \in 1 .. Len(level) \div 2 |-> Node(level[2 * j - 1], level[2 * j]) ]

\* Mutant: the loop ends at the root.
MoreLevelsWhileWide == Len(nodes) > 1

MoreLevels == i < width \div 2

MakeLevel ==
  /\ pc = "levels" /\ MoreLevels
  /\ Len(nodes) % 2 = 0
  /\ nodes' = Pairs(nodes)
  /\ i' = i + 1
  /\ UNCHANGED <<txs, below, pc, width, nonce, hash>>

\* &nodes[j+1] past the end of an odd level, &nodes[0] of an empty one.
MakeLevelPanics ==
  /\ pc = "levels"
  /\ IF MoreLevels THEN Len(nodes) % 2 # 0 ELSE Len(nodes) = 0
  /\ pc' = "panicked"
  /\ UNCHANGED <<txs, below, width, nodes, i, nonce, hash>>

MakeRoot ==
  /\ pc = "levels" /\ ~MoreLevels /\ Len(nodes) # 0
  /\ pc' = "search"
  /\ UNCHANGED <<txs, below, width, nodes, i, nonce, hash>>

\* Mutant: the nonce moves on before the hash is looked at.
TryNonceLate ==
  /\ pc = "search" /\ nonce < MaxNonce
  /\ hash' = nonce
  /\ nonce' = nonce + 1
  /\ pc' = IF nonce \in below THEN "done" ELSE pc
  /\ UNCHANGED <<txs, below, width, nodes, i>>

\* Mutant: the same nonce is tried again.
TryNonceAgain ==
  /\ pc = "search" /\ nonce < MaxNonce
  /\ hash' = nonce
  /\ pc' = IF nonce \in below THEN "done" ELSE pc
  /\ UNCHANGED <<txs, below, width, nodes, i, nonce>>

TryNonce ==
  /\ pc = "search" /\ nonce < MaxNonce
  /\ hash' = nonce
  /\ IF nonce \in below THEN pc' = "done" /\ nonce' = nonce
                        ELSE pc' = pc /\ nonce' = nonce + 1
  /\ UNCHANGED <<txs, below, width, nodes, i>>

\* math.MaxInt64 is reached: the last hash is returned with it, and no error.
Exhausted ==
  /\ pc = "search" /\ nonce >= MaxNonce
  /\ pc' = "done"
  /\ UNCHANGED <<txs, below, width, nodes, i, nonce, hash>>

Next ==
  MakeLeaves \/ MakeLevel \/ MakeLevelPanics \/ MakeRoot \/ TryNonce \/ Exhausted

Spec == Init /\ [][Next]_vars /\ WF_vars(Next)
----------------------------------------------------------------------------
\* Validate, of the block CreateBlock returned.
Validates == nonce \in below

\* Types; a nonce is hashed only when there is a root.
TypeOK ==
  /\ \E n \in 0 .. MaxTxs : txs \in [1 .. n -> Txs]
  /\ below \subseteq Nonces
  /\ pc \in {"leaves", "levels", "search", "done", "panicked"}
  /\ width \in {0, Len(txs), Len(txs) + 1} /\ i \in 0 .. width
  /\ nonce \in 0 .. MaxNonce /\ hash \in 0 .. MaxNonce
  /\ pc \in {"leaves", "levels", "panicked"} => nonce = 0

\* A block is made of one to four transactions, and of no other number: the
\* loop over levels counts to half the leaves (merkle.go:50), not to the root.
OnlyOneToFour ==
  /\ pc \in {"search", "done"} => Len(txs) \in 1 .. 4
  /\ pc = "panicked" => Len(txs) \notin 1 .. 4

\* The tree of depth d over the leaves from number k * 2^d on.
Tree[d \in 0 .. 2] ==
  [k \in Nat |->
     IF d = 0
     THEN Leaf(txs[IF k < Len(txs) THEN k + 1 ELSE Len(txs)])
     ELSE Node(Tree[d - 1][2 * k], Tree[d - 1][2 * k + 1])]

\* The root is that of the least balanced tree over the block's transactions,
\* at least two leaves wide, the last one filling up (merkle.go).
RootIsBalanced ==
  pc \in {"search", "done"} =>
    nodes = <<Tree[IF Len(txs) <= 2 THEN 1 ELSE 2][0]>>

\* The block's hash is the hash of its nonce, and it validates, unless no
\* nonce does; and the nonce is the first that does (proof.go, Run; block.go).
MinedValidates ==
  pc = "done" =>
    \/ hash = nonce /\ Validates /\ \A n \in 0 .. nonce - 1 : n \notin below
    \/ below = {} /\ nonce = MaxNonce

\* CreateBlock returns or panics.
BlockMakingEnds == <>(pc \in {"done", "panicked"})
=============================================================================
