------------------------- MODULE BlockMakingProofs --------------------------
(***************************************************************************)
(* Proofs about BlockMaking, for any transactions, bounds and hashes.      *)
(***************************************************************************)
EXTENDS BlockMaking, TLAPS

LEMMA LengthOfFunction ==
  ASSUME NEW n \in Nat, NEW f, DOMAIN f = 1 .. n
  PROVE  Len(f) = n
OBVIOUS

LEMMA PairsHalve ==
  ASSUME NEW level, Len(level) \in Nat
  PROVE  Len(Pairs(level)) = Len(level) \div 2
<1>1. Len(level) \div 2 \in Nat
  OBVIOUS
<1> QED
  BY <1>1, LengthOfFunction DEF Pairs

\* How wide the level is after i rounds of the loop: the width halves, and
\* from the third round on at least one pair is lost in each.
LevelsShrink ==
  /\ Len(nodes) \in Nat
  /\ width % 2 = 0
  /\ width \in {Len(txs), Len(txs) + 1}
  /\ 2 * i <= width
  /\ i = 0 => Len(nodes) = width
  /\ i = 1 => 2 * Len(nodes) = width
  /\ i >= 2 => 4 * Len(nodes) + 4 * (i - 2) <= width
  /\ i >= 1 => Len(nodes) >= 1

SearchIsFirst ==
  /\ pc = "search" => \A n \in 0 .. nonce - 1 : n \notin below
  /\ MinedValidates

IInv ==
  /\ TypeOK
  /\ pc = "leaves" => width = 0 /\ i = 0
  /\ pc = "levels" => LevelsShrink
  /\ OnlyOneToFour
  /\ SearchIsFirst

LEMMA TxsLength == TypeOK => Len(txs) \in Nat /\ DOMAIN txs = 1 .. Len(txs)
<1> SUFFICES ASSUME TypeOK
             PROVE  Len(txs) \in Nat /\ DOMAIN txs = 1 .. Len(txs)
  OBVIOUS
<1>1. PICK n \in 0 .. MaxTxs : txs \in [1 .. n -> Txs]
  BY DEF TypeOK
<1>2. n \in Nat
  BY <1>1, BlockMakingAssumption
<1> QED
  BY <1>1, <1>2, LengthOfFunction

LEMMA PadLength ==
  ASSUME TypeOK
  PROVE  /\ Len(Pad(txs)) \in {Len(txs), Len(txs) + 1}
         /\ Len(Pad(txs)) % 2 = 0
<1>1. PICK n \in 0 .. MaxTxs : txs \in [1 .. n -> Txs]
  BY DEF TypeOK
<1>2. Len(txs) \in Nat /\ txs \in Seq(Txs)
  BY <1>1, TxsLength, BlockMakingAssumption
<1>3. CASE Len(txs) % 2 = 0
  BY <1>2, <1>3 DEF Pad
<1>4. CASE Len(txs) % 2 # 0
  <2>1. txs[Len(txs)] \in Txs
    BY <1>2, <1>4
  <2>2. Len(Pad(txs)) = Len(txs) + 1
    BY <1>2, <1>4, <2>1 DEF Pad
  <2> QED
    BY <1>2, <1>4, <2>2
<1> QED
  BY <1>3, <1>4

LEMMA InvInit == Init => IInv
<1> SUFFICES ASSUME Init
             PROVE  IInv
  OBVIOUS
<1>1. PICK n \in 0 .. MaxTxs : txs \in [1 .. n -> Txs]
  BY DEF Init
<1>2. \E m \in 0 .. MaxTxs : txs \in [1 .. m -> Txs]
  BY <1>1
<1>3. TypeOK
  <2>1. width = 0 /\ i = 0 /\ i \in 0 .. width
    BY DEF Init
  <2>2. nonce \in 0 .. MaxNonce /\ hash \in 0 .. MaxNonce
    BY BlockMakingAssumption DEF Init
  <2> QED
    BY <1>2, <2>1, <2>2 DEF Init, TypeOK
<1> QED
  BY <1>3 DEF Init, IInv, OnlyOneToFour, SearchIsFirst, MinedValidates

LEMMA LeavesStep == IInv /\ MakeLeaves => IInv'
<1> SUFFICES ASSUME IInv, MakeLeaves
             PROVE  IInv'
  OBVIOUS
<1>1. /\ width' = Len(Pad(txs)) /\ pc = "leaves" /\ pc' = "levels" /\ i = 0
      /\ nodes' = [ j \in 1 .. Len(Pad(txs)) |-> Leaf(Pad(txs)[j]) ]
      /\ txs' = txs /\ below' = below /\ i' = i /\ nonce' = nonce /\ hash' = hash
  BY DEF IInv, MakeLeaves
<1>2. Len(txs) \in Nat
  BY TxsLength DEF IInv
<1>3. width' \in {Len(txs), Len(txs) + 1} /\ width' % 2 = 0
  BY <1>1, PadLength DEF IInv
<1>4. Len(nodes') = width'
  BY <1>1, <1>2, <1>3, LengthOfFunction
<1>5. LevelsShrink'
  BY <1>1, <1>2, <1>3, <1>4 DEF LevelsShrink
<1>6. TypeOK'
  <2>1. i' \in 0 .. width'
    BY <1>1, <1>2, <1>3
  <2> QED
    BY <1>1, <1>3, <2>1 DEF IInv, TypeOK
<1> QED
  BY <1>1, <1>5, <1>6 DEF IInv, OnlyOneToFour, SearchIsFirst, MinedValidates

LEMMA LevelStep == IInv /\ MakeLevel => IInv'
<1> SUFFICES ASSUME IInv, MakeLevel
             PROVE  IInv'
  OBVIOUS
<1>1. /\ pc = "levels" /\ i < width \div 2 /\ Len(nodes) % 2 = 0
      /\ nodes' = Pairs(nodes) /\ i' = i + 1 /\ txs' = txs /\ below' = below
      /\ pc' = pc /\ width' = width /\ nonce' = nonce /\ hash' = hash
  BY DEF MakeLevel, MoreLevels
<1>2. LevelsShrink /\ Len(txs) \in Nat /\ i \in Nat
  BY <1>1, TxsLength DEF IInv, TypeOK
<1>3. width \in Nat
  BY <1>2 DEF LevelsShrink
<1> DEFINE w == Len(nodes)
           w2 == Len(nodes')
<1>4. w \in Nat /\ w2 = w \div 2
  BY <1>1, <1>2, PairsHalve DEF LevelsShrink
<1>5. w2 \in Nat /\ 2 * w2 = w
  BY <1>1, <1>4
<1>6. 2 * (i + 1) <= width
  BY <1>1, <1>2, <1>3
<1>7. w >= 1
  <2>1. i = 0 => w = width
    BY <1>2 DEF LevelsShrink
  <2>2. i >= 1 => w >= 1
    BY <1>2 DEF LevelsShrink
  <2> QED
    BY <1>2, <1>3, <1>4, <1>6, <2>1, <2>2
<1>8. /\ i = 0 => w = width
      /\ i = 1 => 2 * w = width
      /\ i >= 2 => 4 * w + 4 * (i - 2) <= width
  BY <1>2 DEF LevelsShrink
<1> HIDE DEF w, w2
<1>9. /\ i + 1 = 1 => 2 * w2 = width
      /\ i + 1 >= 2 => 4 * w2 + 4 * (i + 1 - 2) <= width
      /\ w2 >= 1
  BY <1>2, <1>3, <1>4, <1>5, <1>7, <1>8
<1>10. LevelsShrink'
  BY <1>1, <1>2, <1>5, <1>6, <1>9 DEF LevelsShrink, w2
<1>11. TypeOK'
  <2>1. i' \in 0 .. width'
    BY <1>1, <1>2, <1>3, <1>6
  <2> QED
    BY <1>1, <2>1 DEF IInv, TypeOK
<1> QED
  BY <1>1, <1>10, <1>11 DEF IInv, OnlyOneToFour, SearchIsFirst, MinedValidates

\* The loop gets to its end for one to four transactions and for no others.
LEMMA LoopEnds ==
  ASSUME IInv, pc = "levels"
  PROVE  /\ ~MoreLevels /\ Len(nodes) # 0 => Len(txs) \in 1 .. 4
         /\ (IF MoreLevels THEN Len(nodes) % 2 # 0 ELSE Len(nodes) = 0)
               => Len(txs) \notin 1 .. 4
<1> DEFINE w == Len(nodes)
           n == Len(txs)
<1>1. n \in Nat /\ i \in Nat
  BY TxsLength DEF IInv, TypeOK
<1>2. /\ w \in Nat /\ width % 2 = 0 /\ width \in {n, n + 1} /\ 2 * i <= width
      /\ i = 0 => w = width
      /\ i = 1 => 2 * w = width
      /\ i >= 2 => 4 * w + 4 * (i - 2) <= width
      /\ i >= 1 => w >= 1
  BY DEF IInv, LevelsShrink
<1>3. MoreLevels <=> 2 * i < width
  <2>1. width \in Nat
    BY <1>1, <1>2
  <2> QED
    BY <1>1, <1>2, <2>1 DEF MoreLevels
<1> HIDE DEF w, n
<1>4. ASSUME ~(2 * i < width), w # 0
      PROVE  n \in 1 .. 4
  <2>1. width = 2 * i /\ w >= 1 /\ width \in Nat
    BY <1>1, <1>2, <1>4
  <2>2. CASE i <= 2
    <3>1. i # 0
      BY <1>2, <1>4, <2>1
    <3>2. width \in {2, 4}
      BY <1>1, <2>1, <2>2, <3>1
    <3> QED
      BY <1>1, <1>2, <3>2
  <2>3. CASE i > 2
    <3>1. 4 * w + 4 * (i - 2) <= 2 * i
      BY <1>1, <1>2, <2>1, <2>3
    <3>2. 2 * i >= 6
      BY <1>1, <2>3
    <3> QED
      BY <1>1, <1>2, <2>1, <2>3, <3>1, <3>2
  <2> QED
    BY <1>1, <2>2, <2>3
<1>5. ASSUME n \in 1 .. 4
      PROVE  ~(IF 2 * i < width THEN w % 2 # 0 ELSE w = 0)
  <2>1. width \in {2, 4}
    BY <1>1, <1>2, <1>5
  <2>2. i \in {0, 1, 2}
    BY <1>1, <1>2, <2>1
  <2>3. CASE i = 0
    BY <1>2, <2>1, <2>3
  <2>4. CASE i = 1
    BY <1>2, <2>1, <2>4
  <2>5. CASE i = 2
    BY <1>2, <2>1, <2>5
  <2> QED
    BY <2>2, <2>3, <2>4, <2>5
<1> QED
  BY <1>3, <1>4, <1>5 DEF w, n

LEMMA RootStep == IInv /\ (MakeLevelPanics \/ MakeRoot) => IInv'
<1> SUFFICES ASSUME IInv, MakeLevelPanics \/ MakeRoot
             PROVE  IInv'
  OBVIOUS
<1>1. /\ pc = "levels" /\ pc' \in {"panicked", "search"} /\ nonce = 0
      /\ txs' = txs /\ below' = below /\ width' = width /\ nodes' = nodes
      /\ i' = i /\ nonce' = nonce /\ hash' = hash
  BY DEF MakeLevelPanics, MakeRoot, IInv, TypeOK
<1>2. TypeOK'
  BY <1>1 DEF IInv, TypeOK
<1>3. OnlyOneToFour'
  BY <1>1, LoopEnds DEF MakeLevelPanics, MakeRoot, OnlyOneToFour
<1>4. SearchIsFirst'
  BY <1>1 DEF SearchIsFirst, MinedValidates
<1> QED
  BY <1>1, <1>2, <1>3, <1>4 DEF IInv

LEMMA SearchStep == IInv /\ (TryNonce \/ Exhausted) => IInv'
<1> SUFFICES ASSUME IInv, TryNonce \/ Exhausted
             PROVE  IInv'
  OBVIOUS
<1>1. /\ pc = "search" /\ pc' \in {"search", "done"}
      /\ txs' = txs /\ below' = below /\ width' = width /\ nodes' = nodes /\ i' = i
      /\ nonce' \in {nonce, nonce + 1}
  BY DEF TryNonce, Exhausted
<1>2. nonce \in Nat /\ nonce <= MaxNonce /\ below \subseteq Nonces
  BY BlockMakingAssumption DEF IInv, TypeOK
<1>3. \A n \in 0 .. nonce - 1 : n \notin below
  BY <1>1 DEF IInv, SearchIsFirst
<1>4. nonce' \in 0 .. MaxNonce /\ hash' \in 0 .. MaxNonce
  BY <1>2, BlockMakingAssumption DEF TryNonce, Exhausted, IInv, TypeOK
<1>5. TypeOK'
  BY <1>1, <1>4 DEF IInv, TypeOK
<1>6. OnlyOneToFour'
  BY <1>1 DEF IInv, OnlyOneToFour
<1>7. CASE TryNonce /\ nonce \in below
  <2>1. hash' = nonce /\ nonce' = nonce /\ pc' = "done"
    BY <1>7 DEF TryNonce
  <2>2. SearchIsFirst'
    BY <1>1, <1>3, <1>7, <2>1 DEF SearchIsFirst, MinedValidates, Validates
  <2> QED
    BY <1>1, <1>5, <1>6, <2>2 DEF IInv
<1>8. CASE TryNonce /\ nonce \notin below
  <2>1. nonce' = nonce + 1 /\ pc' = "search"
    BY <1>1, <1>8 DEF TryNonce
  <2>2. \A n \in 0 .. nonce : n \notin below
    BY <1>2, <1>3, <1>8
  <2>3. SearchIsFirst'
    BY <1>1, <1>2, <2>1, <2>2 DEF SearchIsFirst, MinedValidates
  <2> QED
    BY <1>1, <1>5, <1>6, <2>1, <2>3 DEF IInv
<1>9. CASE Exhausted
  <2>1. nonce' = nonce /\ pc' = "done" /\ nonce = MaxNonce
    BY <1>2, <1>9, BlockMakingAssumption DEF Exhausted
  <2>2. below = {}
    BY <1>2, <1>3, <2>1, BlockMakingAssumption DEF Nonces
  <2>3. SearchIsFirst'
    BY <1>1, <2>1, <2>2 DEF SearchIsFirst, MinedValidates
  <2> QED
    BY <1>1, <1>5, <1>6, <2>1, <2>3 DEF IInv
<1> QED
  BY <1>7, <1>8, <1>9

LEMMA InvAlways == Spec => []IInv
<1>1. IInv /\ UNCHANGED vars => IInv'
  BY DEF IInv, TypeOK, LevelsShrink, OnlyOneToFour, SearchIsFirst,
         MinedValidates, Validates, vars
<1>2. IInv /\ [Next]_vars => IInv'
  BY <1>1, LeavesStep, LevelStep, RootStep, SearchStep DEF Next
<1> QED
  BY <1>2, InvInit, PTL DEF Spec

\* Types, and that no nonce is tried before there is a root.
THEOREM BlockMakingTypeCorrect == Spec => []TypeOK
BY InvAlways, PTL DEF IInv

\* However many transactions a block has, it is made if they are one to four,
\* and CreateBlock panics if not.
THEOREM BlocksHoldOneToFour == Spec => []OnlyOneToFour
BY InvAlways, PTL DEF IInv

\* The search ends with the first nonce whose hash is below the target, and
\* with that hash, unless there is none.
THEOREM MinedBlocksValidate == Spec => []MinedValidates
<1>1. IInv => MinedValidates
  BY DEF IInv, SearchIsFirst
<1> QED
  BY <1>1, InvAlways, PTL

----------------------------------------------------------------------------
(* The tree.                                                                *)

\* The leaf over number k, the last one from there on.
LeafAt(k) == Leaf(txs[IF k < Len(txs) THEN k + 1 ELSE Len(txs)])

\* The recursion that defines Tree.
IsTree(T) ==
  T = [d \in 0 .. 2 |-> [k \in Nat |->
         IF d = 0 THEN LeafAt(k) ELSE Node(T[d - 1][2 * k], T[d - 1][2 * k + 1])]]

LEMMA TreeIs == \A k \in Nat :
  /\ Tree[0][k] = LeafAt(k)
  /\ Tree[1][k] = Node(LeafAt(2 * k), LeafAt(2 * k + 1))
  /\ Tree[2][k] = Node(Tree[1][2 * k], Tree[1][2 * k + 1])
<1> DEFINE F(k) == Node(LeafAt(2 * k), LeafAt(2 * k + 1))
           T == [d \in 0 .. 2 |-> [k \in Nat |->
                   IF d = 0 THEN LeafAt(k)
                   ELSE IF d = 1 THEN F(k) ELSE Node(F(2 * k), F(2 * k + 1))]]
<1>1. IsTree(T)
  <2> HIDE DEF LeafAt
  <2>1. ASSUME NEW d \in 0 .. 2, NEW k \in Nat
        PROVE  T[d][k] = IF d = 0 THEN LeafAt(k)
                         ELSE Node(T[d - 1][2 * k], T[d - 1][2 * k + 1])
    <3>1. 2 * k \in Nat /\ 2 * k + 1 \in Nat
      OBVIOUS
    <3>2. CASE d = 0
      BY <3>2
    <3>3. CASE d = 1
      <4>1. T[0][2 * k] = LeafAt(2 * k) /\ T[0][2 * k + 1] = LeafAt(2 * k + 1)
        BY <3>1
      <4>2. T[1][k] = F(k) /\ d - 1 = 0
        BY <3>3
      <4> HIDE DEF T
      <4> QED BY <3>3, <4>1, <4>2
    <3>4. CASE d = 2
      <4>1. T[1][2 * k] = F(2 * k) /\ T[1][2 * k + 1] = F(2 * k + 1)
        BY <3>1
      <4>2. T[2][k] = Node(F(2 * k), F(2 * k + 1)) /\ d - 1 = 1
        BY <3>4
      <4> HIDE DEF T, F
      <4> QED BY <3>4, <4>1, <4>2
    <3> QED BY <3>2, <3>3, <3>4
  <2>2. T = [d \in 0 .. 2 |-> [k \in Nat |-> T[d][k]]]
    OBVIOUS
  <2> HIDE DEF T
  <2>3. [d \in 0 .. 2 |-> [k \in Nat |-> T[d][k]]]
          = [d \in 0 .. 2 |-> [k \in Nat |->
               IF d = 0 THEN LeafAt(k)
               ELSE Node(T[d - 1][2 * k], T[d - 1][2 * k + 1])]]
    BY <2>1
  <2> QED BY <2>2, <2>3 DEF IsTree
<1>2. Tree = CHOOSE S : IsTree(S)
  BY DEF Tree, IsTree, LeafAt
<1>3. IsTree(Tree)
  <2> HIDE DEF T
  <2> QED BY <1>1, <1>2
<1> HIDE DEF T
<1>4. ASSUME NEW d \in 0 .. 2, NEW j \in Nat
      PROVE  Tree[d][j] = IF d = 0 THEN LeafAt(j)
                          ELSE Node(Tree[d - 1][2 * j], Tree[d - 1][2 * j + 1])
  <2> DEFINE S == Tree
  <2>1. IsTree(S)
    BY <1>3
  <2> HIDE DEF S
  <2>2. S[d][j] = IF d = 0 THEN LeafAt(j)
                  ELSE Node(S[d - 1][2 * j], S[d - 1][2 * j + 1])
    <3>1. S[d] = [k \in Nat |-> IF d = 0 THEN LeafAt(k)
                                ELSE Node(S[d - 1][2 * k], S[d - 1][2 * k + 1])]
      <4> DEFINE R(e, U) == [k \in Nat |-> IF e = 0 THEN LeafAt(k)
                                ELSE Node(U[e - 1][2 * k], U[e - 1][2 * k + 1])]
      <4>1. S = [e \in 0 .. 2 |-> R(e, S)]
        BY <2>1 DEF IsTree
      <4> HIDE DEF R
      <4>2. S[d] = R(d, S)
        BY <4>1
      <4> QED BY <4>2 DEF R
    <3> QED BY <3>1
  <2> QED BY <2>2 DEF S
<1> SUFFICES ASSUME NEW k \in Nat
             PROVE  /\ Tree[0][k] = LeafAt(k)
                    /\ Tree[1][k] = F(k)
                    /\ Tree[2][k] = Node(Tree[1][2 * k], Tree[1][2 * k + 1])
  OBVIOUS
<1>5. Tree[0][k] = LeafAt(k) /\ Tree[0][2 * k] = LeafAt(2 * k)
      /\ Tree[0][2 * k + 1] = LeafAt(2 * k + 1)
  BY <1>4
<1>6. Tree[1][k] = Node(Tree[0][2 * k], Tree[0][2 * k + 1])
  BY <1>4
<1>7. Tree[2][k] = Node(Tree[1][2 * k], Tree[1][2 * k + 1])
  BY <1>4
<1> QED BY <1>5, <1>6, <1>7
----------------------------------------------------------------------------
(* The root.  One round makes two leaves a tree of depth one, two rounds    *)
(* make four one of depth two; no other width gets out of the loop.         *)

\* The level after i rounds is the tree's at depth i.
Grown ==
  pc = "levels" /\ width \in {2, 4} =>
    /\ i = 0 => nodes = [ j \in 1 .. width |-> Tree[0][j - 1] ]
    /\ i = 1 => nodes = [ j \in 1 .. width \div 2 |-> Tree[1][j - 1] ]
    /\ i = 2 /\ width = 4 => nodes = <<Tree[2][0]>>

LEMMA SameTree == UNCHANGED txs => Tree' = Tree
BY DEF Tree

LEMMA GrownOnLeaves ==
  ASSUME IInv, MakeLeaves
  PROVE  Grown'
<1>1. /\ width' = Len(Pad(txs)) /\ pc' = "levels" /\ i' = 0 /\ txs' = txs
      /\ nodes' = [ j \in 1 .. Len(Pad(txs)) |-> Leaf(Pad(txs)[j]) ]
  BY DEF IInv, MakeLeaves
<1>2. Tree' = Tree
  BY <1>1, SameTree
<1> SUFFICES ASSUME width' \in {2, 4}
             PROVE  nodes' = [ j \in 1 .. width' |-> Tree[0][j - 1] ]
  BY <1>1, <1>2 DEF Grown
<1>3. PICK n \in 0 .. MaxTxs : txs \in [1 .. n -> Txs]
  BY DEF IInv, TypeOK
<1>4. Len(txs) \in Nat /\ txs \in Seq(Txs) /\ Len(txs) >= 1
  BY <1>1, <1>3, PadLength, TxsLength, BlockMakingAssumption DEF IInv
<1>5. ASSUME NEW j \in 1 .. width' PROVE Leaf(Pad(txs)[j]) = Tree[0][j - 1]
  <2>1. Tree[0][j - 1] = LeafAt(j - 1)
    BY <1>5, TreeIs
  <2>2. LeafAt(j - 1) = Leaf(txs[IF j - 1 < Len(txs) THEN j ELSE Len(txs)])
    BY <1>5 DEF LeafAt
  <2>3. Pad(txs)[j] = txs[IF j - 1 < Len(txs) THEN j ELSE Len(txs)]
    <3>1. CASE Len(txs) % 2 # 0
      BY <1>1, <1>4, <1>5, <3>1 DEF Pad
    <3>2. CASE Len(txs) % 2 = 0
      BY <1>1, <1>4, <1>5, <3>2 DEF Pad
    <3> QED BY <3>1, <3>2
  <2> QED BY <2>1, <2>2, <2>3
<1> QED BY <1>1, <1>5

LEMMA GrownOnLevel ==
  ASSUME IInv, Grown, MakeLevel
  PROVE  Grown'
<1>1. /\ pc = "levels" /\ i < width \div 2
      /\ nodes' = Pairs(nodes) /\ i' = i + 1 /\ txs' = txs
      /\ pc' = pc /\ width' = width
  BY DEF MakeLevel, MoreLevels
<1>2. Tree' = Tree
  BY <1>1, SameTree
<1>3. i \in Nat
  BY TxsLength DEF IInv, TypeOK
<1> SUFFICES ASSUME width \in {2, 4}
             PROVE  /\ i + 1 = 1 => nodes' = [ j \in 1 .. width \div 2 |-> Tree[1][j - 1] ]
                    /\ i + 1 = 2 /\ width = 4 => nodes' = <<Tree[2][0]>>
  BY <1>1, <1>2, <1>3 DEF Grown
<1>4. ASSUME i = 0
      PROVE  nodes' = [ j \in 1 .. width \div 2 |-> Tree[1][j - 1] ]
  <2>1. nodes = [ j \in 1 .. width |-> Tree[0][j - 1] ]
    BY <1>1, <1>4 DEF Grown
  <2>2. Len(nodes) = width
    BY <2>1, LengthOfFunction
  <2>3. ASSUME NEW j \in 1 .. width \div 2
        PROVE  Node(nodes[2 * j - 1], nodes[2 * j]) = Tree[1][j - 1]
    <3>1. 2 * j - 1 \in 1 .. width /\ 2 * j \in 1 .. width /\ j - 1 \in Nat
      OBVIOUS
    <3>2. nodes[2 * j - 1] = Tree[0][2 * (j - 1)] /\ nodes[2 * j] = Tree[0][2 * (j - 1) + 1]
      <4>1. (2 * j - 1) - 1 = 2 * (j - 1) /\ 2 * j - 1 = 2 * (j - 1) + 1
        OBVIOUS
      <4> QED BY <2>1, <3>1, <4>1
    <3>3. 2 * (j - 1) \in Nat /\ 2 * (j - 1) + 1 \in Nat
      BY <3>1
    <3> QED BY <3>1, <3>2, <3>3, TreeIs
  <2> QED BY <1>1, <2>2, <2>3 DEF Pairs
<1>5. ASSUME i = 1, width = 4
      PROVE  nodes' = <<Tree[2][0]>>
  <2>1. nodes = [ j \in 1 .. 2 |-> Tree[1][j - 1] ]
    BY <1>1, <1>5 DEF Grown
  <2>2. Len(nodes) = 2
    BY <2>1, LengthOfFunction
  <2>3. nodes[1] = Tree[1][0] /\ nodes[2] = Tree[1][1]
    BY <2>1
  <2>4. Tree[2][0] = Node(Tree[1][0], Tree[1][1])
    <3>1. Tree[2][0] = Node(Tree[1][2 * 0], Tree[1][2 * 0 + 1])
      BY TreeIs
    <3> QED BY <3>1
  <2>5. Pairs(nodes) = [ j \in 1 .. 1 |-> Node(nodes[2 * j - 1], nodes[2 * j]) ]
    BY <2>2 DEF Pairs
  <2>6. Pairs(nodes) = << Node(nodes[1], nodes[2]) >>
    BY <2>5
  <2> QED BY <1>1, <2>3, <2>4, <2>6
<1> QED BY <1>3, <1>4, <1>5

LEMMA RootOnRoot ==
  ASSUME IInv, Grown, MakeRoot
  PROVE  RootIsBalanced'
<1>1. /\ pc = "levels" /\ ~MoreLevels /\ Len(nodes) # 0 /\ pc' = "search"
      /\ txs' = txs /\ nodes' = nodes
  BY DEF MakeRoot
<1>2. Tree' = Tree
  BY <1>1, SameTree
<1>3. Len(txs) \in 1 .. 4
  BY <1>1, LoopEnds
<1>4. /\ Len(nodes) \in Nat /\ width % 2 = 0 /\ width \in {Len(txs), Len(txs) + 1}
      /\ 2 * i <= width /\ i \in Nat
  BY <1>1, TxsLength DEF IInv, LevelsShrink, TypeOK
<1>5. width \in {2, 4} /\ (Len(txs) <= 2 <=> width = 2)
  <2> DEFINE n == Len(txs)
  <2>1. n \in 1 .. 4 /\ width % 2 = 0 /\ (width = n \/ width = n + 1)
    BY <1>3, <1>4
  <2> HIDE DEF n
  <2>2. n = 1 \/ n = 2 \/ n = 3 \/ n = 4
    BY <2>1
  <2>3. width \in {2, 4} /\ (n <= 2 <=> width = 2)
    BY <2>1, <2>2
  <2> QED BY <2>3 DEF n
<1>6. 2 * i = width
  BY <1>1, <1>4, <1>5 DEF MoreLevels
<1>7. CASE width = 2
  <2>1. i = 1 /\ nodes = [ j \in 1 .. 1 |-> Tree[1][j - 1] ]
    BY <1>1, <1>4, <1>6, <1>7 DEF Grown
  <2>2. nodes = << Tree[1][0] >>
    BY <2>1
  <2> QED BY <1>1, <1>2, <1>5, <1>7, <2>2 DEF RootIsBalanced
<1>8. CASE width = 4
  <2>1. i = 2 /\ nodes = << Tree[2][0] >>
    BY <1>1, <1>4, <1>6, <1>8 DEF Grown
  <2> QED BY <1>1, <1>2, <1>5, <1>8, <2>1 DEF RootIsBalanced
<1> QED BY <1>5, <1>7, <1>8

\* The root over the transactions is that of the balanced tree, whichever
\* transactions and however many there are.
THEOREM RootsAreBalanced == Spec => []RootIsBalanced
<1> DEFINE RInv == Grown /\ RootIsBalanced
<1>1. Init => RInv
  BY DEF Init, Grown, RootIsBalanced
<1>2. IInv /\ RInv /\ [Next]_vars => RInv'
  <2> SUFFICES ASSUME IInv, RInv, [Next]_vars
               PROVE  RInv'
    OBVIOUS
  <2>1. CASE MakeLeaves
    <3>1. pc' = "levels"
      BY <2>1 DEF MakeLeaves
    <3> QED BY <2>1, <3>1, GrownOnLeaves DEF RootIsBalanced
  <2>2. CASE MakeLevel
    <3>1. pc' = "levels"
      BY <2>2 DEF MakeLevel
    <3> QED BY <2>2, <3>1, GrownOnLevel DEF RootIsBalanced
  <2>3. CASE MakeRoot
    <3>1. pc' = "search"
      BY <2>3 DEF MakeRoot
    <3> QED BY <2>3, <3>1, RootOnRoot DEF Grown
  <2>4. CASE MakeLevelPanics
    BY <2>4 DEF MakeLevelPanics, Grown, RootIsBalanced
  <2>5. CASE TryNonce \/ Exhausted \/ UNCHANGED vars
    <3>1. txs' = txs /\ nodes' = nodes /\ width' = width /\ i' = i
      BY <2>5 DEF TryNonce, Exhausted, vars
    <3>2. pc' = pc \/ (pc = "search" /\ pc' = "done")
      BY <2>5 DEF TryNonce, Exhausted, vars
    <3>3. Tree' = Tree
      BY <3>1, SameTree
    <3> QED BY <3>1, <3>2, <3>3 DEF Grown, RootIsBalanced
  <2> QED BY <2>1, <2>2, <2>3, <2>4, <2>5 DEF Next
<1> QED BY <1>1, <1>2, InvAlways, PTL DEF Spec
=============================================================================
