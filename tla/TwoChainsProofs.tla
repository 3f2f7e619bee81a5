-------------------------- MODULE TwoChainsProofs ---------------------------
(***************************************************************************)
(* Proofs about TwoChains, for any requests, any blocks of peers and any   *)
(* order in which they come.                                               *)
(***************************************************************************)
EXTENDS TwoChains, ChainProofs

\* The shape of the blocks ever made.
Made ==
  /\ DOMAIN blocks \subseteq Hashes
  /\ \A h \in DOMAIN blocks : blocks[h].PrevHash \in DOMAIN blocks \cup {Nil}
  /\ Linked(blocks)

IInv == TypeOK /\ Made /\ TipIsHighest /\ OneIsCurrent

\* What making a block on parent does.
LEMMA MakesGives ==
  ASSUME Made, NEW hash, NEW parent \in DOMAIN blocks, MakesBlock(hash, parent)
  PROVE  /\ hash \in NewHashes /\ hash \notin DOMAIN blocks
         /\ DOMAIN blocks' = DOMAIN blocks \cup {hash}
         /\ blocks'[hash].PrevHash = parent
         /\ blocks'[hash].Height = blocks[parent].Height + 1
         /\ \A h \in DOMAIN blocks : blocks'[h] = blocks[h]
         /\ Made'
<1> DEFINE new == [PrevHash |-> parent, Height |-> blocks[parent].Height + 1]
<1>1. /\ hash \in NewHashes /\ hash \notin DOMAIN blocks
      /\ blocks' = [h \in DOMAIN blocks \cup {hash} |-> IF h = hash THEN new ELSE blocks[h]]
  BY DEF MakesBlock
<1>2. new.PrevHash = parent /\ new.Height = blocks[parent].Height + 1
  OBVIOUS
<1> HIDE DEF new
<1>3. /\ DOMAIN blocks' = DOMAIN blocks \cup {hash}
      /\ blocks'[hash].PrevHash = parent
      /\ blocks'[hash].Height = blocks[parent].Height + 1
      /\ \A h \in DOMAIN blocks : blocks'[h] = blocks[h]
  BY <1>1, <1>2
<1>4. \A h \in DOMAIN blocks : blocks[h].PrevHash # hash
  BY <1>1, TwoChainsAssumption DEF Made
<1>5. Linked(blocks')
  <2> SUFFICES ASSUME NEW h \in DOMAIN blocks'
               PROVE  /\ blocks'[h].Height \in Nat
                      /\ blocks'[h].PrevHash \in DOMAIN blocks' =>
                           blocks'[h].Height = blocks'[blocks'[h].PrevHash].Height + 1
    BY DEF Linked
  <2>1. CASE h = hash
    BY <1>3, <2>1 DEF Made, Linked
  <2>2. CASE h \in DOMAIN blocks
    <3>1. blocks'[h] = blocks[h] /\ blocks[h].Height \in Nat /\ blocks[h].PrevHash # hash
      BY <1>3, <1>4, <2>2 DEF Made, Linked
    <3>2. CASE blocks[h].PrevHash \in DOMAIN blocks
      BY <1>3, <2>2, <3>1, <3>2 DEF Made, Linked
    <3>3. CASE blocks[h].PrevHash \notin DOMAIN blocks
      BY <1>3, <3>1, <3>3
    <3> QED BY <3>2, <3>3
  <2> QED BY <1>3, <2>1, <2>2
<1>6. Made'
  <2>1. \A h \in DOMAIN blocks' : blocks'[h].PrevHash \in DOMAIN blocks' \cup {Nil}
    BY <1>3 DEF Made
  <2>2. DOMAIN blocks' \subseteq Hashes
    BY <1>1, <1>3 DEF Made, Hashes
  <2> QED BY <1>5, <2>1, <2>2 DEF Made
<1> QED BY <1>1, <1>3, <1>6

LEMMA InvInit == Init => IInv
<1> SUFFICES ASSUME Init PROVE IInv
  OBVIOUS
<1>1. /\ DOMAIN blocks = {GenesisHash} /\ stored = {GenesisHash} /\ lh = GenesisHash
      /\ blocks[GenesisHash].PrevHash = Nil /\ blocks[GenesisHash].Height = 0
      /\ tips = {GenesisHash} /\ cache = 0
      /\ LastHash = [o \in Objects |-> Nil] /\ holds = [r \in Requests |-> 0]
  BY DEF Init
<1>2. Made
  BY <1>1, TwoChainsAssumption DEF Made, Linked, Hashes
<1>3. TypeOK
  BY <1>1, <1>2 DEF TypeOK, Made, Objects
<1> QED BY <1>1, <1>2, <1>3 DEF IInv, TipIsHighest, OneIsCurrent, Objects

\* A block becomes the tip through object o.
LEMMA TipMoves ==
  ASSUME IInv, Made', NEW o \in Objects, LastHash[o] # Nil,
         NEW hash \in DOMAIN blocks', stored' = stored \cup {hash}, BecomesTip(o, hash),
         DOMAIN blocks \subseteq DOMAIN blocks',
         \A h \in DOMAIN blocks : blocks'[h] = blocks[h],
         blocks'[hash].Height > blocks[lh].Height,
         cache' = cache, holds' \in [Requests -> 0 .. cache]
  PROVE  IInv'
<1>1. lh' = hash /\ tips' = tips \cup {hash} /\ LastHash' = [LastHash EXCEPT ![o] = hash]
  BY DEF BecomesTip, MovedTo
<1>2. hash # Nil
  BY TwoChainsAssumption DEF Made, Hashes
<1>3. /\ LastHash'[o] = hash
      /\ \A q \in Objects : q # o => LastHash'[q] = LastHash[q]
      /\ LastHash' \in [Objects -> stored' \cup {Nil}]
  BY <1>1 DEF IInv, TypeOK
<1>4. \A q \in Objects : LastHash'[q] # Nil <=> LastHash[q] # Nil
  BY <1>2, <1>3
<1>5. TypeOK'
  <2>1. stored' \subseteq DOMAIN blocks' /\ lh' \in stored' /\ tips' \subseteq stored'
    BY <1>1 DEF IInv, TypeOK
  <2>2. \A h \in DOMAIN blocks' : /\ blocks'[h].Height \in Nat
                                  /\ blocks'[h].PrevHash \in DOMAIN blocks' \cup {Nil}
    BY DEF Made, Linked
  <2>3. DOMAIN blocks' \subseteq Hashes
    BY DEF Made
  <2>4. /\ cache' \in {0} \cup Objects
        /\ cache' # 0 => LastHash'[1] # Nil
        /\ cache' = 2 => LastHash'[2] # Nil
        /\ LastHash'[2] # Nil => cache' # 0
    BY <1>4 DEF IInv, TypeOK, Objects
  <2> QED BY <1>3, <2>1, <2>2, <2>3, <2>4 DEF TypeOK
<1>6. TipIsHighest'
  <2> SUFFICES ASSUME NEW h \in stored'
               PROVE  blocks'[h].Height <= blocks'[hash].Height
    BY <1>1 DEF TipIsHighest
  <2>1. blocks'[hash].Height \in Nat /\ blocks[lh].Height \in Nat
    BY DEF IInv, TypeOK, Made, Linked
  <2>2. CASE h = hash
    BY <2>1, <2>2
  <2>3. CASE h \in stored
    <3>1. h \in DOMAIN blocks /\ blocks[h].Height \in Nat
          /\ blocks[h].Height <= blocks[lh].Height
      BY <2>3 DEF IInv, TypeOK, TipIsHighest
    <3> QED
      BY <2>1, <3>1
  <2> QED
    BY <2>2, <2>3
<1>7. OneIsCurrent'
  BY <1>1, <1>3 DEF OneIsCurrent
<1> QED
  BY <1>5, <1>6, <1>7 DEF IInv

\* MineBlock, through any object that was loaded.
LEMMA MineMoves ==
  ASSUME IInv, NEW o \in Objects, LastHash[o] # Nil, NEW hash, MineBlock(o, hash),
         holds' \in [Requests -> 0 .. cache]
  PROVE  IInv'
<1>1. /\ MakesBlock(hash, lh) /\ stored' = stored \cup {hash}
      /\ BecomesTip(o, hash) /\ cache' = cache
  BY DEF MineBlock, MinesOn
<1>2. lh \in DOMAIN blocks /\ blocks[lh].Height \in Nat
  BY DEF IInv, TypeOK
<1>3. /\ DOMAIN blocks' = DOMAIN blocks \cup {hash}
      /\ blocks'[hash].Height = blocks[lh].Height + 1
      /\ \A h \in DOMAIN blocks : blocks'[h] = blocks[h]
      /\ Made'
  BY <1>1, <1>2, MakesGives DEF IInv
<1>4. blocks'[hash].Height > blocks[lh].Height
  BY <1>2, <1>3
<1> QED BY <1>1, <1>3, <1>4, TipMoves

\* AddBlock, tip or not.
LEMMA HandleBlockKeeps ==
  ASSUME IInv, NEW hash, HandleBlock(hash)
  PROVE  IInv'
<1>1. /\ cache = 2 /\ hash \in DOMAIN blocks /\ hash \notin stored
      /\ stored' = stored \cup {hash} /\ blocks' = blocks /\ cache' = cache /\ holds' = holds
  BY DEF HandleBlock, AddsBlock
<1>2. Made'
  BY <1>1 DEF IInv, Made
<1>3. CASE blocks[hash].Height > blocks[lh].Height
  <2>1. BecomesTip(2, hash)
    BY <1>3 DEF HandleBlock
  <2>2. 2 \in Objects /\ LastHash[2] # Nil /\ holds' \in [Requests -> 0 .. cache]
    BY <1>1 DEF IInv, TypeOK, Objects
  <2> QED BY <1>1, <1>2, <1>3, <2>1, <2>2, TipMoves
<1>4. CASE ~(blocks[hash].Height > blocks[lh].Height)
  <2>1. lh' = lh /\ LastHash' = LastHash /\ tips' = tips
    BY <1>4 DEF HandleBlock
  <2>2. TypeOK'
    BY <1>1, <2>1 DEF IInv, TypeOK
  <2>3. TipIsHighest'
    <3>1. lh \in DOMAIN blocks /\ blocks[lh].Height \in Nat /\ blocks[hash].Height \in Nat
      BY <1>1 DEF IInv, TypeOK
    <3> QED BY <1>1, <1>4, <2>1, <3>1 DEF IInv, TipIsHighest
  <2>4. OneIsCurrent'
    BY <2>1 DEF IInv, OneIsCurrent
  <2> QED BY <1>2, <2>2, <2>3, <2>4 DEF IInv
<1> QED BY <1>3, <1>4

\* A request's object was loaded.
LEMMA HeldIsLoaded ==
  ASSUME IInv, NEW r \in Requests, holds[r] # 0
  PROVE  holds[r] \in Objects /\ LastHash[holds[r]] # Nil
<1>1. holds[r] \in 0 .. cache /\ cache \in {0, 1, 2}
  BY DEF IInv, TypeOK, Objects
<1> QED
  BY <1>1 DEF IInv, TypeOK, Objects

LEMMA InvStep == IInv /\ [Next]_vars => IInv'
<1> SUFFICES ASSUME IInv, [Next]_vars
             PROVE  IInv'
  OBVIOUS
<1> USE DEF store, history
<1>1. ASSUME NEW o \in Objects, Load(o)
      PROVE  IInv'
  <2>1. /\ LastHash'[o] = lh /\ lh # Nil /\ \A q \in Objects : q # o => LastHash'[q] = LastHash[q]
        /\ LastHash' \in [Objects -> stored \cup {Nil}]
    BY <1>1, TwoChainsAssumption DEF Load, IInv, TypeOK, Hashes
  <2>2. /\ blocks' = blocks /\ stored' = stored /\ lh' = lh /\ cache' = cache
        /\ holds' = holds /\ tips' = tips
        /\ LastHash[o] = Nil /\ (o = 2 => cache = 1)
    BY <1>1 DEF Load
  <2>3. TypeOK'
    BY <2>1, <2>2 DEF IInv, TypeOK, Objects
  <2>4. TipIsHighest' /\ OneIsCurrent' /\ Made'
    BY <2>1, <2>2 DEF IInv, TipIsHighest, OneIsCurrent, Made
  <2> QED
    BY <2>3, <2>4 DEF IInv
<1>2. ASSUME NEW o \in Objects, Cache(o)
      PROVE  IInv'
  <2>1. /\ cache = o - 1 /\ cache' = o /\ LastHash[o] # Nil
        /\ blocks' = blocks /\ stored' = stored /\ lh' = lh /\ LastHash' = LastHash
        /\ holds' = holds /\ tips' = tips
    BY <1>2 DEF Cache
  <2>2. TypeOK'
    BY <2>1 DEF IInv, TypeOK, Objects
  <2>3. OneIsCurrent'
    BY <2>1 DEF IInv, OneIsCurrent, Objects, TypeOK
  <2>4. TipIsHighest' /\ Made'
    BY <2>1 DEF IInv, TipIsHighest, Made
  <2> QED
    BY <2>2, <2>3, <2>4 DEF IInv
<1>3. ASSUME NEW r \in Requests, GetBlockchain(r) \/ PrintChain(r) \/ OtherRequest(r)
      PROVE  IInv'
  <2>1. /\ blocks' = blocks /\ stored' = stored /\ lh' = lh /\ LastHash' = LastHash
        /\ cache' = cache /\ tips' = tips
        /\ holds' \in [Requests -> 0 .. cache]
    BY <1>3 DEF GetBlockchain, PrintChain, OtherRequest, RequestEnds, IInv, TypeOK, Objects
  <2>2. TypeOK'
    BY <2>1 DEF IInv, TypeOK
  <2> QED
    BY <2>1, <2>2 DEF IInv, TipIsHighest, OneIsCurrent, Made
<1>4. ASSUME NEW r \in Requests, NEW hash \in NewHashes, AddTXN(r, hash)
      PROVE  IInv'
  <2>1. /\ MineBlock(holds[r], hash) /\ holds[r] # 0
        /\ holds' \in [Requests -> 0 .. cache]
    BY <1>4 DEF AddTXN, RequestEnds, IInv, TypeOK, Objects
  <2> QED
    BY <2>1, HeldIsLoaded, MineMoves
<1>5. ASSUME NEW hash \in NewHashes, MineTx(hash)
      PROVE  IInv'
  <2>1. /\ MineBlock(2, hash) /\ 2 \in Objects /\ LastHash[2] # Nil
        /\ holds' \in [Requests -> 0 .. cache]
    BY <1>5 DEF MineTx, IInv, TypeOK, Objects
  <2> QED
    BY <2>1, MineMoves
<1>6. ASSUME NEW hash \in NewHashes, HandleBlock(hash)
      PROVE  IInv'
  BY <1>6, HandleBlockKeeps
<1>7. ASSUME NEW hash \in NewHashes, NEW parent \in DOMAIN blocks, PeerMines(hash, parent)
      PROVE  IInv'
  <2>1. /\ MakesBlock(hash, parent) /\ stored' = stored /\ lh' = lh /\ LastHash' = LastHash
        /\ cache' = cache /\ holds' = holds /\ tips' = tips
    BY <1>7 DEF PeerMines
  <2>2. /\ DOMAIN blocks' = DOMAIN blocks \cup {hash}
        /\ \A h \in DOMAIN blocks : blocks'[h] = blocks[h]
        /\ Made'
    BY <2>1, MakesGives DEF IInv
  <2>3. TypeOK'
    BY <2>1, <2>2 DEF IInv, TypeOK, Made, Linked
  <2>4. TipIsHighest' /\ OneIsCurrent'
    BY <2>1, <2>2 DEF IInv, TypeOK, TipIsHighest, OneIsCurrent
  <2> QED
    BY <2>2, <2>3, <2>4 DEF IInv
<1>8. CASE Restart
  <2>1. /\ LastHash' = [o \in Objects |-> Nil] /\ cache' = 0 /\ blocks' = blocks
        /\ stored' = stored /\ lh' = lh /\ holds' = [r \in Requests |-> 0] /\ tips' = tips
    BY <1>8 DEF Restart
  <2> QED
    BY <2>1 DEF IInv, TypeOK, TipIsHighest, OneIsCurrent, Objects, Made
<1>9. CASE UNCHANGED vars
  BY <1>9 DEF IInv, TypeOK, TipIsHighest, OneIsCurrent, Made, vars
<1> QED
  BY <1>1, <1>2, <1>3, <1>4, <1>5, <1>6, <1>7, <1>8, <1>9 DEF Next

LEMMA InvAlways == Spec => []IInv
BY InvInit, InvStep, PTL DEF Spec

\* Types, and the order in which the two objects are loaded and put in cache.
THEOREM TwoChainsTypeCorrect == Spec => []TypeOK
BY InvAlways, PTL DEF IInv

\* The tip is the highest stored block, whichever object blocks came through.
THEOREM TipStaysHighestForBoth == Spec => []TipIsHighest
BY InvAlways, PTL DEF IInv

\* One of the two objects is at the stored tip.
THEOREM OneStaysCurrent == Spec => []OneIsCurrent
BY InvAlways, PTL DEF IInv

\* When the second object is at the tip and no request is left on the first,
\* nothing but the end of the process changes that.
THEOREM SettledStays == Spec => SettledForGood
<1>1. IInv /\ [Next]_vars => [Settled => Settled' \/ cache' = 0]_vars
  <2> SUFFICES ASSUME IInv, Next, Settled
               PROVE  Settled' \/ cache' = 0
    OBVIOUS
  <2> USE DEF store, history
  <2>1. ASSUME NEW o \in Objects, Load(o) \/ Cache(o)
        PROVE  FALSE
    BY <2>1 DEF Load, Cache, Settled, IInv, TypeOK, Objects
  <2>2. ASSUME NEW r \in Requests, GetBlockchain(r) \/ PrintChain(r) \/ OtherRequest(r)
        PROVE  Settled'
    BY <2>2 DEF GetBlockchain, PrintChain, OtherRequest, RequestEnds, Settled, IInv, TypeOK
  <2>3. ASSUME NEW hash, BecomesTip(2, hash), cache' = cache,
               \A r \in Requests : holds'[r] # 1
        PROVE  Settled'
    BY <2>3 DEF BecomesTip, MovedTo, Settled, IInv, TypeOK, Objects
  <2>4. ASSUME NEW r \in Requests, NEW hash \in NewHashes, AddTXN(r, hash)
        PROVE  Settled'
    <3>1. holds[r] = 2
      BY <2>4, HeldIsLoaded DEF AddTXN, Settled, Objects
    <3>2. BecomesTip(2, hash) /\ holds' = [holds EXCEPT ![r] = 0] /\ cache' = cache
      BY <2>4, <3>1 DEF AddTXN, MineBlock, RequestEnds
    <3> QED
      BY <2>3, <3>2 DEF Settled, IInv, TypeOK
  <2>5. ASSUME NEW hash \in NewHashes, MineTx(hash) \/ HandleBlock(hash)
        PROVE  Settled'
    <3>1. /\ holds' = holds /\ cache' = cache
          /\ BecomesTip(2, hash) \/ UNCHANGED <<lh, LastHash>>
      BY <2>5 DEF MineTx, MineBlock, HandleBlock
    <3> QED
      BY <2>3, <3>1 DEF Settled
  <2>6. ASSUME NEW hash \in NewHashes, NEW parent \in DOMAIN blocks, PeerMines(hash, parent)
        PROVE  Settled'
    BY <2>6 DEF PeerMines, Settled
  <2>7. CASE Restart
    BY <2>7 DEF Restart
  <2> QED
    BY <2>1, <2>2, <2>4, <2>5, <2>6, <2>7 DEF Next
<1> QED
  BY <1>1, InvAlways, PTL DEF Spec, SettledForGood
-----------------------------------------------------------------------------
(* Answers.                                                                 *)

\* The tip and both objects are at hashes that were the tip, and a stored block
\* whose parent is not stored is genesis or came before it.
AnswerInv ==
  /\ lh \in tips
  /\ \A o \in Objects : LastHash[o] \in tips \cup {Nil}
  /\ IsFiniteSet(stored)
  /\ \A h \in stored : h \in {GenesisHash} \cup orphans \/ blocks[h].PrevHash \in stored
  /\ printed \in Seq(stored) /\ printed # <<>>
  /\ PrintedFromATip

LEMMA AnswerInit == Init => AnswerInv
<1> SUFFICES ASSUME Init PROVE AnswerInv
  OBVIOUS
<1>1. printed = <<GenesisHash>> /\ stored = {GenesisHash} /\ tips = {GenesisHash}
      /\ lh = GenesisHash /\ LastHash = [o \in Objects |-> Nil]
  BY DEF Init
<1>2. IsFiniteSet(stored)
  BY <1>1, FS_Singleton
<1>3. PrintedFromATip
  BY <1>1 DEF PrintedFromATip
<1> QED BY <1>1, <1>2, <1>3 DEF AnswerInv

\* What was answered stays true: blocks stay as they were made, hashes that were
\* the tip or came early are remembered.
LEMMA AnswerStays ==
  ASSUME IInv, AnswerInv, printed' = printed, stored \subseteq stored',
         tips \subseteq tips', orphans \subseteq orphans',
         \A h \in DOMAIN blocks : blocks'[h] = blocks[h]
  PROVE  PrintedFromATip' /\ printed' \in Seq(stored') /\ printed' # <<>>
<1>1. \A i \in 1..Len(printed) : printed[i] \in DOMAIN blocks
  BY DEF AnswerInv, IInv, TypeOK
<1>2. \A i \in 1..(Len(printed) - 1) : blocks'[printed[i]] = blocks[printed[i]]
  BY <1>1 DEF AnswerInv
<1>3. PrintedFromATip'
  BY <1>2 DEF AnswerInv, PrintedFromATip
<1> QED BY <1>3 DEF AnswerInv

\* What GetAllBlocks gives an object at a hash that was the tip.
LEMMA AnswerOf ==
  ASSUME IInv, AnswerInv, NEW top \in tips
  PROVE  LET s == Iterate([h \in stored |-> blocks[h]], top)
         IN  /\ s \in Seq(stored) /\ s # <<>> /\ s[1] = top
             /\ \A i \in 1..(Len(s) - 1) : s[i + 1] = blocks[s[i]].PrevHash
             /\ s[Len(s)] \in {GenesisHash} \cup orphans
<1> DEFINE B == [h \in stored |-> blocks[h]]
           s == Iterate(B, top)
<1>1. /\ top \in stored /\ stored \subseteq DOMAIN blocks
      /\ DOMAIN B = stored /\ \A h \in stored : B[h] = blocks[h]
  BY DEF IInv, TypeOK
<1>2. IsFiniteSet(DOMAIN B) /\ Nil \notin DOMAIN B
  BY <1>1, TwoChainsAssumption DEF AnswerInv, IInv, TypeOK, Hashes
<1>3. Linked(B)
  <2> SUFFICES ASSUME NEW h \in stored
               PROVE  /\ blocks[h].Height \in Nat
                      /\ blocks[h].PrevHash \in stored =>
                           blocks[h].Height = B[blocks[h].PrevHash].Height + 1
    BY <1>1 DEF Linked
  <2> QED BY <1>1 DEF IInv, Made, Linked
<1> HIDE DEF B
<1>4. /\ s \in Seq(DOMAIN B) /\ Len(s) >= 1 /\ s[1] = top
      /\ \A i \in 1..(Len(s) - 1) : s[i + 1] = B[s[i]].PrevHash
  BY <1>1, <1>2, IterateChain
<1>5. B[s[Len(s)]].PrevHash \notin DOMAIN B
  BY <1>1, <1>2, <1>3, IterateEnds
<1> HIDE DEF s
<1>6. Len(s) \in Nat /\ \A i \in 1..Len(s) : s[i] \in stored /\ B[s[i]] = blocks[s[i]]
  BY <1>1, <1>4
<1>7. s[Len(s)] \in stored /\ blocks[s[Len(s)]].PrevHash \notin stored
  BY <1>1, <1>4, <1>5, <1>6
<1>8. s[Len(s)] \in {GenesisHash} \cup orphans
  BY <1>7 DEF AnswerInv
<1>9. \A i \in 1..(Len(s) - 1) : s[i + 1] = blocks[s[i]].PrevHash
  BY <1>4, <1>6
<1> QED BY <1>1, <1>4, <1>8, <1>9 DEF s, B

\* A block is stored, and its object may move to it.
LEMMA AnswerGrows ==
  ASSUME IInv, AnswerInv, NEW hash, NEW o \in Objects, printed' = printed,
         stored' = stored \cup {hash}, \A h \in DOMAIN blocks : blocks'[h] = blocks[h],
         orphans \subseteq orphans',
         hash \in orphans' \/ blocks'[hash].PrevHash \in stored,
         BecomesTip(o, hash) \/ UNCHANGED <<lh, LastHash, tips>>
  PROVE  AnswerInv'
<1>1. /\ tips \subseteq tips' /\ lh' \in tips'
      /\ \A q \in Objects : LastHash'[q] \in tips' \cup {Nil}
  BY DEF BecomesTip, MovedTo, AnswerInv, IInv, TypeOK
<1>2. IsFiniteSet(stored')
  BY FS_AddElement DEF AnswerInv
<1>3. \A h \in stored' : h \in {GenesisHash} \cup orphans' \/ blocks'[h].PrevHash \in stored'
  BY DEF AnswerInv, IInv, TypeOK
<1>4. PrintedFromATip' /\ printed' \in Seq(stored') /\ printed' # <<>>
  BY <1>1, AnswerStays
<1> QED BY <1>1, <1>2, <1>3, <1>4 DEF AnswerInv

LEMMA AnswerStep == IInv /\ AnswerInv /\ [Next]_vars => AnswerInv'
<1> SUFFICES ASSUME IInv, AnswerInv, [Next]_vars
             PROVE  AnswerInv'
  OBVIOUS
<1> USE DEF store, history
<1>1. ASSUME UNCHANGED <<stored, lh, history>>, \A h \in DOMAIN blocks : blocks'[h] = blocks[h],
             \A o \in Objects : LastHash'[o] \in {LastHash[o], lh, Nil}
      PROVE  AnswerInv'
  <2>1. PrintedFromATip' /\ printed' \in Seq(stored') /\ printed' # <<>>
    BY <1>1, AnswerStays
  <2>2. \A h \in stored' : h \in {GenesisHash} \cup orphans' \/ blocks'[h].PrevHash \in stored'
    BY <1>1 DEF AnswerInv, IInv, TypeOK
  <2> QED
    BY <1>1, <2>1, <2>2 DEF AnswerInv
<1>2. ASSUME NEW o \in Objects, Load(o) \/ Cache(o)
      PROVE  AnswerInv'
  BY <1>1, <1>2 DEF Load, Cache, IInv, TypeOK
<1>3. ASSUME NEW r \in Requests, GetBlockchain(r) \/ OtherRequest(r)
      PROVE  AnswerInv'
  BY <1>1, <1>3 DEF GetBlockchain, OtherRequest
<1>4. ASSUME NEW r \in Requests, PrintChain(r)
      PROVE  AnswerInv'
  <2>1. /\ holds[r] # 0
        /\ printed' = Iterate([h \in stored |-> blocks[h]], LastHash[holds[r]])
        /\ UNCHANGED <<blocks, stored, lh, LastHash, tips, orphans>>
    BY <1>4 DEF PrintChain
  <2>2. LastHash[holds[r]] \in tips
    BY <2>1, HeldIsLoaded DEF AnswerInv
  <2>3. PrintedFromATip' /\ printed' \in Seq(stored') /\ printed' # <<>>
    BY <2>1, <2>2, AnswerOf DEF PrintedFromATip
  <2> QED
    BY <2>1, <2>3 DEF AnswerInv
<1>5. ASSUME NEW o \in Objects, NEW hash, MineBlock(o, hash)
      PROVE  AnswerInv'
  <2>1. /\ MakesBlock(hash, lh) /\ stored' = stored \cup {hash} /\ BecomesTip(o, hash)
        /\ printed' = printed /\ orphans' = orphans /\ lh \in DOMAIN blocks /\ lh \in stored
    BY <1>5 DEF MineBlock, MinesOn, IInv, TypeOK
  <2>2. blocks'[hash].PrevHash = lh /\ \A h \in DOMAIN blocks : blocks'[h] = blocks[h]
    BY <2>1, MakesGives DEF IInv
  <2> QED
    BY <2>1, <2>2, AnswerGrows
<1>6. ASSUME NEW r \in Requests, NEW hash \in NewHashes, AddTXN(r, hash)
      PROVE  AnswerInv'
  BY <1>5, <1>6, HeldIsLoaded DEF AddTXN
<1>7. ASSUME NEW hash \in NewHashes, MineTx(hash)
      PROVE  AnswerInv'
  BY <1>5, <1>7 DEF MineTx, Objects
<1>8. ASSUME NEW hash \in NewHashes, HandleBlock(hash)
      PROVE  AnswerInv'
  <2>1. /\ stored' = stored \cup {hash} /\ printed' = printed /\ blocks' = blocks
        /\ orphans' = orphans \cup { h \in {hash} : blocks[h].PrevHash \notin stored }
        /\ BecomesTip(2, hash) \/ UNCHANGED <<lh, LastHash, tips>>
    BY <1>8 DEF HandleBlock, AddsBlock
  <2>2. hash \in orphans' \/ blocks'[hash].PrevHash \in stored
    BY <2>1
  <2>3. 2 \in Objects
    BY DEF Objects
  <2> QED
    BY <2>1, <2>2, <2>3, AnswerGrows
<1>9. ASSUME NEW hash \in NewHashes, NEW parent \in DOMAIN blocks, PeerMines(hash, parent)
      PROVE  AnswerInv'
  <2>1. MakesBlock(hash, parent) /\ UNCHANGED <<stored, lh, LastHash, history>>
    BY <1>9 DEF PeerMines
  <2>2. \A h \in DOMAIN blocks : blocks'[h] = blocks[h]
    BY <2>1, MakesGives DEF IInv
  <2> QED
    BY <1>1, <2>1, <2>2
<1>10. CASE Restart
  BY <1>1, <1>10 DEF Restart
<1>11. CASE UNCHANGED vars
  BY <1>1, <1>11 DEF vars
<1> QED
  BY <1>2, <1>3, <1>4, <1>6, <1>7, <1>8, <1>9, <1>10, <1>11 DEF Next

\* However far an object lags behind, /printchain answers from a hash that was
\* the tip, down to genesis or to a block that was stored before its parent.
THEOREM AnswersGoDownFromATip == Spec => []PrintedFromATip
<1>1. AnswerInv => PrintedFromATip
  BY DEF AnswerInv
<1> QED BY <1>1, InvAlways, AnswerInit, AnswerStep, PTL DEF Spec
=============================================================================
