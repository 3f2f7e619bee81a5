SPECIFICATION Spec
CONSTANTS
  Nil = Nil
  Panicked = Panicked
  zero = zero
  miner = miner
  t1 = t1
  t2 = t2
  t3 = t3
  t4 = t4
  t5 = t5
  g = g
  b1 = b1
  b2 = b2
  Nodes = {zero, miner}
  NODE_ZERO = zero
  Txs = {t1, t2, t3, t4, t5}
  Source <- TwoGenerations
  Origin <- PostedToZero
  Verifies = {t1, t2, t3}
  GenesisTx = genesisTx
  EmptyTx = emptyTx
  GenesisHash = g
  Before <- Pasts
  MinedHashes = {m1, m2}
  MaxStarts <- ZeroTwice
  MaxPosts <- FirstTwice
  NowTxs = {t1}
  Mortal = {zero}
CHECK_DEADLOCK FALSE
INVARIANTS
  StoreIsHeldOnce
  EmptyOnlyAfterRestart
  SourcesComeFirst
  MinedAsOftenAsPosted
  OffersArrive
  PrintchainReturnsAll
PROPERTIES
  BlocksSpread
  NodeZeroCatchesUp
  PooledIsKeptOrMined
  PairsAreMined
