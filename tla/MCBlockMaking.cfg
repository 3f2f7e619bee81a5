SPECIFICATION Spec
CONSTANTS
  Txs = {t1, t2}
  MaxTxs = 9
  MaxNonce = 3
CHECK_DEADLOCK FALSE
INVARIANTS
  OnlyOneToFour
  RootIsBalanced
  MinedValidates
PROPERTIES
  BlockMakingEnds
