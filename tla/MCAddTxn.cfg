SPECIFICATION Spec
CONSTANTS
  Nil = Nil
  Panicked = Panicked
  LAST_HASH_KEY = "lastHash"
  LH_KEY = "lh"
  p1 = p1
  p2 = p2
  origin = origin
  bob = bob
  Owners = {origin, bob, carol}
  ORIGIN_ADDRESS = origin
  Amounts <- MCAmounts
  GenesisHash = genesis
  MinedHashes = {m1, m2}
  PeerBlocks <- MCPeerBlocks
SYMMETRY Mined
INVARIANT AddTxnAddsTheTransaction
