SPECIFICATION Spec
CONSTANTS
  Nil = Nil
  Panicked = Panicked
  LAST_HASH_KEY = "lastHash"
  LH_KEY = "lastHash"
  p1 = p1
  p2 = p2
  origin = origin
  bob = bob
  Owners = {origin, bob}
  ORIGIN_ADDRESS = origin
  Amounts = {15}
  GenesisHash = genesis
  MinedHashes = {m1, m2}
  PeerBlocks <- MCPeerBlocks
SYMMETRY Mined
INVARIANTS
  TypeOK
  TipIsStored
  TipIsHighest
  HeightsCountLinks
  UpdateFindsItsInputs
PROPERTIES
  TipNeverSinks
  ReindexIsExact
