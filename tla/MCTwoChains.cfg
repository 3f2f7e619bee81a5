SPECIFICATION Spec
CONSTANTS
  Requests = {r1, r2}
  GenesisHash = g
  NewHashes = {h1, h2, h3}
  Nil = Nil
  Panicked = Panicked
INVARIANTS
  TipIsHighest
  OneIsCurrent
  PrintedFromATip
PROPERTIES
  SettledForGood
