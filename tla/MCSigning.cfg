SPECIFICATION Spec
CONSTANTS
  Processes = {p1, p2}
  Kinds <- EncodingKinds
  TypesOf <- Encodings
  Pairs <- MixedPairs
  NoAccount = NoAccount
  Stopped = Stopped
  MaxStarts = 3
  MaxSigned = 1
CHECK_DEADLOCK FALSE
INVARIANTS
  SignersAccept
  CreatorsAccept
  UnevenIsRefused
