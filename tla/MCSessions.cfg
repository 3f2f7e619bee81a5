SPECIFICATION Spec
CONSTANTS
  Nil = Nil
  Requests = {r1, r2}
  Connections = {n1, n2}
  Runner = runner
  Starter = starter
  IsNodeZero = FALSE
INVARIANTS
  SessionOwnsItsHandle
  OneSessionAtATime
  NoHandleLeaks
PROPERTIES
  EveryRequestEnds
  StartupEnds
  SessionsImplementAccess
