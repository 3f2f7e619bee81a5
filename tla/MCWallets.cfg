SPECIFICATION Spec
CONSTANTS
  r1 = r1
  r2 = r2
  r3 = r3
  r4 = r4
  p1 = p1
  p2 = p2
  Requests = {r1, r2}
  Readers = {r3}
  Processes = {p1, p2}
  ProcessOf <- TwoNodes
  Accounts = {a1, a2, a3}
  Missing = Missing
  Torn = Torn
INVARIANTS
  TornHasAWriter
  OneAtATimeLosesNothing
PROPERTIES
  TornForGood
