SPECIFICATION Spec
CONSTANTS
  r1 = r1
  r2 = r2
  r3 = r3
  r4 = r4
  p1 = p1
  p2 = p2
  Requests = {r1, r2}
  Readers = {}
  Processes = {p1, p2}
  ProcessOf <- TwoNodes
  Accounts = {a1, a2}
  Missing = Missing
  Torn = Torn
INVARIANTS
  AccountsStay
