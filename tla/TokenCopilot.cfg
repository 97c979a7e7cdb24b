\* Copilot: two requests of one process, a login and a logout.
SPECIFICATION Spec
CONSTANTS
  a1 = a1
  a2 = a2
  b1 = b1
  p = p
  q = q
  Requests = {a1, a2}
  Procs = {p}
  procOf <- SharedProcOf
  Logins = {l1}
  Copilot = TRUE
  Accounts = {s1, s2}
  MaxGrants = 2
  NONE = NONE
  EMPTY = EMPTY
  CORRUPT = CORRUPT
SYMMETRY MCSymmetry
INVARIANTS EndpointIsTokens
