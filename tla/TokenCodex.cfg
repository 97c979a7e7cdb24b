\* Codex: one request in each of two processes, a login and a logout.
SPECIFICATION Spec
CONSTANTS
  a1 = a1
  a2 = a2
  b1 = b1
  p = p
  q = q
  Requests = {a1, b1}
  Procs = {p, q}
  procOf <- PairProcOf
  Logins = {l1}
  Copilot = FALSE
  Accounts = {s1, s2}
  MaxGrants = 3
  NONE = NONE
  EMPTY = EMPTY
  CORRUPT = CORRUPT
SYMMETRY MCSymmetry
INVARIANTS TypeOK SpentOnlyIfLost OnlyStaleIsRefreshed RetryDiffers FileIsOwners
PROPERTIES AnswersAreStored
