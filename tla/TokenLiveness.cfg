\* Codex: two requests of one process and a login; every wait for credentials ends.
SPECIFICATION FairSpec
CONSTANTS
  a1 = a1
  a2 = a2
  b1 = b1
  p = p
  q = q
  Requests = {a1, a2}
  Procs = {p}
  procOf <- SharedProcOf
  Logins = {l1}
  Copilot = FALSE
  Accounts = {s1}
  MaxGrants = 2
  NONE = NONE
  EMPTY = EMPTY
  CORRUPT = CORRUPT
PROPERTIES CredentialsAnswer
