\* The host ID as documented: a login after an interrupted store makes a new one.
SPECIFICATION FairSpec
CONSTANTS
  Refreshers = {r1}
  Logins = {l1}
  Logouts = {o1}
  Clients = {c1}
  s1 = s1
  s2 = s2
  Subjects = {s1, s2}
  Offers <- TwoAccounts
  MaxGrants = 1
  MaxHosts = 2
  NONE = NONE
  INVALID = INVALID
  EMPTY = EMPTY
  CORRUPT = CORRUPT
PROPERTIES HostIdStable
