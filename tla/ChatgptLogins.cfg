\* Two logins that may be given different accounts, a refresh and a logout; every lock holder finishes.
SPECIFICATION FairSpec
CONSTANTS
  Refreshers = {r1}
  Logins = {l1, l2}
  Logouts = {o1}
  Clients = {c1}
  s1 = s1
  s2 = s2
  Subjects = {s1, s2}
  Offers <- TwoAccounts
  MaxGrants = 2
  MaxHosts = 1
  NONE = NONE
  INVALID = INVALID
  EMPTY = EMPTY
  CORRUPT = CORRUPT
PROPERTIES LoginReplacesWhatItSaw LockReleased
