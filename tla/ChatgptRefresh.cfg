\* Two refreshes, one login and one logout against one server.
SPECIFICATION Spec
CONSTANTS
  Refreshers = {r1, r2}
  Logins = {l1}
  Logouts = {o1}
  Clients = {c1}
  s1 = s1
  s2 = s2
  Subjects = {s1, s2}
  Offers <- MCOffers
  MaxGrants = 2
  MaxHosts = 2
  NONE = NONE
  INVALID = INVALID
  EMPTY = EMPTY
  CORRUPT = CORRUPT
SYMMETRY RefresherSymmetry
INVARIANTS TypeOK NoSpentToken OneValidSession SessionIsSubjects
PROPERTIES AnswersAreStored RegistrationKept
