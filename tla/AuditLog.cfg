\* Appends of three tasks of two processes, with failures and crashes.
SPECIFICATION FairSpec
CONSTANTS
  a1 = a1
  a2 = a2
  b1 = b1
  p = p
  q = q
  Tasks = {a1, a2, b1}
  Procs = {p, q}
  procOf <- MCProcOf
  Parts = 3
  NONE = NONE
CHECK_DEADLOCK FALSE
INVARIANTS Contiguous LinesAreClean
PROPERTIES AppendsAtomically AppendsEnd
