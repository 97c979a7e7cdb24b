\* A record after one that was cut short is no line of its own.
SPECIFICATION Spec
CONSTANTS
  a1 = a1
  a2 = a2
  b1 = b1
  p = p
  q = q
  Tasks = {a1, a2, b1}
  Procs = {p, q}
  procOf <- MCProcOf
  Parts = 3
  NONE = NONE
CHECK_DEADLOCK FALSE
INVARIANTS EachRecordIsALine
