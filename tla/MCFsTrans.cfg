SPECIFICATION Spec
CONSTANTS
  p1 = p1
  p2 = p2
  a = a
  b = b
  Proc = {p1, p2}
  Name = {a, b}
  Path <- MCPath
  NewPath <- MCNewPath
  Disks <- MCDisks
  NINO = 3
  NINODE = 3
  MaxCalls = 2
  Calls = {"open", "chdir", "unlink", "link", "creat", "mkdir", "write", "close", "exit"}
INVARIANT NoWriteOutsideTrans
