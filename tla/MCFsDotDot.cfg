SPECIFICATION Spec
CONSTANTS
  p1 = p1
  a = a
  b = b
  Proc = {p1}
  Name = {a, b}
  Path <- MCPath
  NewPath <- MCNewPath
  Disks <- MCEmptyDisk
  NINO = 3
  NINODE = 3
  MaxCalls = 6
  Calls = {"chdir", "unlink", "mkdir"}
INVARIANT NoTypelessInode
