CONSTANTS
  NPROC = 3
  CPU = {c1, c2}
  None = None
  MaxPid = 3
  MaxTrans = 0
  KillArgs = {2}
  Calls = {"fork", "exit", "wait", "kill"}
  InitCalls = {"fork", "wait", "kill"}
SPECIFICATION Spec
SYMMETRY Symmetry
INVARIANT StacksSound
INVARIANT FamilySound
