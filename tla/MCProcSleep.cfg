CONSTANTS
  NPROC = 3
  CPU = {c1, c2}
  None = None
  MaxPid = 3
  MaxTrans = 2
  KillArgs = {1, 2}
  Calls = {"fork", "begin", "kill"}
  InitCalls = {"fork", "begin"}
SPECIFICATION Spec
SYMMETRY Symmetry
INVARIANT NoLostWakeup
INVARIANT OneTransaction
INVARIANT SwitchesSound
