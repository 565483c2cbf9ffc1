CONSTANTS
  Block = {b1, b2, b3}
  Val = {v1, v2}
  LOGSIZE = 2
  NoBuf = NoBuf
  NoBlock = NoBlock
  Proc = {p1, p2}
  NBUF = 2
  BVal = {v1}
  Sector = {s1, s2, s3}
  Zero = Zero
  NoSector = NoSector
  MaxPin = 0
  ReadErrors = FALSE
  Readers = {p1}
  Writers = {p2}
  Byte = {d1}
  NoByte = NoByte
  PIPESIZE = 2
  W = 4
  MaxN = 3
  Kills = {}
  NoProc = NoProc
  Args <- MCArgs
  Lag = 1
SPECIFICATION MCSpec
INVARIANT IdleReadsCommitted
PROPERTIES
  ImplementsAtomicDisk
  EraseAfterInstall
  RecoveryCompletes
  IoCompletes
  CloseReleasesPeers
  SleepReturns
