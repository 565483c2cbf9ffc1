\* One reader that may be killed, one writer that need not write.
CONSTANTS
  Proc = {p1, p2}
  Readers = {p1}
  Writers = {p2}
  Byte = {b1}
  b1 = b1
  b2 = b2
  NoByte = NoByte
  PIPESIZE = 2
  W = 4
  MaxN = 1
  Kills = {p1}
SPECIFICATION LockFairSpec
PROPERTIES
  KilledReaderReturns
