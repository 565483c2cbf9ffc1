\* A reader, a writer and a process that kept both ends after fork().  The
\* last may wait for itself, so the system may stop.
CONSTANTS
  Proc = {p1, p2, p3}
  Readers = {p1, p3}
  Writers = {p2, p3}
  Byte = {b1, b2}
  b1 = b1
  b2 = b2
  NoByte = NoByte
  PIPESIZE = 2
  W = 4
  MaxN = 3
  Kills = {p1, p2}
SPECIFICATION Spec
SYMMETRY Symmetry
CHECK_DEADLOCK FALSE
INVARIANTS
  NoLostWakeup
  NoUseAfterFree
PROPERTIES
  ImplementsFifo
  EofMeansNoWriter
