CONSTANTS
  Proc = {p1, p2}
  NBUF = 3
  Sector = {s1, s2, s3, s4}
  Val = {v1, v2}
  Zero = Zero
  NoSector = NoSector
  MaxPin = 2
  ReadErrors = FALSE
  CPU = {c1, c2}
  NLOCK = 2
  None = None
SPECIFICATION MCSpec
SYMMETRY Symmetry
INVARIANT ReadsLatest
INVARIANT QueueMatchesDrive
INVARIANT NoLostWakeup
INVARIANT BuffersSound
INVARIANT MutualExclusion
INVARIANT NoPanic
INVARIANT InterruptsRestored
