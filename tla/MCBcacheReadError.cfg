CONSTANTS
  Proc = {p1, p2}
  NBUF = 3
  Sector = {s1, s2, s3}
  Val = {v1, v2}
  Zero = Zero
  NoSector = NoSector
  MaxPin = 1
  ReadErrors = TRUE
SPECIFICATION Spec
SYMMETRY Symmetry
INVARIANT ReadsLatest
