CONSTANTS
  Proc = {p1, p2}
  Caller = {p1, p2}
  Process = {p1, p2}
  NoProc = NoProc
  BUF = 2
  W = 4
  Counts = {0, 3}
  NS = 2
  B = 4
  H = 4
  MULTONE = 4
  MULTTWO = 2
  Streams <- MCStreams
  Values <- MCValues
  zrng0 <- MCzrng0
  Inode = {1, 2}
  Fobj = {1, 3}
  inodeOf <- MCinodeOf
  NB = 4
  NLOG = 1
  BPB = 8
  NDIRECT = 1
  NINDIRECT = 2
  BSIZE = 2
  LOGSIZE = 6
  Sizes = {1, 4}
  MaxWrites = 2
  NF = 16
  NSLOT = 2
  PGSIZE = 2
  PPT = 2
  NUT = 3
  NKT = 1
  Deltas <- MCDeltas
  Images <- MCImages
  NFILE = 2
  NOFILE = 2
  Pages = {1}
  NALLOC = 3
  TOP = 11
  HDR = 2
  Bytes = {1, 4, 5}
  MAXARGS = 3
  NPROC = 6
  NPIPE = 3
  Chars = {"a", " ", "|", "&", ";", "(", ")", ">"}
  MaxLine = 5
  RunLines <- MCRunLines
  META = 2
  SIZE = 12
  BITS = 16
  DIRENT = 1
  MaxFiles = 3
SPECIFICATION MCSpec
INVARIANTS
  InputNeverStuck
  BlocksExact
  MemorySound
  FilesSound
  StreamsSound
  HeapSound
  ParsesGrammar
  EofComes
  ImageSound
PROPERTIES
  ImplementsTty
  ImplementsByteFile
  CallsAllOrNothing
