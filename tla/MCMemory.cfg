SPECIFICATION MCSpec
CONSTANTS
  MemoryMaps <- Maps
  Reserved <- Taboo
  BitmapPages = 8
  NormalEnd = 8
  DmaEnd = 4
  MetaPages = 1
  PageCounts = {1, 2}
  Caches <- CacheList
  PerSlab <- Objects
  Words <- ObjWords
  FirstCache = "c8"
  SlabMem = {m1, m2, m3}
  Tail32 = 9
  ASpaces = {s1, s2}
  FirstSpace = s1
  Frames = {f1, f2, f3}
  NoFrame = NoFrame
  UserEnd = 3
  HeapBase = 1
  Lengths = {1, 3}
  Procs = {p1, p2}
  InitProc = p1
  FileObjs = {o1}
  Tables = {t1, t2}
  Spaces = {v1, v2, v3}
  None = null
  FirstFd = 1
  MaxFds = 3
  CloneFlags <- MCShareAll
  Syscalls <- MCSpoilingCalls
  MaxCount = 1
  RbKeys = {1, 2, 3, 4, 5, 6, 7, 8}
  Nil = 0
  BitsPerLong = 4
  NWords = 2
  Sizes = {1, 2, 5, 6, 8}
SYMMETRY MCSym
INVARIANTS PagesOK SlabsOK SpacesOK TablesOK RbOK SearchOK
CHECK_DEADLOCK FALSE
