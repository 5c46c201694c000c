\* Tables of three entries: 81 pages, the direct map in the last 27.  The pool
\* runs dry in vmm_init, in a walk, or not at all, or holds frames that are no
\* memory.  With EFER.NXE clear the first walk faults.
SPECIFICATION KernelSpec
CONSTANTS
  Idx = 3
  FrameCount = 20
  Machines <- MachinesHere
  RESERVED = 4
  HhdmSlot = 2
  KernelPages = {1, 2}
  StackPages = {2, 3}
  OneToOne <- AllFrames
  NxeBits = {TRUE, FALSE}
  Vas = {5, 7, 10}
  PageSize = 2
  AddrSpan = 64
  WordBits = 2
  ByteBits = 2
  BITMAP_BYTES = 5
  KernelStart = 2
  KernelEnd = 6
  Maps <- SomeMaps
  Foreign <- SomeForeign
INVARIANTS
  TypeOK
  TablesAreATree
  WalksStayInTables
  KernelStaysMapped
PROPERTIES
  OthersStayMapped
  AllocMaps
  LeaksOnlyInAlloc
  FreesOnlyItsOwn
CHECK_DEADLOCK FALSE
