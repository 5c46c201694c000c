\* boot2.asm maps 16 MiB; the allocator grants nothing below 64 MiB.
SPECIFICATION KernelSpec
CONSTANTS
  Idx = 3
  FrameCount = 20
  Machines <- MachinesHere
  RESERVED = 4
  HhdmSlot = 2
  KernelPages = {1, 2}
  StackPages = {2, 3}
  OneToOne <- LowFrames
  NxeBits = {FALSE}
  Vas = {5, 7, 10}
  PageSize = 2
  AddrSpan = 64
  WordBits = 2
  ByteBits = 2
  BITMAP_BYTES = 5
  KernelStart = 2
  KernelEnd = 6
  Maps <- BigMap
  Foreign <- FullForeign
INVARIANT
  BootReachesItsTables
CHECK_DEADLOCK FALSE
