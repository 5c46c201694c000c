\* 4 words of 4 bits, filled with a "byte" of 2 bits: 8 frames managed, 16 bits
\* in the array, 32 scanned.  Pages of 2 bytes in an address space of 64.
SPECIFICATION Spec
CONSTANTS
  PageSize = 2
  AddrSpan = 64
  WordBits = 4
  ByteBits = 2
  BITMAP_BYTES = 4
  RESERVED = 3
  KernelStart = 5
  KernelEnd = 9
  Maps <- RamMaps
  Foreign <- SomeForeign
INVARIANT
  AllocatesOnlyRam
CHECK_DEADLOCK FALSE
