\* Two sectors of address per head and two heads: sector 4 is past the end of 28
\* bits.  Five sectors on the medium, requests of up to two.
SPECIFICATION FairSpec
CONSTANTS
  LowSpan = 2
  Heads = 2
  Span48 = 8
  DiskSectors = 5
  IrqBeforeWriteData = FALSE
  IdleReads = 2
  DrqReads = 1
  CallOps = {"READ_28", "WRITE_28", "READ_48", "WRITE_48"}
  StartLbas = {1, 3}
  Counts = {0, 2}
  BufferSectors = 2
  DriveAtEntry = {"absent", "starting", "ready"}
  MaxCalls = 3
INVARIANTS
  TypeOK
  ReadDelivers
  WriteIsStored
  SuccessLeavesIdle
PROPERTIES
  StoresInPlace
  CallsReturn
CHECK_DEADLOCK FALSE
