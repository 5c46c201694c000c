\* Every operation, drive present or not, nIEN and the BIOS masks either way.  A
\* 28-bit LBA names 4 sectors, a 48-bit one 6, the medium has 6: a transfer of 3
\* crosses a head boundary, and wraps or runs off the medium.
SPECIFICATION SetupSpec
CONSTANTS
  LowSpan = 2
  Heads = 2
  Span48 = 6
  DiskSectors = 6
  IrqBeforeWriteData = TRUE
  Ops <- AllOps
  StartLbas = {0, 1, 3, 5}
  Counts = {0, 1, 3}
  BufferSectors = 4
  DriveAtEntry = {"ready", "absent"}
  NienAtEntry = {TRUE, FALSE}
  MasksAtEntry <- SomeMasks
INVARIANTS
  TypeOK
  TransferUnderDrq
  ReadDelivers
  ReadCommandIsTaken
  SelectSettles
  QuietAfterRead
  InitIdentifies
  WriteStoresItsBuffer
PROPERTY
  ImplementsTransfer
  EndsOrLosesInterrupt
  LostOnlyWhileIssuing
CHECK_DEADLOCK FALSE
