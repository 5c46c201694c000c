\* The kernel's two sectors are the third and the fourth of five.  A wait reads
\* STATUS once or twice, so the drive is late as often as it is in time.  A BIOS
\* call uses up to the 2038 bytes that leave pml4's entry alone.
SPECIFICATION ChainSpec
CONSTANTS
  LowSpan = 4
  Heads = 2
  Span48 = 16
  DiskSectors = 5
  IrqBeforeWriteData = FALSE
  IdleReads = 2
  DrqReads = 1
  CallOps = {}
  StartLbas = {}
  Counts = {}
  BufferSectors = 3
  DriveAtEntry = {"absent", "starting", "ready"}
  MaxCalls = 0
  KernelLba = 2
  KernelSectors = 2
  Half = 8
  HandlerAt <- Handlers
  BootDrive = 128
  BiosDepths = {128, 2038}
  LoaderSectors = 14
  Gaps = {4, 8, 12, 16}
  BssBytes = 6
  Faults = {0, 2, 3, 8, 14, 15}
INVARIANTS
  HandoverMeansStored
  OnlyKernelSectors
  StagesAreLoaded
  BootinfoIsConsistent
  ModeSwitchHolds
  FaultsAreShown
  PointerArrives
PROPERTIES
  LeavesTheTransfer
  InitLoopsOnlyOnError
CHECK_DEADLOCK FALSE
