\* The kernel's layout in a small base: its bss reaches from above its data over
\* the stack of kmain, where p lies (rsp is 0x700000, the bss some 16 MiB from
\* 0x400000 on).  A pointer has two bytes here, p is the word at 22.
SPECIFICATION FairSpec
CONSTANTS
  Base = 8
  Width = 2
  PtrAt = 22
  BssStart = 3
  BssEnd = 50
PROPERTY
  ZeroesBss
