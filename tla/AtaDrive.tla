------------------------------ MODULE AtaDrive ------------------------------
(***************************************************************************)
(* The drive on the primary ATA channel, as the drivers of the repository  *)
(* use it.  It is hardware, so nothing here is under src/: the operators   *)
(* say what a PIO drive answers to the port accesses the drivers make.     *)
(*                                                                         *)
(* A drive is a record: its phase (what STATUS shows of BSY and DRQ), the  *)
(* command it executes and the sector it executes it on, its LBA registers *)
(* (head = bits 0-3 of DRIVE_SEL, low = the LBA_LOW..LBA_HIGH file), ERR   *)
(* or DF, a pending interrupt, the nIEN bit and its sector buffer.         *)
(***************************************************************************)
EXTENDS Integers

CONSTANTS
  LowSpan,            \* 2^24: what LBA_LOW, LBA_MID and LBA_HIGH can name
  Heads,              \* 2^4: what bits 0-3 of DRIVE_SEL can name
  Span48,             \* 2^48: what the two-byte-deep register file can name
  DiskSectors,        \* sectors on the medium
  IrqBeforeWriteData  \* does a drive interrupt when it first wants write data?

ASSUME DriveAssumption ==
  /\ LowSpan \in Nat \ {0} /\ Heads \in Nat \ {0} /\ Span48 \in Nat \ {0}
  /\ DiskSectors \in Nat
  /\ IrqBeforeWriteData \in BOOLEAN

(* The contents of a sector: what lies on the medium, or in the caller's   *)
(* buffer, before the request; or a read of the data port nobody offered.  *)
FromDisk(l) == [from |-> "disk", at |-> l]
FromMem(i)  == [from |-> "mem", at |-> i]
Garbage     == [from |-> "port", at |-> 0]
Content     == [from : {"disk", "mem", "port"}, at : Nat]

DiskLbas == 0 .. DiskSectors - 1

Phases   == {"absent", "starting", "ready", "busy", "drq", "flush"}
Commands == {"none", "identify", "setmult", "read", "write"}
Drive    == [phase : Phases, cmd : Commands, target : Nat, head : Nat,
             low : Nat, err : BOOLEAN, intrq : BOOLEAN, nien : BOOLEAN,
             buf : Content]

DriveAtReset(phase, nien) ==
  [phase |-> phase, cmd |-> "none", target |-> 0, head |-> 0, low |-> 0,
   err |-> FALSE, intrq |-> FALSE, nien |-> nien, buf |-> Garbage]

(***************************************************************************)
(* The registers the drivers read.  An absent drive floats the bus: 0xFF.  *)
(***************************************************************************)
StatusFlags == {"BSY", "DRDY", "DRQ", "ERR", "FLOAT"}

DriveStatus(d) ==
  CASE d.phase = "absent"            -> {"FLOAT"}
    [] d.phase \in {"busy", "flush"} -> {"BSY"}
    [] d.phase = "starting"          -> {}
    [] OTHER -> {"DRDY"} \cup {f \in {"DRQ", "ERR"} : \/ f = "DRQ" /\ d.phase = "drq"
                                                      \/ f = "ERR" /\ d.err}

IntrqLine(d) == d.intrq /\ ~d.nien

\* STATUS acknowledges the interrupt; the alternate status does not.
AfterStatusRead(d) == [d EXCEPT !.intrq = FALSE]

\* A block read from DATA, and the state after its last word is taken.
DataPort(d, disk) ==
  IF d.phase = "drq" /\ d.cmd = "read" /\ d.target \in DiskLbas
  THEN disk[d.target] ELSE Garbage
AfterDrain(d) ==
  IF d.phase = "drq" /\ d.cmd \in {"read", "identify"}
  THEN [d EXCEPT !.phase = "ready"] ELSE d

(***************************************************************************)
(* The registers the drivers write.  A drive with BSY or DRQ set takes     *)
(* neither a register nor a command.                                       *)
(***************************************************************************)
AfterControl(d, nien) == [d EXCEPT !.nien = nien]
AfterDriveSel(d, h)   == IF d.phase = "ready" THEN [d EXCEPT !.head = h] ELSE d
AfterLba(d, l)        == IF d.phase = "ready" THEN [d EXCEPT !.low = l] ELSE d

AfterCommand(d, cmd, ext) ==
  IF d.phase = "ready"
  THEN [d EXCEPT !.phase = "busy", !.cmd = cmd, !.err = FALSE, !.intrq = FALSE,
                 !.target = IF ext THEN d.low ELSE d.head * LowSpan + d.low]
  ELSE d

AfterFill(d, data) ==
  IF d.phase = "drq" /\ d.cmd = "write"
  THEN [d EXCEPT !.phase = "flush", !.buf = data] ELSE d

(***************************************************************************)
(* What the drive does on its own.                                         *)
(***************************************************************************)
CanOfferData(d) ==
  /\ d.phase = "busy"
  /\ d.cmd = "identify" \/ (d.cmd \in {"read", "write"} /\ d.target \in DiskLbas)
AfterOffer(d) ==
  [d EXCEPT !.phase = "drq", !.intrq = d.cmd # "write" \/ IrqBeforeWriteData]

CanFail(d)   == d.phase \in {"busy", "flush"}
AfterFail(d) == [d EXCEPT !.phase = "ready", !.err = TRUE, !.intrq = TRUE]

\* A drive comes up, or ends a command that moves no data.
CanSettle(d)   == d.phase = "starting" \/ (d.phase = "busy" /\ d.cmd = "setmult")
AfterSettle(d) == [d EXCEPT !.phase = "ready", !.intrq = (d.cmd = "setmult")]

CanStore(d)         == d.phase = "flush"
AfterStore(d)       == [d EXCEPT !.phase = "ready", !.intrq = TRUE]
DiskAfterStore(d, disk) == [disk EXCEPT ![d.target] = d.buf]
=============================================================================
