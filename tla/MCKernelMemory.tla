--------------------------- MODULE MCKernelMemory ---------------------------
(* Instances of KernelMemory for TLC. *)
EXTENDS KernelMemory

AllFrames == Frames
LowFrames == 0 .. 2

Ram(from, to) == [base |-> from * PageSize, length |-> (to - from + 1) * PageSize, type |-> 1]

\* Frames 0 to 16, also with a hole that stays used; memory that ends at 10, inside
\* the array; a single frame to grant; reserved frames only.
SomeMaps == {{Ram(0, 16)}, {Ram(0, 6), Ram(8, 16)}, {Ram(0, 10)}, {Ram(0, 4)}, {Ram(0, 3)}}
BigMap   == {{Ram(0, 16)}}

\* Behind the array: nothing to grant, all frames up to 15, or some.
SomeForeign == {10 .. 19, 16 .. 19, {12, 15, 16, 17, 19}}
FullForeign == {17 .. 19}

MachinesHere ==
  UNION {{MachineOf(map, behind, c) : c \in Ceilings(map)} : map \in Maps, behind \in Foreign}
=============================================================================
