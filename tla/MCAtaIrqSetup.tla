--------------------------- MODULE MCAtaIrqSetup ---------------------------
(* Instances of AtaIrqSetup for TLC. *)
EXTENDS AtaIrqSetup

AllOps == InitOps \cup IoOps

\* What a BIOS leaves: the disk's line open, all closed, the slave closed.
SomeMasks == {<<{3, 5, 7}, {1, 2, 3, 7}>>, <<Lines, Lines>>, <<{2}, {6}>>}
=============================================================================
