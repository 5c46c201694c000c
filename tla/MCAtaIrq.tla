------------------------------ MODULE MCAtaIrq ------------------------------
(* Instances of AtaIrq for TLC. *)
EXTENDS AtaIrq

AllOps  == InitOps \cup IoOps
ReadOps == InitOps \cup {"READ_28", "READ_48"}
=============================================================================
