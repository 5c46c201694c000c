------------------------------- MODULE BssLoop -------------------------------
(***************************************************************************)
(* The loop at the top of both kmain functions (kernelLoader/main.c and    *)
(* kernel/main.c):                                                         *)
(*    for (char *p = __bss_start; p < __bss_end; p++) *p = 0;              *)
(* The build compiles it with -O0: p is not a register but Width bytes on  *)
(* the stack, at PtrAt, and the loop may write on them.  A byte holds one  *)
(* of Base values; mem is the memory the bss lies in, its bytes 0 or not.  *)
(***************************************************************************)
EXTENDS Integers

CONSTANTS
  Base,              \* 2^8
  Width,             \* 8: bytes of a pointer
  PtrAt,             \* where the stack of kmain keeps p
  BssStart, BssEnd   \* __bss_start, __bss_end

BssConstants ==
  /\ Base \in Nat /\ Base > 1 /\ Width \in Nat
  /\ PtrAt \in Int /\ BssStart \in Nat /\ BssEnd \in Nat
  /\ BssStart <= BssEnd

VARIABLES
  loop,  \* "running" or "done"
  p,
  mem

bssVars == <<loop, p, mem>>

Bss == BssStart .. BssEnd - 1

Init ==
  /\ loop = "running" /\ p = BssStart
  /\ mem = [a \in 0 .. BssEnd - 1 |-> 1]

Digit(n, i) == (n \div (Base ^ i)) % Base

\* p after 0 was stored at address a: one byte less if that byte was its own.
AfterStore(a) ==
  LET i == a - PtrAt
  IN  IF i \in 0 .. Width - 1 THEN p - Digit(p, i) * Base ^ i ELSE p

ClearByte ==
  /\ loop = "running" /\ p < BssEnd
  /\ mem' = [mem EXCEPT ![p] = 0]
  /\ p' = AfterStore(p) + 1
  /\ UNCHANGED loop

EndLoop ==
  /\ loop = "running" /\ p >= BssEnd
  /\ loop' = "done"
  /\ UNCHANGED <<p, mem>>

Next == ClearByte \/ EndLoop

FairSpec == Init /\ [][Next]_bssVars /\ WF_bssVars(Next)

-----------------------------------------------------------------------------
\* "zero bss" (kernel/main.c, line 6): the loop ends, and the bss is zero then.
ZeroesBss == <>(loop = "done" /\ \A a \in Bss : mem[a] = 0)
=============================================================================
