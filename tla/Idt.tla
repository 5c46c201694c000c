--------------------------------- MODULE Idt ---------------------------------
(***************************************************************************)
(* The kernel loader's interrupt descriptor table, kernelLoader/idt.c: the *)
(* gates idt_init writes, and what the processor makes of them when an     *)
(* exception comes.  The table is a function from the vectors processor    *)
(* exceptions have to gates; an address is split over three fields.        *)
(***************************************************************************)
EXTENDS Integers

CONSTANTS
  Half,      \* 2^16: what handler_offset_low and handler_offset_mid hold
  HandlerAt  \* the address the linker gave the handler of a vector

Vectors == 0 .. 21

\* The vectors idt_init names: 3, 4 and 15 stay as the bss loop left them.
Gated == (0 .. 2) \cup (5 .. 14) \cup (16 .. 21)

\* The handlers whose function takes an error code from the stack.
TakesErrorCode == {8, 17, 21} \cup (10 .. 14)

ASSUME IdtAssumption ==
  /\ Half \in Nat \ {0, 1}
  /\ HandlerAt \in [Gated -> 0 .. Half * Half * Half * Half - 1]
  /\ \A v, w \in Gated : HandlerAt[v] = HandlerAt[w] => v = w

KERNEL_CS == 24
ZeroGate  == [low |-> 0, mid |-> 0, high |-> 0, selector |-> 0, type |-> 0]
ZeroIdt   == [v \in Vectors |-> ZeroGate]

idt_gate(addr) ==
  [low  |-> addr % Half, mid |-> (addr \div Half) % Half,
   high |-> addr \div (Half * Half),
   selector |-> KERNEL_CS, type |-> 142]  \* 0x8E, IDT_ATTR_INTGATE

idt_init(idt) ==
  [v \in Vectors |-> IF v \in Gated THEN idt_gate(HandlerAt[v]) ELSE idt[v]]

(***************************************************************************)
(* The processor.  A vector whose gate is not a present interrupt gate     *)
(* raises #GP instead, that one failing a double fault, that one a reset.  *)
(***************************************************************************)
PushesErrorCode == {8, 17, 21} \cup (10 .. 14)

Message(v) == [what |-> "message", vector |-> v]
Reset      == [what |-> "reset", vector |-> 0]
Garbled    == [what |-> "garbled", vector |-> 0]

GateTarget(g) == g.low + g.mid * Half + g.high * Half * Half
Usable(g)     == g.type = 142 /\ g.selector = KERNEL_CS

\* What is seen when vector w is entered through its gate: the handler's own
\* message if its frame is laid out as it expects.
Entered(idt, w) ==
  IF \E h \in Gated : HandlerAt[h] = GateTarget(idt[w])
  THEN LET h == CHOOSE h \in Gated : HandlerAt[h] = GateTarget(idt[w])
       IN  IF (h \in TakesErrorCode) = (w \in PushesErrorCode) THEN Message(h) ELSE Garbled
  ELSE Reset

Deliver(idt, v) ==
  IF Usable(idt[v]) THEN Entered(idt, v)
  ELSE IF Usable(idt[13]) THEN Entered(idt, 13)
  ELSE IF Usable(idt[8]) THEN Entered(idt, 8)
  ELSE Reset
=============================================================================
