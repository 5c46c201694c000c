------------------------------- MODULE MCPmm -------------------------------
(* Instances of Pmm for TLC. *)
EXTENDS Pmm

At(b, l, t) == [base |-> b, length |-> l, type |-> t]

\* Low RAM that ends inside a page; RAM that begins and ends inside a page;
\* RAM that crosses MAX_FRAMES; RAM beyond it; RAM that begins in the page behind the kernel;
\* a hole's neighbour and a region that ends at 2^64, both reserved.
SomeEntries == {At(0, 7, 1), At(7, 6, 1), At(10, 9, 1), At(20, 8, 1), At(11, 4, 1),
                At(12, 4, 2), At(60, 4, 2)}
SomeMaps    == {{a, b} : a, b \in SomeEntries} \cup {{}}
RamMaps     == {m \in SomeMaps : \E e \in m : e.type = 1}

\* Behind the array: all ones, all ones but one bit, all zeros but the first.
SomeForeign == {16 .. 31, (16 .. 31) \ {21}, (16 .. 31) \ {17, 18}}
=============================================================================
