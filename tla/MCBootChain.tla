----------------------------- MODULE MCBootChain -----------------------------
EXTENDS BootChain

\* Addresses above the loader's first byte, some of them far enough apart that
\* every part of an address differs somewhere.
Handlers == [v \in Gated |-> 130 + 37 * v]
=============================================================================
