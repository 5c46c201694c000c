----------------------------- MODULE Vmm_proofs -----------------------------
(***************************************************************************)
(* Proofs about the virtual memory manager.  The definitions and lemmas    *)
(* take the memory m, the root r of the tables and the allocated frames o  *)
(* as parameters, so that they can be applied to a state and to the next.  *)
(***************************************************************************)
EXTENDS Vmm, FiniteSetTheorems, TLAPS

Memories == [Frames -> [Slots -> Entry]]

\* Where a slot of a table leads, and the tables a set of tables leads to.
Hop(m, t, i) == IF t = None \/ m[t][i].kind # "page" THEN None ELSE m[t][i].frame
Kids(m, S)   ==
  {m[x[1]][x[2]].frame : x \in {y \in S \X Slots : m[y[1]][y[2]].kind = "page"}}

\* The tables of level k, and the one of level k on the way to page v; the fifth
\* on that way is the frame v is mapped to.
Lvl(m, r, k) ==
  IF k = 1 THEN {r} ELSE IF k = 2 THEN Kids(m, {r}) ELSE IF k = 3 THEN Kids(m, Kids(m, {r}))
  ELSE Kids(m, Kids(m, Kids(m, {r})))
Node(m, r, v, k) ==
  IF k = 1 THEN r ELSE IF k = 2 THEN Hop(m, r, Index(1, v))
  ELSE IF k = 3 THEN Hop(m, Hop(m, r, Index(1, v)), Index(2, v))
  ELSE IF k = 4 THEN Hop(m, Hop(m, Hop(m, r, Index(1, v)), Index(2, v)), Index(3, v))
  ELSE Hop(m, Hop(m, Hop(m, Hop(m, r, Index(1, v)), Index(2, v)), Index(3, v)), Index(4, v))

\* The tables lie in allocated frames, each on one level and in one slot.
Tree(m, r, o) ==
  /\ \A k \in 1 .. 4 : Lvl(m, r, k) \subseteq o
  /\ \A k, l \in 1 .. 4 : k # l => Lvl(m, r, k) \cap Lvl(m, r, l) = {}
  /\ \A k, l \in 1 .. 3 : \A t \in Lvl(m, r, k), u \in Lvl(m, r, l) : \A i, j \in Slots :
       /\ m[t][i].kind = "page" /\ m[u][j].kind = "page" /\ m[t][i].frame = m[u][j].frame
       => t = u /\ i = j

\* Every entry of a table has been written, with frame 0 if it is absent; pages of
\* 1 GiB are in the second tables of the direct map only, and no table hangs there.
Written(m, r) ==
  \A k \in 1 .. 4 : \A t \in Lvl(m, r, k) : \A i \in Slots :
    /\ m[t][i].kind # "junk" /\ (m[t][i].kind = "absent" => m[t][i].frame = 0)
    /\ m[t][i].kind = "giant" =>
         k = 2 /\ \E s \in HhdmSlot .. Idx - 1 : Hop(m, r, s) = t
HhdmOnly(m, r) ==
  \A s \in HhdmSlot .. Idx - 1 : Hop(m, r, s) # None =>
    \A j \in Slots : m[Hop(m, r, s)][j].kind # "page"

\* The last tables lead to frames of the kernel, or to allocated frames that are
\* no tables, each in one slot.
NoTable(m, r, f) == \A k \in 1 .. 4 : f \notin Lvl(m, r, k)
Leaves(m, r, o) ==
  \A t, u \in Lvl(m, r, 4) : \A i, j \in Slots : m[t][i].kind = "page" =>
    /\ m[t][i].frame < RESERVED \/ (m[t][i].frame \in o /\ NoTable(m, r, m[t][i].frame))
    /\ m[u][j].kind = "page" /\ m[u][j].frame = m[t][i].frame /\ m[t][i].frame >= RESERVED
       => t = u /\ i = j
CallersPages(m, r) == \A v \in Vas : Node(m, r, v, 5) = None \/ Node(m, r, v, 5) >= RESERVED

\* The direct map shows frame f, the first n pages of vmm_kernel_map are mapped.
Direct(m, r, f) ==
  LET t == Hop(m, r, Index(1, HhdmBase + f))
  IN  t # None /\ m[t][Index(2, HhdmBase + f)] = Giant(f - (f % Gib))
DirectMap(m, r, n) == \A f \in 0 .. HhdmSpan - 1 : f < n => Direct(m, r, f)
BootMapped(m, r, n) == \A k \in 0 .. BootCount - 1 : k < n => Node(m, r, NthPage(k), 5) = NthPage(k)

MemInv(m, r, o) ==
  /\ Tree(m, r, o) /\ Written(m, r) /\ HhdmOnly(m, r)
  /\ Leaves(m, r, o) /\ CallersPages(m, r)

\* How far vmm_init is.
BootInv ==
  /\ pc = "boot" => pml4 = None /\ owned = {}
  /\ pc \in {"boot", "hhdm", "map", "off"} => cr3 = None
  /\ pc \in {"boot", "hhdm", "map"} => call = "boot"
  /\ pml4 = None => pc \in {"boot", "off", "fault"} /\ cr3 = None
  /\ cr3 \in {None, pml4}
  /\ pc = "out" => cr3 # None
  /\ pc = "hhdm" => cursor % Gib = 0 /\ DirectMap(mem, pml4, cursor)
  /\ pc \in {"map", "walk", "out"} => DirectMap(mem, pml4, ceiling)
  /\ pc = "map" => cursor <= BootCount /\ BootMapped(mem, pml4, cursor)
  /\ cr3 # None => DirectMap(mem, pml4, ceiling) /\ BootMapped(mem, pml4, BootCount)

\* The walk is at the table of its level on the way to its page, with a frame
\* that nothing leads to yet.
WalkInv ==
  pc = "walk" =>
    /\ table = Node(mem, pml4, va, level)
    /\ call = "boot" => /\ cr3 = None
                        /\ cursor \in 1 .. BootCount /\ BootMapped(mem, pml4, cursor - 1)
                        /\ va = NthPage(cursor - 1) /\ frame = va
    /\ call # "boot" => cr3 # None /\ va \in Vas
    /\ call = "alloc" => /\ frame \in owned /\ frame >= RESERVED /\ NoTable(mem, pml4, frame)
                         /\ \A t \in Lvl(mem, pml4, 4) : \A i \in Slots :
                              mem[t][i].kind = "page" => mem[t][i].frame # frame
    /\ call = "free" => frame = 0

IInv == /\ TypeOK /\ (pml4 # None => MemInv(mem, pml4, owned)) /\ BootInv /\ WalkInv
        /\ WalksStayInTables

-----------------------------------------------------------------------------
(* Division.                                                               *)

LEMMA DivFacts ==
  ASSUME NEW x \in Nat, NEW n \in Nat \ {0}
  PROVE  x \div n \in Nat /\ x % n \in 0 .. n - 1 /\ x = n * (x \div n) + (x % n)
OBVIOUS

\* The quotient is the only number that leaves a rest below the divisor.
LEMMA DivUnique ==
  ASSUME NEW x \in Nat, NEW n \in Nat \ {0}, NEW q \in Nat, NEW r \in 0 .. n - 1, x = n * q + r
  PROVE  x \div n = q /\ x % n = r
<1> DEFINE p == x \div n
           s == x % n
<1>1. p \in Nat /\ s \in 0 .. n - 1 /\ x = n * p + s
  BY DivFacts
<1> HIDE DEF p, s
<1>2. n * (q - p) = s - r
  BY <1>1
<1>3. ~(q - p >= 1)
  <2> SUFFICES ASSUME q - p >= 1 PROVE FALSE
    OBVIOUS
  <2>1. n * (q - p) >= n * 1
    BY <1>1
  <2> QED BY <1>1, <1>2, <2>1
<1>4. ~(p - q >= 1)
  <2> SUFFICES ASSUME p - q >= 1 PROVE FALSE
    OBVIOUS
  <2>1. n * (p - q) >= n * 1
    BY <1>1
  <2>2. n * (p - q) = r - s
    BY <1>1
  <2> QED BY <1>1, <2>1, <2>2
<1>5. p = q
  BY <1>1, <1>3, <1>4
<1>6. s = r
  BY <1>1, <1>2, <1>5
<1> QED BY <1>5, <1>6 DEF p, s

LEMMA SameDiv ==
  ASSUME NEW x \in Nat, NEW y \in Nat, NEW n \in Nat \ {0},
         x \div n = y \div n, x % n = y % n
  PROVE  x = y
<1>1. x = n * (x \div n) + (x % n) /\ y = n * (y \div n) + (y % n)
  BY DivFacts
<1> QED BY <1>1

LEMMA DivDiv ==
  ASSUME NEW x \in Nat, NEW m \in Nat \ {0}, NEW n \in Nat \ {0}
  PROVE  x \div (m * n) = (x \div m) \div n
<1> DEFINE q == x \div m
           r == x % m
           s == q \div n
           t == q % n
<1>1. q \in Nat /\ r \in 0 .. m - 1 /\ x = m * q + r
  BY DivFacts
<1>2. s \in Nat /\ t \in 0 .. n - 1 /\ q = n * s + t
  BY <1>1, DivFacts
<1> HIDE DEF q, r, s, t
<1>3. x = (m * n) * s + (m * t + r)
  BY <1>1, <1>2
<1>4. m * n \in Nat \ {0} /\ m * t + r \in 0 .. m * n - 1
  <2>1. m * t <= m * (n - 1)
    BY <1>2
  <2>2. m * (n - 1) = m * n - m
    OBVIOUS
  <2>3. m * t \in Nat
    BY <1>2
  <2> QED BY <1>1, <1>2, <2>1, <2>2, <2>3
<1>5. x \div (m * n) = s
  BY <1>2, <1>3, <1>4, DivUnique
<1> QED BY <1>5 DEF q, s

-----------------------------------------------------------------------------
(* The indices of a page.                                                  *)

LEMMA Sizes ==
  /\ Idx \in Nat \ {0, 1} /\ Gib \in Nat \ {0} /\ Gib * Idx \in Nat \ {0}
  /\ HhdmSlot \in 1 .. Idx - 1 /\ HhdmBase = (Gib * Idx) * HhdmSlot /\ HhdmBase \in Nat
  /\ HhdmSpan = (Idx - HhdmSlot) * (Gib * Idx) /\ HhdmSpan \in Nat
<1>1. Idx \in Nat \ {0, 1} /\ HhdmSlot \in 1 .. Idx - 1
  BY VmmAssumption DEF Slots
<1>2. Gib \in Nat \ {0}
  BY <1>1 DEF Gib
<1>3. Gib * Idx \in Nat \ {0}
  BY <1>1, <1>2
<1>4. HhdmBase = (Gib * Idx) * HhdmSlot
  BY <1>1, <1>2 DEF HhdmBase
<1>5. HhdmSpan = (Idx - HhdmSlot) * (Gib * Idx)
  BY <1>1, <1>2 DEF HhdmSpan
<1>6. HhdmSpan \in Nat
  <2> DEFINE d == Idx - HhdmSlot
             n == Gib * Idx
  <2>1. d \in Nat /\ n \in Nat
    BY <1>1, <1>3
  <2> HIDE DEF d, n
  <2>2. d * n \in Nat
    BY <2>1
  <2> QED BY <1>5, <2>2 DEF d, n
<1> QED BY <1>1, <1>2, <1>3, <1>4, <1>5, <1>6

LEMMA CallersLow == \A v \in Vas : v \in 0 .. HhdmBase - 1 /\ v \in Nat
<1>1. Vas \subseteq 0 .. HhdmBase - 1
  BY VmmAssumption
<1> QED BY <1>1, Sizes

LEMMA IndexIs ==
  ASSUME NEW v \in Nat
  PROVE  /\ Index(4, v) = v % Idx
         /\ Index(3, v) = (v \div Idx) % Idx
         /\ Index(2, v) = ((v \div Idx) \div Idx) % Idx
         /\ Index(1, v) = (((v \div Idx) \div Idx) \div Idx) % Idx
         /\ v \div Gib = (v \div Idx) \div Idx
         /\ v \div (Gib * Idx) = ((v \div Idx) \div Idx) \div Idx
<1>1. Shifts[1] = Gib * Idx /\ Shifts[2] = Gib /\ Shifts[3] = Idx /\ Shifts[4] = 1
  BY DEF Shifts
<1>2. v \div 1 = v
  BY DivUnique
<1>3. v \div Gib = (v \div Idx) \div Idx
  BY Sizes, DivDiv DEF Gib
<1>4. Gib \in Nat \ {0} /\ Idx \in Nat \ {0}
  BY Sizes
<1>5. v \div (Gib * Idx) = (v \div Gib) \div Idx
  BY <1>4, DivDiv
<1> QED BY <1>1, <1>2, <1>3, <1>5 DEF Index

LEMMA IndexInSlots ==
  ASSUME NEW v \in Nat, NEW k \in 1 .. 4
  PROVE  Index(k, v) \in Slots
<1>1. \A x \in Nat : x % Idx \in Slots
  BY Sizes, DivFacts DEF Slots
<1>2. \A x \in Nat : x \div Idx \in Nat
  BY Sizes, DivFacts
<1> QED BY <1>1, <1>2, IndexIs

\* Pages below the direct map are told apart by their indices, of which the first
\* is below that of the direct map.
LEMMA LowPage ==
  ASSUME NEW v \in 0 .. HhdmBase - 1
  PROVE  Index(1, v) = v \div (Gib * Idx) /\ Index(1, v) < HhdmSlot
<1> DEFINE n == Gib * Idx
           q == v \div n
           r == v % n
<1>1. v \in Nat /\ n \in Nat \ {0} /\ HhdmBase = n * HhdmSlot /\ HhdmSlot \in 1 .. Idx - 1
  BY Sizes
<1>2. q \in Nat /\ r \in 0 .. n - 1 /\ v = n * q + r
  BY <1>1, DivFacts
<1>3. q < HhdmSlot
  <2> HIDE DEF n, q, r
  <2> SUFFICES ASSUME q >= HhdmSlot PROVE FALSE
    BY <1>1, <1>2
  <2>1. n * q >= n * HhdmSlot
    BY <1>1, <1>2
  <2> QED BY <1>1, <1>2, <2>1
<1>4. q % Idx = q
  <2> HIDE DEF q
  <2>1. q = Idx * 0 + q
    BY <1>2, Sizes
  <2> QED BY <1>1, <1>2, <1>3, <2>1, Sizes, DivUnique
<1>5. Index(1, v) = q % Idx
  BY <1>1, IndexIs
<1> QED BY <1>3, <1>4, <1>5

LEMMA SamePage ==
  ASSUME NEW v \in 0 .. HhdmBase - 1, NEW w \in 0 .. HhdmBase - 1,
         \A k \in 1 .. 4 : Index(k, v) = Index(k, w)
  PROVE  v = w
<1> DEFINE v3 == v \div Idx
           w3 == w \div Idx
           v2 == v3 \div Idx
           w2 == w3 \div Idx
<1>1. v \in Nat /\ w \in Nat /\ Idx \in Nat \ {0}
  BY Sizes
<1>2. v3 \in Nat /\ w3 \in Nat
  BY <1>1, DivFacts
<1>3. v2 \in Nat /\ w2 \in Nat
  BY <1>1, <1>2, DivFacts
<1>4. v2 \div Idx = v \div (Gib * Idx) /\ v2 % Idx = Index(2, v) /\ v3 % Idx = Index(3, v)
  BY <1>1, IndexIs
<1>5. w2 \div Idx = w \div (Gib * Idx) /\ w2 % Idx = Index(2, w) /\ w3 % Idx = Index(3, w)
  BY <1>1, IndexIs
<1>6. v % Idx = Index(4, v) /\ w % Idx = Index(4, w)
  BY <1>1, IndexIs
<1>7. v2 \div Idx = w2 \div Idx
  BY <1>4, <1>5, LowPage
<1> HIDE DEF v3, w3, v2, w2
<1>8. v2 % Idx = w2 % Idx /\ v3 % Idx = w3 % Idx /\ v % Idx = w % Idx
  BY <1>4, <1>5, <1>6
<1>9. v2 = w2
  BY <1>1, <1>3, <1>7, <1>8, SameDiv
<1>10. v3 \div Idx = w3 \div Idx
  BY <1>9 DEF v2, w2
<1>11. v3 = w3
  BY <1>1, <1>2, <1>8, <1>10, SameDiv
<1>12. v \div Idx = w \div Idx
  BY <1>11 DEF v3, w3
<1> QED BY <1>1, <1>8, <1>12, SameDiv

LEMMA HhdmIndex ==
  ASSUME NEW f \in 0 .. HhdmSpan - 1
  PROVE  /\ Index(1, HhdmBase + f) = HhdmSlot + ((f \div Gib) \div Idx)
         /\ Index(1, HhdmBase + f) = (HhdmBase + f) \div (Gib * Idx)
         /\ Index(1, HhdmBase + f) \in HhdmSlot .. Idx - 1
         /\ Index(2, HhdmBase + f) = (f \div Gib) % Idx
         /\ Index(2, HhdmBase + f) = ((HhdmBase + f) \div Gib) % Idx
         /\ (HhdmBase + f) % Gib = f % Gib
<1> DEFINE n == Gib * Idx
           q == f \div n
           r == f % n
           a == f \div Gib
           b == f % Gib
           c == a \div Idx
           d == a % Idx
<1>1. /\ f \in Nat /\ n \in Nat \ {0} /\ HhdmBase = n * HhdmSlot /\ HhdmBase + f \in Nat
      /\ HhdmSlot \in 1 .. Idx - 1 /\ Idx \in Nat \ {0} /\ Gib \in Nat \ {0}
  BY Sizes
<1>2. q \in Nat /\ r \in 0 .. n - 1 /\ f = n * q + r
  BY <1>1, DivFacts
<1>3. a \in Nat /\ b \in 0 .. Gib - 1 /\ f = Gib * a + b
  BY <1>1, DivFacts
<1>4. c \in Nat /\ d \in 0 .. Idx - 1 /\ a = Idx * c + d
  BY <1>1, <1>3, DivFacts
<1>5. q = c
  BY <1>1, DivDiv
<1>6. q < Idx - HhdmSlot
  <2>1. f < (Idx - HhdmSlot) * n
    <3>1. HhdmSpan = (Idx - HhdmSlot) * n /\ HhdmSpan \in Nat
      BY Sizes
    <3> HIDE DEF n
    <3> QED BY <3>1
  <2> HIDE DEF n, q, r
  <2> SUFFICES ASSUME q >= Idx - HhdmSlot PROVE FALSE
    BY <1>1, <1>2
  <2>2. n * q >= n * (Idx - HhdmSlot)
    BY <1>1, <1>2
  <2>3. n * (Idx - HhdmSlot) = (Idx - HhdmSlot) * n
    BY <1>1
  <2> QED BY <1>1, <1>2, <2>1, <2>2, <2>3
<1>7. (HhdmBase + f) \div n = HhdmSlot + q
  <2>1. HhdmBase + f = n * (HhdmSlot + q) + r
    <3> HIDE DEF n, q, r
    <3> QED BY <1>1, <1>2
  <2>2. HhdmSlot + q \in Nat /\ HhdmBase + f \in Nat /\ n \in Nat \ {0} /\ r \in 0 .. n - 1
    <3> HIDE DEF n, q, r
    <3> QED BY <1>1, <1>2 DEF n
  <2> HIDE DEF n, q, r
  <2> QED BY <2>1, <2>2, DivUnique
<1>8. (HhdmBase + f) \div Gib = Idx * HhdmSlot + a /\ (HhdmBase + f) % Gib = b
  <2>1. HhdmBase = Gib * (Idx * HhdmSlot)
    BY <1>1
  <2>2. Idx * HhdmSlot \in Nat
    BY <1>1
  <2>3. HhdmBase + f = Gib * (Idx * HhdmSlot + a) + b
    <3> HIDE DEF n, q, r, a, b
    <3> QED BY <1>1, <1>3, <2>1, <2>2
  <2>4. /\ Idx * HhdmSlot + a \in Nat /\ HhdmBase + f \in Nat /\ Gib \in Nat \ {0}
        /\ b \in 0 .. Gib - 1
    <3> HIDE DEF a, b
    <3> QED BY <1>1, <1>3, <2>2
  <2> HIDE DEF n, q, r, a, b
  <2> QED BY <2>3, <2>4, DivUnique
<1>9. (Idx * HhdmSlot + a) % Idx = d
  <2> HIDE DEF n, q, r, a, b, c, d
  <2>1. Idx * HhdmSlot + a = Idx * (HhdmSlot + c) + d /\ Idx * HhdmSlot + a \in Nat
    BY <1>1, <1>3, <1>4
  <2> QED BY <1>1, <1>4, <2>1, DivUnique
<1>10. (HhdmSlot + q) % Idx = HhdmSlot + q
  <2> HIDE DEF n, q, r
  <2>1. HhdmSlot + q = Idx * 0 + (HhdmSlot + q)
    BY <1>1, <1>2
  <2> QED BY <1>1, <1>2, <1>6, <2>1, DivUnique
<1>11. /\ Index(1, HhdmBase + f) = ((HhdmBase + f) \div n) % Idx
       /\ Index(2, HhdmBase + f) = ((HhdmBase + f) \div Gib) % Idx
  BY <1>1, IndexIs
<1> HIDE DEF n, q, r, a, b, c, d
<1>12. HhdmSlot + q \in HhdmSlot .. Idx - 1
  BY <1>1, <1>2, <1>6
<1> QED BY <1>5, <1>7, <1>8, <1>9, <1>10, <1>11, <1>12 DEF n, a, b, c, d

\* The frames of one GiB.
LEMMA GiantBlock ==
  ASSUME NEW c \in Nat, c % Gib = 0, NEW f \in Nat, c <= f, f < c + Gib
  PROVE  f \div Gib = c \div Gib /\ f - (f % Gib) = c
<1> DEFINE q == c \div Gib
<1>1. Gib \in Nat \ {0}
  BY Sizes
<1>2. q \in Nat /\ c = Gib * q
  BY <1>1, DivFacts
<1> HIDE DEF q
<1>3. f = Gib * q + (f - c) /\ f - c \in 0 .. Gib - 1
  BY <1>1, <1>2
<1>4. f \div Gib = q /\ f % Gib = f - c
  BY <1>1, <1>2, <1>3, DivUnique
<1> QED BY <1>4 DEF q

-----------------------------------------------------------------------------
(* The tables of each level, and the one on the way to a page.             *)

LEMMA InKids ==
  ASSUME NEW m, NEW S, NEW g
  PROVE  g \in Kids(m, S) <=>
           \E t \in S : \E i \in Slots : m[t][i].kind = "page" /\ m[t][i].frame = g
<1>1. ASSUME g \in Kids(m, S)
      PROVE  \E t \in S : \E i \in Slots : m[t][i].kind = "page" /\ m[t][i].frame = g
  <2>1. PICK x \in S \X Slots : m[x[1]][x[2]].kind = "page" /\ g = m[x[1]][x[2]].frame
    BY <1>1 DEF Kids
  <2>2. x[1] \in S /\ x[2] \in Slots
    OBVIOUS
  <2> QED BY <2>1, <2>2
<1>2. ASSUME NEW t \in S, NEW i \in Slots, m[t][i].kind = "page" PROVE m[t][i].frame \in Kids(m, S)
  <2> DEFINE x == <<t, i>>
  <2>1. x \in S \X Slots /\ x[1] = t /\ x[2] = i
    OBVIOUS
  <2> HIDE DEF x
  <2> QED BY <1>2, <2>1 DEF Kids
<1> QED BY <1>1, <1>2

LEMMA LvlStep ==
  ASSUME NEW m, NEW r, NEW k \in 1 .. 3
  PROVE  Lvl(m, r, k + 1) = Kids(m, Lvl(m, r, k)) /\ Lvl(m, r, 1) = {r}
<1>1. k = 1 \/ k = 2 \/ k = 3
  OBVIOUS
<1> QED BY <1>1 DEF Lvl

LEMMA InNextLvl ==
  ASSUME NEW m, NEW r, NEW k \in 1 .. 3, NEW g
  PROVE  g \in Lvl(m, r, k + 1) <=>
           \E t \in Lvl(m, r, k) : \E i \in Slots : m[t][i].kind = "page" /\ m[t][i].frame = g
BY LvlStep, InKids

LEMMA NodeStep ==
  ASSUME NEW m, NEW r, NEW v, NEW k \in 1 .. 4
  PROVE  Node(m, r, v, k + 1) = Hop(m, Node(m, r, v, k), Index(k, v)) /\ Node(m, r, v, 1) = r
<1>1. k = 1 \/ k = 2 \/ k = 3 \/ k = 4
  OBVIOUS
<1> QED BY <1>1 DEF Node

LEMMA HopIs ==
  ASSUME NEW m \in Memories, NEW t \in Frames, NEW i \in Slots
  PROVE  /\ m[t][i] \in Entry /\ m[t][i].frame # None
         /\ Hop(m, t, i) # None <=> m[t][i].kind = "page"
         /\ Hop(m, t, i) # None => Hop(m, t, i) = m[t][i].frame
<1>1. m[t][i] \in Entry
  BY DEF Memories
<1>2. m[t][i].frame \in Nat
  BY <1>1 DEF Entry
<1>3. m[t][i].frame # None
  BY <1>2 DEF None
<1>4. t # None
  BY DEF Frames, None
<1> QED BY <1>1, <1>3, <1>4 DEF Hop

\* The four levels, one after the other.
LEMMA NodeIn ==
  ASSUME NEW m \in Memories, NEW r \in Frames, NEW o, o \subseteq Frames, Tree(m, r, o),
         NEW v \in Nat, NEW k \in 1 .. 4
  PROVE  /\ Node(m, r, v, k) # None =>
              Node(m, r, v, k) \in Lvl(m, r, k) /\ Node(m, r, v, k) \in Frames
         /\ Node(m, r, v, k + 1) # None => Node(m, r, v, k) # None
<1> DEFINE P(j) == Node(m, r, v, j) # None =>
                     Node(m, r, v, j) \in Lvl(m, r, j) /\ Node(m, r, v, j) \in Frames
<1>1. P(1)
  BY NodeStep, LvlStep
<1>2. ASSUME NEW j \in 1 .. 3, P(j) PROVE P(j + 1)
  <2> DEFINE t == Node(m, r, v, j)
             i == Index(j, v)
  <2>1. Node(m, r, v, j + 1) = Hop(m, t, i)
    BY NodeStep
  <2> SUFFICES ASSUME Hop(m, t, i) # None
               PROVE  Hop(m, t, i) \in Lvl(m, r, j + 1) /\ Hop(m, t, i) \in Frames
    BY <2>1
  <2>2. t # None
    BY DEF Hop
  <2>3. t \in Lvl(m, r, j) /\ t \in Frames
    BY <1>2, <2>2
  <2>4. i \in Slots
    BY IndexInSlots
  <2> HIDE DEF t, i
  <2>5. m[t][i].kind = "page" /\ Hop(m, t, i) = m[t][i].frame
    BY <2>3, <2>4, HopIs
  <2>6. Hop(m, t, i) \in Lvl(m, r, j + 1)
    BY <2>3, <2>4, <2>5, InNextLvl
  <2>7. j + 1 \in 1 .. 4
    OBVIOUS
  <2>8. Lvl(m, r, j + 1) \subseteq o
    BY <2>7 DEF Tree
  <2> QED BY <2>6, <2>8
<1>3. P(2)
  BY <1>1, <1>2
<1>4. P(3)
  BY <1>2, <1>3
<1>5. P(4)
  BY <1>2, <1>4
<1>6. P(k)
  <2>1. k = 1 \/ k = 2 \/ k = 3 \/ k = 4
    OBVIOUS
  <2> QED BY <1>1, <1>3, <1>4, <1>5, <2>1
<1>7. Node(m, r, v, k + 1) # None => Node(m, r, v, k) # None
  BY NodeStep DEF Hop
<1> QED BY <1>6, <1>7

\* Two pages that lead to one table have all indices above it in common.
LEMMA NodeBack ==
  ASSUME NEW m \in Memories, NEW r \in Frames, NEW o, o \subseteq Frames, Tree(m, r, o),
         NEW v \in Nat, NEW w \in Nat, NEW k \in 1 .. 3,
         Node(m, r, v, k + 1) # None, Node(m, r, v, k + 1) = Node(m, r, w, k + 1)
  PROVE  /\ Node(m, r, v, k) # None /\ Node(m, r, v, k) = Node(m, r, w, k)
         /\ Index(k, v) = Index(k, w)
<1> DEFINE t == Node(m, r, v, k)
           u == Node(m, r, w, k)
           i == Index(k, v)
           j == Index(k, w)
<1>1. Hop(m, t, i) # None /\ Hop(m, t, i) = Hop(m, u, j)
  BY NodeStep
<1>2. t # None /\ u # None
  BY <1>1 DEF Hop
<1>3. t \in Lvl(m, r, k) /\ t \in Frames /\ u \in Lvl(m, r, k) /\ u \in Frames
  BY <1>2, NodeIn
<1>4. i \in Slots /\ j \in Slots
  BY IndexInSlots
<1> HIDE DEF t, u, i, j
<1>5. m[t][i].kind = "page" /\ m[u][j].kind = "page" /\ m[t][i].frame = m[u][j].frame
  BY <1>1, <1>3, <1>4, HopIs
<1>6. t = u /\ i = j
  BY <1>3, <1>4, <1>5 DEF Tree
<1> QED BY <1>2, <1>6 DEF t, u, i, j

LEMMA Separate ==
  ASSUME NEW m \in Memories, NEW r \in Frames, NEW o, o \subseteq Frames, Tree(m, r, o),
         NEW v \in 0 .. HhdmBase - 1, NEW w \in 0 .. HhdmBase - 1,
         Node(m, r, v, 4) # None, Node(m, r, v, 4) = Node(m, r, w, 4),
         Index(4, v) = Index(4, w)
  PROVE  v = w
<1>1. v \in Nat /\ w \in Nat
  BY Sizes
<1>2. Node(m, r, v, 3) # None /\ Node(m, r, v, 3) = Node(m, r, w, 3) /\ Index(3, v) = Index(3, w)
  BY <1>1, NodeBack, 3 + 1 = 4
<1>3. Node(m, r, v, 2) # None /\ Node(m, r, v, 2) = Node(m, r, w, 2) /\ Index(2, v) = Index(2, w)
  BY <1>1, <1>2, NodeBack, 2 + 1 = 3
<1>4. Index(1, v) = Index(1, w)
  BY <1>1, <1>3, NodeBack, 1 + 1 = 2
<1>5. \A k \in 1 .. 4 : Index(k, v) = Index(k, w)
  <2> TAKE k \in 1 .. 4
  <2>1. k = 1 \/ k = 2 \/ k = 3 \/ k = 4
    OBVIOUS
  <2> QED BY <1>2, <1>3, <1>4, <2>1
<1> QED BY <1>5, SamePage

-----------------------------------------------------------------------------
(* The pages of vmm_kernel_map, in the order of their numbers.             *)

\* Of a finite set of numbers, each is the one with as many below it as there are.
LEMMA Ranks ==
  ASSUME NEW S \in SUBSET Nat, IsFiniteSet(S)
  PROVE  /\ \A p \in S : Cardinality({q \in S : q < p}) \in 0 .. Cardinality(S) - 1
         /\ \A p, q \in S :
              Cardinality({x \in S : x < p}) = Cardinality({x \in S : x < q}) => p = q
         /\ \A k \in 0 .. Cardinality(S) - 1 : \E p \in S : Cardinality({q \in S : q < p}) = k
<1> DEFINE lower(p) == {q \in S : q < p}
           rank(p)  == Cardinality(lower(p))
           n == Cardinality(S)
<1>1. n \in Nat
  BY FS_CardinalityType
<1>2. \A p \in S : IsFiniteSet(lower(p)) /\ rank(p) \in Nat /\ rank(p) \in 0 .. n - 1
  <2> TAKE p \in S
  <2>1. lower(p) \in SUBSET S /\ p \notin lower(p)
    OBVIOUS
  <2> HIDE DEF lower
  <2>2. IsFiniteSet(lower(p)) /\ rank(p) <= n /\ (n = rank(p) => S = lower(p))
    BY <2>1, FS_Subset
  <2>3. rank(p) \in Nat
    BY <2>2, FS_CardinalityType
  <2> HIDE DEF rank, n
  <2> QED BY <1>1, <2>1, <2>2, <2>3
<1>3. ASSUME NEW p \in S, NEW q \in S, p < q PROVE rank(p) < rank(q)
  <2>1. lower(p) \in SUBSET lower(q) /\ p \in lower(q) /\ p \notin lower(p)
    <3>1. p \in Nat /\ q \in Nat /\ ~(p < p) /\ \A x \in S : x < p => x < q
      BY <1>3
    <3> QED BY <1>3, <3>1
  <2>2. IsFiniteSet(lower(q)) /\ rank(p) \in Nat /\ rank(q) \in Nat
    BY <1>2
  <2> HIDE DEF lower
  <2>3. rank(p) <= rank(q) /\ (rank(q) = rank(p) => lower(q) = lower(p))
    BY <2>1, <2>2, FS_Subset
  <2> HIDE DEF rank
  <2> QED BY <2>1, <2>2, <2>3
<1>4. \A p, q \in S : rank(p) = rank(q) => p = q
  <2> TAKE p \in S, q \in S
  <2>1. p < q => rank(p) < rank(q)
    BY <1>3
  <2>2. q < p => rank(q) < rank(p)
    BY <1>3
  <2>3. rank(p) \in Nat /\ rank(q) \in Nat /\ p \in Nat /\ q \in Nat
    BY <1>2
  <2> HIDE DEF rank
  <2> QED BY <2>1, <2>2, <2>3
<1>5. \A k \in 0 .. n - 1 : \E p \in S : rank(p) = k
  <2> DEFINE f == [p \in S |-> rank(p)]
             T == 0 .. n - 1
  <2>1. f \in [S -> T] /\ \A p \in S : f[p] = rank(p)
    <3> HIDE DEF n, rank
    <3> QED BY <1>2
  <2>2. IsFiniteSet(T) /\ Cardinality(T) = n
    <3> HIDE DEF n
    <3>1. n - 1 \in Int
      BY <1>1
    <3> QED BY <1>1, <3>1, FS_Interval
  <2> HIDE DEF f, T, rank
  <2>3. f \in Injection(S, T)
    BY <1>4, <2>1 DEF Injection, IsInjective
  <2>4. f \in Surjection(S, T)
    BY <2>2, <2>3, FS_Injection
  <2> QED BY <2>1, <2>4 DEF Surjection, T
<1> QED BY <1>2, <1>4, <1>5

LEMMA BootSets ==
  /\ KernelPages \subseteq Nat /\ IsFiniteSet(KernelPages) /\ Cardinality(KernelPages) \in Nat
  /\ StackPages \subseteq Nat /\ IsFiniteSet(StackPages) /\ Cardinality(StackPages) \in Nat
  /\ BootCount \in Nat
<1>1. FrameCount - 1 \in Int /\ IsFiniteSet(Frames) /\ Frames \subseteq Nat
  BY VmmAssumption, FS_Interval DEF Frames
<1>2. KernelPages \subseteq Frames /\ StackPages \subseteq Frames
  BY VmmAssumption DEF BootPages
<1>3. IsFiniteSet(KernelPages) /\ IsFiniteSet(StackPages)
  BY <1>1, <1>2, FS_Subset
<1>4. Cardinality(KernelPages) \in Nat /\ Cardinality(StackPages) \in Nat
  BY <1>3, FS_CardinalityType
<1> QED BY <1>1, <1>2, <1>3, <1>4 DEF BootCount

LEMMA NthPageIn ==
  ASSUME NEW k \in 0 .. BootCount - 1
  PROVE  NthPage(k) \in BootPages
<1> DEFINE Nth(S, j) == CHOOSE p \in S : Cardinality({q \in S : q < p}) = j
           K == Cardinality(KernelPages)
           L == Cardinality(StackPages)
<1>1. CASE k < K
  <2>1. k \in 0 .. K - 1
    <3>1. K \in Nat /\ k \in Nat
      BY BootSets
    <3> HIDE DEF K
    <3> QED BY <1>1, <3>1
  <2>2. \E p \in KernelPages : Cardinality({q \in KernelPages : q < p}) = k
    BY <2>1, BootSets, Ranks
  <2>3. NthPage(k) = Nth(KernelPages, k)
    BY <1>1 DEF NthPage
  <2> QED BY <2>2, <2>3 DEF BootPages
<1>2. CASE ~(k < K)
  <2>1. k - K \in 0 .. L - 1
    <3>1. K \in Nat /\ L \in Nat /\ BootCount = K + L
      BY BootSets DEF BootCount
    <3> HIDE DEF K, L
    <3> QED BY <1>2, <3>1
  <2>2. \E p \in StackPages : Cardinality({q \in StackPages : q < p}) = k - K
    BY <2>1, BootSets, Ranks
  <2>3. NthPage(k) = Nth(StackPages, k - K)
    BY <1>2 DEF NthPage
  <2> QED BY <2>2, <2>3 DEF BootPages
<1> QED BY <1>1, <1>2

LEMMA NthPageAll ==
  ASSUME NEW p \in BootPages
  PROVE  \E k \in 0 .. BootCount - 1 : NthPage(k) = p
<1> DEFINE Nth(S, j) == CHOOSE x \in S : Cardinality({q \in S : q < x}) = j
           K == Cardinality(KernelPages)
           L == Cardinality(StackPages)
<1>1. K \in Nat /\ L \in Nat /\ BootCount = K + L
  BY BootSets DEF BootCount
<1>2. CASE p \in KernelPages
  <2> DEFINE k == Cardinality({q \in KernelPages : q < p})
  <2>1. k \in 0 .. K - 1
    BY <1>2, BootSets, Ranks
  <2>2. Nth(KernelPages, k) = p
    BY <1>2, BootSets, Ranks
  <2>3. k < K /\ k \in 0 .. BootCount - 1
    <3> HIDE DEF k, K, L
    <3> QED BY <1>1, <2>1
  <2>4. NthPage(k) = Nth(KernelPages, k)
    BY <2>3 DEF NthPage
  <2> QED BY <2>2, <2>3, <2>4
<1>3. CASE p \in StackPages
  <2> DEFINE j == Cardinality({q \in StackPages : q < p})
             k == K + j
  <2>1. j \in 0 .. L - 1
    BY <1>3, BootSets, Ranks
  <2>2. Nth(StackPages, j) = p
    BY <1>3, BootSets, Ranks
  <2>3. ~(k < K) /\ k \in 0 .. BootCount - 1 /\ k - K = j
    <3> HIDE DEF j, K, L
    <3> QED BY <1>1, <2>1
  <2>4. NthPage(k) = Nth(StackPages, k - K)
    BY <2>3 DEF NthPage
  <2> QED BY <2>2, <2>3, <2>4
<1> QED BY <1>2, <1>3 DEF BootPages

\* They are pages and frames below the direct map, and none of the callers'.
LEMMA BootPageFacts ==
  ASSUME NEW p \in BootPages
  PROVE  p \in 0 .. HhdmBase - 1 /\ p \in Frames /\ p < RESERVED /\ p \notin Vas
BY VmmAssumption

-----------------------------------------------------------------------------
(* A new table: f, which was no table, is hung in slot i of table t, which *)
(* led nowhere, and leads nowhere itself.                                  *)

NewLink(m, n, r, o, f, k, t, i) ==
  /\ m \in Memories /\ n \in Memories /\ r \in Frames /\ o \subseteq Frames
  /\ f \in Frames /\ f \notin o /\ k \in 1 .. 3 /\ t \in Lvl(m, r, k) /\ i \in Slots
  /\ m[t][i].kind # "page" /\ n[t][i] = To(f)
  /\ \A u \in o : \A j \in Slots : u # t \/ j # i => n[u][j] = m[u][j]
  /\ \A j \in Slots : /\ n[f][j].kind \notin {"page", "junk"}
                      /\ n[f][j].kind = "absent" => n[f][j].frame = 0
  /\ Tree(m, r, o)

Added(f, k, j) == IF j = k + 1 THEN {f} ELSE {}

LEMMA LinkKids ==
  ASSUME NEW m, NEW n, NEW r, NEW o, NEW f, NEW k, NEW t, NEW i,
         NewLink(m, n, r, o, f, k, t, i), NEW S, S \subseteq o
  PROVE  /\ Kids(n, S) = Kids(m, S) \cup (IF t \in S THEN {f} ELSE {})
         /\ Kids(n, S \cup {f}) = Kids(n, S)
<1> USE DEF NewLink
<1>1. n[t][i].kind = "page" /\ n[t][i].frame = f /\ i \in Slots
  BY DEF To
<1>2. \A g : g \in Kids(n, S) <=> g \in Kids(m, S) \/ (t \in S /\ g = f)
  <2> TAKE g
  <2>1. ASSUME g \in Kids(n, S) PROVE g \in Kids(m, S) \/ (t \in S /\ g = f)
    <3>1. PICK u \in S : \E j \in Slots : n[u][j].kind = "page" /\ n[u][j].frame = g
      BY <2>1, InKids
    <3>2. PICK j \in Slots : n[u][j].kind = "page" /\ n[u][j].frame = g
      BY <3>1
    <3>3. CASE u = t /\ j = i
      BY <1>1, <3>2, <3>3
    <3>4. CASE ~(u = t /\ j = i)
      <4>1. n[u][j] = m[u][j]
        BY <3>4
      <4> QED BY <3>2, <4>1, InKids
    <3> QED BY <3>3, <3>4
  <2>2. ASSUME g \in Kids(m, S) PROVE g \in Kids(n, S)
    <3>1. PICK u \in S : \E j \in Slots : m[u][j].kind = "page" /\ m[u][j].frame = g
      BY <2>2, InKids
    <3>2. PICK j \in Slots : m[u][j].kind = "page" /\ m[u][j].frame = g
      BY <3>1
    <3>3. u # t \/ j # i
      BY <3>2
    <3>4. n[u][j] = m[u][j]
      BY <3>3
    <3> QED BY <3>2, <3>4, InKids
  <2>3. ASSUME t \in S PROVE f \in Kids(n, S)
    BY <1>1, <2>3, InKids
  <2> QED BY <2>1, <2>2, <2>3
<1>3. \A g : g \in Kids(n, S \cup {f}) <=> g \in Kids(n, S)
  <2> TAKE g
  <2>1. ~\E j \in Slots : n[f][j].kind = "page" /\ n[f][j].frame = g
    OBVIOUS
  <2>2. g \in Kids(n, S \cup {f}) <=>
          \E u \in S \cup {f} : \E j \in Slots : n[u][j].kind = "page" /\ n[u][j].frame = g
    BY InKids
  <2>3. g \in Kids(n, S) <=> \E u \in S : \E j \in Slots : n[u][j].kind = "page" /\ n[u][j].frame = g
    BY InKids
  <2> QED BY <2>1, <2>2, <2>3
<1> QED BY <1>2, <1>3

LEMMA LinkLvl ==
  ASSUME NEW m, NEW n, NEW r, NEW o, NEW f, NEW k, NEW t, NEW i,
         NewLink(m, n, r, o, f, k, t, i), NEW j \in 1 .. 4
  PROVE  Lvl(n, r, j) = Lvl(m, r, j) \cup Added(f, k, j)
<1> DEFINE P(l) == Lvl(n, r, l) = Lvl(m, r, l) \cup Added(f, k, l)
<1>0. k \in 1 .. 3 /\ t \in Lvl(m, r, k) /\ Tree(m, r, o)
  BY DEF NewLink
<1>1. P(1)
  <2>1. 1 # k + 1
    BY <1>0
  <2> QED BY <2>1, LvlStep DEF Added
<1>2. ASSUME NEW l \in 1 .. 3, P(l) PROVE P(l + 1)
  <2>1. Lvl(m, r, l + 1) = Kids(m, Lvl(m, r, l)) /\ Lvl(n, r, l + 1) = Kids(n, Lvl(n, r, l))
    BY LvlStep
  <2>2. Lvl(m, r, l) \subseteq o
    BY <1>0 DEF Tree
  <2>3. /\ Kids(n, Lvl(m, r, l)) = Kids(m, Lvl(m, r, l))
                                      \cup (IF t \in Lvl(m, r, l) THEN {f} ELSE {})
        /\ Kids(n, Lvl(m, r, l) \cup {f}) = Kids(n, Lvl(m, r, l))
    BY <2>2, LinkKids
  <2>4. Kids(n, Lvl(n, r, l)) = Kids(n, Lvl(m, r, l))
    BY <1>2, <2>3 DEF Added
  <2>5. t \in Lvl(m, r, l) <=> l = k
    <3>1. l # k => Lvl(m, r, l) \cap Lvl(m, r, k) = {}
      BY <1>0 DEF Tree
    <3> QED BY <1>0, <3>1
  <2>6. Added(f, k, l + 1) = IF t \in Lvl(m, r, l) THEN {f} ELSE {}
    BY <1>0, <2>5 DEF Added
  <2> QED BY <2>1, <2>3, <2>4, <2>6
<1>3. P(2)
  BY <1>1, <1>2
<1>4. P(3)
  BY <1>2, <1>3
<1>5. P(4)
  BY <1>2, <1>4
<1>6. j = 1 \/ j = 2 \/ j = 3 \/ j = 4
  OBVIOUS
<1> QED BY <1>1, <1>3, <1>4, <1>5, <1>6

\* The slots of a new tree are the old ones and the one that holds f.
LEMMA LinkSlot ==
  ASSUME NEW m, NEW n, NEW r, NEW o, NEW f, NEW k, NEW t, NEW i,
         NewLink(m, n, r, o, f, k, t, i), NEW l \in 1 .. 4, NEW u \in Lvl(n, r, l),
         NEW j \in Slots, n[u][j].kind = "page"
  PROVE  /\ u \in Lvl(m, r, l)
         /\ \/ u = t /\ j = i /\ l = k /\ n[u][j].frame = f
            \/ ~(u = t /\ j = i) /\ m[u][j] = n[u][j] /\ m[u][j].kind = "page"
<1>1. u # f
  BY DEF NewLink
<1>2. u \in Lvl(m, r, l)
  BY <1>1, LinkLvl DEF Added
<1>3. Tree(m, r, o) /\ k \in 1 .. 4 /\ t \in Lvl(m, r, k)
  BY DEF NewLink
<1>4. u \in o
  BY <1>2, <1>3 DEF Tree
<1>5. CASE u = t /\ j = i
  <2>1. l = k
    BY <1>2, <1>3, <1>5 DEF Tree
  <2>2. n[t][i].frame = f
    BY DEF NewLink, To
  <2> QED BY <1>2, <1>5, <2>1, <2>2
<1>6. CASE ~(u = t /\ j = i)
  <2>1. n[u][j] = m[u][j]
    BY <1>4, <1>6 DEF NewLink
  <2> QED BY <1>2, <1>6, <2>1
<1> QED BY <1>5, <1>6

LEMMA LinkTree ==
  ASSUME NEW m, NEW n, NEW r, NEW o, NEW f, NEW k, NEW t, NEW i,
         NewLink(m, n, r, o, f, k, t, i)
  PROVE  Tree(n, r, o \cup {f})
<1>0. Tree(m, r, o) /\ f \notin o /\ k \in 1 .. 3
  BY DEF NewLink
<1>1. \A j \in 1 .. 4 : Lvl(n, r, j) \subseteq o \cup {f}
  BY <1>0, LinkLvl DEF Tree, Added
<1>2. \A j, l \in 1 .. 4 : j # l => Lvl(n, r, j) \cap Lvl(n, r, l) = {}
  <2> SUFFICES ASSUME NEW j \in 1 .. 4, NEW l \in 1 .. 4, j # l
               PROVE  Lvl(n, r, j) \cap Lvl(n, r, l) = {}
    OBVIOUS
  <2>1. /\ Lvl(n, r, j) = Lvl(m, r, j) \cup Added(f, k, j)
        /\ Lvl(n, r, l) = Lvl(m, r, l) \cup Added(f, k, l)
    BY LinkLvl
  <2>2. Lvl(m, r, j) \cap Lvl(m, r, l) = {} /\ f \notin Lvl(m, r, j) /\ f \notin Lvl(m, r, l)
    BY <1>0 DEF Tree
  <2>3. Added(f, k, j) = {} \/ Added(f, k, l) = {}
    BY <1>0 DEF Added
  <2> QED BY <2>1, <2>2, <2>3 DEF Added
<1>3. ASSUME NEW a \in 1 .. 3, NEW b \in 1 .. 3, NEW x \in Lvl(n, r, a), NEW y \in Lvl(n, r, b),
             NEW c \in Slots, NEW d \in Slots,
             n[x][c].kind = "page", n[y][d].kind = "page", n[x][c].frame = n[y][d].frame
      PROVE  x = y /\ c = d
  <2>1. a \in 1 .. 4 /\ b \in 1 .. 4
    OBVIOUS
  <2>2. /\ x \in Lvl(m, r, a)
        /\ \/ x = t /\ c = i /\ n[x][c].frame = f
           \/ ~(x = t /\ c = i) /\ m[x][c] = n[x][c] /\ m[x][c].kind = "page"
    BY <1>3, <2>1, LinkSlot
  <2>3. /\ y \in Lvl(m, r, b)
        /\ \/ y = t /\ d = i /\ n[y][d].frame = f
           \/ ~(y = t /\ d = i) /\ m[y][d] = n[y][d] /\ m[y][d].kind = "page"
    BY <1>3, <2>1, LinkSlot
  <2>4. m[x][c].kind = "page" => m[x][c].frame \in o
    <3>1. m[x][c].kind = "page" => m[x][c].frame \in Lvl(m, r, a + 1)
      BY <2>2, InNextLvl
    <3>2. a + 1 \in 1 .. 4
      OBVIOUS
    <3> QED BY <1>0, <3>1, <3>2 DEF Tree
  <2>5. m[y][d].kind = "page" => m[y][d].frame \in o
    <3>1. m[y][d].kind = "page" => m[y][d].frame \in Lvl(m, r, b + 1)
      BY <2>3, InNextLvl
    <3>2. b + 1 \in 1 .. 4
      OBVIOUS
    <3> QED BY <1>0, <3>1, <3>2 DEF Tree
  <2>6. CASE x = t /\ c = i
    BY <1>0, <1>3, <2>2, <2>3, <2>5, <2>6
  <2>7. CASE y = t /\ d = i
    BY <1>0, <1>3, <2>2, <2>3, <2>4, <2>7
  <2>8. CASE ~(x = t /\ c = i) /\ ~(y = t /\ d = i)
    <3>1. m[x][c].kind = "page" /\ m[y][d].kind = "page" /\ m[x][c].frame = m[y][d].frame
      BY <1>3, <2>2, <2>3, <2>8
    <3> QED BY <1>0, <2>2, <2>3, <3>1 DEF Tree
  <2> QED BY <2>6, <2>7, <2>8
<1> QED BY <1>1, <1>2, <1>3 DEF Tree

\* Only the direct map's tables may hold pages of 1 GiB, and no table is hung there.
HhdmApart(m, n, r, f, k, t, i) ==
  /\ \A j \in Slots : n[f][j].kind = "giant" => k = 1 /\ i \in HhdmSlot .. Idx - 1
  /\ k = 2 => \A s \in HhdmSlot .. Idx - 1 : Hop(m, r, s) # t

LEMMA LinkHop ==
  ASSUME NEW m, NEW n, NEW r, NEW o, NEW f, NEW k, NEW t, NEW i,
         NewLink(m, n, r, o, f, k, t, i), NEW j \in Slots
  PROVE  /\ \A u \in o : u # t \/ j # i => Hop(n, u, j) = Hop(m, u, j)
         /\ Hop(n, t, i) = f /\ Hop(m, t, i) = None /\ Hop(n, f, j) = None
         /\ t \in o /\ r \in o /\ f # None
<1>1. Tree(m, r, o) /\ k \in 1 .. 4 /\ t \in Lvl(m, r, k) /\ f \in Frames
  BY DEF NewLink
<1>2. t \in o
  BY <1>1 DEF Tree
<1>3. 1 \in 1 .. 4 /\ r \in Lvl(m, r, 1)
  BY LvlStep
<1>4. r \in o
  BY <1>1, <1>3 DEF Tree
<1>5. f # None /\ t # None
  <2>1. None \notin Frames
    BY DEF None, Frames
  <2> QED BY <1>1, <1>2, <2>1 DEF NewLink
<1>6. n[t][i].kind = "page" /\ n[t][i].frame = f /\ m[t][i].kind # "page" /\ n[f][j].kind # "page"
  BY DEF NewLink, To
<1>7. Hop(n, t, i) = f /\ Hop(m, t, i) = None /\ Hop(n, f, j) = None
  BY <1>5, <1>6 DEF Hop
<1>8. ASSUME NEW u \in o, u # t \/ j # i PROVE Hop(n, u, j) = Hop(m, u, j)
  <2>1. n[u][j] = m[u][j]
    BY <1>8 DEF NewLink
  <2> QED BY <2>1 DEF Hop
<1> QED BY <1>2, <1>4, <1>5, <1>7, <1>8

LEMMA HhdmSlots == \A s \in HhdmSlot .. Idx - 1 : s \in Slots
<1>1. Idx \in Nat /\ HhdmSlot \in Nat
  BY Sizes
<1> QED BY <1>1 DEF Slots

\* Where the PML4 leads is a table of the second level.
LEMMA HopRoot ==
  ASSUME NEW m \in Memories, NEW r \in Frames, NEW i \in Slots, Hop(m, r, i) # None
  PROVE  Hop(m, r, i) \in Lvl(m, r, 2) /\ m[r][i].kind = "page" /\ Hop(m, r, i) = m[r][i].frame
<1>1. m[r][i].kind = "page" /\ Hop(m, r, i) = m[r][i].frame
  BY HopIs
<1>2. r \in Lvl(m, r, 1) /\ 1 + 1 = 2
  BY LvlStep
<1> QED BY <1>1, <1>2, InNextLvl

LEMMA LinkWritten ==
  ASSUME NEW m, NEW n, NEW r, NEW o, NEW f, NEW k, NEW t, NEW i,
         NewLink(m, n, r, o, f, k, t, i), HhdmApart(m, n, r, f, k, t, i), Written(m, r)
  PROVE  Written(n, r)
<1>0. /\ Tree(m, r, o) /\ f \notin o /\ k \in 1 .. 3 /\ t \in Lvl(m, r, k) /\ i \in Slots
      /\ n[t][i] = To(f)
  BY DEF NewLink
<1> SUFFICES ASSUME NEW l \in 1 .. 4, NEW u \in Lvl(n, r, l), NEW j \in Slots
             PROVE  /\ n[u][j].kind # "junk" /\ (n[u][j].kind = "absent" => n[u][j].frame = 0)
                    /\ n[u][j].kind = "giant" =>
                         l = 2 /\ \E s \in HhdmSlot .. Idx - 1 : Hop(n, r, s) = u
  BY DEF Written
<1>1. CASE u = f
  <2>1. n[f][j].kind # "junk" /\ (n[f][j].kind = "absent" => n[f][j].frame = 0)
    BY DEF NewLink
  <2>2. ASSUME n[f][j].kind = "giant"
        PROVE  l = 2 /\ \E s \in HhdmSlot .. Idx - 1 : Hop(n, r, s) = f
    <3>1. k = 1 /\ i \in HhdmSlot .. Idx - 1
      BY <2>2 DEF HhdmApart
    <3>2. f \notin Lvl(m, r, l)
      BY <1>0 DEF Tree
    <3>3. l = 2
      BY <1>1, <3>1, <3>2, LinkLvl DEF Added
    <3>4. t = r
      BY <1>0, <3>1, LvlStep
    <3> QED BY <1>0, <3>1, <3>3, <3>4, LinkHop
  <2> QED BY <1>1, <2>1, <2>2
<1>2. CASE u # f
  <2>1. u \in Lvl(m, r, l) /\ u \in o
    BY <1>0, <1>2, LinkLvl DEF Added, Tree
  <2>2. CASE u = t /\ j = i
    BY <1>0, <2>2 DEF To
  <2>3. CASE u # t \/ j # i
    <3>1. n[u][j] = m[u][j]
      BY <2>1, <2>3 DEF NewLink
    <3>2. n[u][j].kind # "junk" /\ (n[u][j].kind = "absent" => n[u][j].frame = 0)
      BY <2>1, <3>1 DEF Written
    <3>3. ASSUME n[u][j].kind = "giant"
          PROVE  l = 2 /\ \E s \in HhdmSlot .. Idx - 1 : Hop(n, r, s) = u
      <4>1. l = 2 /\ \E s \in HhdmSlot .. Idx - 1 : Hop(m, r, s) = u
        BY <2>1, <3>1, <3>3 DEF Written
      <4>2. PICK s \in HhdmSlot .. Idx - 1 : Hop(m, r, s) = u
        BY <4>1
      <4>3. u # None
        <5>1. None \notin Frames /\ o \subseteq Frames
          BY DEF None, Frames, NewLink
        <5> QED BY <2>1, <5>1
      <4>4. s \in Slots
        BY HhdmSlots
      <4>5. Hop(n, r, s) = u
        BY <1>0, <4>2, <4>3, <4>4, LinkHop
      <4> QED BY <4>1, <4>5
    <3> QED BY <3>2, <3>3
  <2> QED BY <2>2, <2>3
<1> QED BY <1>1, <1>2

LEMMA LinkHhdmOnly ==
  ASSUME NEW m, NEW n, NEW r, NEW o, NEW f, NEW k, NEW t, NEW i,
         NewLink(m, n, r, o, f, k, t, i), HhdmApart(m, n, r, f, k, t, i), HhdmOnly(m, r)
  PROVE  HhdmOnly(n, r)
<1>0. /\ Tree(m, r, o) /\ m \in Memories /\ r \in Frames /\ k \in 1 .. 4 /\ t \in Lvl(m, r, k)
  BY DEF NewLink
<1> SUFFICES ASSUME NEW s \in HhdmSlot .. Idx - 1, Hop(n, r, s) # None, NEW j \in Slots
             PROVE  n[Hop(n, r, s)][j].kind # "page"
  BY DEF HhdmOnly
<1>1. s \in Slots
  BY HhdmSlots
<1>2. CASE r = t /\ s = i
  <2>1. Hop(n, r, s) = f
    BY <1>1, <1>2, LinkHop
  <2> QED BY <2>1 DEF NewLink
<1>3. CASE ~(r = t /\ s = i)
  <2> DEFINE u == Hop(m, r, s)
  <2>1. Hop(n, r, s) = u
    BY <1>1, <1>3, LinkHop
  <2>2. u # None /\ u \in Lvl(m, r, 2)
    BY <1>0, <1>1, <2>1, HopRoot
  <2>3. u # t
    <3>1. u = t => k = 2
      BY <1>0, <2>2 DEF Tree
    <3> QED BY <3>1 DEF HhdmApart
  <2>4. u \in o
    BY <1>0, <2>2 DEF Tree
  <2>5. m[u][j].kind # "page"
    BY <2>2 DEF HhdmOnly
  <2> HIDE DEF u
  <2>6. n[u][j] = m[u][j]
    BY <2>3, <2>4 DEF NewLink
  <2> QED BY <2>1, <2>5, <2>6
<1> QED BY <1>2, <1>3

LEMMA LinkLeaves ==
  ASSUME NEW m, NEW n, NEW r, NEW o, NEW f, NEW k, NEW t, NEW i,
         NewLink(m, n, r, o, f, k, t, i), Leaves(m, r, o)
  PROVE  Leaves(n, r, o \cup {f})
<1>0. f \notin o /\ k # 4
  BY DEF NewLink
<1>1. ASSUME NEW u \in Lvl(n, r, 4), NEW j \in Slots, n[u][j].kind = "page"
      PROVE  u \in Lvl(m, r, 4) /\ m[u][j] = n[u][j]
  BY <1>0, <1>1, LinkSlot
<1>2. ASSUME NEW g \in o, NoTable(m, r, g) PROVE NoTable(n, r, g)
  BY <1>0, <1>2, LinkLvl DEF NoTable, Added
<1> SUFFICES ASSUME NEW x \in Lvl(n, r, 4), NEW y \in Lvl(n, r, 4), NEW c \in Slots,
                    NEW d \in Slots, n[x][c].kind = "page"
             PROVE  /\ \/ n[x][c].frame < RESERVED
                       \/ n[x][c].frame \in o \cup {f} /\ NoTable(n, r, n[x][c].frame)
                    /\ n[y][d].kind = "page" /\ n[y][d].frame = n[x][c].frame
                         /\ n[x][c].frame >= RESERVED => x = y /\ c = d
  BY DEF Leaves
<1>3. x \in Lvl(m, r, 4) /\ m[x][c] = n[x][c]
  BY <1>1
<1>4. n[y][d].kind = "page" => y \in Lvl(m, r, 4) /\ m[y][d] = n[y][d]
  BY <1>1
<1>5. /\ n[x][c].frame < RESERVED \/ (n[x][c].frame \in o /\ NoTable(m, r, n[x][c].frame))
      /\ n[y][d].kind = "page" /\ n[y][d].frame = n[x][c].frame /\ n[x][c].frame >= RESERVED
           => x = y /\ c = d
  BY <1>3, <1>4 DEF Leaves
<1> QED BY <1>2, <1>5

\* The way to a page stays as it was, but for the new table at its end.
LEMMA LinkNode ==
  ASSUME NEW m, NEW n, NEW r, NEW o, NEW f, NEW k, NEW t, NEW i,
         NewLink(m, n, r, o, f, k, t, i), NEW v \in Nat
  PROVE  /\ \A j \in 1 .. 4 : Node(m, r, v, j) # None => Node(n, r, v, j) = Node(m, r, v, j)
         /\ Node(n, r, v, 5) = Node(m, r, v, 5)
         /\ Node(m, r, v, k) = t /\ Index(k, v) = i => Node(n, r, v, k + 1) = f
<1> DEFINE P(j) == \/ Node(n, r, v, j) = Node(m, r, v, j)
                   \/ j = k + 1 /\ Node(n, r, v, j) = f /\ Node(m, r, v, j) = None
<1>0. /\ m \in Memories /\ r \in Frames /\ o \subseteq Frames /\ Tree(m, r, o) /\ k \in 1 .. 3
      /\ t \in Lvl(m, r, k)
  BY DEF NewLink
<1>1. P(1)
  BY NodeStep
<1>2. ASSUME NEW j \in 1 .. 4, P(j) PROVE P(j + 1)
  <2> DEFINE u == Node(m, r, v, j)
             c == Index(j, v)
  <2>1. Node(m, r, v, j + 1) = Hop(m, u, c) /\ Node(n, r, v, j + 1) = Hop(n, Node(n, r, v, j), c)
    BY NodeStep
  <2>2. c \in Slots
    BY IndexInSlots
  <2>3. CASE Node(n, r, v, j) = f /\ u = None
    <3>1. Hop(n, f, c) = None /\ Hop(m, None, c) = None
      BY <2>2, LinkHop DEF Hop
    <3> QED BY <2>1, <2>3, <3>1
  <2>4. CASE Node(n, r, v, j) = u /\ u = None
    BY <2>1, <2>4 DEF Hop
  <2>5. CASE Node(n, r, v, j) = u /\ u # None
    <3>1. u \in Lvl(m, r, j)
      BY <1>0, <2>5, NodeIn
    <3>2. u \in o
      BY <1>0, <3>1 DEF Tree
    <3>3. CASE u = t /\ c = i
      <4>1. j = k
        BY <1>0, <3>1, <3>3 DEF Tree
      <4>2. Hop(n, t, i) = f /\ Hop(m, t, i) = None
        BY <2>2, LinkHop
      <4> QED BY <2>1, <2>5, <3>3, <4>1, <4>2
    <3>4. CASE ~(u = t /\ c = i)
      <4>1. Hop(n, u, c) = Hop(m, u, c)
        BY <2>2, <3>2, <3>4, LinkHop
      <4> QED BY <2>1, <2>5, <4>1
    <3> QED BY <3>3, <3>4
  <2> QED BY <1>2, <2>3, <2>4, <2>5
<1>3. P(2) /\ P(3) /\ P(4) /\ P(5)
  <2>1. P(2)
    BY <1>1, <1>2
  <2>2. P(3)
    BY <1>2, <2>1
  <2>3. P(4)
    BY <1>2, <2>2
  <2>4. P(5)
    BY <1>2, <2>3
  <2> QED BY <2>1, <2>2, <2>3, <2>4
<1>4. \A j \in 1 .. 4 : P(j)
  <2> TAKE j \in 1 .. 4
  <2>1. j = 1 \/ j = 2 \/ j = 3 \/ j = 4
    OBVIOUS
  <2> QED BY <1>1, <1>3, <2>1
<1>5. Node(n, r, v, 5) = Node(m, r, v, 5)
  BY <1>0, <1>3
<1>6. ASSUME Node(m, r, v, k) = t, Index(k, v) = i PROVE Node(n, r, v, k + 1) = f
  <2>1. t # None
    <3>1. None \notin Frames /\ 1 \in 1 .. 4 /\ k \in 1 .. 4
      BY <1>0 DEF None, Frames
    <3> QED BY <1>0, <3>1 DEF Tree
  <2>2. Node(n, r, v, k) = t
    BY <1>0, <1>4, <1>6, <2>1
  <2>3. Node(n, r, v, k + 1) = Hop(n, t, i)
    BY <1>0, <1>6, <2>2, NodeStep
  <2>4. i \in Slots
    BY DEF NewLink
  <2> QED BY <2>3, <2>4, LinkHop
<1> QED BY <1>4, <1>5, <1>6

LEMMA LinkDirect ==
  ASSUME NEW m, NEW n, NEW r, NEW o, NEW f, NEW k, NEW t, NEW i,
         NewLink(m, n, r, o, f, k, t, i), HhdmApart(m, n, r, f, k, t, i),
         NEW x \in 0 .. HhdmSpan - 1, Direct(m, r, x)
  PROVE  Direct(n, r, x)
<1> DEFINE s == Index(1, HhdmBase + x)
           j == Index(2, HhdmBase + x)
           u == Hop(m, r, s)
<1>0. /\ Tree(m, r, o) /\ m \in Memories /\ r \in Frames /\ k \in 1 .. 4 /\ t \in Lvl(m, r, k)
  BY DEF NewLink
<1>1. s \in HhdmSlot .. Idx - 1 /\ s \in Slots
  BY HhdmIndex, HhdmSlots
<1>2. j \in Slots
  <2>1. HhdmBase + x \in Nat
    BY Sizes
  <2> QED BY <2>1, IndexInSlots
<1>3. u # None /\ m[u][j] = Giant(x - (x % Gib))
  BY DEF Direct
<1> HIDE DEF s, j
<1>4. u \in Lvl(m, r, 2)
  BY <1>0, <1>1, <1>3, HopRoot
<1>5. ~(r = t /\ s = i)
  BY <1>1, <1>3, LinkHop
<1>6. Hop(n, r, s) = u
  BY <1>1, <1>5, LinkHop
<1>7. u # t
  <2>1. u = t => k = 2
    BY <1>0, <1>4 DEF Tree
  <2> QED BY <1>1, <2>1 DEF HhdmApart
<1>8. u \in o
  BY <1>0, <1>4 DEF Tree
<1>9. n[u][j] = m[u][j]
  <2> HIDE DEF u
  <2> QED BY <1>2, <1>7, <1>8 DEF NewLink
<1> QED BY <1>3, <1>6, <1>9 DEF Direct, s, j

LEMMA LinkMem ==
  ASSUME NEW m, NEW n, NEW r, NEW o, NEW f, NEW k, NEW t, NEW i,
         NewLink(m, n, r, o, f, k, t, i), HhdmApart(m, n, r, f, k, t, i), MemInv(m, r, o)
  PROVE  /\ MemInv(n, r, o \cup {f})
         /\ \A c : DirectMap(m, r, c) => DirectMap(n, r, c)
         /\ \A c : BootMapped(m, r, c) => BootMapped(n, r, c)
<1>1. Tree(n, r, o \cup {f}) /\ Written(n, r) /\ HhdmOnly(n, r) /\ Leaves(n, r, o \cup {f})
  BY LinkTree, LinkWritten, LinkHhdmOnly, LinkLeaves DEF MemInv
<1>2. CallersPages(n, r)
  <2>1. \A v \in Vas : v \in Nat
    BY CallersLow
  <2> QED BY <2>1, LinkNode DEF MemInv, CallersPages
<1>3. \A c : DirectMap(m, r, c) => DirectMap(n, r, c)
  BY LinkDirect DEF DirectMap
<1>4. \A c : BootMapped(m, r, c) => BootMapped(n, r, c)
  <2>1. \A l \in 0 .. BootCount - 1 : NthPage(l) \in Nat
    BY NthPageIn, BootPageFacts DEF Frames
  <2> QED BY <2>1, LinkNode DEF BootMapped
<1> QED BY <1>1, <1>2, <1>3, <1>4 DEF MemInv

-----------------------------------------------------------------------------
(* Another entry in slot i of table t: one of the last level, or the entry *)
(* of a page of 1 GiB.                                                     *)

Overwrite(m, n, r, o, t, i, e) ==
  /\ m \in Memories /\ n \in Memories /\ r \in Frames /\ o \subseteq Frames
  /\ Tree(m, r, o) /\ Written(m, r) /\ HhdmOnly(m, r)
  /\ i \in Slots /\ n[t][i] = e
  /\ \A u \in o : \A j \in Slots : u # t \/ j # i => n[u][j] = m[u][j]
  /\ \/ t \in Lvl(m, r, 4) /\ e.kind \in {"page", "absent"} /\ (e.kind = "absent" => e.frame = 0)
     \/ t # None /\ e.kind = "giant" /\ \E s \in HhdmSlot .. Idx - 1 : Hop(m, r, s) = t

\* Neither changes where a table of the first three levels leads.
LEMMA OverwriteSlot ==
  ASSUME NEW m, NEW n, NEW r, NEW o, NEW t, NEW i, NEW e, Overwrite(m, n, r, o, t, i, e),
         NEW k \in 1 .. 3, NEW u \in Lvl(m, r, k), NEW j \in Slots
  PROVE  \/ n[u][j] = m[u][j]
         \/ m[u][j].kind # "page" /\ n[u][j].kind # "page"
<1>0. /\ Tree(m, r, o) /\ m \in Memories /\ r \in Frames /\ k \in 1 .. 4
  BY DEF Overwrite
<1>1. u \in o
  BY <1>0 DEF Tree
<1>2. CASE u # t \/ j # i
  BY <1>1, <1>2 DEF Overwrite
<1>3. CASE u = t /\ j = i
  <2>1. t \notin Lvl(m, r, 4)
    BY <1>0, <1>3 DEF Tree
  <2>2. t # None /\ e.kind = "giant" /\ \E s \in HhdmSlot .. Idx - 1 : Hop(m, r, s) = t
    BY <2>1 DEF Overwrite
  <2>3. m[t][i].kind # "page"
    BY <1>3, <2>2 DEF Overwrite, HhdmOnly
  <2>4. n[t][i].kind = "giant"
    BY <2>2 DEF Overwrite
  <2> QED BY <1>3, <2>3, <2>4
<1> QED BY <1>2, <1>3

LEMMA OverwriteHop ==
  ASSUME NEW m, NEW n, NEW r, NEW o, NEW t, NEW i, NEW e, Overwrite(m, n, r, o, t, i, e),
         NEW k \in 1 .. 3, NEW u \in Lvl(m, r, k), NEW j \in Slots
  PROVE  Hop(n, u, j) = Hop(m, u, j)
BY OverwriteSlot DEF Hop

LEMMA OverwriteLvl ==
  ASSUME NEW m, NEW n, NEW r, NEW o, NEW t, NEW i, NEW e, Overwrite(m, n, r, o, t, i, e),
         NEW k \in 1 .. 4
  PROVE  Lvl(n, r, k) = Lvl(m, r, k)
<1>1. Lvl(n, r, 1) = Lvl(m, r, 1)
  BY LvlStep
<1>2. ASSUME NEW l \in 1 .. 3, Lvl(n, r, l) = Lvl(m, r, l)
      PROVE  Lvl(n, r, l + 1) = Lvl(m, r, l + 1)
  <2>1. ASSUME NEW u \in Lvl(m, r, l), NEW j \in Slots
        PROVE  \/ n[u][j] = m[u][j]
               \/ m[u][j].kind # "page" /\ n[u][j].kind # "page"
    BY OverwriteSlot
  <2>2. \A g : g \in Lvl(m, r, l + 1) <=>
           \E u \in Lvl(m, r, l) : \E j \in Slots : m[u][j].kind = "page" /\ m[u][j].frame = g
    BY InNextLvl
  <2>3. \A g : g \in Lvl(n, r, l + 1) <=>
           \E u \in Lvl(m, r, l) : \E j \in Slots : n[u][j].kind = "page" /\ n[u][j].frame = g
    BY <1>2, InNextLvl
  <2>4. \A g : g \in Lvl(n, r, l + 1) <=> g \in Lvl(m, r, l + 1)
    BY <2>1, <2>2, <2>3
  <2> QED BY <2>4
<1>3. Lvl(n, r, 2) = Lvl(m, r, 2)
  BY <1>1, <1>2, 1 + 1 = 2
<1>4. Lvl(n, r, 3) = Lvl(m, r, 3)
  BY <1>2, <1>3, 2 + 1 = 3
<1>5. Lvl(n, r, 4) = Lvl(m, r, 4)
  BY <1>2, <1>4, 3 + 1 = 4
<1>6. k = 1 \/ k = 2 \/ k = 3 \/ k = 4
  OBVIOUS
<1> QED BY <1>1, <1>3, <1>4, <1>5, <1>6

LEMMA OverwriteTree ==
  ASSUME NEW m, NEW n, NEW r, NEW o, NEW t, NEW i, NEW e, Overwrite(m, n, r, o, t, i, e),
         NEW p, \A k \in 1 .. 4 : Lvl(m, r, k) \subseteq p
  PROVE  Tree(n, r, p)
<1>0. Tree(m, r, o)
  BY DEF Overwrite
<1>1. \A k \in 1 .. 4 : Lvl(n, r, k) \subseteq p
  BY OverwriteLvl
<1>2. \A k, l \in 1 .. 4 : k # l => Lvl(n, r, k) \cap Lvl(n, r, l) = {}
  BY <1>0, OverwriteLvl DEF Tree
<1>3. ASSUME NEW a \in 1 .. 3, NEW b \in 1 .. 3, NEW x \in Lvl(n, r, a), NEW y \in Lvl(n, r, b),
             NEW c \in Slots, NEW d \in Slots,
             n[x][c].kind = "page", n[y][d].kind = "page", n[x][c].frame = n[y][d].frame
      PROVE  x = y /\ c = d
  <2>1. x \in Lvl(m, r, a) /\ y \in Lvl(m, r, b)
    <3>1. a \in 1 .. 4 /\ b \in 1 .. 4
      OBVIOUS
    <3> QED BY <3>1, OverwriteLvl
  <2>2. n[x][c] = m[x][c] /\ n[y][d] = m[y][d]
    BY <1>3, <2>1, OverwriteSlot
  <2> QED BY <1>0, <1>3, <2>1, <2>2 DEF Tree
<1> QED BY <1>1, <1>2, <1>3 DEF Tree

LEMMA OverwriteRoot ==
  ASSUME NEW m, NEW n, NEW r, NEW o, NEW t, NEW i, NEW e, Overwrite(m, n, r, o, t, i, e),
         NEW s \in Slots
  PROVE  Hop(n, r, s) = Hop(m, r, s)
<1>1. r \in Lvl(m, r, 1) /\ 1 \in 1 .. 3
  BY LvlStep
<1> QED BY <1>1, OverwriteHop

LEMMA OverwriteWritten ==
  ASSUME NEW m, NEW n, NEW r, NEW o, NEW t, NEW i, NEW e, Overwrite(m, n, r, o, t, i, e)
  PROVE  Written(n, r) /\ HhdmOnly(n, r)
<1>0. /\ m \in Memories /\ r \in Frames /\ o \subseteq Frames /\ Tree(m, r, o)
      /\ Written(m, r) /\ HhdmOnly(m, r)
  BY DEF Overwrite
<1>1. \A s \in HhdmSlot .. Idx - 1 : Hop(n, r, s) = Hop(m, r, s)
  BY HhdmSlots, OverwriteRoot
<1>2. ASSUME NEW k \in 1 .. 4, NEW u \in Lvl(n, r, k), NEW j \in Slots
      PROVE  /\ n[u][j].kind # "junk" /\ (n[u][j].kind = "absent" => n[u][j].frame = 0)
             /\ n[u][j].kind = "giant" =>
                  k = 2 /\ \E s \in HhdmSlot .. Idx - 1 : Hop(n, r, s) = u
  <2>1. u \in Lvl(m, r, k)
    BY OverwriteLvl
  <2>2. u \in o
    BY <1>0, <2>1 DEF Tree
  <2>3. CASE u # t \/ j # i
    <3>1. n[u][j] = m[u][j]
      BY <2>2, <2>3 DEF Overwrite
    <3> QED BY <1>0, <1>1, <2>1, <3>1 DEF Written
  <2>4. CASE u = t /\ j = i
    <3>1. n[u][j] = e
      BY <2>4 DEF Overwrite
    <3>2. CASE t # None /\ e.kind = "giant" /\ \E s \in HhdmSlot .. Idx - 1 : Hop(m, r, s) = t
      <4>1. PICK s \in HhdmSlot .. Idx - 1 : Hop(m, r, s) = t
        BY <3>2
      <4>2. t \in Lvl(m, r, 2)
        BY <1>0, <3>2, <4>1, HhdmSlots, HopRoot
      <4>3. k = 2
        BY <1>0, <2>1, <2>4, <4>2 DEF Tree
      <4>4. Hop(n, r, s) = u
        BY <1>1, <2>4, <4>1
      <4> QED BY <3>1, <3>2, <4>3, <4>4
    <3>3. CASE e.kind \in {"page", "absent"} /\ (e.kind = "absent" => e.frame = 0)
      BY <3>1, <3>3
    <3> QED BY <3>2, <3>3 DEF Overwrite
  <2> QED BY <2>3, <2>4
<1>3. Written(n, r)
  BY <1>2 DEF Written
<1>4. ASSUME NEW s \in HhdmSlot .. Idx - 1, Hop(n, r, s) # None, NEW j \in Slots
      PROVE  n[Hop(n, r, s)][j].kind # "page"
  <2> DEFINE u == Hop(m, r, s)
  <2>1. Hop(n, r, s) = u /\ u # None
    BY <1>1, <1>4
  <2>2. m[u][j].kind # "page"
    BY <1>0, <2>1 DEF HhdmOnly
  <2>3. u \in Lvl(m, r, 2)
    BY <1>0, <2>1, HhdmSlots, HopRoot
  <2> HIDE DEF u
  <2>4. 2 \in 1 .. 3
    OBVIOUS
  <2>5. n[u][j].kind # "page"
    BY <2>2, <2>3, <2>4, OverwriteSlot
  <2> QED BY <2>1, <2>5
<1>5. HhdmOnly(n, r)
  BY <1>4 DEF HhdmOnly
<1> QED BY <1>3, <1>5

LEMMA OverwriteNode ==
  ASSUME NEW m, NEW n, NEW r, NEW o, NEW t, NEW i, NEW e, Overwrite(m, n, r, o, t, i, e),
         NEW v \in Nat
  PROVE  /\ \A k \in 1 .. 4 : Node(n, r, v, k) = Node(m, r, v, k)
         /\ \/ Node(m, r, v, 4) = t /\ Index(4, v) = i /\ t # None
            \/ Node(n, r, v, 5) = Node(m, r, v, 5)
<1> DEFINE P(k) == Node(n, r, v, k) = Node(m, r, v, k)
<1>0. m \in Memories /\ r \in Frames /\ o \subseteq Frames /\ Tree(m, r, o)
  BY DEF Overwrite
<1>1. P(1)
  BY NodeStep
<1>2. ASSUME NEW k \in 1 .. 3, P(k) PROVE P(k + 1)
  <2> DEFINE u == Node(m, r, v, k)
             c == Index(k, v)
  <2>1. Node(m, r, v, k + 1) = Hop(m, u, c) /\ Node(n, r, v, k + 1) = Hop(n, u, c)
    BY <1>2, NodeStep
  <2>2. c \in Slots
    BY IndexInSlots
  <2>3. CASE u = None
    BY <2>1, <2>3 DEF Hop
  <2>4. CASE u # None
    <3>1. u \in Lvl(m, r, k)
      BY <1>0, <2>4, NodeIn
    <3> HIDE DEF u, c
    <3>2. Hop(n, u, c) = Hop(m, u, c)
      BY <2>2, <3>1, OverwriteHop
    <3> QED BY <2>1, <3>2
  <2> QED BY <2>3, <2>4
<1>3. P(2)
  BY <1>1, <1>2, 1 + 1 = 2
<1>4. P(3)
  BY <1>2, <1>3, 2 + 1 = 3
<1>5. P(4)
  BY <1>2, <1>4, 3 + 1 = 4
<1>6. \A k \in 1 .. 4 : P(k)
  <2> TAKE k \in 1 .. 4
  <2>1. k = 1 \/ k = 2 \/ k = 3 \/ k = 4
    OBVIOUS
  <2> QED BY <1>1, <1>3, <1>4, <1>5, <2>1
<1>7. \/ Node(m, r, v, 4) = t /\ Index(4, v) = i /\ t # None
      \/ Node(n, r, v, 5) = Node(m, r, v, 5)
  <2> DEFINE u == Node(m, r, v, 4)
             c == Index(4, v)
  <2>1. Node(m, r, v, 5) = Hop(m, u, c) /\ Node(n, r, v, 5) = Hop(n, u, c)
    BY <1>5, NodeStep, 4 + 1 = 5
  <2>2. c \in Slots
    BY IndexInSlots
  <2>3. CASE u = None
    BY <2>1, <2>3 DEF Hop
  <2>4. CASE u # None
    <3>1. u \in Lvl(m, r, 4)
      BY <1>0, <2>4, NodeIn
    <3>2. u \in o
      BY <1>0, <3>1 DEF Tree
    <3>3. ASSUME u # t \/ c # i PROVE Hop(n, u, c) = Hop(m, u, c)
      <4>1. n[u][c] = m[u][c]
        BY <2>2, <3>2, <3>3 DEF Overwrite
      <4> QED BY <4>1 DEF Hop
    <3> QED BY <2>1, <2>4, <3>3
  <2> QED BY <2>3, <2>4
<1> QED BY <1>6, <1>7

LEMMA NodeAt ==
  ASSUME NEW m \in Memories, NEW r \in Frames, NEW o, o \subseteq Frames, Tree(m, r, o),
         NEW v \in Nat, NEW t, Node(m, r, v, 4) = t, t # None
  PROVE  /\ t \in Lvl(m, r, 4) /\ t \in Frames /\ t \in o /\ Index(4, v) \in Slots
         /\ Node(m, r, v, 5) = Hop(m, t, Index(4, v))
<1>1. t \in Lvl(m, r, 4) /\ t \in Frames
  BY NodeIn
<1>2. Node(m, r, v, 5) = Hop(m, t, Index(4, v))
  BY NodeStep, 4 + 1 = 5
<1>3. t \in o
  BY <1>1 DEF Tree
<1>4. Index(4, v) \in Slots
  BY IndexInSlots
<1> QED BY <1>1, <1>2, <1>3, <1>4

\* An entry of the last level is that of one page.
LEMMA LeafNode ==
  ASSUME NEW m, NEW n, NEW r, NEW o, NEW t, NEW i, NEW e, Overwrite(m, n, r, o, t, i, e),
         t # None, NEW v \in 0 .. HhdmBase - 1, Node(m, r, v, 4) = t, Index(4, v) = i
  PROVE  /\ Node(n, r, v, 5) = (IF e.kind = "page" THEN e.frame ELSE None)
         /\ \A w \in 0 .. HhdmBase - 1 : w # v => Node(n, r, w, 5) = Node(m, r, w, 5)
<1>0. /\ m \in Memories /\ n \in Memories /\ r \in Frames /\ o \subseteq Frames /\ Tree(m, r, o)
      /\ n[t][i] = e
  BY DEF Overwrite
<1>1. \A w \in 0 .. HhdmBase - 1 : w \in Nat
  BY Sizes
<1>2. ASSUME NEW w \in 0 .. HhdmBase - 1, w # v PROVE Node(n, r, w, 5) = Node(m, r, w, 5)
  <2>1. ~(Node(m, r, w, 4) = t /\ Index(4, w) = i)
    BY <1>0, <1>2, Separate
  <2> QED BY <1>1, <2>1, OverwriteNode
<1>3. Node(n, r, v, 5) = Hop(n, t, i)
  <2>1. Node(n, r, v, 4) = t
    BY <1>1, OverwriteNode
  <2> QED BY <2>1, NodeStep, 4 + 1 = 5
<1>4. Hop(n, t, i) = IF e.kind = "page" THEN e.frame ELSE None
  BY <1>0 DEF Hop
<1> QED BY <1>2, <1>3, <1>4

LEMMA OverwriteNoTable ==
  ASSUME NEW m, NEW n, NEW r, NEW o, NEW t, NEW i, NEW e, Overwrite(m, n, r, o, t, i, e),
         NEW g, NoTable(m, r, g)
  PROVE  NoTable(n, r, g)
BY OverwriteLvl DEF NoTable

\* vmm_page_map_internal and vmm_page_map.
LEMMA LeafMap ==
  ASSUME NEW m, NEW n, NEW r, NEW o, NEW t, NEW i, NEW g \in Frames,
         Overwrite(m, n, r, o, t, i, To(g)), MemInv(m, r, o),
         t # None, NEW v \in 0 .. HhdmBase - 1, Node(m, r, v, 4) = t, Index(4, v) = i,
         \/ g < RESERVED /\ v \notin Vas
         \/ /\ g >= RESERVED /\ g \in o /\ NoTable(m, r, g)
            /\ \A u \in Lvl(m, r, 4) : \A j \in Slots : m[u][j].kind = "page" => m[u][j].frame # g
  PROVE  MemInv(n, r, o) /\ Node(n, r, v, 5) = g
<1>0. /\ m \in Memories /\ n \in Memories /\ r \in Frames /\ o \subseteq Frames /\ Tree(m, r, o)
      /\ n[t][i] = To(g)
  BY DEF Overwrite
<1>1. Tree(n, r, o)
  <2>1. \A k \in 1 .. 4 : Lvl(m, r, k) \subseteq o
    BY <1>0 DEF Tree
  <2> QED BY <2>1, OverwriteTree
<1>2. Written(n, r) /\ HhdmOnly(n, r)
  BY OverwriteWritten
<1>3. v \in Nat
  BY Sizes
<1>4. t \in Lvl(m, r, 4) /\ t \in o
  BY <1>0, <1>3, NodeAt
<1>5. Lvl(n, r, 4) = Lvl(m, r, 4)
  BY OverwriteLvl
<1>6. ASSUME NEW u \in Lvl(m, r, 4), NEW j \in Slots, u # t \/ j # i PROVE n[u][j] = m[u][j]
  <2>1. u \in o
    BY <1>0 DEF Tree
  <2> QED BY <1>6, <2>1 DEF Overwrite
<1>7. g < RESERVED \/ (g \in o /\ NoTable(n, r, g))
  BY OverwriteNoTable
<1>8. ~(g < RESERVED /\ g >= RESERVED)
  BY VmmAssumption DEF Frames
<1>9. ASSUME NEW u \in Lvl(m, r, 4), NEW j \in Slots, n[u][j].kind = "page"
      PROVE  n[u][j].frame < RESERVED \/ (n[u][j].frame \in o /\ NoTable(n, r, n[u][j].frame))
  <2>1. CASE u = t /\ j = i
    BY <1>0, <1>7, <2>1 DEF To
  <2>2. CASE u # t \/ j # i
    <3>1. m[u][j] = n[u][j]
      BY <1>6, <2>2
    <3>2. n[u][j].frame < RESERVED \/ (n[u][j].frame \in o /\ NoTable(m, r, n[u][j].frame))
      BY <1>9, <3>1 DEF MemInv, Leaves
    <3> QED BY <3>2, OverwriteNoTable
  <2> QED BY <2>1, <2>2
<1>10. ASSUME NEW u \in Lvl(m, r, 4), NEW j \in Slots, n[u][j].kind = "page", u # t \/ j # i
       PROVE  m[u][j].kind = "page" /\ m[u][j].frame = n[u][j].frame
                /\ (n[u][j].frame = g => ~(g >= RESERVED))
  BY <1>6, <1>8, <1>10
<1>11. ASSUME NEW x \in Lvl(m, r, 4), NEW y \in Lvl(m, r, 4), NEW c \in Slots, NEW d \in Slots,
              n[x][c].kind = "page", n[y][d].kind = "page", n[y][d].frame = n[x][c].frame,
              n[x][c].frame >= RESERVED
       PROVE  x = y /\ c = d
  <2>1. n[t][i].frame = g
    BY <1>0 DEF To
  <2>2. CASE x = t /\ c = i
    BY <1>10, <1>11, <2>1, <2>2
  <2>3. CASE y = t /\ d = i
    BY <1>10, <1>11, <2>1, <2>3
  <2>4. CASE ~(x = t /\ c = i) /\ ~(y = t /\ d = i)
    <3>1. m[x][c].kind = "page" /\ m[x][c].frame = n[x][c].frame
      BY <1>10, <1>11, <2>4
    <3>2. m[y][d].kind = "page" /\ m[y][d].frame = n[y][d].frame
      BY <1>10, <1>11, <2>4
    <3> QED BY <1>11, <3>1, <3>2 DEF MemInv, Leaves
  <2> QED BY <2>2, <2>3, <2>4
<1>12. Leaves(n, r, o)
  BY <1>5, <1>9, <1>11 DEF Leaves
<1>13. Node(n, r, v, 5) = g /\ \A w \in 0 .. HhdmBase - 1 : w # v => Node(n, r, w, 5) = Node(m, r, w, 5)
  BY LeafNode DEF To
<1>14. CallersPages(n, r)
  <2>1. \A w \in Vas : w \in 0 .. HhdmBase - 1
    BY VmmAssumption
  <2> QED BY <1>13, <2>1 DEF MemInv, CallersPages
<1> QED BY <1>1, <1>2, <1>12, <1>13, <1>14 DEF MemInv

\* vmm_page_unmap and the return of the frame.
LEMMA LeafUnmap ==
  ASSUME NEW m, NEW n, NEW r, NEW o, NEW t, NEW i,
         Overwrite(m, n, r, o, t, i, Absent), MemInv(m, r, o),
         t # None, NEW v \in 0 .. HhdmBase - 1, Node(m, r, v, 4) = t, Index(4, v) = i,
         NEW p, p = IF m[t][i].frame < RESERVED THEN o ELSE o \ {m[t][i].frame}
  PROVE  MemInv(n, r, p) /\ Node(n, r, v, 5) = None
<1> DEFINE g == m[t][i].frame
<1>0. /\ m \in Memories /\ n \in Memories /\ r \in Frames /\ o \subseteq Frames /\ Tree(m, r, o)
      /\ n[t][i] = Absent /\ i \in Slots
  BY DEF Overwrite
<1>1. v \in Nat
  BY Sizes
<1>2. t \in Lvl(m, r, 4) /\ t \in o /\ t \in Frames
  BY <1>0, <1>1, NodeAt
<1>3. m[t][i] \in Entry /\ g \in Nat /\ RESERVED \in Nat \ {0}
  <2>1. m[t][i] \in Entry
    BY <1>0, <1>2 DEF Memories
  <2> QED BY <2>1, VmmAssumption DEF Entry
<1>4. g < RESERVED \/ (m[t][i].kind = "page" /\ g >= RESERVED)
  <2>1. 4 \in 1 .. 4
    OBVIOUS
  <2>2. /\ m[t][i].kind # "junk" /\ m[t][i].kind # "giant"
        /\ m[t][i].kind = "absent" => g = 0
    BY <1>0, <1>2, <2>1 DEF Overwrite, Written
  <2>3. m[t][i].kind = "page" \/ g = 0
    BY <1>3, <2>2 DEF Entry
  <2> HIDE DEF g
  <2> QED BY <1>3, <2>3
<1>5. g < RESERVED \/ NoTable(m, r, g)
  BY <1>0, <1>2, <1>4 DEF MemInv, Leaves
<1>6. \A k \in 1 .. 4 : Lvl(m, r, k) \subseteq p
  <2>1. \A k \in 1 .. 4 : Lvl(m, r, k) \subseteq o
    BY <1>0 DEF Tree
  <2> QED BY <1>5, <2>1 DEF NoTable
<1>7. Tree(n, r, p)
  BY <1>6, OverwriteTree
<1>8. Written(n, r) /\ HhdmOnly(n, r)
  BY OverwriteWritten
<1>9. Lvl(n, r, 4) = Lvl(m, r, 4)
  BY OverwriteLvl
<1>10. ASSUME NEW u \in Lvl(m, r, 4), NEW j \in Slots, n[u][j].kind = "page"
       PROVE  (u # t \/ j # i) /\ n[u][j] = m[u][j]
  <2>1. u # t \/ j # i
    BY <1>0, <1>10 DEF Absent
  <2>2. u \in o
    BY <1>0 DEF Tree
  <2> QED BY <2>1, <2>2 DEF Overwrite
<1>11. ASSUME NEW x \in Lvl(m, r, 4), NEW y \in Lvl(m, r, 4), NEW c \in Slots, NEW d \in Slots,
              n[x][c].kind = "page"
       PROVE  /\ \/ n[x][c].frame < RESERVED
                 \/ n[x][c].frame \in p /\ NoTable(n, r, n[x][c].frame)
              /\ n[y][d].kind = "page" /\ n[y][d].frame = n[x][c].frame
                   /\ n[x][c].frame >= RESERVED => x = y /\ c = d
  <2>1. (x # t \/ c # i) /\ n[x][c] = m[x][c]
    BY <1>10, <1>11
  <2>2. n[y][d].kind = "page" => n[y][d] = m[y][d]
    BY <1>10
  <2>3. n[x][c].frame < RESERVED \/ (n[x][c].frame \in o /\ NoTable(n, r, n[x][c].frame))
    <3>1. m[x][c].frame < RESERVED \/ (m[x][c].frame \in o /\ NoTable(m, r, m[x][c].frame))
      BY <1>11, <2>1 DEF MemInv, Leaves
    <3> QED BY <2>1, <3>1, OverwriteNoTable
  <2>4. n[x][c].frame = g => g < RESERVED
    <3> SUFFICES ASSUME n[x][c].frame = g, ~(g < RESERVED) PROVE FALSE
      OBVIOUS
    <3>1. m[x][c].kind = "page" /\ m[x][c].frame = m[t][i].frame
      BY <1>11, <2>1
    <3>2. m[t][i].kind = "page" /\ m[t][i].frame >= RESERVED
      BY <1>4
    <3>3. m[x][c].frame >= RESERVED
      BY <3>1, <3>2
    <3>4. x = t /\ c = i
      BY <1>0, <1>2, <3>1, <3>2, <3>3 DEF MemInv, Leaves
    <3> QED BY <2>1, <3>4
  <2>5. n[x][c].frame < RESERVED \/ n[x][c].frame \in p
    BY <2>3, <2>4
  <2>6. n[y][d].kind = "page" /\ n[y][d].frame = n[x][c].frame /\ n[x][c].frame >= RESERVED
           => x = y /\ c = d
    BY <1>11, <2>1, <2>2 DEF MemInv, Leaves
  <2> QED BY <2>3, <2>5, <2>6
<1>12. Leaves(n, r, p)
  BY <1>9, <1>11 DEF Leaves
<1>13. /\ Node(n, r, v, 5) = None
       /\ \A w \in 0 .. HhdmBase - 1 : w # v => Node(n, r, w, 5) = Node(m, r, w, 5)
  BY LeafNode DEF Absent
<1>14. CallersPages(n, r)
  <2>1. \A w \in Vas : w \in 0 .. HhdmBase - 1
    BY VmmAssumption
  <2> QED BY <1>13, <2>1 DEF MemInv, CallersPages
<1> QED BY <1>7, <1>8, <1>12, <1>13, <1>14 DEF MemInv

-----------------------------------------------------------------------------
(* The direct map.                                                         *)

\* Frames with one entry in it are of one GiB.
LEMMA SameGiant ==
  ASSUME NEW x \in 0 .. HhdmSpan - 1, NEW c \in 0 .. HhdmSpan - 1, c % Gib = 0,
         Index(1, HhdmBase + x) = Index(1, HhdmBase + c),
         Index(2, HhdmBase + x) = Index(2, HhdmBase + c)
  PROVE  x - (x % Gib) = c
<1> DEFINE a == x \div Gib
           b == c \div Gib
<1>1. Gib \in Nat \ {0} /\ Idx \in Nat \ {0} /\ HhdmSlot \in Nat
  BY Sizes
<1>2. a \in Nat /\ x = Gib * a + (x % Gib) /\ b \in Nat /\ c = Gib * b /\ x \in Nat
  <2>1. x \in Nat /\ c \in Nat
    OBVIOUS
  <2>2. a \in Nat /\ x = Gib * a + (x % Gib)
    BY <1>1, <2>1, DivFacts
  <2>3. b \in Nat /\ c = Gib * b + (c % Gib)
    BY <1>1, <2>1, DivFacts
  <2>4. c = Gib * b
    <3> HIDE DEF b
    <3> QED BY <1>1, <2>1, <2>3
  <2> QED BY <2>1, <2>2, <2>3, <2>4
<1>3. /\ Index(1, HhdmBase + x) = HhdmSlot + (a \div Idx) /\ Index(2, HhdmBase + x) = a % Idx
      /\ Index(1, HhdmBase + c) = HhdmSlot + (b \div Idx) /\ Index(2, HhdmBase + c) = b % Idx
  BY HhdmIndex
<1> HIDE DEF a, b
<1>4. a % Idx = b % Idx /\ HhdmSlot + (a \div Idx) = HhdmSlot + (b \div Idx)
  BY <1>3
<1>5. a \div Idx \in Nat /\ b \div Idx \in Nat
  BY <1>1, <1>2, DivFacts
<1>6. a \div Idx = b \div Idx
  BY <1>1, <1>4, <1>5
<1>7. a = b
  BY <1>1, <1>2, <1>4, <1>6, SameDiv
<1>8. x % Gib \in Nat
  BY <1>1, <1>2, DivFacts
<1>9. x = c + (x % Gib) /\ c \in Nat
  BY <1>2, <1>7
<1> QED BY <1>8, <1>9

LEMMA HhdmSlotsOf ==
  ASSUME NEW x \in 0 .. HhdmSpan - 1
  PROVE  /\ Index(1, HhdmBase + x) \in HhdmSlot .. Idx - 1 /\ Index(1, HhdmBase + x) \in Slots
         /\ Index(2, HhdmBase + x) \in Slots
<1>1. HhdmBase + x \in Nat
  BY Sizes
<1> QED BY <1>1, HhdmIndex, HhdmSlots, IndexInSlots

LEMMA OverwriteDirect ==
  ASSUME NEW m, NEW n, NEW r, NEW o, NEW t, NEW i, NEW e, Overwrite(m, n, r, o, t, i, e),
         \/ t \in Lvl(m, r, 4)
         \/ \E c \in 0 .. HhdmSpan - 1 : /\ c % Gib = 0 /\ e = Giant(c) /\ t # None
                                        /\ t = Hop(m, r, Index(1, HhdmBase + c))
                                        /\ i = Index(2, HhdmBase + c),
         NEW x \in 0 .. HhdmSpan - 1, Direct(m, r, x)
  PROVE  Direct(n, r, x)
<1> DEFINE s == Index(1, HhdmBase + x)
           j == Index(2, HhdmBase + x)
           u == Hop(m, r, s)
<1>0. /\ m \in Memories /\ r \in Frames /\ o \subseteq Frames /\ Tree(m, r, o) /\ n[t][i] = e
  BY DEF Overwrite
<1>1. s \in Slots /\ j \in Slots
  BY HhdmSlotsOf
<1>2. u # None /\ m[u][j] = Giant(x - (x % Gib))
  BY DEF Direct
<1> HIDE DEF s, j
<1>3. Hop(n, r, s) = u
  BY <1>1, OverwriteRoot
<1>4. u \in Lvl(m, r, 2) /\ m[r][s].kind = "page" /\ u = m[r][s].frame
  BY <1>0, <1>1, <1>2, HopRoot
<1>5. u \in o
  BY <1>0, <1>4 DEF Tree
<1>6. n[u][j] = Giant(x - (x % Gib))
  <2>1. CASE u # t \/ j # i
    <3> HIDE DEF u
    <3>1. n[u][j] = m[u][j]
      BY <1>1, <1>5, <2>1 DEF Overwrite
    <3> QED BY <1>2, <3>1
  <2>2. CASE u = t /\ j = i
    <3>1. t \notin Lvl(m, r, 4)
      BY <1>0, <1>4, <2>2 DEF Tree
    <3>2. PICK c \in 0 .. HhdmSpan - 1 : /\ c % Gib = 0 /\ e = Giant(c) /\ t # None
                                        /\ t = Hop(m, r, Index(1, HhdmBase + c))
                                        /\ i = Index(2, HhdmBase + c)
      BY <3>1
    <3> DEFINE q == Index(1, HhdmBase + c)
    <3>3. q \in Slots
      BY HhdmSlotsOf
    <3>4. m[r][q].kind = "page" /\ t = m[r][q].frame
      BY <1>0, <3>2, <3>3, HopRoot
    <3> HIDE DEF q
    <3>5. r \in Lvl(m, r, 1) /\ 1 \in 1 .. 3
      BY LvlStep
    <3>6. q = s
      <4>1. m[r][s].kind = "page" /\ m[r][q].frame = m[r][s].frame
        BY <1>4, <2>2, <3>4
      <4> HIDE DEF u
      <4> QED BY <1>0, <1>1, <3>3, <3>4, <3>5, <4>1 DEF Tree
    <3>7. x - (x % Gib) = c
      BY <2>2, <3>2, <3>6, SameGiant DEF s, j, q
    <3> QED BY <1>0, <2>2, <3>2, <3>7
  <2> QED BY <2>1, <2>2
<1> QED BY <1>2, <1>3, <1>6 DEF Direct, s, j

\* An entry for the GiB of frame c.
LEMMA DirectExtend ==
  ASSUME NEW n, NEW r, NEW c \in 0 .. HhdmSpan - 1, c % Gib = 0, DirectMap(n, r, c),
         Hop(n, r, Index(1, HhdmBase + c)) # None,
         n[Hop(n, r, Index(1, HhdmBase + c))][Index(2, HhdmBase + c)] = Giant(c)
  PROVE  DirectMap(n, r, c + Gib) /\ (c + Gib) % Gib = 0
<1>1. Gib \in Nat \ {0} /\ c \in Nat
  BY Sizes
<1>2. (c + Gib) % Gib = 0
  <2> DEFINE q == c \div Gib
  <2>1. q \in Nat /\ c = Gib * q + (c % Gib)
    BY <1>1, DivFacts
  <2> HIDE DEF q
  <2>2. c + Gib = Gib * (q + 1) + 0 /\ q + 1 \in Nat /\ c + Gib \in Nat /\ 0 \in 0 .. Gib - 1
    BY <1>1, <2>1
  <2> QED BY <1>1, <2>2, DivUnique
<1>3. ASSUME NEW f \in 0 .. HhdmSpan - 1, f < c + Gib PROVE Direct(n, r, f)
  <2>1. CASE f < c
    BY <2>1 DEF DirectMap
  <2>2. CASE ~(f < c)
    <3>1. f \in Nat /\ c <= f
      BY <2>2
    <3>2. f \div Gib = c \div Gib /\ f - (f % Gib) = c
      BY <1>1, <1>3, <3>1, GiantBlock
    <3>3. /\ Index(1, HhdmBase + f) = HhdmSlot + ((f \div Gib) \div Idx)
          /\ Index(2, HhdmBase + f) = (f \div Gib) % Idx
      BY HhdmIndex
    <3>4. /\ Index(1, HhdmBase + c) = HhdmSlot + ((c \div Gib) \div Idx)
          /\ Index(2, HhdmBase + c) = (c \div Gib) % Idx
      BY HhdmIndex
    <3>5. /\ Index(1, HhdmBase + f) = Index(1, HhdmBase + c)
          /\ Index(2, HhdmBase + f) = Index(2, HhdmBase + c)
      BY <3>2, <3>3, <3>4
    <3> QED BY <3>2, <3>5 DEF Direct
  <2> QED BY <2>1, <2>2
<1> QED BY <1>2, <1>3 DEF DirectMap

-----------------------------------------------------------------------------
(* What the memory management unit makes of the tables.                    *)

\* Translate, in memory m.
Trans(m, root, v) ==
  LET e1 == m[root][v \div (Gib * Idx)]
      e2 == m[e1.frame][(v \div Gib) % Idx]
      e3 == m[e2.frame][(v \div Idx) % Idx]
      e4 == m[e3.frame][v % Idx]
  IN  IF e1.kind # "page" THEN None
      ELSE IF e2.kind = "giant" THEN e2.frame + (v % Gib)
      ELSE IF e2.kind = "page" /\ e3.kind = "page" /\ e4.kind = "page" THEN e4.frame
      ELSE None

\* The way to a page below the direct map does not meet the direct map's tables.
LEMMA LowTable ==
  ASSUME NEW m \in Memories, NEW r \in Frames, NEW o, o \subseteq Frames, Tree(m, r, o),
         NEW v \in 0 .. HhdmBase - 1, Node(m, r, v, 2) # None
  PROVE  \A s \in HhdmSlot .. Idx - 1 : Hop(m, r, s) # Node(m, r, v, 2)
<1> DEFINE i == Index(1, v)
<1>1. v \in Nat /\ HhdmSlot \in Nat /\ Idx \in Nat
  BY Sizes
<1>2. i \in Slots /\ i < HhdmSlot
  BY <1>1, LowPage, IndexInSlots
<1>3. Node(m, r, v, 2) = Hop(m, r, i)
  BY NodeStep, 1 + 1 = 2
<1> HIDE DEF i
<1> SUFFICES ASSUME NEW s \in HhdmSlot .. Idx - 1, Hop(m, r, s) = Hop(m, r, i) PROVE FALSE
  BY <1>3
<1>4. s \in Slots /\ s # i
  BY <1>1, <1>2, HhdmSlots
<1>5. m[r][i].kind = "page" /\ m[r][s].kind = "page" /\ m[r][i].frame = m[r][s].frame
  BY <1>2, <1>3, <1>4, HopRoot
<1>6. r \in Lvl(m, r, 1) /\ 1 \in 1 .. 3
  BY LvlStep
<1> QED BY <1>2, <1>4, <1>5, <1>6 DEF Tree

LEMMA NoGiantOnWay ==
  ASSUME NEW m \in Memories, NEW r \in Frames, NEW o, o \subseteq Frames, Tree(m, r, o),
         Written(m, r), NEW v \in 0 .. HhdmBase - 1, NEW k \in 1 .. 4, Node(m, r, v, k) # None,
         NEW j \in Slots
  PROVE  /\ m[Node(m, r, v, k)][j].kind \in {"page", "absent"}
         /\ m[Node(m, r, v, k)][j].kind = "absent" => m[Node(m, r, v, k)][j].frame = 0
<1> DEFINE t == Node(m, r, v, k)
<1>1. t \in Lvl(m, r, k) /\ t \in Frames
  <2>1. v \in Nat
    BY Sizes
  <2> QED BY <2>1, NodeIn
<1>2. k = 2 => \A s \in HhdmSlot .. Idx - 1 : Hop(m, r, s) # t
  BY LowTable
<1> HIDE DEF t
<1>3. /\ m[t][j].kind # "junk" /\ m[t][j].kind # "giant"
      /\ m[t][j].kind = "absent" => m[t][j].frame = 0
  BY <1>1, <1>2 DEF Written
<1>4. m[t][j] \in Entry
  BY <1>1 DEF Memories
<1>5. m[t][j].kind \in {"page", "absent"}
  BY <1>3, <1>4 DEF Entry
<1> QED BY <1>3, <1>5 DEF t

LEMMA TransLow ==
  ASSUME NEW m \in Memories, NEW r \in Frames, NEW o, o \subseteq Frames, Tree(m, r, o),
         Written(m, r), NEW v \in 0 .. HhdmBase - 1
  PROVE  Trans(m, r, v) = Node(m, r, v, 5)
<1> DEFINE i1 == Index(1, v)
           i2 == Index(2, v)
           i3 == Index(3, v)
           i4 == Index(4, v)
           t2 == Node(m, r, v, 2)
           t3 == Node(m, r, v, 3)
           t4 == Node(m, r, v, 4)
<1>1. v \in Nat
  BY Sizes
<1>2. /\ v \div (Gib * Idx) = i1 /\ (v \div Gib) % Idx = i2
      /\ (v \div Idx) % Idx = i3 /\ v % Idx = i4
  BY <1>1, LowPage, IndexIs
<1>3. i1 \in Slots /\ i2 \in Slots /\ i3 \in Slots /\ i4 \in Slots
  BY <1>1, IndexInSlots
<1>4. /\ t2 = Hop(m, r, i1) /\ t3 = Hop(m, t2, i2) /\ t4 = Hop(m, t3, i3)
      /\ Node(m, r, v, 5) = Hop(m, t4, i4)
  BY DEF Node
<1>5. \A t \in Frames : t # None
  BY DEF None, Frames
<1>6. t2 # None => t2 \in Frames /\ m[t2][i2].kind \in {"page", "absent"}
  BY <1>1, <1>3, NodeIn, NoGiantOnWay
<1>7. t3 # None => t3 \in Frames
  BY <1>1, NodeIn
<1>8. t4 # None => t4 \in Frames
  BY <1>1, NodeIn
<1>9. Trans(m, r, v) =
        LET e1 == m[r][i1]
            e2 == m[e1.frame][i2]
            e3 == m[e2.frame][i3]
            e4 == m[e3.frame][i4]
        IN  IF e1.kind # "page" THEN None
            ELSE IF e2.kind = "giant" THEN e2.frame + (v % Gib)
            ELSE IF e2.kind = "page" /\ e3.kind = "page" /\ e4.kind = "page" THEN e4.frame
            ELSE None
  BY <1>2 DEF Trans
<1> HIDE DEF i1, i2, i3, i4, t2, t3, t4
<1>10. CASE t2 = None
  <2>1. m[r][i1].kind # "page"
    BY <1>3, <1>4, <1>10, HopIs
  <2>2. Node(m, r, v, 5) = None
    BY <1>4, <1>10 DEF Hop
  <2> QED BY <1>9, <2>1, <2>2
<1>11. CASE t2 # None /\ t3 = None
  <2>1. m[r][i1].kind = "page" /\ m[r][i1].frame = t2
    BY <1>3, <1>4, <1>11, HopIs
  <2>2. m[t2][i2].kind # "page" /\ m[t2][i2].kind # "giant"
    BY <1>3, <1>4, <1>6, <1>11, HopIs
  <2>3. Node(m, r, v, 5) = None
    BY <1>4, <1>11 DEF Hop
  <2> QED BY <1>9, <2>1, <2>2, <2>3
<1>12. CASE t2 # None /\ t3 # None
  <2>1. m[r][i1].kind = "page" /\ m[r][i1].frame = t2
    BY <1>3, <1>4, <1>12, HopIs
  <2>2. m[t2][i2].kind = "page" /\ m[t2][i2].frame = t3
    BY <1>3, <1>4, <1>6, <1>12, HopIs
  <2>3. Trans(m, r, v) =
          LET e3 == m[t3][i3]
              e4 == m[e3.frame][i4]
          IN  IF e3.kind = "page" /\ e4.kind = "page" THEN e4.frame ELSE None
    BY <1>9, <2>1, <2>2
  <2>4. CASE t4 = None
    <3>1. m[t3][i3].kind # "page"
      BY <1>3, <1>4, <1>7, <1>12, <2>4, HopIs
    <3>2. Node(m, r, v, 5) = None
      BY <1>4, <2>4 DEF Hop
    <3> QED BY <2>3, <3>1, <3>2
  <2>5. CASE t4 # None
    <3>1. m[t3][i3].kind = "page" /\ m[t3][i3].frame = t4
      BY <1>3, <1>4, <1>7, <1>12, <2>5, HopIs
    <3>2. Trans(m, r, v) = IF m[t4][i4].kind = "page" THEN m[t4][i4].frame ELSE None
      BY <2>3, <3>1
    <3> QED BY <1>4, <2>5, <3>2 DEF Hop
  <2> QED BY <2>4, <2>5
<1> QED BY <1>10, <1>11, <1>12

LEMMA TransHigh ==
  ASSUME NEW m \in Memories, NEW r \in Frames, NEW f \in 0 .. HhdmSpan - 1, Direct(m, r, f)
  PROVE  Trans(m, r, HhdmBase + f) = f
<1> DEFINE w == HhdmBase + f
           i == Index(1, w)
           j == Index(2, w)
           t == Hop(m, r, i)
           b == f - (f % Gib)
<1>1. i \in Slots /\ j \in Slots
  BY HhdmSlotsOf
<1>2. w \div (Gib * Idx) = i /\ (w \div Gib) % Idx = j /\ w % Gib = f % Gib
  BY HhdmIndex
<1>3. t # None /\ m[t][j] = Giant(b)
  BY DEF Direct
<1>4. b + (f % Gib) = f
  <2>1. f % Gib \in Int /\ f \in Int
    BY Sizes, DivFacts
  <2> QED BY <2>1
<1>5. Trans(m, r, w) =
        LET e1 == m[r][i]
            e2 == m[e1.frame][j]
            e3 == m[e2.frame][(w \div Idx) % Idx]
            e4 == m[e3.frame][w % Idx]
        IN  IF e1.kind # "page" THEN None
            ELSE IF e2.kind = "giant" THEN e2.frame + (f % Gib)
            ELSE IF e2.kind = "page" /\ e3.kind = "page" /\ e4.kind = "page" THEN e4.frame
            ELSE None
  BY <1>2 DEF Trans
<1> HIDE DEF w, i, j, b
<1>6. m[r][i].kind = "page" /\ m[r][i].frame = t
  BY <1>1, <1>3, HopIs
<1> HIDE DEF t
<1>7. m[t][j].kind = "giant" /\ m[t][j].frame = b
  BY <1>3 DEF Giant
<1>8. Trans(m, r, w) = b + (f % Gib)
  BY <1>5, <1>6, <1>7
<1> QED BY <1>4, <1>8 DEF w

-----------------------------------------------------------------------------
(* What the steps do to the tables as a whole.                             *)

\* vmm_init's PML4.
LEMMA FreshRoot ==
  ASSUME NEW n \in Memories, NEW f \in Frames, \A j \in Slots : n[f][j] = Absent
  PROVE  MemInv(n, f, {f})
<1>1. \A j \in Slots : n[f][j].kind = "absent" /\ n[f][j].frame = 0
  BY DEF Absent
<1>2. Lvl(n, f, 1) = {f}
  BY LvlStep
<1>3. Lvl(n, f, 2) = {}
  <2>1. \A g : ~(g \in Lvl(n, f, 1 + 1))
    BY <1>1, <1>2, InNextLvl
  <2> QED BY <2>1
<1>4. Lvl(n, f, 3) = {}
  <2>1. \A g : ~(g \in Lvl(n, f, 2 + 1))
    BY <1>3, InNextLvl
  <2> QED BY <2>1
<1>5. Lvl(n, f, 4) = {}
  <2>1. \A g : ~(g \in Lvl(n, f, 3 + 1))
    BY <1>4, InNextLvl
  <2> QED BY <2>1
<1>6. \A k \in 1 .. 4 : Lvl(n, f, k) = IF k = 1 THEN {f} ELSE {}
  <2> TAKE k \in 1 .. 4
  <2>1. k = 1 \/ k = 2 \/ k = 3 \/ k = 4
    OBVIOUS
  <2> QED BY <1>2, <1>3, <1>4, <1>5, <2>1
<1>7. \A i \in Slots : Hop(n, f, i) = None
  BY <1>1 DEF Hop
<1>8. Tree(n, f, {f})
  BY <1>1, <1>6 DEF Tree
<1>9. Written(n, f)
  BY <1>1, <1>6 DEF Written
<1>10. HhdmOnly(n, f)
  BY <1>7, HhdmSlots DEF HhdmOnly
<1>11. Leaves(n, f, {f})
  BY <1>5 DEF Leaves
<1>12. CallersPages(n, f)
  <2>1. ASSUME NEW v \in Vas PROVE Node(n, f, v, 5) = None
    <3>1. v \in Nat
      BY CallersLow
    <3>2. Index(1, v) \in Slots
      BY <3>1, IndexInSlots
    <3>3. Hop(n, f, Index(1, v)) = None /\ \A i : Hop(n, None, i) = None
      BY <1>7, <3>2 DEF Hop
    <3> QED BY <3>3 DEF Node
  <2> QED BY <2>1 DEF CallersPages
<1> QED BY <1>8, <1>9, <1>10, <1>11, <1>12 DEF MemInv

\* A frame that is allocated, and used for nothing yet.
LEMMA MemGrow ==
  ASSUME NEW m, NEW r, NEW o, MemInv(m, r, o), NEW f, f \notin o, f >= RESERVED, f \in Nat
  PROVE  /\ MemInv(m, r, o \cup {f}) /\ NoTable(m, r, f)
         /\ \A t \in Lvl(m, r, 4) : \A i \in Slots : m[t][i].kind = "page" => m[t][i].frame # f
<1>1. Tree(m, r, o \cup {f}) /\ NoTable(m, r, f)
  BY DEF MemInv, Tree, NoTable
<1>2. Leaves(m, r, o \cup {f})
  BY DEF MemInv, Leaves
<1>3. ASSUME NEW t \in Lvl(m, r, 4), NEW i \in Slots, m[t][i].kind = "page", m[t][i].frame = f
      PROVE  FALSE
  <2>1. f < RESERVED \/ f \in o
    BY <1>3 DEF MemInv, Leaves
  <2> QED BY <2>1, VmmAssumption
<1> QED BY <1>1, <1>2, <1>3 DEF MemInv

\* vmm_page_1gb_map_offline.
LEMMA GiantMem ==
  ASSUME NEW m, NEW n, NEW r, NEW o, NEW c \in 0 .. HhdmSpan - 1, c % Gib = 0,
         NEW t, t = Hop(m, r, Index(1, HhdmBase + c)), t # None,
         Overwrite(m, n, r, o, t, Index(2, HhdmBase + c), Giant(c)),
         MemInv(m, r, o), DirectMap(m, r, c)
  PROVE  MemInv(n, r, o) /\ DirectMap(n, r, c + Gib) /\ (c + Gib) % Gib = 0
<1> DEFINE s == Index(1, HhdmBase + c)
           i == Index(2, HhdmBase + c)
<1>0. /\ m \in Memories /\ r \in Frames /\ o \subseteq Frames /\ Tree(m, r, o) /\ n[t][i] = Giant(c)
      /\ \A u \in o : \A j \in Slots : u # t \/ j # i => n[u][j] = m[u][j]
  BY DEF Overwrite
<1>1. s \in Slots /\ i \in Slots
  BY HhdmSlotsOf
<1>2. t \in Lvl(m, r, 2) /\ t \notin Lvl(m, r, 4)
  <2>1. t \in Lvl(m, r, 2)
    BY <1>0, <1>1, HopRoot
  <2> QED BY <1>0, <2>1 DEF Tree
<1>3. Tree(n, r, o)
  <2>1. \A k \in 1 .. 4 : Lvl(m, r, k) \subseteq o
    BY <1>0 DEF Tree
  <2> QED BY <2>1, OverwriteTree
<1>4. Written(n, r) /\ HhdmOnly(n, r)
  BY OverwriteWritten
<1>5. Lvl(n, r, 4) = Lvl(m, r, 4)
  BY OverwriteLvl
<1>6. ASSUME NEW u \in Lvl(m, r, 4), NEW j \in Slots PROVE n[u][j] = m[u][j]
  <2>1. u \in o /\ u # t
    BY <1>0, <1>2 DEF Tree
  <2> HIDE DEF i
  <2> QED BY <1>0, <2>1
<1>7. \A g : NoTable(m, r, g) => NoTable(n, r, g)
  BY OverwriteNoTable
<1>8. Leaves(n, r, o)
  <2>1. Leaves(m, r, o)
    BY DEF MemInv
  <2> HIDE DEF s, i
  <2> QED BY <1>5, <1>6, <1>7, <2>1 DEF Leaves
<1>9. CallersPages(n, r)
  <2>1. ASSUME NEW v \in Vas PROVE Node(n, r, v, 5) = Node(m, r, v, 5)
    <3>1. v \in Nat
      BY CallersLow
    <3>2. Node(m, r, v, 4) # t \/ t = None
      BY <1>0, <1>2, <3>1, NodeAt
    <3> QED BY <3>1, <3>2, OverwriteNode
  <2> QED BY <2>1 DEF CallersPages, MemInv
<1>10. Hop(n, r, s) = t
  BY <1>1, OverwriteRoot
<1>11. DirectMap(n, r, c)
  <2>1. ASSUME NEW x \in 0 .. HhdmSpan - 1, Direct(m, r, x) PROVE Direct(n, r, x)
    BY <2>1, OverwriteDirect
  <2> QED BY <2>1 DEF DirectMap
<1>12. DirectMap(n, r, c + Gib) /\ (c + Gib) % Gib = 0
  BY <1>0, <1>10, <1>11, DirectExtend
<1> QED BY <1>3, <1>4, <1>8, <1>9, <1>12 DEF MemInv

LEMMA LeafDirectMap ==
  ASSUME NEW m, NEW n, NEW r, NEW o, NEW t, NEW i, NEW e, Overwrite(m, n, r, o, t, i, e),
         t \in Lvl(m, r, 4), NEW c, DirectMap(m, r, c)
  PROVE  DirectMap(n, r, c)
<1>1. ASSUME NEW x \in 0 .. HhdmSpan - 1, Direct(m, r, x) PROVE Direct(n, r, x)
  BY <1>1, OverwriteDirect
<1> QED BY <1>1 DEF DirectMap

-----------------------------------------------------------------------------
(* Facts of a state.                                                       *)

LEMMA MachineFacts ==
  ASSUME TypeOK
  PROVE  /\ pool \subseteq Frames /\ ceiling \in 0 .. HhdmSpan
         /\ \A f \in pool : f \in Nat /\ f >= RESERVED /\ (f \in ram => f \in 0 .. ceiling - 1)
<1> DEFINE m == [pool |-> pool, ram |-> ram, ceiling |-> ceiling]
<1>1. m \in Machines
  BY DEF TypeOK
<1> HIDE DEF m
<1>2. /\ m \in Machine /\ m.pool \cap 0 .. RESERVED - 1 = {}
      /\ m.pool \cap m.ram \subseteq 0 .. m.ceiling - 1
  BY <1>1, VmmAssumption
<1>3. m.pool = pool /\ m.ram = ram /\ m.ceiling = ceiling
  BY DEF m
<1>4. pool \subseteq Frames /\ ceiling \in 0 .. HhdmSpan
  BY <1>2, <1>3 DEF Machine
<1>5. ASSUME NEW f \in pool PROVE f \in Nat /\ f >= RESERVED
  <2>1. f \in Nat /\ f \notin 0 .. RESERVED - 1 /\ RESERVED \in Nat
    BY <1>2, <1>3, <1>4, VmmAssumption DEF Frames
  <2> QED BY <2>1
<1> QED BY <1>2, <1>3, <1>4, <1>5

LEMMA StateFacts ==
  ASSUME TypeOK
  PROVE  /\ mem \in Memories /\ owned \subseteq Frames /\ None \notin Frames
         /\ \A f \in owned : f \in Nat /\ f >= RESERVED /\ (f \in ram => f \in 0 .. ceiling - 1)
         /\ ceiling \in Nat /\ ceiling <= HhdmSpan /\ RESERVED \in Nat
<1>1. RESERVED \in Nat /\ HhdmSpan \in Nat
  BY VmmAssumption, Sizes
<1>2. owned \subseteq pool /\ mem \in Memories
  BY DEF TypeOK, Memories
<1> QED BY <1>1, <1>2, MachineFacts DEF Frames, None

LEMMA GrantFacts ==
  ASSUME TypeOK, NEW f \in Frames, Grant(f)
  PROVE  /\ f \notin owned /\ f \in Nat /\ f >= RESERVED /\ (f \in ram => f \in 0 .. ceiling - 1)
         /\ owned' = owned \cup {f} /\ owned' \subseteq pool
BY MachineFacts DEF Grant, TypeOK

LEMMA AtWalk ==
  ASSUME IInv, pc = "walk"
  PROVE  /\ mem \in Memories /\ pml4 \in Frames /\ pml4 # None /\ owned \subseteq Frames
         /\ MemInv(mem, pml4, owned) /\ Tree(mem, pml4, owned) /\ Written(mem, pml4)
         /\ HhdmOnly(mem, pml4) /\ DirectMap(mem, pml4, ceiling)
         /\ va \in 0 .. HhdmBase - 1 /\ va \in Nat /\ level \in 1 .. 4
         /\ Index(level, va) \in Slots /\ table = Node(mem, pml4, va, level)
         /\ table \in Lvl(mem, pml4, level) /\ table \in owned /\ table \in Frames /\ table # None
         /\ Here.kind \in {"page", "absent"} /\ (Here.kind = "absent" => Here.frame = 0)
<1>1. /\ TypeOK /\ BootInv /\ WalkInv /\ (pml4 # None => MemInv(mem, pml4, owned))
  BY DEF IInv
<1>2. mem \in Memories /\ owned \subseteq Frames /\ None \notin Frames
  BY <1>1, StateFacts
<1>3. pml4 # None /\ pml4 \in Frames /\ DirectMap(mem, pml4, ceiling)
  BY <1>1 DEF BootInv, TypeOK
<1>4. MemInv(mem, pml4, owned)
  BY <1>1, <1>3
<1>5. Tree(mem, pml4, owned) /\ Written(mem, pml4) /\ HhdmOnly(mem, pml4)
  BY <1>4 DEF MemInv
<1>6. table = Node(mem, pml4, va, level) /\ table \in Frames /\ level \in 1 .. 4 /\ va \in Nat
  BY <1>1 DEF WalkInv, TypeOK
<1>7. va \in 0 .. HhdmBase - 1
  <2>1. CASE call = "boot"
    <3>1. cursor \in 1 .. BootCount /\ va = NthPage(cursor - 1)
      BY <1>1, <2>1 DEF WalkInv
    <3>2. cursor - 1 \in 0 .. BootCount - 1
      BY <3>1, BootSets
    <3> QED BY <3>1, <3>2, NthPageIn, BootPageFacts
  <2>2. CASE call # "boot"
    BY <1>1, <2>2, VmmAssumption DEF WalkInv
  <2> QED BY <2>1, <2>2
<1>8. Index(level, va) \in Slots
  BY <1>6, IndexInSlots
<1>9. table # None
  BY <1>2, <1>6
<1>10. table \in Lvl(mem, pml4, level)
  BY <1>2, <1>3, <1>5, <1>6, <1>9, NodeIn
<1>11. table \in owned
  BY <1>5, <1>6, <1>10 DEF Tree
<1>12. Here.kind \in {"page", "absent"} /\ (Here.kind = "absent" => Here.frame = 0)
  BY <1>2, <1>3, <1>5, <1>6, <1>7, <1>8, <1>9, NoGiantOnWay DEF Here
<1> QED BY <1>2, <1>3, <1>4, <1>5, <1>6, <1>7, <1>8, <1>9, <1>10, <1>11, <1>12

\* Once CR3 is loaded, only the direct map's reserved bit keeps the code from a frame.
LEMMA ReachesRam ==
  ASSUME IInv, cr3 # None, NEW f \in 0 .. ceiling - 1, f \in ram, ~Reaches(f)
  PROVE  ~nxe
<1>0. f \in 0 .. HhdmSpan - 1 /\ f < ceiling
  BY StateFacts, Sizes DEF IInv
<1>1. cr3 = pml4 /\ DirectMap(mem, pml4, ceiling) /\ pml4 \in Frames /\ mem \in Memories
  BY StateFacts DEF IInv, BootInv, TypeOK
<1>2. Direct(mem, cr3, f)
  BY <1>0, <1>1 DEF DirectMap
<1>3. Trans(mem, cr3, HhdmBase + f) = f
  BY <1>0, <1>1, <1>2, TransHigh
<1>4. Translate(cr3, HhdmBase + f) = Trans(mem, cr3, HhdmBase + f)
  BY DEF Translate, Trans
<1> QED BY <1>3, <1>4 DEF Reaches

\* A frame the allocator gave out, and the code cannot use.
LEMMA Unusable ==
  ASSUME IInv, NEW f, ~Reaches(f), f \in ram => f \in 0 .. ceiling - 1
  PROVE  IF cr3 = None THEN f \notin OneToOne \/ f \notin ram ELSE ~nxe \/ f \notin ram
<1>1. CASE cr3 = None
  BY <1>1 DEF Reaches
<1>2. CASE cr3 # None
  BY <1>2, ReachesRam
<1> QED BY <1>1, <1>2

-----------------------------------------------------------------------------
(* The invariant holds at first, and every step keeps it.                  *)

LEMMA InitInv == Init => IInv
<1> SUFFICES ASSUME Init PROVE IInv
  OBVIOUS
<1>1. mem \in [Frames -> [Slots -> Entry]]
  BY DEF Init, Junk, Entry
<1>2. 0 \in Frames
  BY VmmAssumption DEF Frames
<1>3. [pool |-> pool, ram |-> ram, ceiling |-> ceiling] \in Machines
  <2>1. PICK m \in Machines : pool = m.pool /\ ram = m.ram /\ ceiling = m.ceiling
    BY DEF Init
  <2>2. m = [pool |-> m.pool, ram |-> m.ram, ceiling |-> m.ceiling]
    BY VmmAssumption DEF Machine
  <2> QED BY <2>1, <2>2
<1>4. TypeOK
  BY <1>1, <1>2, <1>3, VmmAssumption DEF Init, TypeOK
<1>5. BootInv /\ WalkInv /\ WalksStayInTables /\ pml4 = None
  BY DEF Init, BootInv, WalkInv, WalksStayInTables
<1> QED BY <1>4, <1>5 DEF IInv

LEMMA StutterInv == IInv /\ UNCHANGED vars => IInv'
<1> SUFFICES ASSUME IInv, UNCHANGED vars PROVE IInv'
  OBVIOUS
<1>1. /\ UNCHANGED <<pool, ram, ceiling, nxe, owned, mem, cr3, pc, pml4, cursor>>
      /\ UNCHANGED <<call, va, frame, table, level, result>>
  BY DEF vars, machine, walk
<1>2. TypeOK'
  BY <1>1 DEF IInv, TypeOK
<1>3. BootInv' /\ WalkInv' /\ WalksStayInTables'
  BY <1>1 DEF IInv, BootInv, WalkInv, WalksStayInTables
<1>4. pml4' # None => MemInv(mem', pml4', owned')
  BY <1>1 DEF IInv
<1> QED BY <1>2, <1>3, <1>4 DEF IInv

\* The parts of a step's proof: what is left of the invariant once the types and
\* the tables are settled.
LEMMA FaultInv ==
  ASSUME IInv, TypeOK', pc' = "fault", UNCHANGED <<machine, cr3, pml4, call>>,
         pml4 # None => MemInv(mem', pml4, owned'),
         cr3 # None => mem' = mem,
         pc # "out",
         \/ call = "boot" /\ cr3 = None /\ (pool \subseteq owned' \/ table' \notin OneToOne)
         \/ cr3 # None /\ ~nxe
         \/ table' \in owned' \ ram
  PROVE  IInv'
<1>1. BootInv'
  BY DEF IInv, BootInv, machine
<1>2. WalkInv'
  BY DEF WalkInv
<1>3. WalksStayInTables'
  BY DEF WalksStayInTables, machine
<1> QED BY <1>1, <1>2, <1>3 DEF IInv

LEMMA InitStep == IInv /\ vmm_init => IInv'
<1> SUFFICES ASSUME IInv, vmm_init PROVE IInv'
  OBVIOUS
<1>1. /\ TypeOK /\ pc = "boot" /\ pml4 = None /\ owned = {} /\ cr3 = None /\ call = "boot"
      /\ UNCHANGED machine
  BY DEF IInv, BootInv, vmm_init
<1>2. CASE NoneLeft /\ pc' = "off" /\ UNCHANGED <<mem, cr3, pml4, cursor, walk, result>>
  <2>1. TypeOK'
    BY <1>1, <1>2 DEF TypeOK, NoneLeft, walk, machine
  <2>2. BootInv' /\ WalkInv' /\ WalksStayInTables' /\ pml4' = None
    BY <1>1, <1>2 DEF BootInv, WalkInv, WalksStayInTables
  <2> QED BY <2>1, <2>2 DEF IInv
<1>3. ASSUME NEW f \in Frames, Grant(f), ~Reaches(f), Fault(f) PROVE IInv'
  <2>1. owned' = owned \cup {f} /\ owned' \subseteq pool
    BY <1>1, <1>3, GrantFacts
  <2>2. TypeOK' /\ pc' = "fault" /\ table' = f /\ UNCHANGED <<mem, cr3, pml4, call>>
    BY <1>1, <1>3, <2>1 DEF TypeOK, Fault, machine
  <2>3. table' \notin OneToOne \/ table' \in owned' \ ram
    BY <1>1, <1>3, <2>1, <2>2 DEF Reaches
  <2> QED BY <1>1, <2>2, <2>3, FaultInv
<1>4. ASSUME NEW f \in Frames, Grant(f), mem' = [mem EXCEPT ![f] = Zeroed],
             pml4' = f, cursor' = 0, pc' = "hhdm", UNCHANGED <<cr3, walk, result>>
      PROVE  IInv'
  <2>1. owned' = {f} /\ owned' \subseteq pool /\ f # None
    BY <1>1, <1>4, GrantFacts, StateFacts
  <2>2. mem' \in Memories /\ \A j \in Slots : mem'[f][j] = Absent
    <3>1. mem \in Memories /\ Zeroed \in [Slots -> Entry]
      BY <1>1 DEF TypeOK, Memories, Zeroed, Absent, Entry
    <3> QED BY <1>4, <3>1 DEF Memories, Zeroed
  <2>3. MemInv(mem', f, {f})
    BY <2>2, FreshRoot
  <2>4. TypeOK'
    BY <1>1, <1>4, <2>1, <2>2 DEF TypeOK, Memories, walk, machine
  <2>5. 0 % Gib = 0 /\ \A x \in 0 .. HhdmSpan - 1 : ~(x < 0)
    BY Sizes
  <2>6. cr3' = None /\ call' = "boot"
    BY <1>1, <1>4 DEF walk
  <2>7. BootInv'
    BY <1>4, <2>1, <2>5, <2>6 DEF BootInv, DirectMap
  <2>8. WalkInv' /\ WalksStayInTables'
    BY <1>4 DEF WalkInv, WalksStayInTables
  <2> QED BY <1>4, <2>1, <2>3, <2>4, <2>7, <2>8 DEF IInv
<1> QED BY <1>2, <1>3, <1>4 DEF vmm_init

\* vmm_page_1gb_map_offline, in a table that is there or in a new one.
LEMMA HhdmFacts ==
  ASSUME IInv, vmm_hhdm_create
  PROVE  /\ TypeOK /\ pc = "hhdm" /\ pml4 # None /\ cr3 = None /\ call = "boot"
         /\ cursor % Gib = 0 /\ DirectMap(mem, pml4, cursor) /\ MemInv(mem, pml4, owned)
         /\ UNCHANGED machine /\ cursor \in 0 .. HhdmSpan - 1 /\ cursor + Gib \in Nat
         /\ mem \in Memories /\ pml4 \in Frames /\ owned \subseteq Frames
         /\ Tree(mem, pml4, owned) /\ Written(mem, pml4) /\ HhdmOnly(mem, pml4)
<1>1. /\ TypeOK /\ pc = "hhdm" /\ pml4 # None /\ cr3 = None /\ call = "boot"
      /\ cursor % Gib = 0 /\ DirectMap(mem, pml4, cursor) /\ MemInv(mem, pml4, owned)
      /\ UNCHANGED machine
  BY DEF IInv, BootInv, vmm_hhdm_create
<1>2. cursor \in 0 .. HhdmSpan - 1 /\ cursor + Gib \in Nat
  <2>1. ~(cursor >= ceiling) /\ cursor \in Nat
    BY <1>1 DEF vmm_hhdm_create, HhdmDone, TypeOK
  <2> QED BY <1>1, <2>1, StateFacts, Sizes
<1>3. /\ mem \in Memories /\ pml4 \in Frames /\ owned \subseteq Frames /\ Tree(mem, pml4, owned)
      /\ Written(mem, pml4) /\ HhdmOnly(mem, pml4)
  BY <1>1, StateFacts DEF TypeOK, MemInv
<1> QED BY <1>1, <1>2, <1>3

LEMMA HhdmEffect ==
  ASSUME IInv, vmm_hhdm_create, pc' = "hhdm"
  PROVE  /\ UNCHANGED <<cr3, pml4, walk, result>> /\ cursor' = cursor + Gib /\ mem' \in Memories
         /\ \/ /\ UNCHANGED owned
               /\ \E t \in Lvl(mem, pml4, 2) :
                    /\ t = Hop(mem, pml4, Index(1, HhdmBase + cursor)) /\ t # None
                    /\ Overwrite(mem, mem', pml4, owned, t, Index(2, HhdmBase + cursor), Giant(cursor))
            \/ \E f \in Frames :
                 /\ Grant(f) /\ mem'[f][Index(2, HhdmBase + cursor)] = Giant(cursor)
                 /\ NewLink(mem, mem', pml4, owned, f, 1, pml4, Index(1, HhdmBase + cursor))
                 /\ HhdmApart(mem, mem', pml4, f, 1, pml4, Index(1, HhdmBase + cursor))
<1> DEFINE i == Index(1, HhdmBase + cursor)
           j == Index(2, HhdmBase + cursor)
<1>1. /\ TypeOK /\ pc = "hhdm" /\ cursor \in 0 .. HhdmSpan - 1
      /\ mem \in Memories /\ pml4 \in Frames /\ owned \subseteq Frames /\ Tree(mem, pml4, owned)
      /\ Written(mem, pml4) /\ HhdmOnly(mem, pml4)
  BY HhdmFacts
<1>2. i \in HhdmSlot .. Idx - 1 /\ i \in Slots /\ j \in Slots
  BY <1>1, HhdmSlotsOf
<1>3. pml4 \in Lvl(mem, pml4, 1) /\ 1 \in 1 .. 4 /\ 1 # 2
  BY LvlStep
<1>4. Giant(cursor) \in Entry
  BY <1>1 DEF Giant, Entry, TypeOK
<1> HIDE DEF i, j
<1>5. CASE /\ mem[pml4][i].kind # "absent" /\ UNCHANGED owned
           /\ mem' = [mem EXCEPT ![mem[pml4][i].frame][j] = Giant(cursor)]
           /\ cursor' = cursor + Gib
           /\ UNCHANGED <<pc, cr3, pml4, walk, result>>
  <2> DEFINE t == mem[pml4][i].frame
  <2>1. mem[pml4][i].kind = "page"
    <3>1. mem[pml4][i].kind # "junk" /\ mem[pml4][i].kind # "giant"
      BY <1>1, <1>2, <1>3 DEF Written
    <3>2. mem[pml4][i] \in Entry
      BY <1>1, <1>2 DEF Memories
    <3> QED BY <1>5, <3>1, <3>2 DEF Entry
  <2>2. t = Hop(mem, pml4, i) /\ t # None
    BY <1>1, <1>2, <2>1, HopIs
  <2>3. t \in Lvl(mem, pml4, 2)
    BY <1>1, <1>2, <2>2, HopRoot
  <2>4. t \in owned /\ t \in Frames
    BY <1>1, <2>3 DEF Tree
  <2> HIDE DEF t
  <2>5. mem' = [mem EXCEPT ![t][j] = Giant(cursor)]
    BY <1>5 DEF t
  <2>6. mem' \in Memories
    BY <1>1, <1>4, <2>5 DEF Memories
  <2>7. /\ mem'[t][j] = Giant(cursor)
        /\ \A u \in owned : \A x \in Slots : u # t \/ x # j => mem'[u][x] = mem[u][x]
    BY <1>1, <1>2, <2>4, <2>5 DEF Memories
  <2>8. Giant(cursor).kind = "giant"
    BY DEF Giant
  <2>9. Overwrite(mem, mem', pml4, owned, t, j, Giant(cursor))
    BY <1>1, <1>2, <2>2, <2>6, <2>7, <2>8 DEF Overwrite
  <2> QED BY <1>5, <2>2, <2>3, <2>6, <2>9 DEF i, j
<1>6. ASSUME NEW f \in Frames, Grant(f), mem[pml4][i].kind = "absent",
             mem' = [mem EXCEPT ![f] = [Zeroed EXCEPT ![j] = Giant(cursor)], ![pml4][i] = To(f)]
      PROVE  /\ mem' \in Memories /\ mem'[f][j] = Giant(cursor)
             /\ NewLink(mem, mem', pml4, owned, f, 1, pml4, i)
             /\ HhdmApart(mem, mem', pml4, f, 1, pml4, i)
  <2>1. f \notin owned /\ f \in Nat
    BY <1>1, <1>6, GrantFacts
  <2>2. pml4 \in owned
    BY <1>1, <1>3 DEF Tree
  <2>3. Zeroed \in [Slots -> Entry] /\ To(f) \in Entry
    BY <2>1 DEF Zeroed, Absent, To, Entry
  <2>4. mem' \in Memories
    BY <1>1, <1>4, <1>6, <2>3 DEF Memories
  <2>5. /\ mem'[pml4][i] = To(f) /\ mem'[f] = [Zeroed EXCEPT ![j] = Giant(cursor)]
        /\ \A u \in owned : \A x \in Slots : u # pml4 \/ x # i => mem'[u][x] = mem[u][x]
    BY <1>1, <1>2, <1>6, <2>1, <2>2 DEF Memories
  <2>6. \A x \in Slots : mem'[f][x] = IF x = j THEN Giant(cursor) ELSE Absent
    BY <2>5 DEF Zeroed
  <2>7. \A x \in Slots : /\ mem'[f][x].kind \notin {"page", "junk"}
                         /\ mem'[f][x].kind = "absent" => mem'[f][x].frame = 0
    BY <2>6 DEF Giant, Absent
  <2>8. NewLink(mem, mem', pml4, owned, f, 1, pml4, i)
    <3>1. mem[pml4][i].kind # "page" /\ 1 \in 1 .. 3
      BY <1>6
    <3>2. \A u \in owned : \A x \in Slots : u # pml4 \/ x # i => mem'[u][x] = mem[u][x]
      BY <2>5
    <3> QED BY <1>1, <1>2, <1>3, <2>1, <2>4, <2>5, <2>7, <3>1, <3>2 DEF NewLink
  <2>9. HhdmApart(mem, mem', pml4, f, 1, pml4, i)
    BY <1>2 DEF HhdmApart
  <2> QED BY <1>2, <2>4, <2>6, <2>8, <2>9
<1>7. CASE /\ mem[pml4][i].kind = "absent" /\ cursor' = cursor + Gib
           /\ UNCHANGED <<pc, cr3, pml4, walk, result>>
           /\ \E f \in Frames :
                /\ Grant(f)
                /\ mem' = [mem EXCEPT ![f] = [Zeroed EXCEPT ![j] = Giant(cursor)], ![pml4][i] = To(f)]
  BY <1>6, <1>7 DEF i, j
<1> QED BY <1>5, <1>7 DEF vmm_hhdm_create, Fault, i, j

LEMMA HhdmCreateStep == IInv /\ vmm_hhdm_create => IInv'
<1> SUFFICES ASSUME IInv, vmm_hhdm_create PROVE IInv'
  OBVIOUS
<1>1. /\ TypeOK /\ pc = "hhdm" /\ pml4 # None /\ cr3 = None /\ call = "boot"
      /\ cursor % Gib = 0 /\ DirectMap(mem, pml4, cursor) /\ MemInv(mem, pml4, owned)
      /\ UNCHANGED machine /\ cursor \in 0 .. HhdmSpan - 1 /\ cursor + Gib \in Nat
  BY HhdmFacts
<1>2. CASE pc' = "hhdm"
  <2>1. /\ UNCHANGED <<cr3, pml4, call, va, frame, table, level, result>>
        /\ cursor' = cursor + Gib /\ mem' \in Memories
    BY <1>2, HhdmEffect DEF walk
  <2>2. /\ owned' \subseteq pool /\ MemInv(mem', pml4, owned')
        /\ DirectMap(mem', pml4, cursor + Gib) /\ (cursor + Gib) % Gib = 0
    <3>1. ASSUME UNCHANGED owned,
                 NEW t, t = Hop(mem, pml4, Index(1, HhdmBase + cursor)), t # None,
                 Overwrite(mem, mem', pml4, owned, t, Index(2, HhdmBase + cursor), Giant(cursor))
          PROVE  /\ owned' \subseteq pool /\ MemInv(mem', pml4, owned')
                 /\ DirectMap(mem', pml4, cursor + Gib) /\ (cursor + Gib) % Gib = 0
      <4>1. owned' \subseteq pool
        BY <1>1, <3>1 DEF TypeOK
      <4>2. /\ MemInv(mem', pml4, owned)
            /\ DirectMap(mem', pml4, cursor + Gib) /\ (cursor + Gib) % Gib = 0
        BY <1>1, <3>1, GiantMem
      <4> QED BY <3>1, <4>1, <4>2
    <3>2. ASSUME NEW f \in Frames, Grant(f),
                 mem'[f][Index(2, HhdmBase + cursor)] = Giant(cursor),
                 NewLink(mem, mem', pml4, owned, f, 1, pml4, Index(1, HhdmBase + cursor)),
                 HhdmApart(mem, mem', pml4, f, 1, pml4, Index(1, HhdmBase + cursor))
          PROVE  /\ owned' \subseteq pool /\ MemInv(mem', pml4, owned')
                 /\ DirectMap(mem', pml4, cursor + Gib) /\ (cursor + Gib) % Gib = 0
      <4>1. owned' = owned \cup {f} /\ owned' \subseteq pool
        BY <1>1, <3>2, GrantFacts
      <4>2. MemInv(mem', pml4, owned') /\ DirectMap(mem', pml4, cursor)
        <5>1. MemInv(mem, pml4, owned) /\ DirectMap(mem, pml4, cursor)
          BY <1>1
        <5>2. /\ MemInv(mem', pml4, owned \cup {f})
              /\ \A c : DirectMap(mem, pml4, c) => DirectMap(mem', pml4, c)
          BY <3>2, <5>1, LinkMem
        <5> QED BY <4>1, <5>1, <5>2
      <4>3. Hop(mem', pml4, Index(1, HhdmBase + cursor)) = f /\ f # None
        BY <1>1, <3>2, HhdmSlotsOf, LinkHop
      <4>4. DirectMap(mem', pml4, cursor + Gib) /\ (cursor + Gib) % Gib = 0
        BY <1>1, <3>2, <4>2, <4>3, DirectExtend
      <4> QED BY <4>1, <4>2, <4>4
    <3> QED BY <1>2, <3>1, <3>2, HhdmEffect
  <2>3. TypeOK'
    BY <1>1, <1>2, <2>1, <2>2 DEF TypeOK, Memories, machine
  <2>4. BootInv'
    BY <1>1, <1>2, <2>1, <2>2 DEF BootInv
  <2>5. WalkInv' /\ WalksStayInTables'
    BY <1>2 DEF WalkInv, WalksStayInTables
  <2> QED BY <2>1, <2>2, <2>3, <2>4, <2>5 DEF IInv
<1>3. CASE NoneLeft /\ pc' = "off" /\ UNCHANGED <<mem, cr3, pml4, cursor, walk, result>>
  <2>1. TypeOK'
    BY <1>1, <1>3 DEF TypeOK, NoneLeft, walk, machine
  <2>2. BootInv' /\ WalkInv' /\ WalksStayInTables'
    BY <1>1, <1>3 DEF BootInv, WalkInv, WalksStayInTables
  <2>3. MemInv(mem', pml4', owned')
    BY <1>1, <1>3 DEF NoneLeft
  <2> QED BY <2>1, <2>2, <2>3 DEF IInv
<1>4. ASSUME NEW f \in Frames, Grant(f), ~Reaches(f), Fault(f) PROVE IInv'
  <2>1. owned' = owned \cup {f} /\ owned' \subseteq pool /\ f \notin owned /\ f >= RESERVED /\ f \in Nat
    BY <1>1, <1>4, GrantFacts
  <2>2. TypeOK' /\ pc' = "fault" /\ table' = f /\ UNCHANGED <<mem, cr3, pml4, call>>
    BY <1>1, <1>4, <2>1 DEF TypeOK, Fault, machine
  <2>3. table' \notin OneToOne \/ table' \in owned' \ ram
    BY <1>1, <1>4, <2>1, <2>2 DEF Reaches
  <2>4. MemInv(mem', pml4, owned')
    BY <1>1, <2>1, <2>2, MemGrow
  <2> QED BY <1>1, <2>2, <2>3, <2>4, FaultInv
<1> QED BY <1>1, <1>2, <1>3, <1>4 DEF vmm_hhdm_create

LEMMA HhdmEndsStep == IInv /\ HhdmEnds => IInv'
<1> SUFFICES ASSUME IInv, HhdmEnds PROVE IInv'
  OBVIOUS
<1>1. /\ TypeOK /\ pc = "hhdm" /\ pml4 # None /\ cr3 = None /\ call = "boot"
      /\ DirectMap(mem, pml4, cursor) /\ MemInv(mem, pml4, owned)
      /\ pc' = "map" /\ cursor' = 0 /\ UNCHANGED <<machine, owned, mem, cr3, pml4, walk, result>>
  BY DEF IInv, BootInv, HhdmEnds
<1>2. cursor >= ceiling /\ cursor \in Nat /\ ceiling \in Nat /\ HhdmSpan \in Nat
  BY <1>1, StateFacts, Sizes DEF HhdmEnds, HhdmDone, TypeOK
<1>3. TypeOK'
  BY <1>1 DEF TypeOK, walk, machine
<1>4. DirectMap(mem, pml4, ceiling)
  <2>1. \A f \in 0 .. HhdmSpan - 1 : f < ceiling => f < cursor
    BY <1>2
  <2> QED BY <1>1, <2>1 DEF DirectMap
<1>5. 0 <= BootCount /\ BootMapped(mem, pml4, 0)
  <2>1. \A k \in 0 .. BootCount - 1 : ~(k < 0)
    BY BootSets
  <2> QED BY <2>1, BootSets DEF BootMapped
<1>6. BootInv'
  BY <1>1, <1>4, <1>5 DEF BootInv, walk, machine
<1>7. WalkInv' /\ WalksStayInTables' /\ MemInv(mem', pml4', owned')
  BY <1>1 DEF WalkInv, WalksStayInTables
<1> QED BY <1>3, <1>6, <1>7 DEF IInv

LEMMA KernelMapStep == IInv /\ vmm_kernel_map => IInv'
<1> SUFFICES ASSUME IInv, vmm_kernel_map PROVE IInv'
  OBVIOUS
<1> DEFINE p == NthPage(cursor)
<1>1. /\ TypeOK /\ pc = "map" /\ cursor < BootCount /\ cursor \in Nat
      /\ pml4 # None /\ cr3 = None /\ DirectMap(mem, pml4, ceiling)
      /\ BootMapped(mem, pml4, cursor) /\ MemInv(mem, pml4, owned)
      /\ UNCHANGED <<machine, owned, mem, cr3, pml4, result>> /\ cursor' = cursor + 1
  BY DEF IInv, BootInv, vmm_kernel_map, TypeOK
<1>2. pc' = "walk" /\ call' = "boot" /\ va' = p /\ frame' = p /\ table' = pml4 /\ level' = 1
  BY DEF vmm_kernel_map, StartWalk
<1>3. cursor \in 0 .. BootCount - 1 /\ cursor' - 1 = cursor /\ cursor' \in 1 .. BootCount
  BY <1>1, BootSets
<1>4. p \in Nat /\ p \in Frames
  BY <1>3, NthPageIn, BootPageFacts DEF Frames
<1> HIDE DEF p
<1>5. pml4 \in Frames /\ cursor' \in Nat
  BY <1>1 DEF TypeOK
<1>6. TypeOK'
  BY <1>1, <1>2, <1>4, <1>5 DEF TypeOK, machine
<1>7. BootInv'
  BY <1>1, <1>2 DEF BootInv, machine
<1>8. table' = Node(mem', pml4', va', level')
  BY <1>1, <1>2, NodeStep
<1>9. WalkInv'
  <2>1. BootMapped(mem', pml4', cursor' - 1) /\ va' = NthPage(cursor' - 1)
    BY <1>1, <1>2, <1>3 DEF p
  <2> QED BY <1>1, <1>2, <1>3, <1>8, <2>1 DEF WalkInv
<1>10. WalksStayInTables' /\ MemInv(mem', pml4', owned')
  BY <1>1, <1>2 DEF WalksStayInTables
<1> QED BY <1>6, <1>7, <1>9, <1>10 DEF IInv

LEMMA LoadStep == IInv /\ vmm_pml4_load => IInv'
<1> SUFFICES ASSUME IInv, vmm_pml4_load PROVE IInv'
  OBVIOUS
<1>1. /\ TypeOK /\ pc = "map" /\ cursor = BootCount
      /\ pml4 # None /\ cr3 = None /\ DirectMap(mem, pml4, ceiling)
      /\ BootMapped(mem, pml4, BootCount) /\ MemInv(mem, pml4, owned)
      /\ UNCHANGED <<machine, owned, mem, pml4, cursor, walk, result>>
      /\ cr3' = pml4 /\ pc' = "out"
  BY DEF IInv, BootInv, vmm_pml4_load
<1>2. TypeOK'
  BY <1>1 DEF TypeOK, walk, machine
<1>3. BootInv' /\ WalkInv' /\ WalksStayInTables' /\ MemInv(mem', pml4', owned')
  BY <1>1 DEF BootInv, WalkInv, WalksStayInTables, machine
<1> QED BY <1>2, <1>3 DEF IInv

LEMMA AllocStep == ASSUME NEW v \in Vas PROVE IInv /\ vmm_page_alloc(v) => IInv'
<1> SUFFICES ASSUME IInv, vmm_page_alloc(v) PROVE IInv'
  OBVIOUS
<1>1. /\ TypeOK /\ pc = "out" /\ pml4 # None /\ cr3 = pml4 /\ cr3 # None
      /\ DirectMap(mem, pml4, ceiling) /\ BootMapped(mem, pml4, BootCount)
      /\ MemInv(mem, pml4, owned) /\ UNCHANGED <<machine, mem, cr3, pml4, cursor>>
  BY DEF IInv, BootInv, vmm_page_alloc
<1>2. CASE NoneLeft /\ Return(0) /\ UNCHANGED walk
  <2>1. pc' = "out" /\ result' = 0 /\ UNCHANGED <<owned, call, va, frame, table, level>>
    BY <1>2 DEF NoneLeft, Return, walk
  <2>2. TypeOK'
    BY <1>1, <2>1 DEF TypeOK, machine
  <2>3. BootInv' /\ WalkInv' /\ WalksStayInTables' /\ MemInv(mem', pml4', owned')
    BY <1>1, <2>1 DEF BootInv, WalkInv, WalksStayInTables, machine
  <2> QED BY <2>2, <2>3 DEF IInv
<1>3. ASSUME NEW f \in Frames, Grant(f), StartWalk("alloc", v, f, cr3), UNCHANGED result
      PROVE  IInv'
  <2>1. owned' = owned \cup {f} /\ owned' \subseteq pool /\ f \notin owned /\ f >= RESERVED /\ f \in Nat
    BY <1>1, <1>3, GrantFacts
  <2>2. pc' = "walk" /\ call' = "alloc" /\ va' = v /\ frame' = f /\ table' = cr3 /\ level' = 1
    BY <1>3 DEF StartWalk
  <2>3. v \in Nat
    BY CallersLow
  <2>4. cr3 \in Frames
    BY <1>1 DEF TypeOK
  <2>5. TypeOK'
    BY <1>1, <1>3, <2>1, <2>2, <2>3, <2>4 DEF TypeOK, machine
  <2>6. /\ MemInv(mem, pml4, owned') /\ NoTable(mem, pml4, f)
        /\ \A t \in Lvl(mem, pml4, 4) : \A i \in Slots :
             mem[t][i].kind = "page" => mem[t][i].frame # f
    BY <1>1, <2>1, MemGrow
  <2>7. BootInv'
    BY <1>1, <2>2 DEF BootInv, machine
  <2>8. table' = Node(mem', pml4', va', level')
    BY <1>1, <2>2, NodeStep
  <2>9. WalkInv'
    BY <1>1, <2>1, <2>2, <2>6, <2>8 DEF WalkInv
  <2>10. WalksStayInTables'
    BY <2>2 DEF WalksStayInTables
  <2> QED BY <1>1, <2>5, <2>6, <2>7, <2>9, <2>10 DEF IInv
<1> QED BY <1>2, <1>3 DEF vmm_page_alloc

LEMMA FreeStep == ASSUME NEW v \in Vas PROVE IInv /\ vmm_page_free(v) => IInv'
<1> SUFFICES ASSUME IInv, vmm_page_free(v) PROVE IInv'
  OBVIOUS
<1>1. /\ TypeOK /\ pc = "out" /\ pml4 # None /\ cr3 = pml4 /\ cr3 # None
      /\ DirectMap(mem, pml4, ceiling) /\ BootMapped(mem, pml4, BootCount)
      /\ MemInv(mem, pml4, owned)
      /\ UNCHANGED <<machine, owned, mem, cr3, pml4, cursor, result>>
  BY DEF IInv, BootInv, vmm_page_free
<1>2. pc' = "walk" /\ call' = "free" /\ va' = v /\ frame' = 0 /\ table' = cr3 /\ level' = 1
  BY DEF vmm_page_free, StartWalk
<1>3. v \in Nat /\ cr3 \in Frames /\ 0 \in Frames
  BY <1>1, VmmAssumption, Sizes DEF TypeOK, Frames
<1>4. TypeOK'
  BY <1>1, <1>2, <1>3 DEF TypeOK, machine
<1>5. BootInv'
  BY <1>1, <1>2 DEF BootInv, machine
<1>6. table' = Node(mem', pml4', va', level')
  BY <1>1, <1>2, NodeStep
<1>7. WalkInv'
  BY <1>1, <1>2, <1>6 DEF WalkInv
<1>8. WalksStayInTables' /\ MemInv(mem', pml4', owned')
  BY <1>1, <1>2 DEF WalksStayInTables
<1> QED BY <1>4, <1>5, <1>7, <1>8 DEF IInv

\* A walk that adds a table.
LEMMA DescendEffect ==
  ASSUME IInv, pc = "walk", level < 4, Here.kind = "absent", NEW f \in Frames, Grant(f), NewTable(f)
  PROVE  /\ mem' \in Memories
         /\ NewLink(mem, mem', pml4, owned, f, level, table, Index(level, va))
         /\ HhdmApart(mem, mem', pml4, f, level, table, Index(level, va))
<1> DEFINE i == Index(level, va)
<1>1. /\ mem \in Memories /\ pml4 \in Frames /\ owned \subseteq Frames /\ Tree(mem, pml4, owned)
      /\ i \in Slots /\ level \in 1 .. 4 /\ table \in Lvl(mem, pml4, level)
      /\ table \in owned /\ table \in Frames /\ table # None
      /\ table = Node(mem, pml4, va, level) /\ va \in 0 .. HhdmBase - 1
  BY AtWalk
<1>2. f \notin owned /\ f \in Nat
  BY GrantFacts DEF IInv
<1>3. Zeroed \in [Slots -> Entry] /\ To(f) \in Entry
  BY <1>2 DEF Zeroed, Absent, To, Entry
<1>4. mem[table][i].kind = "absent" /\ mem' = [mem EXCEPT ![f] = Zeroed, ![table][i] = To(f)]
  BY DEF Here, NewTable
<1> HIDE DEF i
<1>5. mem' \in Memories
  BY <1>1, <1>3, <1>4 DEF Memories
<1>6. /\ mem'[table][i] = To(f) /\ mem'[f] = Zeroed
      /\ \A u \in owned : \A x \in Slots : u # table \/ x # i => mem'[u][x] = mem[u][x]
  BY <1>1, <1>2, <1>4 DEF Memories
<1>7. \A x \in Slots : mem'[f][x].kind = "absent" /\ mem'[f][x].frame = 0
  BY <1>6 DEF Zeroed, Absent
<1>8. mem[table][i].kind # "page" /\ level \in 1 .. 3
  BY <1>1, <1>4
<1>9. NewLink(mem, mem', pml4, owned, f, level, table, i)
  <2>1. \A x \in Slots : /\ mem'[f][x].kind \notin {"page", "junk"}
                         /\ mem'[f][x].kind = "absent" => mem'[f][x].frame = 0
    BY <1>7
  <2>2. mem'[table][i] = To(f)
    BY <1>6
  <2>3. \A u \in owned : \A x \in Slots : u # table \/ x # i => mem'[u][x] = mem[u][x]
    BY <1>6
  <2> QED BY <1>1, <1>2, <1>5, <1>8, <2>1, <2>2, <2>3 DEF NewLink
<1>10. HhdmApart(mem, mem', pml4, f, level, table, i)
  <2>1. \A x \in Slots : mem'[f][x].kind # "giant"
    BY <1>7
  <2>2. level = 2 => \A s \in HhdmSlot .. Idx - 1 : Hop(mem, pml4, s) # table
    BY <1>1, LowTable
  <2> QED BY <2>1, <2>2 DEF HhdmApart
<1> QED BY <1>5, <1>9, <1>10 DEF i

LEMMA WalkDownStep == IInv /\ WalkDown => IInv'
<1> SUFFICES ASSUME IInv, WalkDown PROVE IInv'
  OBVIOUS
<1> DEFINE i == Index(level, va)
<1>1. /\ TypeOK /\ BootInv /\ WalkInv /\ pc = "walk" /\ level < 4 /\ UNCHANGED machine
      /\ (pml4 # None => MemInv(mem, pml4, owned))
  BY DEF IInv, WalkDown
<1>2. /\ mem \in Memories /\ pml4 \in Frames /\ pml4 # None /\ owned \subseteq Frames
      /\ MemInv(mem, pml4, owned) /\ DirectMap(mem, pml4, ceiling)
      /\ va \in Nat /\ level \in 1 .. 4 /\ i \in Slots /\ table = Node(mem, pml4, va, level)
      /\ Tree(mem, pml4, owned)
      /\ table \in Frames /\ Here.kind \in {"page", "absent"}
  BY <1>1, AtWalk
<1>3. level \in 1 .. 3 /\ level + 1 \in 1 .. 4
  BY <1>1, <1>2
<1>4. CASE /\ Here.kind \in {"page", "giant"} /\ Descend(Here.frame)
           /\ UNCHANGED <<owned, mem, cr3, pc, pml4, cursor, result>>
  <2>1. Here.kind = "page" /\ Here = mem[table][i]
    BY <1>2, <1>4 DEF Here
  <2>2. Hop(mem, table, i) # None /\ Hop(mem, table, i) = Here.frame
    BY <1>2, <2>1, HopIs
  <2>3. Node(mem, pml4, va, level + 1) = Here.frame
    BY <1>2, <2>2, NodeStep
  <2>4. Here.frame \in Frames
    BY <1>2, <1>3, <2>2, <2>3, NodeIn
  <2>5. table' = Here.frame /\ level' = level + 1 /\ UNCHANGED <<call, va, frame>>
    BY <1>4 DEF Descend
  <2>6. TypeOK'
    BY <1>1, <1>3, <1>4, <2>4, <2>5 DEF TypeOK, machine
  <2>7. BootInv'
    BY <1>1, <1>4, <2>5 DEF BootInv, machine
  <2>8. WalkInv'
    BY <1>1, <1>4, <2>3, <2>5 DEF WalkInv
  <2>9. WalksStayInTables' /\ MemInv(mem', pml4', owned')
    BY <1>1, <1>2, <1>4 DEF WalksStayInTables
  <2> QED BY <2>6, <2>7, <2>8, <2>9 DEF IInv
<1>5. ASSUME NEW f \in Frames, Here.kind = "absent", call # "free", Grant(f), ~Reaches(f), Fault(f)
      PROVE  IInv'
  <2>1. /\ owned' = owned \cup {f} /\ owned' \subseteq pool /\ f \notin owned /\ f >= RESERVED
        /\ f \in Nat /\ (f \in ram => f \in 0 .. ceiling - 1)
    BY <1>1, <1>5, GrantFacts
  <2>2. TypeOK' /\ pc' = "fault" /\ table' = f /\ UNCHANGED <<mem, cr3, pml4, call>>
    BY <1>1, <1>5, <2>1 DEF TypeOK, Fault, machine
  <2>3. MemInv(mem', pml4, owned')
    BY <1>2, <2>1, <2>2, MemGrow
  <2>4. cr3 = None => call = "boot"
    BY <1>1 DEF WalkInv
  <2>5. IF cr3 = None THEN f \notin OneToOne \/ f \notin ram ELSE ~nxe \/ f \notin ram
    BY <1>5, <2>1, Unusable
  <2> QED BY <1>1, <2>1, <2>2, <2>3, <2>4, <2>5, FaultInv
<1>6. ASSUME NEW f \in Frames, Here.kind = "absent", call # "free", Grant(f), NewTable(f),
             Descend(f), UNCHANGED <<cr3, pc, pml4, cursor, result>>
      PROVE  IInv'
  <2>1. owned' = owned \cup {f} /\ owned' \subseteq pool /\ f \notin owned /\ f \in Nat
    BY <1>1, <1>6, GrantFacts
  <2>2. /\ mem' \in Memories
        /\ NewLink(mem, mem', pml4, owned, f, level, table, i)
        /\ HhdmApart(mem, mem', pml4, f, level, table, i)
    BY <1>1, <1>6, DescendEffect
  <2> HIDE DEF i
  <2>3. /\ MemInv(mem', pml4, owned')
        /\ \A c : DirectMap(mem, pml4, c) => DirectMap(mem', pml4, c)
        /\ \A c : BootMapped(mem, pml4, c) => BootMapped(mem', pml4, c)
    BY <1>2, <2>1, <2>2, LinkMem
  <2>4. table' = f /\ level' = level + 1 /\ UNCHANGED <<call, va, frame>>
    BY <1>6 DEF Descend
  <2>5. Node(mem', pml4, va, level + 1) = f
    BY <1>2, <2>2, LinkNode DEF i
  <2>6. TypeOK'
    BY <1>1, <1>3, <1>6, <2>1, <2>2, <2>4 DEF TypeOK, Memories, machine
  <2>7. BootInv'
    BY <1>1, <1>6, <2>3, <2>4 DEF BootInv, machine
  <2>8. call = "alloc" =>
          /\ frame \in owned' /\ frame >= RESERVED /\ NoTable(mem', pml4, frame)
          /\ \A t \in Lvl(mem', pml4, 4) : \A x \in Slots :
               mem'[t][x].kind = "page" => mem'[t][x].frame # frame
    <3> SUFFICES ASSUME call = "alloc"
                 PROVE  /\ frame \in owned' /\ frame >= RESERVED /\ NoTable(mem', pml4, frame)
                        /\ \A t \in Lvl(mem', pml4, 4) : \A x \in Slots :
                             mem'[t][x].kind = "page" => mem'[t][x].frame # frame
      OBVIOUS
    <3>1. /\ frame \in owned /\ frame >= RESERVED /\ NoTable(mem, pml4, frame)
          /\ \A t \in Lvl(mem, pml4, 4) : \A x \in Slots :
               mem[t][x].kind = "page" => mem[t][x].frame # frame
      BY <1>1 DEF WalkInv
    <3>2. frame # f
      BY <2>1, <3>1
    <3>3. NoTable(mem', pml4, frame)
      BY <2>2, <3>1, <3>2, LinkLvl DEF NoTable, Added
    <3>4. ASSUME NEW t \in Lvl(mem', pml4, 4), NEW x \in Slots, mem'[t][x].kind = "page"
          PROVE  mem'[t][x].frame # frame
      <4>1. level # 4
        BY <1>1
      <4>2. t \in Lvl(mem, pml4, 4) /\ mem[t][x] = mem'[t][x]
        BY <2>2, <3>4, <4>1, LinkSlot
      <4> QED BY <3>1, <3>4, <4>2
    <3> QED BY <2>1, <3>1, <3>3, <3>4
  <2>9. WalkInv'
    BY <1>1, <1>6, <2>3, <2>4, <2>5, <2>8 DEF WalkInv
  <2>10. WalksStayInTables'
    BY <1>1, <1>6 DEF WalksStayInTables
  <2> QED BY <1>6, <2>3, <2>6, <2>7, <2>9, <2>10 DEF IInv
<1> QED BY <1>4, <1>5, <1>6 DEF WalkDown

LEMMA WalkFailsStep == IInv /\ WalkFails => IInv'
<1> SUFFICES ASSUME IInv, WalkFails PROVE IInv'
  OBVIOUS
<1>1. /\ TypeOK /\ BootInv /\ WalkInv /\ pc = "walk"
      /\ UNCHANGED <<machine, mem, cr3, pml4, cursor, call, va, frame, table, level>>
      /\ pml4 # None /\ MemInv(mem, pml4, owned) /\ DirectMap(mem, pml4, ceiling)
  BY AtWalk DEF IInv, WalkFails, walk
<1>2. owned' = owned
  BY DEF WalkFails, NoneLeft
<1>3. CASE pc' = "out" /\ call # "boot" /\ result' \in 0 .. 1
  <2>1. TypeOK'
    BY <1>1, <1>2, <1>3 DEF TypeOK, machine
  <2>2. cr3 # None
    BY <1>1, <1>3 DEF WalkInv
  <2>3. BootInv' /\ WalkInv' /\ WalksStayInTables' /\ MemInv(mem', pml4', owned')
    BY <1>1, <1>2, <1>3, <2>2 DEF BootInv, WalkInv, WalksStayInTables, machine
  <2> QED BY <2>1, <2>3 DEF IInv
<1>4. CASE call = "boot" /\ NoneLeft /\ pc' = "fault" /\ UNCHANGED result
  <2>1. TypeOK'
    BY <1>1, <1>2, <1>4 DEF TypeOK, machine
  <2>2. cr3 = None
    BY <1>1, <1>4 DEF WalkInv
  <2>3. pool \subseteq owned'
    BY <1>2, <1>4 DEF NoneLeft
  <2> QED BY <1>1, <1>2, <1>4, <2>1, <2>2, <2>3, FaultInv
<1>5. call = "free" /\ pc' = "out" /\ UNCHANGED result => result' \in 0 .. 1
  BY <1>1 DEF TypeOK
<1> QED BY <1>3, <1>4, <1>5 DEF WalkFails, Return

LEMMA WalkGoesWrongStep == IInv /\ WalkGoesWrong => IInv'
<1> SUFFICES ASSUME IInv, WalkGoesWrong PROVE IInv'
  OBVIOUS
<1>1. /\ TypeOK /\ BootInv /\ WalkInv /\ pc = "walk" /\ Astray /\ pc' = "fault"
      /\ UNCHANGED <<machine, owned, mem, cr3, pml4, cursor, call, va, frame, table, level, result>>
      /\ pml4 # None /\ MemInv(mem, pml4, owned) /\ table \in owned
      /\ Here.kind \in {"page", "absent"}
  BY AtWalk DEF IInv, WalkGoesWrong, walk
<1>2. ~Reaches(table)
  BY <1>1 DEF Astray
<1>3. TypeOK'
  BY <1>1 DEF TypeOK, machine
<1>4. cr3 = None => call = "boot"
  BY <1>1 DEF WalkInv
<1>5. table \in ram => table \in 0 .. ceiling - 1
  BY <1>1, StateFacts
<1>6. IF cr3 = None THEN table \notin OneToOne \/ table \notin ram ELSE ~nxe \/ table \notin ram
  BY <1>2, <1>5, Unusable
<1> QED BY <1>1, <1>3, <1>4, <1>6, FaultInv

\* The last step of a walk.
LEMMA EntryEffect ==
  ASSUME IInv, pc = "walk", level = 4, NEW e \in Entry,
         e.kind \in {"page", "absent"}, e.kind = "absent" => e.frame = 0,
         mem' = [mem EXCEPT ![table][Index(4, va)] = e]
  PROVE  /\ mem' \in Memories /\ table \in Lvl(mem, pml4, 4)
         /\ Node(mem, pml4, va, 4) = table
         /\ Overwrite(mem, mem', pml4, owned, table, Index(4, va), e)
         /\ \A c : DirectMap(mem, pml4, c) => DirectMap(mem', pml4, c)
         /\ \A w \in 0 .. HhdmBase - 1 : w # va => Node(mem', pml4, w, 5) = Node(mem, pml4, w, 5)
<1> DEFINE i == Index(4, va)
<1>1. /\ mem \in Memories /\ pml4 \in Frames /\ owned \subseteq Frames /\ Tree(mem, pml4, owned)
      /\ Written(mem, pml4) /\ HhdmOnly(mem, pml4)
      /\ i \in Slots /\ table \in Lvl(mem, pml4, 4)
      /\ table \in owned /\ table \in Frames /\ table # None
      /\ table = Node(mem, pml4, va, 4) /\ va \in 0 .. HhdmBase - 1
  BY AtWalk
<1>2. mem' = [mem EXCEPT ![table][i] = e]
  OBVIOUS
<1> HIDE DEF i
<1>3. mem' \in Memories
  <2> DEFINE T == [mem[table] EXCEPT ![i] = e]
  <2>1. mem[table] \in [Slots -> Entry]
    BY <1>1 DEF Memories
  <2>2. T \in [Slots -> Entry]
    BY <1>1, <2>1
  <2>3. mem' = [mem EXCEPT ![table] = T]
    BY <1>2
  <2> HIDE DEF T
  <2> QED BY <1>1, <2>2, <2>3 DEF Memories
<1>4. mem'[table][i] = e
  BY <1>1, <1>2 DEF Memories
<1>5. \A u \in owned : \A x \in Slots : u # table \/ x # i => mem'[u][x] = mem[u][x]
  BY <1>1, <1>2 DEF Memories
<1>6. Overwrite(mem, mem', pml4, owned, table, i, e)
  BY <1>1, <1>3, <1>4, <1>5 DEF Overwrite
<1>7. \A c : DirectMap(mem, pml4, c) => DirectMap(mem', pml4, c)
  BY <1>1, <1>6, LeafDirectMap
<1>8. \A w \in 0 .. HhdmBase - 1 : w # va => Node(mem', pml4, w, 5) = Node(mem, pml4, w, 5)
  BY <1>1, <1>6, LeafNode DEF i
<1> QED BY <1>1, <1>3, <1>6, <1>7, <1>8 DEF i

LEMMA MapEffect ==
  ASSUME IInv, MapPage
  PROVE  /\ Overwrite(mem, mem', pml4, owned, table, Index(4, va), To(frame))
         /\ mem' \in Memories /\ MemInv(mem', pml4, owned) /\ Node(mem', pml4, va, 5) = frame
         /\ \A c : DirectMap(mem, pml4, c) => DirectMap(mem', pml4, c)
         /\ \A w \in 0 .. HhdmBase - 1 : w # va => Node(mem', pml4, w, 5) = Node(mem, pml4, w, 5)
<1>1. /\ TypeOK /\ WalkInv /\ pc = "walk" /\ level = 4 /\ call # "free"
      /\ mem' = [mem EXCEPT ![table][Index(4, va)] = To(frame)]
  BY DEF IInv, MapPage
<1>2. frame \in Frames /\ frame \in Nat
  BY <1>1 DEF TypeOK, Frames
<1>3. To(frame) \in Entry /\ To(frame).kind = "page"
  BY <1>2 DEF To, Entry
<1>4. /\ mem' \in Memories /\ Node(mem, pml4, va, 4) = table
      /\ Overwrite(mem, mem', pml4, owned, table, Index(4, va), To(frame))
      /\ \A c : DirectMap(mem, pml4, c) => DirectMap(mem', pml4, c)
      /\ \A w \in 0 .. HhdmBase - 1 : w # va => Node(mem', pml4, w, 5) = Node(mem, pml4, w, 5)
  <2>1. To(frame).kind \in {"page", "absent"} /\ (To(frame).kind = "absent" => To(frame).frame = 0)
    BY <1>3
  <2> QED BY <1>1, <1>3, <2>1, EntryEffect
<1>5. MemInv(mem, pml4, owned) /\ table # None /\ va \in 0 .. HhdmBase - 1
  BY <1>1, AtWalk
<1>6. \/ frame < RESERVED /\ va \notin Vas
      \/ /\ frame >= RESERVED /\ frame \in owned /\ NoTable(mem, pml4, frame)
         /\ \A u \in Lvl(mem, pml4, 4) : \A j \in Slots :
              mem[u][j].kind = "page" => mem[u][j].frame # frame
  <2>1. CASE call = "boot"
    <3>1. cursor \in 1 .. BootCount /\ va = NthPage(cursor - 1) /\ frame = va
      BY <1>1, <2>1 DEF WalkInv
    <3>2. cursor - 1 \in 0 .. BootCount - 1
      BY <3>1, BootSets
    <3> QED BY <3>1, <3>2, NthPageIn, BootPageFacts
  <2>2. CASE call = "alloc"
    BY <1>1, <2>2 DEF WalkInv
  <2> QED BY <1>1, <2>1, <2>2 DEF TypeOK
<1>7. MemInv(mem', pml4, owned) /\ Node(mem', pml4, va, 5) = frame
  BY <1>2, <1>4, <1>5, <1>6, LeafMap
<1> QED BY <1>4, <1>7

LEMMA UnmapEffect ==
  ASSUME IInv, UnmapPage
  PROVE  /\ Overwrite(mem, mem', pml4, owned, table, Index(4, va), Absent)
         /\ mem' \in Memories /\ MemInv(mem', pml4, owned') /\ Node(mem', pml4, va, 5) = None
         /\ \A c : DirectMap(mem, pml4, c) => DirectMap(mem', pml4, c)
         /\ \A w \in 0 .. HhdmBase - 1 : w # va => Node(mem', pml4, w, 5) = Node(mem, pml4, w, 5)
<1>1. /\ pc = "walk" /\ level = 4 /\ mem' = [mem EXCEPT ![table][Index(4, va)] = Absent]
      /\ owned' = IF Here.frame < RESERVED THEN owned ELSE owned \ {Here.frame}
      /\ Here = mem[table][Index(4, va)]
  BY DEF UnmapPage, Here
<1>2. Absent \in Entry /\ Absent.kind = "absent" /\ Absent.frame = 0
  BY DEF Absent, Entry
<1>3. /\ mem' \in Memories /\ Node(mem, pml4, va, 4) = table
      /\ Overwrite(mem, mem', pml4, owned, table, Index(4, va), Absent)
      /\ \A c : DirectMap(mem, pml4, c) => DirectMap(mem', pml4, c)
      /\ \A w \in 0 .. HhdmBase - 1 : w # va => Node(mem', pml4, w, 5) = Node(mem, pml4, w, 5)
  <2>1. Absent.kind \in {"page", "absent"} /\ (Absent.kind = "absent" => Absent.frame = 0)
    BY <1>2
  <2> QED BY <1>1, <1>2, <2>1, EntryEffect
<1>4. MemInv(mem, pml4, owned) /\ table # None /\ va \in 0 .. HhdmBase - 1
  BY <1>1, AtWalk
<1>5. MemInv(mem', pml4, owned') /\ Node(mem', pml4, va, 5) = None
  BY <1>1, <1>3, <1>4, LeafUnmap
<1> QED BY <1>3, <1>5

\* A page of a caller is none of the kernel's.
LEMMA BootMappedKept ==
  ASSUME NEW m, NEW n, NEW r, NEW v, NEW c,
         \A w \in 0 .. HhdmBase - 1 : w # v => Node(n, r, w, 5) = Node(m, r, w, 5),
         \A k \in 0 .. BootCount - 1 : k < c => NthPage(k) # v \/ Node(n, r, NthPage(k), 5) = v,
         BootMapped(m, r, c)
  PROVE  BootMapped(n, r, c)
<1> SUFFICES ASSUME NEW k \in 0 .. BootCount - 1, k < c
             PROVE  Node(n, r, NthPage(k), 5) = NthPage(k)
  BY DEF BootMapped
<1>1. NthPage(k) \in 0 .. HhdmBase - 1
  BY NthPageIn, BootPageFacts
<1>2. Node(m, r, NthPage(k), 5) = NthPage(k)
  BY DEF BootMapped
<1> QED BY <1>1, <1>2

LEMMA MapPageStep == IInv /\ MapPage => IInv'
<1> SUFFICES ASSUME IInv, MapPage PROVE IInv'
  OBVIOUS
<1>1. /\ TypeOK /\ BootInv /\ WalkInv /\ pc = "walk" /\ call # "free"
      /\ UNCHANGED <<machine, owned, cr3, pml4, cursor, call, va, frame, table, level>>
      /\ pml4 # None /\ DirectMap(mem, pml4, ceiling)
  BY AtWalk DEF IInv, MapPage, walk
<1>2. /\ mem' \in Memories /\ MemInv(mem', pml4, owned) /\ Node(mem', pml4, va, 5) = frame
      /\ DirectMap(mem', pml4, ceiling)
      /\ \A w \in 0 .. HhdmBase - 1 : w # va => Node(mem', pml4, w, 5) = Node(mem, pml4, w, 5)
  BY <1>1, MapEffect
<1>3. CASE call = "boot" /\ pc' = "map" /\ UNCHANGED result
  <2>1. /\ cr3 = None /\ cursor \in 1 .. BootCount /\ BootMapped(mem, pml4, cursor - 1)
        /\ va = NthPage(cursor - 1) /\ frame = va
    BY <1>1, <1>3 DEF WalkInv
  <2>2. BootMapped(mem', pml4, cursor - 1)
    BY <1>2, <2>1, BootMappedKept
  <2>3. cursor \in Nat /\ BootCount \in Nat /\ cursor <= BootCount
    BY <2>1, BootSets
  <2>4. BootMapped(mem', pml4, cursor)
    <3> SUFFICES ASSUME NEW k \in 0 .. BootCount - 1, k < cursor
                 PROVE  Node(mem', pml4, NthPage(k), 5) = NthPage(k)
      BY DEF BootMapped
    <3>1. k < cursor - 1 \/ k = cursor - 1
      BY <2>3
    <3> QED BY <1>2, <2>1, <2>2, <3>1 DEF BootMapped
  <2>5. TypeOK'
    BY <1>1, <1>2, <1>3 DEF TypeOK, Memories, machine
  <2>6. BootInv'
    BY <1>1, <1>2, <1>3, <2>1, <2>3, <2>4 DEF BootInv, machine
  <2>7. WalkInv' /\ WalksStayInTables'
    BY <1>3 DEF WalkInv, WalksStayInTables
  <2> QED BY <1>1, <1>2, <2>5, <2>6, <2>7 DEF IInv
<1>4. CASE call = "alloc" /\ Return(1)
  <2>1. pc' = "out" /\ result' = 1 /\ cr3 # None /\ va \in Vas
    BY <1>1, <1>4 DEF Return, WalkInv
  <2>2. BootMapped(mem, pml4, BootCount)
    BY <1>1, <2>1 DEF BootInv
  <2>3. \A k \in 0 .. BootCount - 1 : NthPage(k) # va
    BY <2>1, NthPageIn, BootPageFacts
  <2>4. BootMapped(mem', pml4, BootCount)
    BY <1>2, <2>2, <2>3, BootMappedKept
  <2>5. TypeOK'
    BY <1>1, <1>2, <2>1 DEF TypeOK, Memories, machine
  <2>6. BootInv'
    BY <1>1, <1>2, <2>1, <2>4 DEF BootInv, machine
  <2>7. WalkInv' /\ WalksStayInTables'
    BY <2>1 DEF WalkInv, WalksStayInTables
  <2> QED BY <1>1, <1>2, <2>5, <2>6, <2>7 DEF IInv
<1> QED BY <1>3, <1>4 DEF MapPage

LEMMA UnmapPageStep == IInv /\ UnmapPage => IInv'
<1> SUFFICES ASSUME IInv, UnmapPage PROVE IInv'
  OBVIOUS
<1>1. /\ TypeOK /\ BootInv /\ WalkInv /\ pc = "walk" /\ call = "free" /\ pc' = "out"
      /\ UNCHANGED <<machine, cr3, pml4, cursor, call, va, frame, table, level, result>>
      /\ pml4 # None /\ DirectMap(mem, pml4, ceiling) /\ owned' \subseteq owned
  BY AtWalk DEF IInv, UnmapPage, walk
<1>2. /\ mem' \in Memories /\ MemInv(mem', pml4, owned')
      /\ DirectMap(mem', pml4, ceiling)
      /\ \A w \in 0 .. HhdmBase - 1 : w # va => Node(mem', pml4, w, 5) = Node(mem, pml4, w, 5)
  BY <1>1, UnmapEffect
<1>3. cr3 # None /\ va \in Vas
  BY <1>1 DEF WalkInv
<1>4. BootMapped(mem, pml4, BootCount)
  BY <1>1, <1>3 DEF BootInv
<1>5. \A k \in 0 .. BootCount - 1 : NthPage(k) # va
  BY <1>3, NthPageIn, BootPageFacts
<1>6. BootMapped(mem', pml4, BootCount)
  BY <1>2, <1>4, <1>5, BootMappedKept
<1>7. TypeOK'
  BY <1>1, <1>2 DEF TypeOK, Memories, machine
<1>8. BootInv'
  BY <1>1, <1>2, <1>3, <1>6 DEF BootInv, machine
<1>9. WalkInv' /\ WalksStayInTables'
  BY <1>1 DEF WalkInv, WalksStayInTables
<1> QED BY <1>1, <1>2, <1>7, <1>8, <1>9 DEF IInv

\* The inductive invariant.
THEOREM Invariance == Spec => []IInv
<1>1. IInv /\ [Next]_vars => IInv'
  BY StutterInv, InitStep, HhdmCreateStep, HhdmEndsStep, KernelMapStep, LoadStep, AllocStep,
     FreeStep, WalkDownStep, WalkFailsStep, WalkGoesWrongStep, MapPageStep, UnmapPageStep
     DEF Next
<1> QED BY InitInv, <1>1, PTL DEF Spec

\* Every variable of vmm.c and of the tables stays in its set.
THEOREM Typing == Spec => []TypeOK
BY Invariance, PTL DEF IInv

\* vmm_pte_get and vmm_pte_get_offline never follow an entry nobody has written, and
\* touch only memory that the tables in force show, but in the ways the
\* property names.
THEOREM WalksAreSafe == Spec => []WalksStayInTables
BY Invariance, PTL DEF IInv

\* After vmm_pml4_load, vmm_kernel_map's pages and vmm_hhdm_create's direct map stay.
THEOREM KernelMapped == Spec => []KernelStaysMapped
<1>1. IInv => KernelStaysMapped
  <2> SUFFICES ASSUME IInv, cr3 # None
               PROVE  /\ \A p \in BootPages : Translate(cr3, p) = p
                      /\ \A f \in 0 .. ceiling - 1 : Translate(cr3, HhdmBase + f) = f
    BY DEF KernelStaysMapped
  <2>1. /\ cr3 = pml4 /\ cr3 \in Frames /\ mem \in Memories /\ owned \subseteq Frames
        /\ MemInv(mem, cr3, owned) /\ DirectMap(mem, cr3, ceiling) /\ BootMapped(mem, cr3, BootCount)
    BY StateFacts DEF IInv, BootInv, TypeOK
  <2>2. Tree(mem, cr3, owned) /\ Written(mem, cr3)
    BY <2>1 DEF MemInv
  <2>3. ASSUME NEW p \in BootPages PROVE Translate(cr3, p) = p
    <3>1. p \in 0 .. HhdmBase - 1
      BY BootPageFacts
    <3>2. Trans(mem, cr3, p) = Node(mem, cr3, p, 5)
      BY <2>1, <2>2, <3>1, TransLow
    <3>3. PICK k \in 0 .. BootCount - 1 : NthPage(k) = p
      BY NthPageAll
    <3>4. k < BootCount
      BY BootSets
    <3>5. Node(mem, cr3, p, 5) = p
      BY <2>1, <3>3, <3>4 DEF BootMapped
    <3>6. Translate(cr3, p) = Trans(mem, cr3, p)
      BY DEF Translate, Trans
    <3> QED BY <3>2, <3>5, <3>6
  <2>4. ASSUME NEW f \in 0 .. ceiling - 1 PROVE Translate(cr3, HhdmBase + f) = f
    <3>1. f \in 0 .. HhdmSpan - 1 /\ f < ceiling
      BY StateFacts, Sizes DEF IInv
    <3>2. Direct(mem, cr3, f)
      BY <2>1, <3>1 DEF DirectMap
    <3>3. Trans(mem, cr3, HhdmBase + f) = f
      BY <2>1, <3>1, <3>2, TransHigh
    <3>4. Translate(cr3, HhdmBase + f) = Trans(mem, cr3, HhdmBase + f)
      BY DEF Translate, Trans
    <3> QED BY <3>3, <3>4
  <2> QED BY <2>3, <2>4
<1> QED BY Invariance, <1>1, PTL

-----------------------------------------------------------------------------
(* The tables and the callers' pages, as the properties name them.         *)

TablesOf(m, r) == UNION {Lvl(m, r, k) : k \in 1 .. 4}
DataOf(m, r)   == {Node(m, r, v, 5) : v \in {w \in Vas : Node(m, r, w, 5) # None}}

LEMMA KidsUnion ==
  ASSUME NEW m, NEW S, NEW T
  PROVE  Kids(m, S \cup T) = Kids(m, S) \cup Kids(m, T)
<1>1. \A g : g \in Kids(m, S \cup T) <=> g \in Kids(m, S) \/ g \in Kids(m, T)
  BY InKids
<1> QED BY <1>1

LEMMA TablesAre ==
  ASSUME pml4 # None
  PROVE  /\ Upper = Lvl(mem, pml4, 1) \cup Lvl(mem, pml4, 2) \cup Lvl(mem, pml4, 3)
         /\ Below(Upper) = Lvl(mem, pml4, 2) \cup Lvl(mem, pml4, 3) \cup Lvl(mem, pml4, 4)
         /\ Tables = TablesOf(mem, pml4)
<1>1. \A S : Below(S) = Kids(mem, S)
  BY DEF Below, Links, Kids
<1>2. /\ Lvl(mem, pml4, 1) = {pml4} /\ Lvl(mem, pml4, 2) = Kids(mem, {pml4})
      /\ Lvl(mem, pml4, 3) = Kids(mem, Kids(mem, {pml4}))
      /\ Lvl(mem, pml4, 4) = Kids(mem, Kids(mem, Kids(mem, {pml4})))
  BY DEF Lvl
<1>3. Upper = Lvl(mem, pml4, 1) \cup Lvl(mem, pml4, 2) \cup Lvl(mem, pml4, 3)
  BY <1>1, <1>2 DEF Upper
<1>4. Below(Upper) = Lvl(mem, pml4, 2) \cup Lvl(mem, pml4, 3) \cup Lvl(mem, pml4, 4)
  <2> DEFINE A == Lvl(mem, pml4, 1)
             B == Lvl(mem, pml4, 2)
             C == Lvl(mem, pml4, 3)
  <2>1. Kids(mem, A) = B /\ Kids(mem, B) = C /\ Kids(mem, C) = Lvl(mem, pml4, 4)
    BY <1>2
  <2>2. Below(Upper) = Kids(mem, (A \cup B) \cup C)
    BY <1>1, <1>3
  <2> HIDE DEF A, B, C
  <2>3. /\ Kids(mem, (A \cup B) \cup C) = Kids(mem, A \cup B) \cup Kids(mem, C)
        /\ Kids(mem, A \cup B) = Kids(mem, A) \cup Kids(mem, B)
    BY KidsUnion
  <2> QED BY <2>1, <2>2, <2>3 DEF B, C
<1>5. TablesOf(mem, pml4) = Lvl(mem, pml4, 1) \cup Lvl(mem, pml4, 2) \cup Lvl(mem, pml4, 3)
                              \cup Lvl(mem, pml4, 4)
  <2>1. \A k : k \in 1 .. 4 <=> k = 1 \/ k = 2 \/ k = 3 \/ k = 4
    OBVIOUS
  <2>2. \A g : g \in TablesOf(mem, pml4) <=> \E k \in 1 .. 4 : g \in Lvl(mem, pml4, k)
    BY DEF TablesOf
  <2>3. \A g : g \in TablesOf(mem, pml4) <=>
           \/ g \in Lvl(mem, pml4, 1) \/ g \in Lvl(mem, pml4, 2)
           \/ g \in Lvl(mem, pml4, 3) \/ g \in Lvl(mem, pml4, 4)
    BY <2>1, <2>2
  <2> QED BY <2>3
<1> QED BY <1>3, <1>4, <1>5 DEF Tables

\* A page of a caller has a frame of its own, which the allocator has given out and
\* which is no table.
LEMMA DataFacts ==
  ASSUME NEW m \in Memories, NEW r \in Frames, NEW o, o \subseteq Frames, MemInv(m, r, o),
         NEW v \in Vas, Node(m, r, v, 5) # None
  PROVE  /\ Node(m, r, v, 5) \in o /\ NoTable(m, r, Node(m, r, v, 5))
         /\ Node(m, r, v, 5) >= RESERVED
         /\ \A w \in Vas : Node(m, r, w, 5) = Node(m, r, v, 5) => w = v
<1> DEFINE g == Node(m, r, v, 5)
<1>1. Tree(m, r, o) /\ Leaves(m, r, o) /\ CallersPages(m, r)
  BY DEF MemInv
<1>2. ASSUME NEW w \in Vas, Node(m, r, w, 5) = g
      PROVE  /\ w \in 0 .. HhdmBase - 1 /\ Node(m, r, w, 4) # None
             /\ Node(m, r, w, 4) \in Lvl(m, r, 4) /\ Index(4, w) \in Slots
             /\ m[Node(m, r, w, 4)][Index(4, w)].kind = "page"
             /\ m[Node(m, r, w, 4)][Index(4, w)].frame = g
  <2> DEFINE t == Node(m, r, w, 4)
             i == Index(4, w)
  <2>1. w \in 0 .. HhdmBase - 1 /\ w \in Nat
    BY CallersLow
  <2>2. t # None
    BY <1>1, <1>2, <2>1, NodeIn, 4 + 1 = 5
  <2>3. t \in Lvl(m, r, 4) /\ t \in Frames /\ i \in Slots /\ Hop(m, t, i) = g
    BY <1>1, <1>2, <2>1, <2>2, NodeAt
  <2> HIDE DEF t, i, g
  <2>4. m[t][i].kind = "page" /\ m[t][i].frame = g
    BY <2>3, HopIs DEF g
  <2> QED BY <2>1, <2>2, <2>3, <2>4 DEF t, i
<1>3. g >= RESERVED
  BY <1>1 DEF CallersPages
<1>4. g \in o /\ NoTable(m, r, g)
  <2> HIDE DEF g
  <2>1. g < RESERVED \/ (g \in o /\ NoTable(m, r, g))
    BY <1>1, <1>2 DEF Leaves, g
  <2>2. g \in Nat /\ RESERVED \in Nat
    <3>1. m[Node(m, r, v, 4)][Index(4, v)] \in Entry
      <4>1. Node(m, r, v, 4) \in Frames /\ Index(4, v) \in Slots
        BY <1>1, <1>2, Sizes, NodeIn DEF g
      <4> QED BY <4>1 DEF Memories
    <3> QED BY <1>2, <3>1, VmmAssumption DEF Entry, g
  <2> QED BY <1>3, <2>1, <2>2
<1>5. ASSUME NEW w \in Vas, Node(m, r, w, 5) = g PROVE w = v
  <2> DEFINE t == Node(m, r, w, 4)
             i == Index(4, w)
             u == Node(m, r, v, 4)
             j == Index(4, v)
  <2>1. /\ w \in 0 .. HhdmBase - 1 /\ t # None /\ t \in Lvl(m, r, 4) /\ i \in Slots
        /\ m[t][i].kind = "page" /\ m[t][i].frame = g
    BY <1>2, <1>5
  <2>2. /\ v \in 0 .. HhdmBase - 1 /\ u \in Lvl(m, r, 4) /\ j \in Slots
        /\ m[u][j].kind = "page" /\ m[u][j].frame = g
    BY <1>2
  <2> HIDE DEF t, i, u, j, g
  <2>3. t = u /\ i = j
    BY <1>1, <1>3, <2>1, <2>2 DEF Leaves
  <2> QED BY <1>1, <2>1, <2>2, <2>3, Separate DEF t, i, u, j
<1> QED BY <1>3, <1>4, <1>5

LEMMA TranslateIs ==
  ASSUME IInv, pml4 # None, NEW v \in Vas
  PROVE  Translate(pml4, v) = Node(mem, pml4, v, 5)
<1>1. /\ mem \in Memories /\ pml4 \in Frames /\ owned \subseteq Frames
      /\ Tree(mem, pml4, owned) /\ Written(mem, pml4)
  BY StateFacts DEF IInv, TypeOK, MemInv
<1>2. v \in 0 .. HhdmBase - 1
  BY VmmAssumption
<1>3. Trans(mem, pml4, v) = Node(mem, pml4, v, 5)
  BY <1>1, <1>2, TransLow
<1>4. Translate(pml4, v) = Trans(mem, pml4, v)
  BY DEF Translate, Trans
<1> QED BY <1>3, <1>4

LEMMA DataAre ==
  ASSUME IInv, pml4 # None
  PROVE  Data = DataOf(mem, pml4) /\ \A v : v \in Mapped <=> v \in Vas /\ Node(mem, pml4, v, 5) # None
<1>1. \A v : v \in Mapped <=> v \in Vas /\ Node(mem, pml4, v, 5) # None
  BY TranslateIs DEF Mapped
<1>2. \A g : g \in Data <=> \E v \in Mapped : Translate(pml4, v) = g
  BY DEF Data
<1>3. \A g : g \in DataOf(mem, pml4) <=>
        \E v \in Vas : Node(mem, pml4, v, 5) # None /\ Node(mem, pml4, v, 5) = g
  BY DEF DataOf
<1>4. \A g : g \in Data <=> g \in DataOf(mem, pml4)
  BY <1>1, <1>2, <1>3, TranslateIs
<1> QED BY <1>1, <1>4

\* vmm_pte_get gives every table a frame of its own, and vmm_page_alloc every page.
THEOREM TreeOfTables == Spec => []TablesAreATree
<1>1. IInv => TablesAreATree
  <2> SUFFICES ASSUME IInv, pml4 # None
               PROVE  /\ Tables \subseteq owned /\ pml4 \notin Below(Upper)
                      /\ \A x, y \in TableLinks :
                           mem[x[1]][x[2]].frame = mem[y[1]][y[2]].frame => x = y
                      /\ Data \subseteq owned \ Tables
                      /\ \A v, w \in Mapped : Translate(pml4, v) = Translate(pml4, w) => v = w
    BY DEF TablesAreATree
  <2>1. /\ mem \in Memories /\ pml4 \in Frames /\ owned \subseteq Frames
        /\ MemInv(mem, pml4, owned) /\ Tree(mem, pml4, owned)
    BY StateFacts DEF IInv, TypeOK, MemInv
  <2>2. Tables \subseteq owned
    BY <2>1, TablesAre DEF TablesOf, Tree
  <2>3. pml4 \notin Below(Upper)
    <3>1. pml4 \in Lvl(mem, pml4, 1)
      BY LvlStep
    <3>2. \A k \in 1 .. 4 : k # 1 => pml4 \notin Lvl(mem, pml4, k)
      <4>1. 1 \in 1 .. 4
        OBVIOUS
      <4> QED BY <2>1, <3>1, <4>1 DEF Tree
    <3> QED BY <3>2, TablesAre
  <2>4. ASSUME NEW x \in TableLinks, NEW y \in TableLinks,
               mem[x[1]][x[2]].frame = mem[y[1]][y[2]].frame
        PROVE  x = y
    <3>1. \A z \in TableLinks : /\ z \in Upper \X Slots /\ z = <<z[1], z[2]>>
                                /\ z[1] \in Upper /\ z[2] \in Slots
                                /\ mem[z[1]][z[2]].kind = "page"
      BY DEF TableLinks, Links
    <3>2. \A t \in Upper : \E k \in 1 .. 3 : t \in Lvl(mem, pml4, k)
      BY TablesAre
    <3>3. PICK k \in 1 .. 3 : x[1] \in Lvl(mem, pml4, k)
      BY <3>1, <3>2
    <3>4. PICK l \in 1 .. 3 : y[1] \in Lvl(mem, pml4, l)
      BY <3>1, <3>2
    <3>5. x[1] = y[1] /\ x[2] = y[2]
      BY <2>1, <2>4, <3>1, <3>3, <3>4 DEF Tree
    <3> QED BY <3>1, <3>5
  <2>5. Data \subseteq owned \ Tables
    <3> SUFFICES ASSUME NEW g \in Data PROVE g \in owned /\ g \notin Tables
      OBVIOUS
    <3>1. PICK v \in Vas : Node(mem, pml4, v, 5) # None /\ g = Node(mem, pml4, v, 5)
      BY DataAre DEF DataOf
    <3>2. g \in owned /\ NoTable(mem, pml4, g)
      BY <2>1, <3>1, DataFacts
    <3> QED BY <3>2, TablesAre DEF TablesOf, NoTable
  <2>6. ASSUME NEW v \in Mapped, NEW w \in Mapped, Translate(pml4, v) = Translate(pml4, w)
        PROVE  v = w
    <3>1. v \in Vas /\ w \in Vas /\ Node(mem, pml4, w, 5) # None
      BY DataAre
    <3>2. Node(mem, pml4, v, 5) = Node(mem, pml4, w, 5)
      BY <2>6, <3>1, TranslateIs
    <3> QED BY <2>1, <3>1, <3>2, DataFacts
  <2> QED BY <2>2, <2>3, <2>4, <2>5, <2>6
<1> QED BY Invariance, <1>1, PTL

-----------------------------------------------------------------------------
(* What a step does not do.                                                *)

\* Once CR3 is loaded, a step moves at most the page it is for.
LEMMA PagesStay ==
  ASSUME IInv, Next, cr3 # None
  PROVE  /\ cr3 = pml4 /\ cr3' = cr3 /\ pml4' = pml4
         /\ \A w \in 0 .. HhdmBase - 1 : w # va => Node(mem', pml4, w, 5) = Node(mem, pml4, w, 5)
<1>1. cr3 = pml4 /\ pc \notin {"boot", "hhdm", "map"}
  BY DEF IInv, BootInv
<1>2. \A w \in 0 .. HhdmBase - 1 : w \in Nat
  BY Sizes
<1>3. CASE mem' = mem /\ UNCHANGED <<cr3, pml4>>
  BY <1>1, <1>3
<1>4. CASE vmm_init \/ vmm_hhdm_create \/ HhdmEnds \/ vmm_kernel_map \/ vmm_pml4_load
  BY <1>1, <1>4 DEF vmm_init, vmm_hhdm_create, HhdmEnds, vmm_kernel_map, vmm_pml4_load
<1>5. ASSUME NEW v \in Vas, vmm_page_alloc(v) \/ vmm_page_free(v)
      PROVE  mem' = mem /\ UNCHANGED <<cr3, pml4>>
  BY <1>5 DEF vmm_page_alloc, vmm_page_free
<1>6. CASE WalkFails \/ WalkGoesWrong
  <2>1. mem' = mem /\ UNCHANGED <<cr3, pml4>>
    BY <1>6 DEF WalkFails, WalkGoesWrong
  <2> QED BY <1>3, <2>1
<1>7. CASE WalkDown
  <2>1. /\ UNCHANGED <<cr3, pml4>>
        /\ \/ mem' = mem
           \/ \E f \in Frames : Here.kind = "absent" /\ Grant(f) /\ NewTable(f)
    BY <1>7 DEF WalkDown, Fault
  <2>2. ASSUME NEW f \in Frames, Here.kind = "absent", Grant(f), NewTable(f), NEW w \in Nat
        PROVE  Node(mem', pml4, w, 5) = Node(mem, pml4, w, 5)
    <3>1. pc = "walk" /\ level < 4
      BY <1>7 DEF WalkDown
    <3>2. NewLink(mem, mem', pml4, owned, f, level, table, Index(level, va))
      BY <2>2, <3>1, DescendEffect
    <3> QED BY <3>2, LinkNode
  <2> QED BY <1>1, <1>2, <2>1, <2>2
<1>8. CASE MapPage
  <2>1. UNCHANGED <<cr3, pml4>>
    BY <1>8 DEF MapPage
  <2> QED BY <1>1, <1>8, <2>1, MapEffect
<1>9. CASE UnmapPage
  <2>1. UNCHANGED <<cr3, pml4>>
    BY <1>9 DEF UnmapPage
  <2> QED BY <1>1, <1>9, <2>1, UnmapEffect
<1> QED BY <1>3, <1>4, <1>5, <1>6, <1>7, <1>8, <1>9 DEF Next

Translates == pml4 # None => \A v \in Vas : Translate(pml4, v) = Node(mem, pml4, v, 5)

LEMMA TranslatePrimed ==
  IInv' => (pml4' # None => \A v \in Vas : Translate(pml4, v)' = Node(mem', pml4', v, 5))
<1>1. IInv => Translates
  BY TranslateIs DEF Translates
<1>2. IInv' => Translates'
  BY <1>1, PTL
<1> QED BY <1>2 DEF Translates

\* vmm_page_alloc and vmm_page_free leave every other page where it was.
THEOREM OthersStay == Spec => OthersStayMapped
<1>1. IInv /\ IInv' /\ [Next]_vars =>
        [cr3 # None => \A v \in Vas : v # va => Translate(cr3, v)' = Translate(cr3, v)]_vars
  <2> SUFFICES ASSUME IInv, IInv', Next, cr3 # None, NEW v \in Vas, v # va
               PROVE  Translate(cr3, v)' = Translate(cr3, v)
    OBVIOUS
  <2>1. v \in 0 .. HhdmBase - 1
    BY VmmAssumption
  <2>2. /\ cr3 = pml4 /\ cr3' = pml4 /\ pml4' = pml4
        /\ Node(mem', pml4, v, 5) = Node(mem, pml4, v, 5)
    BY <2>1, PagesStay
  <2>3. Translate(pml4, v) = Node(mem, pml4, v, 5)
    BY <2>2, TranslateIs
  <2>4. Translate(pml4, v)' = Node(mem', pml4, v, 5)
    BY <2>2, TranslatePrimed
  <2>5. Translate(cr3, v)' = Translate(pml4, v)'
    BY <2>2
  <2> QED BY <2>2, <2>3, <2>4, <2>5
<1> QED BY <1>1, Invariance, PTL DEF Spec, OthersStayMapped

\* vmm_page_alloc that returns its address has mapped the page to its frame.
THEOREM AllocMapsItsPage == Spec => AllocMaps
<1>1. IInv /\ IInv' /\ [Next]_vars =>
        [pc = "walk" /\ pc' = "out" /\ call = "alloc" /\ result' = 1 =>
           Translate(cr3, va)' = frame /\ frame \in owned]_vars
  <2> SUFFICES ASSUME IInv, IInv', Next, pc = "walk", pc' = "out", call = "alloc", result' = 1
               PROVE  Translate(cr3, va)' = frame /\ frame \in owned
    OBVIOUS
  <2>1. cr3 # None /\ va \in Vas /\ frame \in owned
    BY DEF IInv, WalkInv
  <2>2. cr3 = pml4 /\ cr3' = pml4 /\ pml4' = pml4
    BY <2>1, PagesStay
  <2>3. MapPage
    BY DEF Next, vmm_init, vmm_hhdm_create, HhdmEnds, vmm_kernel_map, vmm_pml4_load,
           vmm_page_alloc, vmm_page_free, WalkDown, WalkFails, WalkGoesWrong, UnmapPage,
           Return, Fault
  <2>4. va' = va /\ Node(mem', pml4, va, 5) = frame
    BY <2>3, MapEffect DEF MapPage, walk
  <2>5. \A v \in Vas : Translate(pml4, v)' = Node(mem', pml4, v, 5)
    BY <2>1, <2>2, TranslatePrimed
  <2> QED BY <2>1, <2>2, <2>4, <2>5
<1> QED BY <1>1, Invariance, PTL DEF Spec, AllocMaps

\* vmm_page_free gives back what the allocator has given out, and no table.
THEOREM FreesItsOwn == Spec => FreesOnlyItsOwn
<1>1. IInv => (pc = "walk" /\ level = 4 => Here.frame < RESERVED \/ Here.frame \in owned \ Tables)
  <2> SUFFICES ASSUME IInv, pc = "walk", level = 4
               PROVE  Here.frame < RESERVED \/ Here.frame \in owned \ Tables
    OBVIOUS
  <2>1. /\ pml4 # None /\ Index(4, va) \in Slots /\ table \in Lvl(mem, pml4, 4)
        /\ MemInv(mem, pml4, owned) /\ Here = mem[table][Index(4, va)]
        /\ Here.kind \in {"page", "absent"} /\ (Here.kind = "absent" => Here.frame = 0)
    BY AtWalk DEF Here
  <2>2. CASE Here.kind = "absent"
    BY <2>1, <2>2, VmmAssumption
  <2>3. CASE Here.kind = "page"
    <3>1. \/ Here.frame < RESERVED
          \/ Here.frame \in owned /\ NoTable(mem, pml4, Here.frame)
      BY <2>1, <2>3 DEF MemInv, Leaves
    <3> QED BY <2>1, <3>1, TablesAre DEF NoTable, TablesOf
  <2> QED BY <2>1, <2>2, <2>3
<1>2. IInv => [pc = "walk" /\ level = 4 /\ call = "free" /\ pc' = "out" =>
                 Here.frame < RESERVED \/ Here.frame \in owned \ Tables]_vars
  BY <1>1
<1> QED BY <1>2, Invariance, PTL DEF FreesOnlyItsOwn

-----------------------------------------------------------------------------
(* Where frames are lost.                                                  *)

Carried == IF pc \in {"walk", "fault"} THEN {frame} ELSE {}
Used    == TablesOf(mem, pml4) \cup DataOf(mem, pml4) \cup Carried
LostAre == Lost = IF pml4 = None THEN {} ELSE owned \ Used

LEMMA LostIs == IInv => LostAre
BY TablesAre, DataAre DEF LostAre, Lost, Used, Carried

LEMMA LostPrimed == IInv' => LostAre'
BY LostIs, PTL

LEMMA NoLoss ==
  ASSUME IInv, IInv', pml4 # None, pml4' = pml4,
         \A g \in owned' \ Used' : g \in owned \ Used
  PROVE  Lost' \subseteq Lost
<1>1. Lost = owned \ Used /\ Lost' = owned' \ Used'
  BY LostIs, LostPrimed DEF LostAre
<1> QED BY <1>1

LEMMA InTablesOf ==
  ASSUME NEW m, NEW r, NEW g
  PROVE  g \in TablesOf(m, r) <=> \E k \in 1 .. 4 : g \in Lvl(m, r, k)
BY DEF TablesOf

LEMMA InDataOf ==
  ASSUME NEW m, NEW r, NEW g
  PROVE  g \in DataOf(m, r) <=> \E v \in Vas : Node(m, r, v, 5) # None /\ Node(m, r, v, 5) = g
BY DEF DataOf

LEMMA SameData ==
  ASSUME NEW m, NEW n, NEW r, \A v \in Vas : Node(n, r, v, 5) = Node(m, r, v, 5)
  PROVE  DataOf(n, r) = DataOf(m, r)
<1>1. \A g : g \in DataOf(n, r) <=> g \in DataOf(m, r)
  BY InDataOf
<1> QED BY <1>1

\* A new table.
LEMMA LinkUsed ==
  ASSUME NEW m, NEW n, NEW r, NEW o, NEW f, NEW k, NEW t, NEW i,
         NewLink(m, n, r, o, f, k, t, i)
  PROVE  TablesOf(n, r) = TablesOf(m, r) \cup {f} /\ DataOf(n, r) = DataOf(m, r)
<1>1. \A v \in Vas : Node(n, r, v, 5) = Node(m, r, v, 5)
  <2>1. \A v \in Vas : v \in Nat
    BY CallersLow
  <2> QED BY <2>1, LinkNode
<1>2. k + 1 \in 1 .. 4
  BY DEF NewLink
<1>3. \A l \in 1 .. 4 : Lvl(n, r, l) = Lvl(m, r, l) \cup Added(f, k, l)
  BY LinkLvl
<1>4. \A g : g \in TablesOf(n, r) <=> g \in TablesOf(m, r) \/ g = f
  <2> TAKE g
  <2>1. ASSUME g \in TablesOf(n, r) PROVE g \in TablesOf(m, r) \/ g = f
    BY <1>3, <2>1, InTablesOf DEF Added
  <2>2. ASSUME g \in TablesOf(m, r) PROVE g \in TablesOf(n, r)
    BY <1>3, <2>2, InTablesOf
  <2>3. f \in TablesOf(n, r)
    BY <1>2, <1>3, InTablesOf DEF Added
  <2> QED BY <2>1, <2>2, <2>3
<1> QED BY <1>1, <1>4, SameData

LEMMA OverwriteTables ==
  ASSUME NEW m, NEW n, NEW r, NEW o, NEW t, NEW i, NEW e, Overwrite(m, n, r, o, t, i, e)
  PROVE  TablesOf(n, r) = TablesOf(m, r)
<1>1. \A g : g \in TablesOf(n, r) <=> g \in TablesOf(m, r)
  BY InTablesOf, OverwriteLvl
<1> QED BY <1>1

\* vmm_init loses nothing, unless it faults.
LEMMA BootLosesNothing ==
  ASSUME IInv, IInv', vmm_init \/ HhdmEnds \/ vmm_kernel_map \/ vmm_pml4_load, pc' # "fault"
  PROVE  Lost' \subseteq Lost
<1>1. CASE vmm_init
  <2>1. pml4 = None /\ owned = {}
    BY <1>1 DEF IInv, BootInv, vmm_init
  <2>2. CASE pml4' = pml4
    BY <2>1, <2>2, LostPrimed DEF LostAre
  <2>3. CASE pml4' # pml4
    <3>1. PICK f \in Frames : Grant(f) /\ pml4' = f
      BY <1>1, <2>3 DEF vmm_init, Fault
    <3>2. owned' = {pml4'}
      BY <2>1, <3>1 DEF Grant
    <3>3. 1 \in 1 .. 4 /\ pml4' \in Lvl(mem', pml4', 1)
      BY LvlStep
    <3>4. pml4' \in Used'
      BY <3>3, InTablesOf DEF Used
    <3> QED BY <3>2, <3>4, LostPrimed DEF LostAre
  <2> QED BY <2>2, <2>3
<1>2. CASE HhdmEnds \/ vmm_kernel_map \/ vmm_pml4_load
  <2>1. pml4 # None /\ pc \in {"hhdm", "map"} /\ UNCHANGED <<owned, mem, pml4>>
    BY <1>2 DEF IInv, BootInv, HhdmEnds, vmm_kernel_map, vmm_pml4_load
  <2>2. \A g \in owned' \ Used' : g \in owned \ Used
    BY <2>1 DEF Used, Carried
  <2> QED BY <2>1, <2>2, NoLoss
<1> QED BY <1>1, <1>2

LEMMA HhdmLosesNothing ==
  ASSUME IInv, IInv', vmm_hhdm_create, pc' # "fault"
  PROVE  Lost' \subseteq Lost
<1> DEFINE i == Index(1, HhdmBase + cursor)
           j == Index(2, HhdmBase + cursor)
<1>1. /\ TypeOK /\ pc = "hhdm" /\ pml4 # None /\ mem \in Memories /\ pml4 \in Frames
      /\ owned \subseteq Frames /\ Tree(mem, pml4, owned)
  BY HhdmFacts
<1>2. CASE pc' = "hhdm"
  <2>1. UNCHANGED pml4
    BY <1>2, HhdmEffect
  <2>2. ASSUME UNCHANGED owned, NEW t \in Lvl(mem, pml4, 2), t # None,
               Overwrite(mem, mem', pml4, owned, t, j, Giant(cursor))
        PROVE  Lost' \subseteq Lost
    <3>1. TablesOf(mem', pml4) = TablesOf(mem, pml4)
      BY <2>2, OverwriteTables
    <3>2. t \notin Lvl(mem, pml4, 4)
      BY <1>1 DEF Tree
    <3>3. ASSUME NEW v \in Vas PROVE Node(mem', pml4, v, 5) = Node(mem, pml4, v, 5)
      <4>1. v \in Nat
        BY CallersLow
      <4>2. Node(mem, pml4, v, 4) # t
        BY <1>1, <2>2, <3>2, <4>1, NodeAt
      <4> QED BY <2>2, <4>1, <4>2, OverwriteNode
    <3>4. DataOf(mem', pml4) = DataOf(mem, pml4)
      BY <3>3, SameData
    <3>5. \A g \in owned' \ Used' : g \in owned \ Used
      BY <1>1, <1>2, <2>1, <2>2, <3>1, <3>4 DEF Used, Carried
    <3> QED BY <1>1, <2>1, <3>5, NoLoss
  <2>3. ASSUME NEW f \in Frames, Grant(f), NewLink(mem, mem', pml4, owned, f, 1, pml4, i)
        PROVE  Lost' \subseteq Lost
    <3>1. owned' = owned \cup {f}
      BY <2>3 DEF Grant
    <3>2. /\ TablesOf(mem', pml4) = TablesOf(mem, pml4) \cup {f}
          /\ DataOf(mem', pml4) = DataOf(mem, pml4)
      BY <2>3, LinkUsed
    <3>3. \A g \in owned' \ Used' : g \in owned \ Used
      BY <1>1, <1>2, <2>1, <3>1, <3>2 DEF Used, Carried
    <3> QED BY <1>1, <2>1, <3>3, NoLoss
  <2> QED BY <1>2, <2>2, <2>3, HhdmEffect
<1>3. CASE pc' = "off" /\ UNCHANGED <<owned, mem, pml4>>
  <2>1. \A g \in owned' \ Used' : g \in owned \ Used
    BY <1>1, <1>3 DEF Used, Carried
  <2> QED BY <1>1, <1>3, <2>1, NoLoss
<1> QED BY <1>1, <1>2, <1>3 DEF vmm_hhdm_create, NoneLeft, Fault

LEMMA CallsLoseNothing ==
  ASSUME IInv, IInv', NEW v \in Vas, vmm_page_alloc(v) \/ vmm_page_free(v)
  PROVE  Lost' \subseteq Lost
<1>1. pc = "out" /\ pml4 # None /\ UNCHANGED <<mem, pml4>>
  BY DEF IInv, BootInv, vmm_page_alloc, vmm_page_free
<1>2. CASE owned' = owned
  <2>1. \A g \in owned' \ Used' : g \in owned \ Used
    BY <1>1, <1>2 DEF Used, Carried
  <2> QED BY <1>1, <2>1, NoLoss
<1>3. ASSUME NEW f \in Frames, Grant(f), StartWalk("alloc", v, f, cr3)
      PROVE  Lost' \subseteq Lost
  <2>1. owned' = owned \cup {f} /\ pc' = "walk" /\ frame' = f
    BY <1>3 DEF Grant, StartWalk
  <2>2. \A g \in owned' \ Used' : g \in owned \ Used
    BY <1>1, <2>1 DEF Used, Carried
  <2> QED BY <1>1, <2>2, NoLoss
<1> QED BY <1>2, <1>3 DEF vmm_page_alloc, vmm_page_free, NoneLeft

LEMMA WalksLoseNothing ==
  ASSUME IInv, IInv', WalkDown \/ WalkGoesWrong,
         ~(pc' = "fault" /\ (table' \notin ram \/ (cr3 = None /\ table' \notin OneToOne)))
  PROVE  Lost' \subseteq Lost
<1>1. TypeOK /\ pc = "walk" /\ pml4 # None
  BY AtWalk DEF IInv, WalkDown, WalkGoesWrong
<1>2. CASE owned' = owned /\ UNCHANGED <<mem, pml4, frame>> /\ pc' \in {"walk", "fault"}
  <2>1. \A g \in owned' \ Used' : g \in owned \ Used
    BY <1>1, <1>2 DEF Used, Carried
  <2> QED BY <1>1, <1>2, <2>1, NoLoss
<1>3. CASE WalkGoesWrong
  <2>1. owned' = owned /\ UNCHANGED <<mem, pml4, frame>> /\ pc' = "fault"
    BY <1>3 DEF WalkGoesWrong, walk
  <2> QED BY <1>2, <2>1
<1>4. ASSUME WalkDown, NEW f \in Frames, Grant(f), ~Reaches(f), Fault(f) PROVE FALSE
  <2>1. (f \in ram => f \in 0 .. ceiling - 1) /\ pc' = "fault" /\ table' = f
    BY <1>1, <1>4, GrantFacts DEF Fault
  <2>2. IF cr3 = None THEN f \notin OneToOne \/ f \notin ram ELSE ~nxe \/ f \notin ram
    BY <1>4, <2>1, Unusable
  <2>3. cr3 # None => nxe
    BY <1>4 DEF WalkDown, Reaches
  <2> QED BY <2>1, <2>2, <2>3
<1>5. ASSUME WalkDown, NEW f \in Frames, Here.kind = "absent", Grant(f), NewTable(f), Descend(f),
             UNCHANGED <<pc, pml4>>
      PROVE  Lost' \subseteq Lost
  <2>1. owned' = owned \cup {f} /\ frame' = frame
    BY <1>5 DEF Grant, Descend
  <2>2. NewLink(mem, mem', pml4, owned, f, level, table, Index(level, va))
    BY <1>1, <1>5, DescendEffect DEF WalkDown
  <2>3. /\ TablesOf(mem', pml4) = TablesOf(mem, pml4) \cup {f}
        /\ DataOf(mem', pml4) = DataOf(mem, pml4)
    BY <2>2, LinkUsed
  <2>4. \A g \in owned' \ Used' : g \in owned \ Used
    BY <1>1, <1>5, <2>1, <2>3 DEF Used, Carried
  <2> QED BY <1>1, <1>5, <2>4, NoLoss
<1>6. CASE WalkDown
  <2>1. CASE Descend(Here.frame) /\ UNCHANGED <<owned, mem, pc, pml4>>
    BY <1>1, <1>2, <2>1 DEF Descend
  <2> QED BY <1>4, <1>5, <1>6, <2>1 DEF WalkDown
<1> QED BY <1>3, <1>6

\* The frame that vmm_page_free carries is 0, and that of vmm_kernel_map is the
\* kernel's: neither is the allocator's.
LEMMA NotCarried ==
  ASSUME IInv, pc = "walk", call # "alloc"
  PROVE  frame \notin owned
<1>1. frame < RESERVED
  <2>1. CASE call = "free"
    BY <2>1, VmmAssumption DEF IInv, WalkInv
  <2>2. CASE call = "boot"
    <3>1. cursor \in 1 .. BootCount /\ frame = NthPage(cursor - 1)
      BY <2>2 DEF IInv, WalkInv
    <3>2. cursor - 1 \in 0 .. BootCount - 1
      BY <3>1, BootSets
    <3> QED BY <3>1, <3>2, NthPageIn, BootPageFacts
  <2> QED BY <2>1, <2>2 DEF IInv, TypeOK
<1> QED BY <1>1, StateFacts DEF IInv, TypeOK

LEMMA EndsLoseNothing ==
  ASSUME IInv, IInv', \/ WalkFails /\ call # "alloc"
                      \/ MapPage /\ ~(call = "alloc" /\ Here.kind = "page")
                      \/ UnmapPage
  PROVE  Lost' \subseteq Lost
<1> DEFINE kept == \A g \in owned' \ Used' : g \in owned \ Used
<1>1. /\ TypeOK /\ pc = "walk" /\ pml4 # None /\ mem \in Memories /\ pml4 \in Frames
      /\ owned \subseteq Frames /\ MemInv(mem, pml4, owned) /\ va \in 0 .. HhdmBase - 1
      /\ Index(level, va) \in Slots /\ table = Node(mem, pml4, va, level)
      /\ table \in Frames /\ table # None
  BY AtWalk DEF IInv, WalkFails, MapPage, UnmapPage
<1>2. \A v \in Vas : v \in 0 .. HhdmBase - 1
  BY VmmAssumption
<1>3. UNCHANGED <<pml4, frame>>
  BY DEF WalkFails, MapPage, UnmapPage, walk
<1>4. Tree(mem, pml4, owned)
  BY <1>1 DEF MemInv
<1>5. ASSUME level = 4
      PROVE  /\ Here.kind = "page" => Node(mem, pml4, va, 5) = Here.frame
             /\ Here.kind # "page" => Node(mem, pml4, va, 5) = None
  <2>1. Here = mem[table][Index(4, va)] /\ Index(4, va) \in Slots /\ Node(mem, pml4, va, 4) = table
    BY <1>1, <1>5 DEF Here
  <2>2. va \in Nat
    BY <1>1 DEF TypeOK
  <2>3. Node(mem, pml4, va, 5) = Hop(mem, table, Index(4, va))
    BY <1>1, <1>4, <2>1, <2>2, NodeAt
  <2> QED BY <1>1, <2>1, <2>3, HopIs
<1>6. CASE WalkFails /\ call # "alloc"
  <2>1. owned' = owned /\ mem' = mem
    BY <1>6 DEF WalkFails, NoneLeft
  <2>2. frame \notin owned
    BY <1>1, <1>6, NotCarried
  <2>3. kept
    BY <1>1, <1>3, <2>1, <2>2 DEF Used, Carried
  <2> QED BY <1>1, <1>3, <2>3, NoLoss
<1>7. CASE MapPage /\ ~(call = "alloc" /\ Here.kind = "page")
  <2>1. /\ Overwrite(mem, mem', pml4, owned, table, Index(4, va), To(frame))
        /\ Node(mem', pml4, va, 5) = frame
        /\ \A w \in 0 .. HhdmBase - 1 : w # va => Node(mem', pml4, w, 5) = Node(mem, pml4, w, 5)
    BY <1>7, MapEffect
  <2>2. owned' = owned /\ level = 4 /\ pc' \notin {"walk", "fault"}
    BY <1>7 DEF MapPage, Return
  <2>3. TablesOf(mem', pml4) = TablesOf(mem, pml4)
    BY <2>1, OverwriteTables
  <2>4. CASE call = "alloc"
    <3>1. va \in Vas /\ frame # None /\ Node(mem, pml4, va, 5) = None
      BY <1>1, <1>5, <1>7, <2>2, <2>4, StateFacts DEF IInv, WalkInv, TypeOK
    <3>2. \A g : g \in DataOf(mem, pml4) \/ g = frame => g \in DataOf(mem', pml4)
      BY <1>2, <2>1, <3>1, InDataOf
    <3>3. kept
      BY <1>1, <1>3, <2>2, <2>3, <3>2 DEF Used, Carried
    <3> QED BY <1>1, <1>3, <3>3, NoLoss
  <2>5. CASE call # "alloc"
    <3>1. frame \notin owned
      BY <1>1, <2>5, NotCarried
    <3>2. va \notin Vas
      <4>1. cursor \in 1 .. BootCount /\ va = NthPage(cursor - 1)
        BY <1>1, <1>7, <2>5 DEF IInv, WalkInv, MapPage, TypeOK
      <4>2. cursor - 1 \in 0 .. BootCount - 1
        BY <4>1, BootSets
      <4> QED BY <4>1, <4>2, NthPageIn, BootPageFacts
    <3>3. DataOf(mem', pml4) = DataOf(mem, pml4)
      BY <1>2, <2>1, <3>2, SameData
    <3>4. kept
      BY <1>1, <1>3, <2>2, <2>3, <3>1, <3>3 DEF Used, Carried
    <3> QED BY <1>1, <1>3, <3>4, NoLoss
  <2> QED BY <2>4, <2>5
<1>8. CASE UnmapPage
  <2>1. /\ Overwrite(mem, mem', pml4, owned, table, Index(4, va), Absent)
        /\ Node(mem', pml4, va, 5) = None
        /\ \A w \in 0 .. HhdmBase - 1 : w # va => Node(mem', pml4, w, 5) = Node(mem, pml4, w, 5)
    BY <1>8, UnmapEffect
  <2>2. /\ level = 4 /\ call = "free"
        /\ owned' = IF Here.frame < RESERVED THEN owned ELSE owned \ {Here.frame}
    BY <1>8 DEF UnmapPage
  <2>3. TablesOf(mem', pml4) = TablesOf(mem, pml4)
    BY <2>1, OverwriteTables
  <2>4. frame \notin owned
    BY <1>1, <2>2, NotCarried
  <2>5. ASSUME NEW g \in owned', g \in DataOf(mem, pml4) PROVE g \in DataOf(mem', pml4)
    <3>1. PICK v \in Vas : Node(mem, pml4, v, 5) # None /\ Node(mem, pml4, v, 5) = g
      BY <2>5, InDataOf
    <3>2. CASE v = va
      <4>1. Here.frame = g
        BY <1>5, <2>2, <3>1, <3>2
      <4>2. g >= RESERVED /\ g \in owned
        BY <1>1, <3>1, DataFacts
      <4>3. ~(g < RESERVED)
        BY <1>1, <4>2, StateFacts
      <4> QED BY <2>2, <2>5, <4>1, <4>3
    <3>3. CASE v # va
      BY <1>2, <2>1, <3>1, <3>3, InDataOf
    <3> QED BY <3>2, <3>3
  <2>6. owned' \subseteq owned
    BY <2>2
  <2>7. kept
    BY <1>1, <1>3, <2>3, <2>4, <2>5, <2>6 DEF Used, Carried
  <2> QED BY <1>1, <1>3, <2>7, NoLoss
<1> QED BY <1>6, <1>7, <1>8

\* vmm_page_alloc alone loses frames: where it does not look at what was mapped, and
\* where it finds no frame for a table and keeps the one it has.
THEOREM LeaksInAllocOnly == Spec => LeaksOnlyInAlloc
<1>1. IInv /\ IInv' /\ [Next]_vars =>
        [~(Lost' \subseteq Lost) =>
           \/ /\ call = "alloc" /\ pc = "walk"
              /\ WalkFails \/ (MapPage /\ Here.kind = "page")
           \/ pc' = "fault" /\ (table' \notin ram \/ (cr3 = None /\ table' \notin OneToOne))]_vars
  <2> SUFFICES ASSUME IInv, IInv', Next, ~(Lost' \subseteq Lost)
               PROVE  \/ /\ call = "alloc" /\ pc = "walk"
                         /\ WalkFails \/ (MapPage /\ Here.kind = "page")
                      \/ pc' = "fault" /\ (table' \notin ram \/ (cr3 = None /\ table' \notin OneToOne))
    OBVIOUS
  <2>1. CASE vmm_init \/ HhdmEnds \/ vmm_kernel_map \/ vmm_pml4_load \/ vmm_hhdm_create
    <3>1. pc' = "fault"
      BY <2>1, BootLosesNothing, HhdmLosesNothing
    <3>2. cr3 = None /\ TypeOK
      BY <2>1 DEF IInv, BootInv, vmm_init, HhdmEnds, vmm_kernel_map, vmm_pml4_load, vmm_hhdm_create
    <3>3. ~Reaches(table')
      BY <2>1, <3>1, <3>2 DEF vmm_init, HhdmEnds, vmm_kernel_map, vmm_pml4_load, vmm_hhdm_create,
                              StartWalk, Fault
    <3>4. table' \notin ram \/ table' \notin OneToOne
      BY <3>2, <3>3 DEF Reaches
    <3> QED BY <3>1, <3>2, <3>4
  <2>2. CASE \E v \in Vas : vmm_page_alloc(v) \/ vmm_page_free(v)
    BY <2>2, CallsLoseNothing
  <2>3. CASE WalkDown \/ WalkGoesWrong
    BY <2>3, WalksLoseNothing
  <2>4. CASE WalkFails \/ MapPage \/ UnmapPage
    <3>1. pc = "walk"
      BY <2>4 DEF WalkFails, MapPage, UnmapPage
    <3> QED BY <2>4, <3>1, EndsLoseNothing
  <2> QED BY <2>1, <2>2, <2>3, <2>4 DEF Next
<1> QED BY <1>1, Invariance, PTL DEF Spec, LeaksOnlyInAlloc
=============================================================================
