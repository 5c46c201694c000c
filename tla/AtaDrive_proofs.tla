-------------------------- MODULE AtaDrive_proofs --------------------------
(* Facts about the drive that the proofs of both ATA drivers rest on. *)
EXTENDS AtaDrive, TLAPS

\* What the status register tells.
LEMMA StatusTells ==
  ASSUME NEW d \in Drive
  PROVE  /\ DriveStatus(d) \subseteq StatusFlags
         /\ "FLOAT" \in DriveStatus(d) <=> d.phase = "absent"
         /\ "BSY" \in DriveStatus(d) <=> d.phase \in {"busy", "flush"}
         /\ "DRDY" \in DriveStatus(d) <=> d.phase \in {"ready", "drq"}
         /\ "DRQ" \in DriveStatus(d) <=> d.phase = "drq"
         /\ "ERR" \in DriveStatus(d) <=> d.phase \in {"ready", "drq"} /\ d.err
<1>1. d.phase \in Phases
  BY DEF Drive
<1>2. CASE d.phase = "absent"
  BY <1>2 DEF DriveStatus, StatusFlags
<1>3. CASE d.phase \in {"busy", "flush"}
  BY <1>3 DEF DriveStatus, StatusFlags
<1>4. CASE d.phase \in {"ready", "drq"}
  <2>1. DriveStatus(d) = {"DRDY"} \cup {f \in {"DRQ", "ERR"} : \/ f = "DRQ" /\ d.phase = "drq"
                                                               \/ f = "ERR" /\ d.err}
    BY <1>4 DEF DriveStatus
  <2> QED BY <2>1, <1>4 DEF StatusFlags
<1>5. CASE d.phase = "starting"
  BY <1>5 DEF DriveStatus, StatusFlags
<1> QED BY <1>1, <1>2, <1>3, <1>4, <1>5 DEF Phases

\* Every operation on a drive yields a drive.
LEMMA DriveStays ==
  ASSUME NEW d \in Drive
  PROVE  /\ AfterStatusRead(d) \in Drive /\ AfterDrain(d) \in Drive
         /\ \A n \in BOOLEAN : AfterControl(d, n) \in Drive
         /\ \A h \in Nat : AfterDriveSel(d, h) \in Drive /\ AfterLba(d, h) \in Drive
         /\ \A c \in Content : AfterFill(d, c) \in Drive
         /\ AfterOffer(d) \in Drive /\ AfterFail(d) \in Drive /\ AfterStore(d) \in Drive
         /\ AfterSettle(d) \in Drive
<1> USE DEF Drive, Phases, Commands
<1>1. AfterStatusRead(d) \in Drive /\ AfterDrain(d) \in Drive
  BY DEF AfterStatusRead, AfterDrain
<1>2. ASSUME NEW n \in BOOLEAN PROVE AfterControl(d, n) \in Drive
  BY DEF AfterControl
<1>3. ASSUME NEW h \in Nat PROVE AfterDriveSel(d, h) \in Drive /\ AfterLba(d, h) \in Drive
  BY DEF AfterDriveSel, AfterLba
<1>4. ASSUME NEW c \in Content PROVE AfterFill(d, c) \in Drive
  BY DEF AfterFill
<1>5. AfterOffer(d) \in Drive /\ AfterFail(d) \in Drive /\ AfterStore(d) \in Drive
      /\ AfterSettle(d) \in Drive
  BY DriveAssumption DEF AfterOffer, AfterFail, AfterStore, AfterSettle
<1> QED BY <1>1, <1>2, <1>3, <1>4, <1>5

LEMMA CommandStays ==
  ASSUME NEW d \in Drive, NEW c \in Commands, NEW e \in BOOLEAN
  PROVE  AfterCommand(d, c, e) \in Drive
<1>1. d.head * LowSpan + d.low \in Nat
  BY DriveAssumption DEF Drive
<1>2. (IF e THEN d.low ELSE d.head * LowSpan + d.low) \in Nat
  BY <1>1 DEF Drive
<1> QED BY <1>2 DEF AfterCommand, Drive, Phases

\* Which phases the drive can be in after each access.
LEMMA PhaseAfter ==
  ASSUME NEW d \in Drive
  PROVE  /\ AfterStatusRead(d).phase = d.phase /\ AfterStatusRead(d).cmd = d.cmd
         /\ \A n \in BOOLEAN : AfterControl(d, n).phase = d.phase /\ AfterControl(d, n).cmd = d.cmd
         /\ \A h : /\ AfterDriveSel(d, h).phase = d.phase /\ AfterDriveSel(d, h).cmd = d.cmd
                  /\ AfterLba(d, h).phase = d.phase /\ AfterLba(d, h).cmd = d.cmd
         /\ \A c : /\ AfterFill(d, c).phase = IF d.phase = "drq" /\ d.cmd = "write" THEN "flush" ELSE d.phase
                  /\ AfterFill(d, c).cmd = d.cmd
         /\ AfterDrain(d).cmd = d.cmd
         /\ AfterDrain(d).phase = IF d.phase = "drq" /\ d.cmd \in {"read", "identify"}
                                 THEN "ready" ELSE d.phase
         /\ AfterOffer(d).phase = "drq" /\ AfterOffer(d).cmd = d.cmd
         /\ AfterFail(d).phase = "ready" /\ AfterStore(d).phase = "ready"
BY DEF Drive, AfterStatusRead, AfterControl, AfterDriveSel, AfterLba, AfterFill,
       AfterDrain, AfterOffer, AfterFail, AfterStore

-----------------------------------------------------------------------------
(* The addresses: what the two register files hold and name.               *)
LEMMA ChsIsNat ==
  ASSUME NEW l \in Nat
  PROVE  l % LowSpan \in Nat /\ (l \div LowSpan) % Heads \in Nat /\ l % Span48 \in Nat
<1>1. l \div LowSpan \in Nat /\ l % LowSpan \in Nat /\ l % Span48 \in Nat
  BY DriveAssumption
<1> QED BY <1>1, DriveAssumption

\* Twenty-eight bits name a sector and its equals modulo 2^28.
LEMMA Split28 ==
  ASSUME NEW l \in Nat
  PROVE  \E k \in Nat :
           l = ((l \div LowSpan) % Heads) * LowSpan + (l % LowSpan) + (LowSpan * Heads) * k
<1> DEFINE q == l \div LowSpan
           r == l % LowSpan
           h == q % Heads
           k == q \div Heads
<1>1. q \in Nat /\ r \in Nat /\ l = LowSpan * q + r
  BY DriveAssumption
<1>2. h \in Nat /\ k \in Nat /\ q = Heads * k + h
  <2> HIDE DEF q
  <2> QED BY <1>1, DriveAssumption
<1>3. l = h * LowSpan + r + (LowSpan * Heads) * k
  <2> HIDE DEF q, r, h, k
  <2>1. LowSpan * (Heads * k + h) = (LowSpan * Heads) * k + h * LowSpan
    BY <1>1, <1>2, DriveAssumption
  <2> QED BY <1>1, <1>2, <2>1, DriveAssumption
<1> QED BY <1>2, <1>3

LEMMA Split48 ==
  ASSUME NEW l \in Nat
  PROVE  \E k \in Nat : l = (l % Span48) + Span48 * k
<1> DEFINE k == l \div Span48
           r == l % Span48
<1>1. k \in Nat /\ r \in Nat /\ l = Span48 * k + r
  BY DriveAssumption
<1>2. l = r + Span48 * k
  <2> HIDE DEF k, r
  <2> QED BY <1>1, DriveAssumption
<1> QED BY <1>1, <1>2

\* A number that differs from another by a multiple of m is that other number,
\* or at least m away from it.
LEMMA Apart ==
  ASSUME NEW m \in Nat \ {0}, NEW a \in Nat, NEW k \in Nat, a + m * k # a
  PROVE  a + m * k >= a + m
<1>1. k >= 1
  OBVIOUS
<1>2. m * k >= m
  BY <1>1
<1> QED BY <1>2

\* A sector that 28 (or 48) bits can name is the one its registers name.
LEMMA Names28 ==
  ASSUME NEW l \in Nat, l < LowSpan * Heads
  PROVE  ((l \div LowSpan) % Heads) * LowSpan + (l % LowSpan) = l
<1> DEFINE t == ((l \div LowSpan) % Heads) * LowSpan + (l % LowSpan)
           m == LowSpan * Heads
<1>1. m \in Nat \ {0}
  BY DriveAssumption
<1>2. t \in Nat
  BY ChsIsNat, DriveAssumption
<1>3. PICK k \in Nat : l = t + m * k
  BY Split28
<1>4. l < m
  BY DEF m
<1>5. l = t
  <2> HIDE DEF t, m
  <2> QED BY <1>1, <1>2, <1>3, <1>4, Apart
<1> QED BY <1>5

LEMMA Names48 ==
  ASSUME NEW l \in Nat, l < Span48
  PROVE  l % Span48 = l
BY DriveAssumption
=============================================================================
