------------------------- MODULE HebsStatesProofs -------------------------
(***************************************************************************)
(* What the tables and gate functions of HebsStates compute, for every     *)
(* input.  The pstates that occur are 0, 1 and 2: no state projects to 3.  *)
(***************************************************************************)
EXTENDS HebsStates, TLAPS

\* Folding a drive into the pending state of a net is the same as adding its
\* bits to the mailbox that state resolves: HEBS_RESOLVE_ACCUM_LUT forgets
\* nothing a later drive could need, so the order of drives does not matter.
THEOREM AccumulateResolves ==
  ASSUME NEW mail \in SUBSET MailboxBits, NEW d \in DriveKinds
  PROVE  ResolveAccumLUT[Resolve(mail)][d] = Resolve(mail \union BitsOfDrive[d])
<1>1. CASE d = "NONE"
  BY <1>1 DEF DriveKinds, MailboxBits, Resolve, ResolveAccumLUT, LutRow, BitsOfDrive
<1>2. CASE d = "DS1"
  BY <1>2 DEF DriveKinds, MailboxBits, Resolve, ResolveAccumLUT, LutRow, BitsOfDrive
<1>3. CASE d = "DS0"
  BY <1>3 DEF DriveKinds, MailboxBits, Resolve, ResolveAccumLUT, LutRow, BitsOfDrive
<1>4. CASE d = "DSX"
  BY <1>4 DEF DriveKinds, MailboxBits, Resolve, ResolveAccumLUT, LutRow, BitsOfDrive
<1>5. CASE d = "DW1"
  BY <1>5 DEF DriveKinds, MailboxBits, Resolve, ResolveAccumLUT, LutRow, BitsOfDrive
<1>6. CASE d = "DW0"
  BY <1>6 DEF DriveKinds, MailboxBits, Resolve, ResolveAccumLUT, LutRow, BitsOfDrive
<1>7. CASE d = "DWX"
  BY <1>7 DEF DriveKinds, MailboxBits, Resolve, ResolveAccumLUT, LutRow, BitsOfDrive
<1>8. QED
  BY <1>1, <1>2, <1>3, <1>4, <1>5, <1>6, <1>7 DEF DriveKinds

\* The first drive on a net, stored by the other table, is the same fold from
\* an empty mailbox.
LEMMA FirstDriveResolves ==
  ASSUME NEW d \in DriveKinds
  PROVE  DriveToState[d] = Resolve(BitsOfDrive[d])
  BY DEF DriveKinds, DriveToState, Resolve, BitsOfDrive

\* The drive made from two bits.
LEMMA StrongBits ==
  ASSUME NEW l, NEW x
  PROVE  StrongDrive(l, x) = IF x THEN "DSX" ELSE IF l THEN "DS1" ELSE "DS0"
  BY DEF StrongDrive, StrongDriveFromPstate, PStates, PstateOf

LEMMA WeakBits ==
  ASSUME NEW l, NEW x
  PROVE  WeakDrive(l, x) = IF x THEN "DWX" ELSE IF l THEN "DW1" ELSE "DW0"
  BY DEF WeakDrive, WeakDriveFromPstate, PStates, PstateOf

\* Every gate drives with one of the drive kinds.
LEMMA GateDriveType ==
  ASSUME NEW type, NEW a \in PStates, NEW b, NEW floating
  PROVE  GateDrive(type, a, b, floating) \in DriveKinds
  BY StrongBits, WeakBits
     DEF PStates, GateDrive, DriveKinds, AndDrive, NandDrive, OrDrive, NorDrive,
         XorDrive, XnorDrive, NotDrive, BufDrive, VccDrive, GndDrive, PupDrive,
         PdnDrive, TriDrive, StrongDriveFromPstate

\* The tables stay inside their domains.
LEMMA TableTypes ==
  /\ \A d \in DriveKinds : DriveToState[d] \in PhysicalStates
  /\ \A s \in PhysicalStates, d \in DriveKinds : ResolveAccumLUT[s][d] \in PhysicalStates
  /\ \A s \in PhysicalStates : StateToPstate[s] \in 0 .. 2
  /\ \A v \in LogicValues : LogicToPhysical[v] \in PhysicalStates
<1>1. \A d \in DriveKinds : DriveToState[d] \in PhysicalStates
  BY DEF DriveKinds, DriveToState, PhysicalStates
<1>2. \A s \in PhysicalStates, d \in DriveKinds : ResolveAccumLUT[s][d] \in PhysicalStates
  BY DEF DriveKinds, ResolveAccumLUT, LutRow, PhysicalStates
<1>3. \A s \in PhysicalStates : StateToPstate[s] \in 0 .. 2
  BY DEF StateToPstate, PhysicalStates
<1>4. \A v \in LogicValues : LogicToPhysical[v] \in PhysicalStates
  BY DEF LogicValues, LogicToPhysical, PhysicalStates
<1>5. QED
  BY <1>1, <1>2, <1>3, <1>4

\* The API and the engine number the eight states differently; going through
\* one conversion and back is the identity.
LEMMA LogicRoundTrip ==
  \A v \in LogicValues : PhysicalToLogic[LogicToPhysical[v]] = v
  BY DEF LogicValues, LogicToPhysical, PhysicalToLogic

-----------------------------------------------------------------------------

\* A known source has one choice, its logic bit, and an unknown one both.
LEMMA ChoiceFacts ==
  ASSUME NEW p \in 0 .. 2
  PROVE  /\ \A x \in PossibleBits(p) : x = TRUE \/ x = FALSE
         /\ TRUE \in PossibleBits(p) <=> XFlag(p) \/ LogicBit(p)
         /\ FALSE \in PossibleBits(p) <=> XFlag(p) \/ ~LogicBit(p)
  BY DEF PossibleBits, XFlag, LogicBit

\* When a source of a disjunction is surely 1, and when both are surely 0.
OneSurely(a, b) == (~XFlag(a) /\ LogicBit(a)) \/ (~XFlag(b) /\ LogicBit(b))

BothZeroSurely(a, b) == ~XFlag(a) /\ ~LogicBit(a) /\ ~XFlag(b) /\ ~LogicBit(b)

\* A disjunction over all choices is decided in exactly these cases.
LEMMA OrChoices ==
  ASSUME NEW a \in 0 .. 2, NEW b \in 0 .. 2
  PROVE  /\ (\A x \in PossibleBits(a), y \in PossibleBits(b) : x \/ y) <=> OneSurely(a, b)
         /\ (\A x \in PossibleBits(a), y \in PossibleBits(b) : ~(x \/ y)) <=> BothZeroSurely(a, b)
  BY ChoiceFacts DEF OneSurely, BothZeroSurely

\* A boolean gate drives a known value exactly when every choice of its
\* unknown sources yields that value: the bit equations of the kernels are
\* the three-valued extension of the gate, no more pessimistic and no less.
THEOREM GatesKleene ==
  ASSUME NEW type \in BooleanGates, NEW a \in 0 .. 2, NEW b \in 0 .. 2, NEW floating
  PROVE  GateDrive(type, a, b, floating) = KleeneDrive(type, a, b)
<1>1. CASE type = "AND"
  <2>1. AndDrive(a, b) = KleeneDrive("AND", a, b)
    BY StrongBits DEF AndDrive, AndX, KleeneDrive, BooleanGate, PossibleBits, LogicBit, XFlag
  <2>2. QED
    BY <1>1, <2>1 DEF GateDrive
<1>2. CASE type = "NAND"
  <2>1. NandDrive(a, b) = KleeneDrive("NAND", a, b)
    BY StrongBits DEF NandDrive, AndX, KleeneDrive, BooleanGate, PossibleBits, LogicBit, XFlag
  <2>2. QED
    BY <1>2, <2>1 DEF GateDrive
<1>3. CASE type = "OR"
  <2>1. KleeneDrive("OR", a, b) =
          IF OneSurely(a, b) THEN "DS1" ELSE IF BothZeroSurely(a, b) THEN "DS0" ELSE "DSX"
    <3>1. \A x, y : BooleanGate("OR", x, y) <=> (x \/ y)
      BY DEF BooleanGate
    <3>2. QED
      BY <3>1, OrChoices DEF KleeneDrive
  <2>2. OrDrive(a, b) =
          IF /\ XFlag(a) \/ XFlag(b)
             /\ ~LogicBit(a)
             /\ ~LogicBit(b)
          THEN "DSX"
          ELSE IF LogicBit(a) \/ LogicBit(b) THEN "DS1" ELSE "DS0"
    BY StrongBits DEF OrDrive, OrX
  <2>3. QED
    BY <1>3, <2>1, <2>2 DEF GateDrive, OneSurely, BothZeroSurely, LogicBit, XFlag
<1>4. CASE type = "NOR"
  <2>1. KleeneDrive("NOR", a, b) =
          IF BothZeroSurely(a, b) THEN "DS1" ELSE IF OneSurely(a, b) THEN "DS0" ELSE "DSX"
    <3>1. \A x, y : BooleanGate("NOR", x, y) <=> ~(x \/ y)
      BY DEF BooleanGate
    <3>2. QED
      BY <3>1, OrChoices DEF KleeneDrive
  <2>2. NorDrive(a, b) =
          IF /\ XFlag(a) \/ XFlag(b)
             /\ ~LogicBit(a)
             /\ ~LogicBit(b)
          THEN "DSX"
          ELSE IF LogicBit(a) \/ LogicBit(b) THEN "DS0" ELSE "DS1"
    BY StrongBits DEF NorDrive, OrX
  <2>3. QED
    BY <1>4, <2>1, <2>2 DEF GateDrive, OneSurely, BothZeroSurely, LogicBit, XFlag
<1>5. CASE type = "XOR"
  <2>1. XorDrive(a, b) = KleeneDrive("XOR", a, b)
    BY StrongBits DEF XorDrive, XorX, KleeneDrive, BooleanGate, PossibleBits, LogicBit, XFlag
  <2>2. QED
    BY <1>5, <2>1 DEF GateDrive
<1>6. CASE type = "XNOR"
  <2>1. XnorDrive(a, b) = KleeneDrive("XNOR", a, b)
    BY StrongBits DEF XnorDrive, XorX, KleeneDrive, BooleanGate, PossibleBits, LogicBit, XFlag
  <2>2. QED
    BY <1>6, <2>1 DEF GateDrive
<1>7. CASE type = "NOT"
  <2>1. NotDrive(a) = KleeneDrive("NOT", a, b)
    BY StrongBits DEF NotDrive, KleeneDrive, BooleanGate, PossibleBits, LogicBit, XFlag
  <2>2. QED
    BY <1>7, <2>1 DEF GateDrive
<1>8. CASE type = "BUF"
  <2>1. BufDrive(a) = KleeneDrive("BUF", a, b)
    BY StrongBits DEF BufDrive, KleeneDrive, BooleanGate, PossibleBits, LogicBit, XFlag
  <2>2. QED
    BY <1>8, <2>1 DEF GateDrive
<1>9. QED
  BY <1>1, <1>2, <1>3, <1>4, <1>5, <1>6, <1>7, <1>8 DEF BooleanGates

\* What a flip-flop records of its capture is the projection of what it
\* drives, and it drives nothing weak.
LEMMA CaptureAgrees ==
  ASSUME NEW d \in PStates
  PROVE  /\ DffDrive(d) \in {"DS1", "DS0", "DSX"}
         /\ DffCapture(d) \in PStates
         /\ StateToPstate[DriveToState[DffDrive(d)]] = DffCapture(d)
         /\ DriveToState[DffDrive(d)] \in {"S1", "S0", "SX"}
<1>1. DffDrive(d) = IF XFlag(d) THEN "DSX" ELSE IF LogicBit(d) THEN "DS1" ELSE "DS0"
  BY StrongBits DEF DffDrive
<1>2. DffCapture(d) = IF XFlag(d) THEN 2 ELSE IF LogicBit(d) THEN 1 ELSE 0
  BY DEF DffCapture, PstateOf
<1>3. QED
  BY <1>1, <1>2 DEF PStates, DriveToState, StateToPstate

\* A gate reads the sources it has and no other.
LEMMA GateReads ==
  ASSUME NEW type, NEW a, NEW b, NEW f, NEW c, NEW d, NEW g, type # "DFF",
         InputCount(type) > 0 => a = c /\ f = g,
         InputCount(type) > 1 => b = d
  PROVE  GateDrive(type, a, b, f) = GateDrive(type, c, d, g)
<1>1. CASE type \in {"VCC", "GND"}
  BY <1>1 DEF GateDrive
<1>2. CASE type \in {"NOT", "BUF", "PUP", "PDN"}
  <2>1. a = c /\ f = g
    BY <1>2 DEF InputCount
  <2>2. QED
    BY <1>2, <2>1 DEF GateDrive
<1>3. CASE type \notin {"VCC", "GND", "NOT", "BUF", "PUP", "PDN"}
  BY <1>3 DEF InputCount
<1>4. QED
  BY <1>1, <1>2, <1>3

=============================================================================
